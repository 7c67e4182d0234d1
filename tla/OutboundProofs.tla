---------------------------- MODULE OutboundProofs ----------------------------
(***************************************************************************)
(* What holds of the ways a tool call leaves the process: requests through *)
(* the proxy pool, for any number of proxies and requests, any retry       *)
(* budget and any cooldown; fetchSafe, for any hosts and addresses, any    *)
(* limits, any answers of DNS and any behaviour of the peers; runPython,   *)
(* for any output limit, in every order of what Node, the client, the      *)
(* container and the kill helper do; the calls that are made of them,      *)
(* whatever the calculator computes and the services answer; and the       *)
(* address checks, for every text, range and host.  Requests through the   *)
(* pool and calls come to their end.                                       *)
(***************************************************************************)
EXTENDS Egress, ToolCalls, FiniteSetTheorems, TLAPS

-----------------------------------------------------------------------------
(* Egress.                                                                 *)

(* The healthy proxies are a finite set of at most Size proxies.           *)
LEMMA HealthyFinite ==
  ASSUME NEW cd
  PROVE  /\ IsFiniteSet(Healthy(cd))
         /\ Cardinality(Healthy(cd)) \in 0..Size
<1>1. IsFiniteSet(Proxies) /\ Cardinality(Proxies) = Size
  <2>1. 0 \in Int /\ Size - 1 \in Int
    BY EgressAssumption
  <2>2. /\ IsFiniteSet(0..(Size - 1))
        /\ Cardinality(0..(Size - 1)) = IF 0 > Size - 1 THEN 0 ELSE (Size - 1) - 0 + 1
    BY <2>1, FS_Interval
  <2>. QED
    BY <2>2, EgressAssumption DEF Proxies
<1>2. Healthy(cd) \subseteq Proxies
  BY DEF Healthy
<1>3. /\ IsFiniteSet(Healthy(cd))
      /\ Cardinality(Healthy(cd)) <= Cardinality(Proxies)
  BY <1>1, <1>2, FS_Subset
<1>4. Cardinality(Healthy(cd)) \in Nat
  BY <1>3, FS_CardinalityType
<1>. QED
  BY <1>1, <1>3, <1>4, EgressAssumption

(* The round-robin cursor moves past the proxy that was chosen.            *)
LEMMA CursorAdvances ==
  ASSUME NEW p \in Proxies
  PROVE  (p + 1) % Size = IF p + 1 = Size THEN 0 ELSE p + 1
BY EgressAssumption DEF Proxies

-----------------------------------------------------------------------------
(* What Attempt and Report do to the types.                                *)
LEMMA AttemptType ==
  ASSUME TypeOK, NEW r \in Requests, NEW cd, NEW n \in 0..MaxAttempts,
         NEW tried \in SUBSET Proxies, Attempt(r, cd, n, tried)
  PROVE  /\ rrCursor' \in Proxies
         /\ pc' \in [Requests -> {"idle", "trying", "failed"}]
         /\ proxy' \in [Requests -> Proxies \union {NoProxy}]
         /\ attempts' \in [Requests -> 0..MaxAttempts]
         /\ attempted' \in [Requests -> SUBSET Proxies]
         /\ waited' \in [Proxies -> Nat]
<1>1. PICK p \in Proxies :
        /\ rrCursor' = IF InRotation(cd) THEN (p + 1) % Size ELSE rrCursor
        /\ waited' = [q \in Proxies |-> IF InRotation(cd) /\ q \in Healthy(cd) \ {p}
                                        THEN waited[q] + 1 ELSE 0]
        /\ pc' = [pc EXCEPT ![r] = "trying"]
        /\ proxy' = [proxy EXCEPT ![r] = p]
        /\ attempts' = [attempts EXCEPT ![r] = n]
        /\ attempted' = [attempted EXCEPT ![r] = tried \union {p}]
  BY DEF Attempt
<1>2. (p + 1) % Size \in Proxies
  BY CursorAdvances, EgressAssumption DEF Proxies
<1>3. rrCursor' \in Proxies
  BY <1>1, <1>2 DEF TypeOK
<1>4. waited' \in [Proxies -> Nat]
  BY <1>1 DEF TypeOK
<1>. QED
  BY <1>1, <1>3, <1>4 DEF TypeOK

LEMMA ReportType ==
  ASSUME TypeOK, NEW cd \in [Proxies -> 0..(MaxClock + Cooldown)], Report(cd)
  PROVE  /\ clock' \in 1..MaxClock
         /\ strategy' \in Strategies
         /\ cooldownUntil' \in [Proxies -> 0..(MaxClock + Cooldown)]
         /\ poolHealthy' \in 0..Size
BY HealthyFinite DEF Report, TypeOK

LEMMA LeaveType ==
  ASSUME TypeOK, NEW r \in Requests, Leave(r)
  PROVE  /\ rrCursor' \in Proxies
         /\ pc' \in [Requests -> {"idle", "trying", "failed"}]
         /\ proxy' \in [Requests -> Proxies \union {NoProxy}]
         /\ attempts' \in [Requests -> 0..MaxAttempts]
         /\ attempted' \in [Requests -> SUBSET Proxies]
         /\ waited' \in [Proxies -> Nat]
<1>1. 0 \in 0..MaxAttempts
  BY EgressAssumption DEF MaxAttempts
<1>. QED
  BY <1>1 DEF Leave, TypeOK

LEMMA PenalisedType ==
  ASSUME TypeOK, NEW p
  PROVE  /\ Penalised(p) \in [Proxies -> 0..(MaxClock + Cooldown)]
         /\ Succeeded(p) \in [Proxies -> 0..(MaxClock + Cooldown)]
<1>1. clock + Cooldown \in 0..(MaxClock + Cooldown) /\ 0 \in 0..(MaxClock + Cooldown)
  BY EgressAssumption DEF TypeOK
<1>. QED
  BY <1>1 DEF Penalised, Succeeded, TypeOK

(* The type invariant, for any pool and any requests.                      *)
THEOREM EgressTypeOK == Spec => []TypeOK
<1>1. Init => TypeOK
  BY EgressAssumption DEF Init, TypeOK, Proxies, MaxAttempts, NoProxy
<1>2. TypeOK /\ [Next]_vars => TypeOK'
  <2>. SUFFICES ASSUME TypeOK, [Next]_vars PROVE TypeOK'
    OBVIOUS
  <2>1. ASSUME NEW r \in Requests, Send(r) PROVE TypeOK'
    <3>1. 1 \in 0..MaxAttempts /\ {} \in SUBSET Proxies
      BY EgressAssumption DEF MaxAttempts
    <3>2. /\ Attempt(r, cooldownUntil, 1, {})
          /\ UNCHANGED <<clock, strategy, cooldownUntil, poolHealthy>>
      BY <2>1 DEF Send
    <3>. QED
      BY <3>1, <3>2, AttemptType DEF TypeOK
  <2>2. ASSUME NEW r \in Requests, Succeed(r) PROVE TypeOK'
    BY <2>2, PenalisedType, ReportType, LeaveType DEF Succeed, TypeOK
  <2>3. ASSUME NEW r \in Requests, Abort(r) PROVE TypeOK'
    <3>1. cooldownUntil \in [Proxies -> 0..(MaxClock + Cooldown)]
      BY DEF TypeOK
    <3>. QED
      BY <2>3, <3>1, ReportType, LeaveType DEF Abort, TypeOK
  <2>4. ASSUME NEW r \in Requests, FailOver(r) PROVE TypeOK'
    <3>1. /\ attempts[r] + 1 \in 0..MaxAttempts
          /\ attempted[r] \in SUBSET Proxies
      BY <2>4, EgressAssumption DEF FailOver, TypeOK, MaxAttempts
    <3>2. /\ Report(Penalised(proxy[r]))
          /\ Attempt(r, Penalised(proxy[r]), attempts[r] + 1, attempted[r])
      BY <2>4 DEF FailOver
    <3>3. Penalised(proxy[r]) \in [Proxies -> 0..(MaxClock + Cooldown)]
      BY PenalisedType
    <3>. QED
      BY <3>1, <3>2, <3>3, AttemptType, ReportType DEF TypeOK
  <2>5. ASSUME NEW r \in Requests, Exhaust(r) PROVE TypeOK'
    <3>1. Penalised(proxy[r]) \in [Proxies -> 0..(MaxClock + Cooldown)]
      BY PenalisedType
    <3>. QED
      BY <2>5, <3>1, ReportType DEF Exhaust, TypeOK
  <2>6. ASSUME NEW r \in Requests, Surface(r) PROVE TypeOK'
    BY <2>6, LeaveType DEF Surface, TypeOK
  <2>7. CASE Tick
    BY <2>7, EgressAssumption DEF Tick, TypeOK, pool, requests
  <2>8. CASE UNCHANGED vars
    BY <2>8 DEF vars, pool, requests, TypeOK
  <2>. QED
    BY <2>1, <2>2, <2>3, <2>4, <2>5, <2>6, <2>7, <2>8 DEF Next, Settle
<1>. QED
  BY <1>1, <1>2, PTL DEF Spec

-----------------------------------------------------------------------------
(* The strengthening of RoundRobinFair: a proxy that has waited stands the *)
(* nearer in front of the cursor for it.                                   *)
Turns == \A p \in Proxies : waited[p] + Distance(p) < Size

LEMMA DistanceBound ==
  ASSUME TypeOK, NEW p \in Proxies
  PROVE  Distance(p) \in 0..(Size - 1)
BY EgressAssumption DEF TypeOK, Proxies, Distance

(* Whatever next() returns, a healthy proxy it does not return is nearer.  *)
LEMMA AttemptKeepsTurns ==
  ASSUME TypeOK, Turns, NEW r, NEW cd, NEW n, NEW tried, Attempt(r, cd, n, tried)
  PROVE  Turns'
<1>1. PICK p \in Proxies :
        /\ Eligible(cd, p)
        /\ rrCursor' = IF InRotation(cd) THEN (p + 1) % Size ELSE rrCursor
        /\ waited' = [q \in Proxies |-> IF InRotation(cd) /\ q \in Healthy(cd) \ {p}
                                        THEN waited[q] + 1 ELSE 0]
  BY DEF Attempt
<1>. SUFFICES ASSUME NEW q \in Proxies PROVE waited'[q] + Distance(q)' < Size
  BY DEF Turns
<1>2. CASE ~InRotation(cd)
  <2>1. rrCursor' = rrCursor /\ waited'[q] = 0
    BY <1>1, <1>2
  <2>2. Distance(q)' = Distance(q)
    BY <2>1 DEF Distance
  <2>. QED
    BY <2>1, <2>2, DistanceBound, EgressAssumption
<1>3. CASE InRotation(cd)
  <2>1. rrCursor' = IF p + 1 = Size THEN 0 ELSE p + 1
    BY <1>1, <1>3, CursorAdvances
  <2>2. Distance(q)' \in 0..(Size - 1)
    BY <2>1, EgressAssumption DEF Distance, Proxies
  <2>3. CASE q \in Healthy(cd) \ {p}
    <3>1. waited'[q] = waited[q] + 1 /\ waited[q] \in Nat
      BY <1>1, <1>3, <2>3 DEF TypeOK
    <3>2. Distance(p) <= Distance(q)
      BY <1>1, <1>3, <2>3 DEF Eligible, InRotation, NextInTurn
    <3>3. Distance(q)' < Distance(q)
      BY <2>1, <2>3, <3>2, EgressAssumption DEF Distance, Proxies, TypeOK
    <3>4. waited[q] + Distance(q) < Size
      BY DEF Turns
    <3>. QED
      BY <2>2, <3>1, <3>3, <3>4, DistanceBound, EgressAssumption
  <2>4. CASE q \notin Healthy(cd) \ {p}
    <3>1. waited'[q] = 0
      BY <1>1, <2>4
    <3>. QED
      BY <2>2, <3>1, EgressAssumption
  <2>. QED
    BY <2>3, <2>4
<1>. QED
  BY <1>2, <1>3

(* Round-robin passes over no healthy proxy for Size requests, whatever    *)
(* proxies cool down and come back in between.                             *)
THEOREM RoundRobinIsFair == Spec => []RoundRobinFair
<1>1. Init => Turns
  BY EgressAssumption DEF Init, Turns, Distance, Proxies
<1>2. TypeOK /\ Turns /\ [Next]_vars => Turns'
  <2>. SUFFICES ASSUME TypeOK, Turns, [Next]_vars PROVE Turns'
    OBVIOUS
  <2>1. ASSUME NEW r \in Requests, Send(r) PROVE Turns'
    BY <2>1, AttemptKeepsTurns DEF Send
  <2>2. ASSUME NEW r \in Requests, FailOver(r) PROVE Turns'
    BY <2>2, AttemptKeepsTurns DEF FailOver
  <2>3. ASSUME UNCHANGED <<rrCursor, waited>> PROVE Turns'
    BY <2>3 DEF Turns, Distance
  <2>4. ASSUME NEW r \in Requests, Succeed(r) \/ Abort(r) \/ Exhaust(r) \/ Surface(r)
        PROVE  UNCHANGED <<rrCursor, waited>>
    BY <2>4 DEF Succeed, Abort, Exhaust, Surface, Leave
  <2>5. Tick \/ UNCHANGED vars => UNCHANGED <<rrCursor, waited>>
    BY DEF Tick, vars, pool
  <2>. QED
    BY <2>1, <2>2, <2>3, <2>4, <2>5 DEF Next, Settle
<1>3. TypeOK /\ Turns => RoundRobinFair
  <2>. SUFFICES ASSUME TypeOK, Turns, NEW p \in Proxies PROVE waited[p] < Size
    BY DEF RoundRobinFair
  <2>1. waited[p] \in Nat /\ waited[p] + Distance(p) < Size
    BY DEF TypeOK, Turns
  <2>. QED
    BY <2>1, DistanceBound, EgressAssumption
<1>. QED
  BY <1>1, <1>2, <1>3, EgressTypeOK, PTL DEF Spec

-----------------------------------------------------------------------------
(* proxy_pool_healthy never counts a proxy that is cooling down.           *)
THEOREM GaugeIsNotAbove == Spec => []GaugeNotAbove
<1>1. Init => GaugeNotAbove
  BY HealthyFinite DEF Init, GaugeNotAbove
<1>2. TypeOK /\ GaugeNotAbove /\ [Next]_vars => GaugeNotAbove'
  <2>. SUFFICES ASSUME TypeOK, GaugeNotAbove, [Next]_vars PROVE GaugeNotAbove'
    OBVIOUS
  <2>1. ASSUME NEW cd, Report(cd) PROVE GaugeNotAbove'
    <3>1. poolHealthy' = Cardinality(Healthy(cd)) /\ Cardinality(Healthy(cd)) \in 0..Size
      BY <2>1, HealthyFinite DEF Report
    <3>2. Healthy(cooldownUntil)' = Healthy(cd)
      BY <2>1 DEF Report, Healthy
    <3>. QED
      BY <3>1, <3>2, EgressAssumption DEF GaugeNotAbove
  <2>2. ASSUME NEW r \in Requests, Settle(r) PROVE GaugeNotAbove'
    BY <2>1, <2>2 DEF Settle, Succeed, Abort, FailOver, Exhaust
  <2>3. ASSUME UNCHANGED <<clock, cooldownUntil, poolHealthy>> PROVE GaugeNotAbove'
    BY <2>3 DEF GaugeNotAbove, Healthy
  <2>4. ASSUME NEW r \in Requests, Send(r) \/ Surface(r) PROVE GaugeNotAbove'
    BY <2>3, <2>4 DEF Send, Surface
  <2>5. CASE Tick
    <3>1. Healthy(cooldownUntil) \subseteq Healthy(cooldownUntil)'
      BY <2>5 DEF Tick, pool, Healthy, TypeOK
    <3>2. IsFiniteSet(Healthy(cooldownUntil)')
      <4>1. Healthy(cooldownUntil)' \subseteq Proxies
        BY DEF Healthy
      <4>2. IsFiniteSet(Proxies)
        BY FS_Interval, EgressAssumption DEF Proxies
      <4>. QED
        BY <4>1, <4>2, FS_Subset
    <3>3. Cardinality(Healthy(cooldownUntil)) <= Cardinality(Healthy(cooldownUntil)')
      BY <3>1, <3>2, FS_Subset
    <3>4. /\ Cardinality(Healthy(cooldownUntil)) \in Nat
          /\ Cardinality(Healthy(cooldownUntil)') \in Nat
      BY <3>2, HealthyFinite, FS_CardinalityType, EgressAssumption
    <3>5. poolHealthy' = poolHealthy
      BY <2>5 DEF Tick, pool
    <3>. QED
      BY <3>3, <3>4, <3>5 DEF GaugeNotAbove, TypeOK
  <2>6. CASE UNCHANGED vars
    BY <2>3, <2>6 DEF vars, pool
  <2>. QED
    BY <2>2, <2>4, <2>5, <2>6 DEF Next
<1>. QED
  BY <1>1, <1>2, EgressTypeOK, PTL DEF Spec

-----------------------------------------------------------------------------
(* next() always finds a proxy.                                            *)

(* A set of naturals has a smallest element: that of the smallest of the   *)
(* intervals below its elements.                                           *)
LEMMA Smallest ==
  ASSUME NEW S \in SUBSET Nat, S # {}
  PROVE  \E n \in S : \A m \in S : n <= m
<1>1. PICK k \in S : TRUE
  OBVIOUS
<1>. DEFINE below == {0..n : n \in {m \in S : m <= k}}
<1>2. below \subseteq FiniteSubsetsOf(0..k) /\ below # {}
  <2>1. IsFiniteSet(0..k)
    BY FS_Interval
  <2>2. \A u \in below : u \subseteq 0..k
    OBVIOUS
  <2>3. \A u \in below : u \in SUBSET (0..k) /\ IsFiniteSet(u)
    BY <2>1, <2>2, FS_Subset
  <2>4. 0..k \in below
    BY <1>1
  <2>. HIDE DEF below
  <2>. QED
    BY <2>3, <2>4 DEF FiniteSubsetsOf
<1>3. PICK s \in below : \A u \in below : ~(<<u, s>> \in StrictSubsetOrdering(0..k))
  BY <1>2, WFMin, FS_StrictSubsetOrderingWellFounded, FS_Interval
<1>4. PICK n \in S : n <= k /\ s = 0..n
  OBVIOUS
<1>5. ASSUME NEW m \in S, m < n PROVE FALSE
  <2>1. 0..m \in below
    BY <1>4, <1>5
  <2>2. 0..m \subseteq s /\ 0..m # s /\ s \subseteq 0..k
    <3>1. n \in 0..n /\ ~(n \in 0..m)
      BY <1>5
    <3>. QED
      BY <1>4, <1>5, <3>1
  <2>. QED
    BY <1>3, <2>1, <2>2 DEF StrictSubsetOrdering
<1>. QED
  BY <1>5

(* Whatever the cooldowns: the next healthy one in turn, any healthy one,  *)
(* or, when all cool down, the one whose cooldown ends first.              *)
LEMMA NextFinds ==
  ASSUME TypeOK, NEW cd \in [Proxies -> Nat]
  PROVE  \E p \in Proxies : Eligible(cd, p)
<1>. USE EgressAssumption
<1>1. Proxies # {} /\ Proxies \subseteq Nat /\ Size \in Nat
  <2>1. 0 \in Proxies
    BY DEF Proxies
  <2>. QED
    BY <2>1 DEF Proxies
<1>2. CASE Healthy(cd) = {}
  <2>. DEFINE ends == {cd[p] : p \in Proxies}
  <2>1. PICK e \in ends : \A f \in ends : e <= f
    <3>1. ends \in SUBSET Nat /\ ends # {}
      BY <1>1
    <3>. QED
      BY <3>1, Smallest
  <2>. DEFINE firsts == {p \in Proxies : cd[p] = e}
  <2>2. PICK p \in firsts : \A q \in firsts : p <= q
    <3>1. firsts \in SUBSET Nat /\ firsts # {}
      BY <1>1
    <3>. QED
      BY <3>1, Smallest
  <2>3. ASSUME NEW q \in Proxies PROVE cd[p] < cd[q] \/ (cd[p] = cd[q] /\ p <= q)
    <3>1. cd[p] = e /\ e \in Nat /\ cd[q] \in Nat /\ e <= cd[q]
      BY <2>1
    <3>. QED
      BY <2>2, <3>1
  <2>. QED
    BY <1>2, <2>3 DEF Eligible, EarliestCooldown
<1>3. CASE Healthy(cd) # {} /\ strategy = "random"
  BY <1>3 DEF Eligible, Healthy
<1>4. CASE Healthy(cd) # {} /\ strategy = "round-robin"
  <2>. DEFINE ways == {Distance(p) : p \in Healthy(cd)}
  <2>0. \A p \in Proxies : Distance(p) \in Nat
    BY DEF Distance, Proxies, TypeOK
  <2>1. PICK w \in ways : \A v \in ways : w <= v
    <3>1. ways \in SUBSET Nat /\ ways # {}
      BY <1>4, <2>0 DEF Healthy
    <3>. QED
      BY <3>1, Smallest
  <2>2. PICK p \in Healthy(cd) : Distance(p) = w
    OBVIOUS
  <2>3. NextInTurn(Healthy(cd), p)
    BY <2>1, <2>2 DEF NextInTurn
  <2>. QED
    BY <1>4, <2>2, <2>3 DEF Eligible, Healthy
<1>. QED
  BY <1>2, <1>3, <1>4 DEF TypeOK


(* What next() is asked for: with the cooldowns as they are, for a first   *)
(* attempt, and with that of a proxy that has just failed.                 *)
NextAnswers ==
  /\ \E p \in Proxies : Eligible(cooldownUntil, p)
  /\ \A r \in Requests : pc[r] = "trying" =>
       \E p \in Proxies : Eligible(Penalised(proxy[r]), p)

(* next() never comes back empty-handed from a pool that has proxies, not  *)
(* even when all of them cool down: neither for a request's first attempt  *)
(* nor for the one that follows a failure (next() in pool.ts, the break in *)
(* fetchExternal's loop).                                                  *)
THEOREM PoolAlwaysAnswers == Spec => []NextAnswers
<1>1. TypeOK => NextAnswers
  <2>. SUFFICES ASSUME TypeOK PROVE NextAnswers
    OBVIOUS
  <2>1. /\ cooldownUntil \in [Proxies -> Nat]
        /\ \A r \in Requests : Penalised(proxy[r]) \in [Proxies -> Nat]
    <3>1. 0..(MaxClock + Cooldown) \subseteq Nat
      BY EgressAssumption
    <3>. QED
      BY <3>1, PenalisedType DEF TypeOK
  <2>. QED
    BY <2>1, NextFinds DEF NextAnswers
<1>. QED
  BY <1>1, EgressTypeOK, PTL

-----------------------------------------------------------------------------
(* Requests end.                                                           *)

(* A request is sent; it is in its n-th attempt.                           *)
Sent(r) == pc[r] = "trying"
Trying(r, n) == pc[r] = "trying" /\ attempts[r] = n

(* The fairness of FairSpec: a fetch that is waited for settles.  Its      *)
(* guard, a request that is sent, takes the place of ENABLED.              *)
FetchEnds(r) == []<>~Sent(r) \/ []<><<Settle(r)>>_vars

(* A step keeps a request in its attempt, or brings its end or the next.   *)
LEMMA SettleCounts ==
  ASSUME TypeOK, NEW r \in Requests, NEW n \in Nat, Trying(r, n)
  PROVE  /\ [Next]_vars => Trying(r, n)' \/ Trying(r, n + 1)' \/ ~Sent(r)'
         /\ Settle(r) => Trying(r, n + 1)' \/ ~Sent(r)'
<1>1. ASSUME Settle(r) PROVE Trying(r, n + 1)' \/ ~Sent(r)'
  BY <1>1 DEF Settle, Succeed, Abort, FailOver, Exhaust, Leave, Attempt, Trying, Sent, TypeOK
<1>2. ASSUME NEW q \in Requests \ {r}, Settle(q) PROVE Trying(r, n)'
  BY <1>2 DEF Settle, Succeed, Abort, FailOver, Exhaust, Leave, Attempt, Trying, TypeOK
<1>3. ASSUME NEW q \in Requests, Send(q) \/ Surface(q) PROVE Trying(r, n)'
  BY <1>3 DEF Send, Surface, Leave, Attempt, Trying, TypeOK
<1>4. ASSUME Tick \/ UNCHANGED vars PROVE Trying(r, n)'
  BY <1>4 DEF Tick, vars, requests, Trying
<1>. QED
  BY <1>1, <1>2, <1>3, <1>4 DEF Next

(* Whatever the retry budget: an attempt is followed by the next one or by *)
(* the end of the request (fetchExternal).                                 *)
THEOREM AttemptEnds ==
  ASSUME NEW r \in Requests, NEW n \in Nat
  PROVE  Spec /\ FetchEnds(r) => (Trying(r, n) ~> Trying(r, n + 1) \/ ~Sent(r))
<1>1. TypeOK /\ Trying(r, n) /\ [Next]_vars => Trying(r, n)' \/ Trying(r, n + 1)' \/ ~Sent(r)'
  BY SettleCounts
<1>2. TypeOK /\ Trying(r, n) /\ <<Settle(r)>>_vars => Trying(r, n + 1)' \/ ~Sent(r)'
  BY SettleCounts
<1>3. Trying(r, n) => Sent(r)
  BY DEF Trying, Sent
<1>. QED
  BY <1>1, <1>2, <1>3, EgressTypeOK, PTL DEF Spec, FetchEnds

(* With a retry budget that config.ts accepts, 1 to 10, and a pool of any  *)
(* size, every request ends, although each failure makes other proxies     *)
(* eligible again (fetchExternal).                                         *)
THEOREM RequestsEnd ==
  ASSUME Retries <= 10
  PROVE  Spec /\ (\A r \in Requests : FetchEnds(r)) => RequestEnds
<1>. SUFFICES ASSUME NEW r \in Requests
              PROVE  Spec /\ FetchEnds(r) => (pc[r] = "trying" ~> pc[r] # "trying")
  BY DEF RequestEnds
<1>. DEFINE Goes(n, m) ==
              /\ TypeOK /\ Trying(r, n) /\ [Next]_vars => Trying(r, n)' \/ Trying(r, m)' \/ ~Sent(r)'
              /\ TypeOK /\ Trying(r, n) /\ <<Settle(r)>>_vars => Trying(r, m)' \/ ~Sent(r)'
<1>1. ASSUME NEW n \in Nat, NEW m, m = n + 1 PROVE Goes(n, m)
  BY <1>1, SettleCounts
<1>2. /\ Goes(0, 1) /\ Goes(1, 2) /\ Goes(2, 3) /\ Goes(3, 4) /\ Goes(4, 5) /\ Goes(5, 6)
      /\ Goes(6, 7) /\ Goes(7, 8) /\ Goes(8, 9) /\ Goes(9, 10) /\ Goes(10, 11)
  <2>. HIDE DEF Goes
  <2>. QED
    BY <1>1
<1>3. TypeOK => ~Trying(r, 11)
  BY EgressAssumption DEF TypeOK, MaxAttempts, Trying
<1>4. TypeOK /\ Sent(r) =>
        \/ Trying(r, 0) \/ Trying(r, 1) \/ Trying(r, 2) \/ Trying(r, 3) \/ Trying(r, 4) \/ Trying(r, 5)
        \/ Trying(r, 6) \/ Trying(r, 7) \/ Trying(r, 8) \/ Trying(r, 9) \/ Trying(r, 10)
  BY EgressAssumption DEF TypeOK, MaxAttempts, Trying, Sent
<1>5. (Sent(r) <=> pc[r] = "trying") /\ (~Sent(r) <=> pc[r] # "trying")
  BY DEF Sent
<1>. QED
  BY <1>2, <1>3, <1>4, <1>5, EgressTypeOK, PTL DEF Spec, FetchEnds

-----------------------------------------------------------------------------
(* SafeFetch.                                                              *)

(* What a refused record leaves behind: every record still to be tried is  *)
(* one that was checked.                                                   *)
RecordsChecked ==
  phase \in {"connect", "body"} /\ ~proxied =>
    records # <<>> /\ \A i \in 1..Len(records) : records[i] \in checked.addresses

HopChecked ==
  phase \in {"connect", "body"} =>
    checked.host = host /\ checked.addresses \intersect Private = {}

(* The counts before the body, while it is read, and when it is returned.  *)
Counts ==
  /\ phase \in {"idle", "lookup", "connect"} =>
       total = 0 /\ kept = 0 /\ ~truncated /\ redirects <= MaxRedirects
  /\ phase = "body" => total <= size /\ total <= MaxBytes /\ kept = total /\ ~truncated

FetchInv == FetchTypeOK /\ RecordsChecked /\ HopChecked /\ Counts /\ BodyIsPrefix

-----------------------------------------------------------------------------
(* An answer of DNS is a sequence of addresses.                            *)
LEMMA AnswerType ==
  ASSUME NEW found \in Answers
  PROVE  /\ found \in Seq(Addresses)
         /\ \A i \in 1..Len(found) : found[i] \in AddressesOf(found)
         /\ AddressesOf(found) \in SUBSET Addresses
<1>1. PICK n \in 0..MaxRecords : found \in [1..n -> Addresses]
  BY DEF Answers
<1>2. n \in Nat
  BY <1>1, SafeFetchAssumption
<1>3. found \in Seq(Addresses) /\ DOMAIN found = 1..n /\ Len(found) = n
  BY <1>1, <1>2
<1>. QED
  BY <1>1, <1>3 DEF AddressesOf

LEMMA FetchInitial == FetchInit => FetchInv
<1>. SUFFICES ASSUME FetchInit PROVE FetchInv
  OBVIOUS
<1>1. FetchTypeOK
  <2>1. <<>> \in Seq(Addresses)
    OBVIOUS
  <2>2. 0 \in 0..(MaxRedirects + 1)
    BY SafeFetchAssumption
  <2>3. checked \in [host : Urls, addresses : SUBSET Addresses]
    BY DEF FetchInit, Urls
  <2>. QED
    BY <2>1, <2>2, <2>3 DEF FetchInit, FetchTypeOK, Urls
<1>2. RecordsChecked /\ HopChecked /\ BodyIsPrefix
  BY DEF FetchInit, RecordsChecked, HopChecked, BodyIsPrefix
<1>3. Counts
  BY SafeFetchAssumption DEF FetchInit, Counts
<1>. QED
  BY <1>1, <1>2, <1>3 DEF FetchInv

(* The head of the loop: the URL is looked up next, or nothing is.         *)
LEMMA GoType ==
  ASSUME NEW to, NEW late, Go(to, late), FetchTypeOK
  PROVE  /\ phase' \in {"lookup", "thrown"}
         /\ host' \in Urls
         /\ failure' \in {"none", "validation", "transient", "error", "raw"}
BY DEF Go, Throw, FetchTypeOK, Urls

-----------------------------------------------------------------------------
(* The steps up to the connection.                                         *)
LEMMA BeginFetchStep ==
  ASSUME FetchInv, NEW url, NEW pooled \in BOOLEAN, NEW late \in BOOLEAN,
         BeginFetch(url, pooled, late)
  PROVE  FetchInv'
<1>1. /\ phase' \in {"lookup", "thrown"} /\ host' \in Urls
      /\ failure' \in {"none", "validation", "transient", "error", "raw"}
  BY GoType DEF BeginFetch, FetchInv
<1>2. /\ proxied' = pooled /\ aborted' = late /\ phase = "idle"
      /\ UNCHANGED <<redirects, records, size, total, kept, truncated, status, checked>>
  BY DEF BeginFetch, body
<1>3. FetchTypeOK'
  BY <1>1, <1>2 DEF FetchInv, FetchTypeOK
<1>. QED
  BY <1>1, <1>2, <1>3 DEF FetchInv, RecordsChecked, HopChecked, Counts, BodyIsPrefix

LEMMA LookupAnswersStep ==
  ASSUME FetchInv, NEW found \in Answers, LookupAnswers(found)
  PROVE  FetchInv'
<1>0. /\ phase = "lookup"
      /\ UNCHANGED <<proxied, aborted, host, redirects, size, total, kept, truncated, status>>
  BY DEF LookupAnswers, body
<1>1. CASE ~Passes(found) \/ (~proxied /\ found = <<>>)
  <2>1. phase' = "thrown" /\ failure' = "validation" /\ UNCHANGED <<records, checked>>
    BY <1>1 DEF LookupAnswers, Throw
  <2>2. FetchTypeOK'
    BY <1>0, <2>1 DEF FetchInv, FetchTypeOK
  <2>. QED
    BY <1>0, <2>1, <2>2 DEF FetchInv, RecordsChecked, HopChecked, Counts, BodyIsPrefix
<1>2. CASE Passes(found) /\ ~(~proxied /\ found = <<>>)
  <2>1. /\ phase' = "connect" /\ UNCHANGED failure
        /\ records' = IF proxied THEN <<>> ELSE found
        /\ checked' = [host |-> host, addresses |-> AddressesOf(found)]
    BY <1>2 DEF LookupAnswers
  <2>2. records' \in Seq(Addresses)
    <3>1. <<>> \in Seq(Addresses)
      OBVIOUS
    <3>. QED
      BY <2>1, <3>1, AnswerType
  <2>3. checked' \in [host : Urls, addresses : SUBSET Addresses]
    BY <2>1, AnswerType DEF FetchInv, FetchTypeOK
  <2>4. FetchTypeOK'
    BY <1>0, <2>1, <2>2, <2>3 DEF FetchInv, FetchTypeOK
  <2>5. RecordsChecked'
    BY <1>0, <1>2, <2>1, AnswerType DEF RecordsChecked
  <2>6. HopChecked'
    BY <1>0, <1>2, <2>1 DEF HopChecked, Passes
  <2>. QED
    BY <1>0, <2>1, <2>4, <2>5, <2>6 DEF FetchInv, Counts, BodyIsPrefix
<1>. QED
  BY <1>1, <1>2

(* The next record is one of the answer too.                              *)
LEMMA ConnectRefusedStep ==
  ASSUME FetchInv, ConnectRefused
  PROVE  FetchInv'
<1>0. /\ phase = "connect" /\ ~proxied
      /\ UNCHANGED <<proxied, aborted, host, redirects, size, total, kept, truncated, status,
                     checked>>
  BY DEF ConnectRefused, body
<1>1. CASE Len(records) > 1
  <2>1. records' = Tail(records) /\ UNCHANGED <<phase, failure>>
    BY <1>1 DEF ConnectRefused
  <2>2. /\ Tail(records) \in Seq(Addresses)
        /\ Len(Tail(records)) = Len(records) - 1
        /\ \A i \in 1..(Len(records) - 1) : Tail(records)[i] = records[i + 1]
    BY <1>1 DEF FetchInv, FetchTypeOK
  <2>3. Len(records) \in Nat
    BY DEF FetchInv, FetchTypeOK
  <2>4. RecordsChecked'
    <3>1. \A i \in 1..Len(records) : records[i] \in checked.addresses
      BY <1>0 DEF FetchInv, RecordsChecked
    <3>2. \A i \in 1..(Len(records) - 1) : Tail(records)[i] \in checked.addresses
      BY <2>2, <2>3, <3>1
    <3>3. Tail(records) # <<>>
      <4>1. Len(Tail(records)) # 0
        BY <1>1, <2>2, <2>3
      <4>2. Len(<<>>) = 0
        OBVIOUS
      <4>. QED
        BY <4>1, <4>2
    <3>. QED
      BY <1>0, <2>1, <2>2, <3>2, <3>3 DEF RecordsChecked
  <2>5. FetchTypeOK'
    BY <1>0, <2>1, <2>2 DEF FetchInv, FetchTypeOK
  <2>. QED
    BY <1>0, <2>1, <2>4, <2>5 DEF FetchInv, HopChecked, Counts, BodyIsPrefix
<1>2. CASE ~(Len(records) > 1)
  <2>1. phase' = "thrown" /\ failure' = "error" /\ UNCHANGED records
    BY <1>2 DEF ConnectRefused, Throw
  <2>2. FetchTypeOK'
    BY <1>0, <2>1 DEF FetchInv, FetchTypeOK
  <2>. QED
    BY <1>0, <2>1, <2>2 DEF FetchInv, RecordsChecked, HopChecked, Counts, BodyIsPrefix
<1>. QED
  BY <1>1, <1>2

(* A redirect goes back to the lookup, or nowhere.                         *)
LEMMA RedirectStep ==
  ASSUME FetchInv, NEW location, Redirect(location)
  PROVE  FetchInv'
<1>0. /\ phase = "connect"
      /\ UNCHANGED <<proxied, aborted, records, size, total, kept, truncated, status, checked>>
  BY DEF Redirect, body
<1>1. redirects' = redirects \/ redirects' = redirects + 1
  BY DEF Redirect
<1>2. redirects \in 0..MaxRedirects /\ MaxRedirects \in Nat
  BY <1>0, SafeFetchAssumption DEF FetchInv, FetchTypeOK, Counts
<1>3. redirects' \in 0..(MaxRedirects + 1)
  BY <1>1, <1>2
<1>4. /\ phase' = "thrown" \/ (phase' = "lookup" /\ redirects' <= MaxRedirects)
      /\ host' \in Urls
      /\ failure' \in {"none", "validation", "transient", "error", "raw"}
  <2>1. CASE location = "none" \/ redirects' > MaxRedirects
    BY <2>1 DEF Redirect, Throw, FetchInv, FetchTypeOK
  <2>2. CASE ~(location = "none" \/ redirects' > MaxRedirects)
    <3>1. Go(location, FALSE)
      BY <2>2 DEF Redirect
    <3>2. redirects' <= MaxRedirects
      BY <2>2, <1>2, <1>3
    <3>. QED
      BY <3>1, <3>2, GoType DEF FetchInv
  <2>. QED
    BY <2>1, <2>2
<1>5. FetchTypeOK'
  BY <1>0, <1>3, <1>4 DEF FetchInv, FetchTypeOK
<1>. QED
  BY <1>0, <1>4, <1>5 DEF FetchInv, RecordsChecked, HopChecked, Counts, BodyIsPrefix

-----------------------------------------------------------------------------
(* The response.                                                           *)
LEMMA RespondStep ==
  ASSUME FetchInv, NEW s \in Statuses, NEW n \in 0..(MaxBytes + MaxChunk), Respond(s, n)
  PROVE  FetchInv'
<1>0. /\ phase = "connect"
      /\ phase' \in {"uncaught", "returned", "body"}
      /\ phase' = "returned" => n = 0
      /\ status' = s /\ size' = n
      /\ UNCHANGED <<proxied, aborted, host, redirects, records, total, kept, truncated,
                     failure, checked>>
  BY DEF Respond
<1>1. n \in Nat /\ MaxBytes \in Nat
  BY SafeFetchAssumption
<1>2. FetchTypeOK'
  BY <1>0, <1>1 DEF FetchInv, FetchTypeOK
<1>3. Counts' /\ BodyIsPrefix'
  BY <1>0, <1>1 DEF FetchInv, FetchTypeOK, Counts, BodyIsPrefix
<1>. QED
  BY <1>0, <1>2, <1>3 DEF FetchInv, RecordsChecked, HopChecked

LEMMA ReadChunkStep ==
  ASSUME FetchInv, NEW n \in 1..MaxChunk, ReadChunk(n)
  PROVE  FetchInv'
<1>0. /\ phase = "body" /\ n <= size - total /\ total' = total + n
      /\ UNCHANGED <<proxied, aborted, host, redirects, records, size, status, failure, checked>>
  BY DEF ReadChunk
<1>1. /\ n \in Nat /\ MaxBytes \in Nat /\ size \in Nat /\ total \in Nat
      /\ kept = total /\ total <= MaxBytes /\ ~truncated
  BY <1>0, SafeFetchAssumption DEF FetchInv, FetchTypeOK, Counts
<1>2. CASE total' > MaxBytes
  <2>1. /\ kept' = MaxBytes /\ truncated' = TRUE /\ phase' = "returned" /\ size > MaxBytes
    BY <1>0, <1>1, <1>2 DEF ReadChunk
  <2>2. FetchTypeOK'
    BY <1>0, <1>1, <2>1 DEF FetchInv, FetchTypeOK
  <2>. QED
    BY <1>0, <1>1, <2>1, <2>2
       DEF FetchInv, RecordsChecked, HopChecked, Counts, BodyIsPrefix
<1>3. CASE ~(total' > MaxBytes)
  <2>1. /\ kept' = total' /\ UNCHANGED <<phase, truncated>>
        /\ total' \in Nat /\ total' <= size /\ total' <= MaxBytes
    BY <1>0, <1>1, <1>3 DEF ReadChunk
  <2>2. FetchTypeOK'
    BY <1>0, <1>1, <2>1 DEF FetchInv, FetchTypeOK
  <2>. QED
    BY <1>0, <1>1, <2>1, <2>2
       DEF FetchInv, RecordsChecked, HopChecked, Counts, BodyIsPrefix
<1>. QED
  BY <1>2, <1>3

LEMMA EndOfBodyStep ==
  ASSUME FetchInv, EndOfBody
  PROVE  FetchInv'
<1>1. /\ phase = "body" /\ total = size /\ phase' = "returned"
      /\ UNCHANGED <<proxied, aborted, host, redirects, records, size, total, kept, truncated,
                     status, failure, checked>>
  BY DEF EndOfBody, body
<1>2. FetchTypeOK'
  BY <1>1 DEF FetchInv, FetchTypeOK
<1>3. BodyIsPrefix'
  BY <1>1, SafeFetchAssumption DEF FetchInv, FetchTypeOK, Counts, BodyIsPrefix
<1>. QED
  BY <1>1, <1>2, <1>3 DEF FetchInv, RecordsChecked, HopChecked, Counts

(* The failures, and the signal.                                           *)
LEMMA FailureStep ==
  ASSUME FetchInv,
         \/ LookupFails \/ BodyFails
         \/ \E f \in {"transient", "error"} : ConnectFails(f)
  PROVE  FetchInv'
<1>1. /\ phase' = "thrown"
      /\ failure' \in {"transient", "error", "raw"}
      /\ UNCHANGED <<proxied, aborted, host, redirects, records, size, total, kept, truncated,
                     status, checked>>
  BY DEF LookupFails, BodyFails, ConnectFails, Throw, body
<1>2. FetchTypeOK'
  BY <1>1 DEF FetchInv, FetchTypeOK
<1>. QED
  BY <1>1, <1>2 DEF FetchInv, RecordsChecked, HopChecked, Counts, BodyIsPrefix

LEMMA QuietStep ==
  ASSUME FetchInv, AbortFetch \/ UNCHANGED fetchVars
  PROVE  FetchInv'
<1>1. /\ aborted' \in BOOLEAN
      /\ UNCHANGED <<phase, proxied, host, redirects, records, size, total, kept, truncated,
                     status, failure, checked>>
  BY DEF AbortFetch, fetchVars, body, FetchInv, FetchTypeOK
<1>2. FetchTypeOK'
  BY <1>1 DEF FetchInv, FetchTypeOK
<1>. QED
  BY <1>1, <1>2 DEF FetchInv, RecordsChecked, HopChecked, Counts, BodyIsPrefix

-----------------------------------------------------------------------------
LEMMA FetchInductive == FetchInv /\ [FetchNext]_fetchVars => FetchInv'
<1>. SUFFICES ASSUME FetchInv, [FetchNext]_fetchVars
              PROVE  FetchInv'
  OBVIOUS
<1>1. ASSUME NEW url \in Urls, NEW pooled \in BOOLEAN, NEW late \in BOOLEAN,
             BeginFetch(url, pooled, late)
      PROVE  FetchInv'
  BY <1>1, BeginFetchStep
<1>2. ASSUME NEW found \in Answers, LookupAnswers(found) PROVE FetchInv'
  BY <1>2, LookupAnswersStep
<1>3. CASE ConnectRefused
  BY <1>3, ConnectRefusedStep
<1>4. ASSUME NEW location \in Urls \union {"none"}, Redirect(location) PROVE FetchInv'
  BY <1>4, RedirectStep
<1>5. ASSUME NEW s \in Statuses, NEW n \in 0..(MaxBytes + MaxChunk), Respond(s, n)
      PROVE  FetchInv'
  BY <1>5, RespondStep
<1>6. ASSUME NEW n \in 1..MaxChunk, ReadChunk(n) PROVE FetchInv'
  BY <1>6, ReadChunkStep
<1>7. CASE EndOfBody
  BY <1>7, EndOfBodyStep
<1>8. CASE LookupFails \/ BodyFails \/ \E f \in {"transient", "error"} : ConnectFails(f)
  BY <1>8, FailureStep
<1>9. CASE AbortFetch \/ UNCHANGED fetchVars
  BY <1>9, QuietStep
<1>. QED
  BY <1>1, <1>2, <1>3, <1>4, <1>5, <1>6, <1>7, <1>8, <1>9 DEF FetchNext, FetchSettles

(* What FetchInv says of the record in use is what ConnectsWhereChecked    *)
(* says.                                                                   *)
LEMMA FetchInvImplies == FetchInv => ConnectsWhereChecked
<1>. SUFFICES ASSUME FetchInv, phase \in {"connect", "body"}
              PROVE  /\ checked.host = host /\ checked.addresses \intersect Private = {}
                     /\ ~proxied => records # <<>> /\ Head(records) \in checked.addresses
  BY DEF ConnectsWhereChecked
<1>1. checked.host = host /\ checked.addresses \intersect Private = {}
  BY DEF FetchInv, HopChecked
<1>2. ASSUME ~proxied PROVE records # <<>> /\ Head(records) \in checked.addresses
  <2>1. records # <<>> /\ \A i \in 1..Len(records) : records[i] \in checked.addresses
    BY <1>2 DEF FetchInv, RecordsChecked
  <2>2. records \in Seq(Addresses)
    BY DEF FetchInv, FetchTypeOK
  <2>3. 1 \in 1..Len(records) /\ Head(records) = records[1]
    BY <2>1, <2>2
  <2>. QED
    BY <2>1, <2>3
<1>. QED
  BY <1>1, <1>2

(* The variables have their types, the redirects their bound.              *)
THEOREM FetchTypeCorrect == FetchSpec => []FetchTypeOK
<1>1. FetchInv => FetchTypeOK
  BY DEF FetchInv
<1>. QED
  BY <1>1, FetchInitial, FetchInductive, PTL DEF FetchSpec

(* A request goes where the last lookup has checked, however DNS answers   *)
(* and however often it is redirected or refused (createPinnedFetcher).    *)
THEOREM FetchConnectsWhereChecked == FetchSpec => []ConnectsWhereChecked
BY FetchInitial, FetchInductive, FetchInvImplies, PTL DEF FetchSpec

(* A returned body is the peer's up to the limit, and marked truncated     *)
(* just when it is longer, for every cut into chunks (readCappedBody).     *)
THEOREM FetchBodyIsPrefix == FetchSpec => []BodyIsPrefix
<1>1. FetchInv => BodyIsPrefix
  BY DEF FetchInv
<1>. QED
  BY <1>1, FetchInitial, FetchInductive, PTL DEF FetchSpec

-----------------------------------------------------------------------------
(* Sandbox.                                                                *)

(* Both buffers hold what was read, up to the limit.                       *)
BuffersExact ==
  \A s \in Streams :
    /\ output[s].kept = IF output[s].read > OutputLimit THEN OutputLimit ELSE output[s].read
    /\ output[s].cut <=> output[s].read > OutputLimit

(* How far runPython and its client have come together: the client has     *)
(* exited by the time of the grace, and a container that is still there    *)
(* then has had its kill, or has lost its client to somebody else.         *)
ClientInStep ==
  /\ box = "idle" => client = "none"
  /\ client = "none" => container = "none" /\ exitCode = NoCode
  /\ client = "running" => exitCode = NoCode
  /\ box \in {"grace", "done"} => client # "running"
  /\ box \in {"idle", "racing"} => helper = "none"
  /\ box = "grace" => helper # "none"
  /\ client \in {"exited", "closed"} /\ container \in {"creating", "running"} =>
       lost \/ helper # "none"

(* An exit code is the program's own or the refusal's.                     *)
CodeIsOwn ==
  exitCode \in ExitCodes =>
    exitCode = ended \/ (container = "refused" /\ exitCode = 125)

(* The result that has been given stays true.                              *)
VerdictHolds ==
  box = "done" =>
    /\ verdict.category = "success" => ended = 0 /\ ~verdict.timedOut
    /\ verdict.category = "timeout" <=> verdict.timedOut
    /\ verdict.code \in ExitCodes =>
         verdict.code = ended \/ (container = "refused" /\ verdict.code = 125)
    /\ verdict.truncated <=> Truncated

SandboxInv ==
  /\ SandboxTypeOK /\ BuffersExact /\ ClientInStep /\ CodeIsOwn /\ VerdictHolds
  /\ ContainerAccounted

-----------------------------------------------------------------------------
LEMMA SandboxInitial == SandboxInit => SandboxInv
<1>. SUFFICES ASSUME SandboxInit PROVE SandboxInv
  OBVIOUS
<1>1. SandboxTypeOK
  <2>1. output \in [Streams -> [read : Nat, kept : Nat, cut : BOOLEAN]]
    BY DEF SandboxInit
  <2>2. verdict \in [category : Categories \union {"none"}, code : ExitCodes \union {NoCode, -2},
                     timedOut : BOOLEAN, truncated : BOOLEAN]
    BY DEF SandboxInit, NoVerdict
  <2>. QED
    BY <2>1, <2>2 DEF SandboxInit, SandboxTypeOK
<1>2. BuffersExact
  BY SandboxAssumption DEF SandboxInit, BuffersExact
<1>3. ClientInStep /\ VerdictHolds /\ ContainerAccounted
  BY DEF SandboxInit, ClientInStep, VerdictHolds, ContainerAccounted
<1>4. CodeIsOwn
  BY DEF SandboxInit, CodeIsOwn, ExitCodes, NoCode
<1>. QED
  BY <1>1, <1>2, <1>3, <1>4 DEF SandboxInv

(* A chunk leaves a buffer exact, whether it fits, crosses the limit or    *)
(* comes after it.                                                         *)
LEMMA AppendExact ==
  ASSUME NEW b \in [read : Nat, kept : Nat, cut : BOOLEAN], NEW n \in Nat,
         b.kept = IF b.read > OutputLimit THEN OutputLimit ELSE b.read,
         b.cut <=> b.read > OutputLimit
  PROVE  LET c == AppendCapped(b, n)
         IN  /\ c \in [read : Nat, kept : Nat, cut : BOOLEAN]
             /\ c.kept = IF c.read > OutputLimit THEN OutputLimit ELSE c.read
             /\ c.cut <=> c.read > OutputLimit
<1>. DEFINE c == AppendCapped(b, n)
            room == OutputLimit - b.kept
<1>1. /\ c.read = b.read + n
      /\ c.kept = b.kept + (IF n <= room THEN n ELSE room)
      /\ c.cut = (b.cut \/ n > room)
      /\ c = [read |-> c.read, kept |-> c.kept, cut |-> c.cut]
  BY DEF AppendCapped
<1>2. /\ b.read \in Nat /\ b.kept \in Nat /\ b.cut \in BOOLEAN /\ OutputLimit \in Nat
      /\ room \in Nat
  BY SandboxAssumption
<1>3. c.kept = IF c.read > OutputLimit THEN OutputLimit ELSE c.read
  BY <1>1, <1>2
<1>4. c.cut <=> c.read > OutputLimit
  <2>1. c.cut <=> b.read > OutputLimit \/ n > room
    BY <1>1, Zenon
  <2>2. b.read > OutputLimit \/ n > room <=> b.read + n > OutputLimit
    BY <1>2
  <2>. QED
    BY <1>1, <2>1, <2>2
<1>5. c.read \in Nat /\ c.kept \in Nat /\ c.cut \in BOOLEAN
  BY <1>1, <1>2
<1>. QED
  BY <1>1, <1>3, <1>4, <1>5

(* The result of a client that was seen to close, or of nobody.            *)
LEMMA FinishHonest ==
  ASSUME SandboxInv, NEW code \in ExitCodes \union {NoCode}, NEW late \in BOOLEAN,
         code \in ExitCodes => code = ended \/ (container = "refused" /\ code = 125),
         Finish(code, late), ended' = ended, container' = container, output' = output
  PROVE  /\ verdict' \in [category : Categories \union {"none"}, code : ExitCodes \union {NoCode, -2},
                          timedOut : BOOLEAN, truncated : BOOLEAN]
         /\ verdict'.timedOut = late
         /\ VerdictHolds'
<1>1. /\ verdict'.category = Category(code, late)
      /\ verdict'.code = code /\ verdict'.timedOut = late /\ verdict'.truncated = Truncated
      /\ verdict' = [category |-> Category(code, late), code |-> code, timedOut |-> late,
                     truncated |-> Truncated]
  BY DEF Finish
<1>2. /\ Category(code, late) \in Categories
      /\ Category(code, late) = "timeout" <=> late
      /\ Category(code, late) = "success" => ~late /\ code = 0
  BY DEF Category, Categories
<1>3. Truncated \in BOOLEAN
  BY DEF Truncated
<1>4. code = 0 => ended = 0
  BY DEF ExitCodes
<1>5. Truncated' <=> Truncated
  BY DEF Truncated
<1>6. verdict' \in [category : Categories \union {"none"}, code : ExitCodes \union {NoCode, -2},
                    timedOut : BOOLEAN, truncated : BOOLEAN]
  BY <1>1, <1>2, <1>3
<1>7. VerdictHolds'
  BY <1>1, <1>2, <1>4, <1>5 DEF VerdictHolds
<1>. QED
  BY <1>1, <1>6, <1>7

-----------------------------------------------------------------------------
(* Node.                                                                   *)
LEMMA SpawnStep ==
  ASSUME SandboxInv, Spawn
  PROVE  SandboxInv'
<1>1. /\ box = "idle" /\ box' = "racing" /\ client = "none" /\ client' = "running"
      /\ container = "none" /\ exitCode = NoCode /\ helper = "none"
      /\ UNCHANGED <<exitCode, container, helper, output, errorLine, verdict, ended, lost>>
  BY DEF Spawn, SandboxInv, ClientInStep
<1>2. SandboxTypeOK'
  BY <1>1 DEF SandboxInv, SandboxTypeOK
<1>3. BuffersExact' /\ CodeIsOwn'
  BY <1>1 DEF SandboxInv, BuffersExact, CodeIsOwn
<1>4. ClientInStep' /\ VerdictHolds' /\ ContainerAccounted'
  BY <1>1 DEF ClientInStep, VerdictHolds, ContainerAccounted
<1>. QED
  BY <1>2, <1>3, <1>4 DEF SandboxInv

LEMMA SpawnErrorStep ==
  ASSUME SandboxInv, NEW enoent \in BOOLEAN, SpawnError(enoent)
  PROVE  SandboxInv'
<1>1. /\ box' = "done" /\ client = "none" /\ container = "none"
      /\ verdict'.category \in {"runtime-not-installed", "runtime-failed-to-start"}
      /\ verdict'.code = -2 /\ verdict'.timedOut = FALSE /\ verdict'.truncated = Truncated
      /\ verdict' = [category |-> verdict'.category, code |-> -2, timedOut |-> FALSE,
                     truncated |-> Truncated]
      /\ UNCHANGED <<client, exitCode, container, helper, output, errorLine, ended, lost>>
  BY DEF SpawnError, SandboxInv, ClientInStep
<1>2. Truncated' <=> Truncated
  BY <1>1 DEF Truncated
<1>3. verdict' \in [category : Categories \union {"none"}, code : ExitCodes \union {NoCode, -2},
                    timedOut : BOOLEAN, truncated : BOOLEAN]
  BY <1>1 DEF Truncated, Categories
<1>4. SandboxTypeOK'
  BY <1>1, <1>3 DEF SandboxInv, SandboxTypeOK
<1>5. BuffersExact' /\ CodeIsOwn'
  BY <1>1 DEF SandboxInv, BuffersExact, CodeIsOwn
<1>6. ClientInStep' /\ ContainerAccounted'
  BY <1>1 DEF SandboxInv, ClientInStep, ContainerAccounted
<1>7. VerdictHolds'
  BY <1>1, <1>2 DEF VerdictHolds, ExitCodes
<1>. QED
  BY <1>4, <1>5, <1>6, <1>7 DEF SandboxInv

LEMMA DataStep ==
  ASSUME SandboxInv, NEW s \in Streams, NEW n \in 1..MaxOutput, NEW line \in BOOLEAN,
         Data(s, n, line)
  PROVE  SandboxInv'
<1>1. /\ box \in {"racing", "grace"}
      /\ output' = [output EXCEPT ![s] = AppendCapped(output[s], n)]
      /\ UNCHANGED <<box, client, exitCode, container, helper, verdict, ended, lost>>
  BY DEF Data
<1>2. output \in [Streams -> [read : Nat, kept : Nat, cut : BOOLEAN]]
  BY DEF SandboxInv, SandboxTypeOK
<1>3. /\ AppendCapped(output[s], n) \in [read : Nat, kept : Nat, cut : BOOLEAN]
      /\ LET c == AppendCapped(output[s], n)
         IN  /\ c.kept = IF c.read > OutputLimit THEN OutputLimit ELSE c.read
             /\ c.cut <=> c.read > OutputLimit
  <2>1. /\ output[s] \in [read : Nat, kept : Nat, cut : BOOLEAN]
        /\ output[s].kept = IF output[s].read > OutputLimit THEN OutputLimit ELSE output[s].read
        /\ output[s].cut <=> output[s].read > OutputLimit
    BY <1>2 DEF SandboxInv, BuffersExact
  <2>2. n \in Nat
    OBVIOUS
  <2>. QED
    BY <2>1, <2>2, AppendExact
<1>4. /\ output'[s] = AppendCapped(output[s], n)
      /\ \A t \in Streams \ {s} : output'[t] = output[t]
  BY <1>1, <1>2
<1>5. errorLine' \in BOOLEAN
  BY DEF Data
<1>6. SandboxTypeOK'
  BY <1>1, <1>2, <1>3, <1>5 DEF SandboxInv, SandboxTypeOK
<1>7. BuffersExact'
  <2>. SUFFICES ASSUME NEW t \in Streams
                PROVE  /\ output'[t].kept = IF output'[t].read > OutputLimit THEN OutputLimit
                                            ELSE output'[t].read
                       /\ output'[t].cut <=> output'[t].read > OutputLimit
    BY DEF BuffersExact
  <2>1. CASE t = s
    BY <2>1, <1>3, <1>4
  <2>2. CASE t # s
    BY <2>2, <1>4 DEF SandboxInv, BuffersExact
  <2>. QED
    BY <2>1, <2>2
<1>8. ClientInStep' /\ CodeIsOwn' /\ VerdictHolds' /\ ContainerAccounted'
  BY <1>1 DEF SandboxInv, ClientInStep, CodeIsOwn, VerdictHolds, ContainerAccounted
<1>. QED
  BY <1>6, <1>7, <1>8 DEF SandboxInv

LEMMA CloseStep ==
  ASSUME SandboxInv, Close
  PROVE  SandboxInv'
<1>1. /\ box \in {"racing", "grace"} /\ box' = "done"
      /\ client = "exited" /\ client' = "closed"
      /\ Finish(exitCode, box = "grace")
      /\ UNCHANGED <<exitCode, container, helper, output, errorLine, ended, lost>>
  BY DEF Close, Finish
<1>2. /\ verdict' \in [category : Categories \union {"none"}, code : ExitCodes \union {NoCode, -2},
                       timedOut : BOOLEAN, truncated : BOOLEAN]
      /\ verdict'.timedOut = (box = "grace")
      /\ VerdictHolds'
  <2>1. exitCode \in ExitCodes \union {NoCode}
    BY DEF SandboxInv, SandboxTypeOK
  <2>2. exitCode \in ExitCodes => exitCode = ended \/ (container = "refused" /\ exitCode = 125)
    BY DEF SandboxInv, CodeIsOwn
  <2>3. (box = "grace") \in BOOLEAN
    OBVIOUS
  <2>. QED
    BY <1>1, <2>1, <2>2, <2>3, FinishHonest
<1>3. SandboxTypeOK'
  BY <1>1, <1>2 DEF SandboxInv, SandboxTypeOK
<1>4. BuffersExact' /\ CodeIsOwn'
  BY <1>1 DEF SandboxInv, BuffersExact, CodeIsOwn
<1>5. ClientInStep' /\ ContainerAccounted'
  BY <1>1, <1>2 DEF SandboxInv, ClientInStep, ContainerAccounted
<1>. QED
  BY <1>2, <1>3, <1>4, <1>5 DEF SandboxInv

LEMMA TimeoutStep ==
  ASSUME SandboxInv, Timeout
  PROVE  SandboxInv'
<1>1. /\ box = "racing" /\ box' = "grace" /\ client' = "exited" /\ helper' = "sent"
      /\ UNCHANGED <<exitCode, container, output, errorLine, verdict, ended, lost>>
  BY DEF Timeout
<1>2. SandboxTypeOK'
  BY <1>1 DEF SandboxInv, SandboxTypeOK
<1>3. BuffersExact' /\ CodeIsOwn'
  BY <1>1 DEF SandboxInv, BuffersExact, CodeIsOwn
<1>4. ClientInStep' /\ VerdictHolds' /\ ContainerAccounted'
  BY <1>1 DEF SandboxInv, ClientInStep, VerdictHolds, ContainerAccounted
<1>. QED
  BY <1>2, <1>3, <1>4 DEF SandboxInv

LEMMA GraceEndsStep ==
  ASSUME SandboxInv, GraceEnds
  PROVE  SandboxInv'
<1>1. /\ box = "grace" /\ box' = "done" /\ Finish(NoCode, TRUE)
      /\ UNCHANGED <<client, exitCode, container, helper, output, errorLine, ended, lost>>
  BY DEF GraceEnds, Finish
<1>2. /\ verdict' \in [category : Categories \union {"none"}, code : ExitCodes \union {NoCode, -2},
                       timedOut : BOOLEAN, truncated : BOOLEAN]
      /\ verdict'.timedOut = TRUE
      /\ VerdictHolds'
  <2>1. NoCode \notin ExitCodes
    BY DEF NoCode, ExitCodes
  <2>. QED
    BY <1>1, <2>1, FinishHonest
<1>3. SandboxTypeOK'
  BY <1>1, <1>2 DEF SandboxInv, SandboxTypeOK
<1>4. BuffersExact' /\ CodeIsOwn'
  BY <1>1 DEF SandboxInv, BuffersExact, CodeIsOwn
<1>5. ClientInStep' /\ ContainerAccounted'
  BY <1>1, <1>2 DEF SandboxInv, ClientInStep, ContainerAccounted
<1>. QED
  BY <1>2, <1>3, <1>4, <1>5 DEF SandboxInv

-----------------------------------------------------------------------------
(* The runtime.  None of its steps touches runPython or its result.        *)
LEMMA RuntimeStep ==
  ASSUME SandboxInv, Runtime
  PROVE  SandboxInv'
<1>0. UNCHANGED <<box, output, verdict>>
  BY DEF Runtime, Create, ContainerStarts, RuntimeRefuses, ProgramEnds, ClientLost, HelperEnds
<1>1. BuffersExact' /\ (Truncated' <=> Truncated)
  BY <1>0 DEF SandboxInv, BuffersExact, Truncated
<1>2. CASE Create
  <2>1. /\ client = "running" /\ container = "none" /\ container' = "creating"
        /\ UNCHANGED <<client, exitCode, helper, errorLine, ended, lost>>
    BY <1>2 DEF Create
  <2>2. SandboxTypeOK'
    BY <1>0, <2>1 DEF SandboxInv, SandboxTypeOK
  <2>3. ClientInStep' /\ CodeIsOwn' /\ VerdictHolds' /\ ContainerAccounted'
    BY <1>0, <1>1, <2>1
       DEF SandboxInv, ClientInStep, CodeIsOwn, VerdictHolds, ContainerAccounted
  <2>. QED
    BY <1>1, <2>2, <2>3 DEF SandboxInv
<1>3. CASE ContainerStarts
  <2>1. /\ container = "creating" /\ container' = "running"
        /\ UNCHANGED <<client, exitCode, helper, errorLine, ended, lost>>
    BY <1>3 DEF ContainerStarts
  <2>2. SandboxTypeOK'
    BY <1>0, <2>1 DEF SandboxInv, SandboxTypeOK
  <2>3. ClientInStep' /\ CodeIsOwn' /\ VerdictHolds' /\ ContainerAccounted'
    BY <1>0, <1>1, <2>1
       DEF SandboxInv, ClientInStep, CodeIsOwn, VerdictHolds, ContainerAccounted
  <2>. QED
    BY <1>1, <2>2, <2>3 DEF SandboxInv
<1>4. CASE RuntimeRefuses
  <2>1. /\ container \in {"none", "creating"} /\ container' = "refused"
        /\ UNCHANGED <<helper, ended, lost>>
        /\ client # "none"
        /\ \/ /\ client = "running" /\ client' = "exited"
              /\ exitCode' = 125 /\ errorLine' = TRUE
           \/ client # "running" /\ UNCHANGED <<client, exitCode, errorLine>>
    BY <1>4 DEF RuntimeRefuses, SandboxInv, ClientInStep
  <2>2. SandboxTypeOK'
    <3>1. /\ errorLine \in BOOLEAN
          /\ client \in {"none", "running", "exited", "closed"}
          /\ exitCode \in ExitCodes \union {NoCode}
      BY DEF SandboxInv, SandboxTypeOK
    <3>2. errorLine' \in BOOLEAN
      BY <2>1, <3>1
    <3>3. client' \in {"none", "running", "exited", "closed"} /\ exitCode' \in ExitCodes \union {NoCode}
      BY <2>1, <3>1 DEF ExitCodes
    <3>. QED
      BY <1>0, <2>1, <3>2, <3>3 DEF SandboxInv, SandboxTypeOK
  <2>3. ClientInStep' /\ ContainerAccounted'
    BY <1>0, <2>1 DEF SandboxInv, ClientInStep, ContainerAccounted
  <2>4. CodeIsOwn' /\ VerdictHolds'
    BY <1>0, <1>1, <2>1 DEF SandboxInv, CodeIsOwn, VerdictHolds
  <2>. QED
    BY <1>1, <2>2, <2>3, <2>4 DEF SandboxInv
<1>5. ASSUME NEW code \in ExitCodes, ProgramEnds(code) PROVE SandboxInv'
  <2>1. /\ container = "running" /\ container' = "gone"
        /\ UNCHANGED <<helper, errorLine, lost>>
        /\ client # "none"
        /\ \/ /\ client = "running" /\ client' = "exited"
              /\ exitCode' = code /\ ended' = code
           \/ client # "running" /\ UNCHANGED <<client, exitCode, ended>>
    BY <1>5 DEF ProgramEnds, SandboxInv, ClientInStep
  <2>2. SandboxTypeOK'
    BY <1>0, <2>1 DEF SandboxInv, SandboxTypeOK
  <2>3. ClientInStep' /\ ContainerAccounted'
    BY <1>0, <2>1 DEF SandboxInv, ClientInStep, ContainerAccounted
  <2>4. box = "done" => UNCHANGED ended
    BY <2>1 DEF SandboxInv, ClientInStep
  <2>5. CodeIsOwn' /\ VerdictHolds'
    BY <1>0, <1>1, <2>1, <2>4 DEF SandboxInv, CodeIsOwn, VerdictHolds
  <2>. QED
    BY <1>1, <2>2, <2>3, <2>5 DEF SandboxInv
<1>6. CASE ClientLost
  <2>1. /\ client = "running" /\ client' = "exited" /\ lost' = TRUE
        /\ UNCHANGED <<exitCode, container, helper, errorLine, ended>>
    BY <1>6 DEF ClientLost
  <2>2. SandboxTypeOK'
    BY <1>0, <2>1 DEF SandboxInv, SandboxTypeOK
  <2>3. ClientInStep' /\ CodeIsOwn' /\ VerdictHolds' /\ ContainerAccounted'
    BY <1>0, <1>1, <2>1
       DEF SandboxInv, ClientInStep, CodeIsOwn, VerdictHolds, ContainerAccounted
  <2>. QED
    BY <1>1, <2>2, <2>3 DEF SandboxInv
<1>7. ASSUME NEW works \in BOOLEAN, HelperEnds(works) PROVE SandboxInv'
  <2>1. /\ helper = "sent" /\ helper' = "done"
        /\ container' = container \/ (container = "running" /\ container' = "gone")
        /\ UNCHANGED <<client, exitCode, errorLine, ended, lost>>
    BY <1>7 DEF HelperEnds
  <2>2. SandboxTypeOK'
    BY <1>0, <2>1 DEF SandboxInv, SandboxTypeOK
  <2>3. ClientInStep' /\ ContainerAccounted'
    BY <1>0, <2>1 DEF SandboxInv, ClientInStep, ContainerAccounted
  <2>4. CodeIsOwn' /\ VerdictHolds'
    BY <1>0, <1>1, <2>1 DEF SandboxInv, CodeIsOwn, VerdictHolds
  <2>. QED
    BY <1>1, <2>2, <2>3, <2>4 DEF SandboxInv
<1>. QED
  BY <1>2, <1>3, <1>4, <1>5, <1>6, <1>7 DEF Runtime

-----------------------------------------------------------------------------
LEMMA SandboxInductive == SandboxInv /\ [SandboxNext]_sandboxVars => SandboxInv'
<1>. SUFFICES ASSUME SandboxInv, [SandboxNext]_sandboxVars
              PROVE  SandboxInv'
  OBVIOUS
<1>1. CASE Spawn
  BY <1>1, SpawnStep
<1>2. ASSUME NEW enoent \in BOOLEAN, SpawnError(enoent) PROVE SandboxInv'
  BY <1>2, SpawnErrorStep
<1>3. ASSUME NEW s \in Streams, NEW n \in 1..MaxOutput, NEW line \in BOOLEAN, Data(s, n, line)
      PROVE  SandboxInv'
  BY <1>3, DataStep
<1>4. CASE Close
  BY <1>4, CloseStep
<1>5. CASE Timeout
  BY <1>5, TimeoutStep
<1>6. CASE GraceEnds
  BY <1>6, GraceEndsStep
<1>7. CASE Runtime
  BY <1>7, RuntimeStep
<1>8. CASE UNCHANGED sandboxVars
  BY <1>8 DEF sandboxVars, SandboxInv, SandboxTypeOK, BuffersExact, ClientInStep, CodeIsOwn,
              VerdictHolds, Truncated, ContainerAccounted
<1>. QED
  BY <1>1, <1>2, <1>3, <1>4, <1>5, <1>6, <1>7, <1>8 DEF SandboxNext

LEMMA SandboxInvImplies == SandboxInv => SandboxHonest
BY DEF SandboxInv, SandboxHonest, VerdictHolds, BuffersExact, Truncated

(* The variables have their types.                                         *)
THEOREM SandboxTypeCorrect == SandboxSpec => []SandboxTypeOK
<1>1. SandboxInv => SandboxTypeOK
  BY DEF SandboxInv
<1>. QED
  BY <1>1, SandboxInitial, SandboxInductive, PTL DEF SandboxSpec

(* Whichever of the close, the timers and the kills comes first, the       *)
(* result of runPython says what happened.                                 *)
THEOREM SandboxIsHonest == SandboxSpec => []SandboxHonest
BY SandboxInitial, SandboxInductive, SandboxInvImplies, PTL DEF SandboxSpec

(* No container outlives its result without its kill having been sent, or  *)
(* its client having been killed by somebody else.                         *)
THEOREM SandboxAccountsForContainers == SandboxSpec => []ContainerAccounted
<1>1. SandboxInv => ContainerAccounted
  BY DEF SandboxInv
<1>. QED
  BY <1>1, SandboxInitial, SandboxInductive, PTL DEF SandboxSpec

-----------------------------------------------------------------------------
(* Tool calls.                                                             *)

Away == {"get-weather", "web-search", "get-news"}

(* A response that is returned was read to its end or its limit.           *)
ReadThrough == phase = "returned" => truncated \/ total = size

(* Before the call; while a leg is waited for.                             *)
NotBegun == tool = "none" => answer = "none" /\ leg = "none" /\ replies = <<>> /\ ~stopped
LegsWait == leg # "none" => tool \in Away /\ answer = "none"

(* What each handler has said of what it stands on.                        *)
FetchReported ==
  tool = "fetch-url" =>
    /\ answer \notin {"service", "generic"}
    /\ stopped => phase = "thrown"
    /\ answer = "result" => phase = "returned" /\ status \in 200..299

ProgramReported ==
  tool = "python-execute" =>
    /\ answer \notin {"service", "generic"}
    /\ answer = "result" => box = "done" /\ verdict.category = "success"

CalculationReported ==
  tool = "calculator" =>
    input \in CalculatorInputs /\ answer = AnswerFor(Calculated(input).kind)

LegsReported ==
  tool \in Away =>
    /\ answer \in {"none", "result"} => \A i \in DOMAIN replies : replies[i] = "found"
    /\ answer = "result" => ~stopped

Reported == FetchReported /\ ProgramReported /\ CalculationReported /\ LegsReported

ToolInv ==
  /\ ToolTypeOK /\ FetchInv /\ ReadThrough /\ SandboxInv
  /\ NotBegun /\ LegsWait /\ Reported

-----------------------------------------------------------------------------
LEMMA ReadThroughStep == FetchInv /\ ReadThrough /\ [FetchNext]_fetchVars => ReadThrough'
<1>. SUFFICES ASSUME FetchInv, ReadThrough, [FetchNext]_fetchVars PROVE ReadThrough'
  OBVIOUS
<1>1. CASE UNCHANGED fetchVars
  BY <1>1 DEF fetchVars, body, ReadThrough
<1>2. ASSUME NEW s \in Statuses, NEW n \in 0..(MaxBytes + MaxChunk), Respond(s, n)
      PROVE  ReadThrough'
  <2>1. total = 0
    BY <1>2 DEF Respond, FetchInv, Counts
  <2>2. ASSUME phase' = "returned" PROVE n = 0
    BY <1>2, <2>2 DEF Respond
  <2>. QED
    BY <1>2, <2>1, <2>2 DEF Respond, ReadThrough
<1>3. ASSUME NEW n \in 1..MaxChunk, ReadChunk(n) PROVE ReadThrough'
  BY <1>3 DEF ReadChunk, ReadThrough
<1>4. CASE EndOfBody
  BY <1>4 DEF EndOfBody, ReadThrough, body
<1>5. ASSUME NEW url \in Urls, NEW pooled \in BOOLEAN, NEW late \in BOOLEAN,
             BeginFetch(url, pooled, late)
      PROVE  ReadThrough'
  BY <1>5 DEF BeginFetch, Go, Throw, ReadThrough
<1>6. ASSUME NEW found \in Answers, LookupAnswers(found) PROVE ReadThrough'
  BY <1>6 DEF LookupAnswers, Throw, ReadThrough
<1>7. ASSUME NEW location \in Urls \union {"none"}, Redirect(location) PROVE ReadThrough'
  BY <1>7 DEF Redirect, Go, Throw, ReadThrough
<1>8. CASE ConnectRefused
  BY <1>8 DEF ConnectRefused, Throw, ReadThrough
<1>9. CASE AbortFetch \/ LookupFails \/ BodyFails \/ \E f \in {"transient", "error"} : ConnectFails(f)
  BY <1>9 DEF AbortFetch, LookupFails, BodyFails, ConnectFails, Throw, ReadThrough
<1>. QED
  BY <1>1, <1>2, <1>3, <1>4, <1>5, <1>6, <1>7, <1>8, <1>9 DEF FetchNext, FetchSettles

(* Nothing comes of a call that has thrown.                                *)
LEMMA ThrownStays ==
  ASSUME phase = "thrown", AbortFetch \/ FetchSettles
  PROVE  FALSE
BY DEF AbortFetch, FetchSettles, LookupAnswers, LookupFails, ConnectRefused, ConnectFails, Redirect,
       Respond, ReadChunk, EndOfBody, BodyFails

(* A result that has been given is not given again.                        *)
LEMMA VerdictStays ==
  ASSUME box = "done", [SandboxNext]_sandboxVars
  PROVE  box' = "done" /\ verdict' = verdict
BY DEF SandboxNext, Spawn, SpawnError, Data, Close, Timeout, GraceEnds, Runtime, Create,
       ContainerStarts, RuntimeRefuses, ProgramEnds, ClientLost, HelperEnds, sandboxVars

-----------------------------------------------------------------------------
(* A tool call does with its fetch and its sandbox what they may do.       *)

LEMMA FetchSteps == [ToolNext]_toolVars => [FetchNext]_fetchVars
<1>. SUFFICES ASSUME ToolNext PROVE [FetchNext]_fetchVars
  BY DEF toolVars
<1>1. ASSUME NEW url \in Urls, NEW pooled \in BOOLEAN, NEW late \in BOOLEAN,
             CallFetchUrl(url, pooled, late)
      PROVE  FetchNext
  BY <1>1 DEF CallFetchUrl, FetchNext
<1>2. CASE FetchStep(AbortFetch) \/ FetchStep(FetchSettles)
  BY <1>2 DEF FetchStep, FetchNext
<1>3. CASE \E extracts \in BOOLEAN : AnswerFetchUrl(extracts)
  BY <1>3 DEF AnswerFetchUrl
<1>4. CASE CallPythonExecute \/ AnswerPythonExecute \/ CallCalculator
  BY <1>4 DEF CallPythonExecute, AnswerPythonExecute, CallCalculator
<1>5. CASE \/ \E s \in Streams, n \in 1..MaxOutput, line \in BOOLEAN : SandboxStep(Data(s, n, line))
           \/ SandboxStep(Close) \/ SandboxStep(Timeout)
           \/ SandboxStep(GraceEnds) \/ SandboxStep(Runtime)
  BY <1>5 DEF SandboxStep
<1>6. ASSUME NEW name, NEW blank, NEW late, CallAway(name, blank, late) PROVE UNCHANGED fetchVars
  BY <1>6 DEF CallAway
<1>7. ASSUME NEW reply, Reply(reply) PROVE UNCHANGED fetchVars
  BY <1>7 DEF Reply
<1>. QED
  BY <1>1, <1>2, <1>3, <1>4, <1>5, <1>6, <1>7 DEF ToolNext

LEMMA SandboxSteps == [ToolNext]_toolVars => [SandboxNext]_sandboxVars
<1>. SUFFICES ASSUME ToolNext PROVE [SandboxNext]_sandboxVars
  BY DEF toolVars
<1>1. ASSUME NEW url, NEW pooled, NEW late, CallFetchUrl(url, pooled, late)
      PROVE  UNCHANGED sandboxVars
  BY <1>1 DEF CallFetchUrl
<1>2. CASE FetchStep(AbortFetch) \/ FetchStep(FetchSettles)
  BY <1>2 DEF FetchStep
<1>3. CASE \E extracts \in BOOLEAN : AnswerFetchUrl(extracts)
  BY <1>3 DEF AnswerFetchUrl
<1>4. CASE CallPythonExecute
  BY <1>4 DEF CallPythonExecute, SandboxNext
<1>5. CASE AnswerPythonExecute \/ CallCalculator
  BY <1>5 DEF AnswerPythonExecute, CallCalculator
<1>6. ASSUME NEW s \in Streams, NEW n \in 1..MaxOutput, NEW line \in BOOLEAN,
             SandboxStep(Data(s, n, line))
      PROVE  SandboxNext
  BY <1>6 DEF SandboxStep, SandboxNext
<1>7. CASE SandboxStep(Close) \/ SandboxStep(Timeout) \/ SandboxStep(GraceEnds) \/ SandboxStep(Runtime)
  BY <1>7 DEF SandboxStep, SandboxNext
<1>8. ASSUME NEW name, NEW blank, NEW late, CallAway(name, blank, late) PROVE UNCHANGED sandboxVars
  BY <1>8 DEF CallAway
<1>9. ASSUME NEW reply, Reply(reply) PROVE UNCHANGED sandboxVars
  BY <1>9 DEF Reply
<1>. QED
  BY <1>1, <1>2, <1>3, <1>4, <1>5, <1>6, <1>7, <1>8, <1>9 DEF ToolNext

(* The tool calls are calls of fetchSafe and of runPython as their modules *)
(* specify them: what is proved of these holds of the calls.               *)
THEOREM CallsFetchAndRun == ToolSpec => FetchSpec /\ SandboxSpec
<1>1. ToolInit => FetchInit /\ SandboxInit
  BY DEF ToolInit
<1>. QED
  BY <1>1, FetchSteps, SandboxSteps, PTL DEF ToolSpec, FetchSpec, SandboxSpec

-----------------------------------------------------------------------------
LEMMA ToolInitial == ToolInit => ToolInv
<1>. SUFFICES ASSUME ToolInit PROVE ToolInv
  OBVIOUS
<1>1. FetchInv /\ SandboxInv
  BY FetchInitial, SandboxInitial DEF ToolInit
<1>2. ToolTypeOK
  <2>1. <<>> \in Seq({"fails", "404", "refused", "unreadable", "empty", "outside", "found"})
    OBVIOUS
  <2>. QED
    BY <1>1, <2>1 DEF ToolInit, ToolTypeOK, FetchInv, SandboxInv
<1>3. ReadThrough
  BY DEF ToolInit, FetchInit, ReadThrough
<1>4. NotBegun /\ LegsWait
  BY DEF ToolInit, NotBegun, LegsWait
<1>5. Reported
  BY DEF ToolInit, Reported, FetchReported, ProgramReported, CalculationReported, LegsReported, Away
<1>. QED
  BY <1>1, <1>2, <1>3, <1>4, <1>5 DEF ToolInv

LEMMA CallFetchUrlStep ==
  ASSUME ToolInv, NEW url, NEW pooled, NEW late \in BOOLEAN, CallFetchUrl(url, pooled, late),
         FetchTypeOK', SandboxTypeOK'
  PROVE  ToolTypeOK' /\ NotBegun' /\ LegsWait' /\ Reported'
<1>1. tool = "none" /\ answer = "none" /\ leg = "none"
  BY DEF ToolInv, NotBegun, CallFetchUrl, Begins
<1>2. /\ tool' = "fetch-url" /\ stopped' = late /\ answer' = answer /\ leg' = leg
      /\ replies' = replies /\ input' = input
  BY DEF CallFetchUrl, Begins
<1>3. late => phase' = "thrown"
  BY DEF CallFetchUrl, BeginFetch, Go, Throw
<1>4. ToolTypeOK'
  BY <1>2 DEF ToolInv, ToolTypeOK, Tool
<1>. QED
  BY <1>1, <1>2, <1>3, <1>4 DEF NotBegun, LegsWait, Reported, FetchReported, ProgramReported,
     CalculationReported, LegsReported, Away

LEMMA FetchStepStep ==
  ASSUME ToolInv, FetchStep(AbortFetch) \/ FetchStep(FetchSettles), FetchTypeOK', SandboxTypeOK'
  PROVE  ToolTypeOK' /\ NotBegun' /\ LegsWait' /\ Reported'
<1>1. tool = "fetch-url" /\ answer = "none" /\ UNCHANGED callVars
  BY DEF FetchStep
<1>2. AbortFetch \/ FetchSettles
  BY DEF FetchStep
<1>3. ~stopped
  BY <1>1, <1>2, ThrownStays DEF ToolInv, Reported, FetchReported
<1>. QED
  BY <1>1, <1>3 DEF callVars, ToolInv, ToolTypeOK, NotBegun, LegsWait, Reported, FetchReported,
     ProgramReported, CalculationReported, LegsReported, Away

LEMMA AnswerFetchUrlStep ==
  ASSUME ToolInv, NEW extracts, AnswerFetchUrl(extracts), FetchTypeOK', SandboxTypeOK'
  PROVE  ToolTypeOK' /\ NotBegun' /\ LegsWait' /\ Reported'
<1>1. /\ tool = "fetch-url" /\ answer = "none"
      /\ UNCHANGED <<fetchVars, tool, leg, stopped, input, replies>>
      /\ answer' \in {"crash", "result", "isError"}
      /\ answer' = "result" => phase = "returned" /\ status \in 200..299
  BY DEF AnswerFetchUrl
<1>2. phase' = phase /\ status' = status
  BY <1>1 DEF fetchVars, body
<1>3. leg = "none"
  BY <1>1 DEF ToolInv, LegsWait, Away
<1>4. ToolTypeOK'
  BY <1>1 DEF ToolInv, ToolTypeOK
<1>. QED
  BY <1>1, <1>2, <1>3, <1>4 DEF ToolInv, NotBegun, LegsWait, Reported, FetchReported,
     ProgramReported, CalculationReported, LegsReported, Away

LEMMA PythonStep ==
  ASSUME ToolInv, CallPythonExecute \/ AnswerPythonExecute, FetchTypeOK', SandboxTypeOK'
  PROVE  ToolTypeOK' /\ NotBegun' /\ LegsWait' /\ Reported'
<1>1. CASE CallPythonExecute
  <2>1. tool = "none" /\ answer = "none" /\ leg = "none" /\ ~stopped
    BY <1>1 DEF ToolInv, NotBegun, CallPythonExecute, Begins
  <2>2. tool' = "python-execute" /\ UNCHANGED <<leg, stopped, answer, input, replies>>
    BY <1>1 DEF CallPythonExecute, Begins
  <2>3. ToolTypeOK'
    BY <2>2 DEF ToolInv, ToolTypeOK, Tool
  <2>. QED
    BY <2>1, <2>2, <2>3 DEF NotBegun, LegsWait, Reported, FetchReported, ProgramReported,
       CalculationReported, LegsReported, Away
<1>2. CASE AnswerPythonExecute
  <2>1. /\ tool = "python-execute" /\ answer = "none" /\ box = "done"
        /\ UNCHANGED <<sandboxVars, tool, leg, stopped, input, replies>>
        /\ answer' \in {"result", "isError"}
        /\ answer' = "result" => verdict.category = "success"
    BY <1>2 DEF AnswerPythonExecute
  <2>2. box' = box /\ verdict' = verdict
    BY <2>1 DEF sandboxVars
  <2>3. leg = "none"
    BY <2>1 DEF ToolInv, LegsWait, Away
  <2>4. ToolTypeOK'
    BY <2>1 DEF ToolInv, ToolTypeOK
  <2>. QED
    BY <2>1, <2>2, <2>3, <2>4 DEF NotBegun, LegsWait, Reported, FetchReported, ProgramReported,
       CalculationReported, LegsReported, Away
<1>. QED
  BY <1>1, <1>2

(* The runtime goes on after the result: the verdict does not.             *)
LEMMA SandboxStepStep ==
  ASSUME ToolInv, tool = "python-execute", UNCHANGED callVars, [SandboxNext]_sandboxVars,
         FetchTypeOK', SandboxTypeOK'
  PROVE  ToolTypeOK' /\ NotBegun' /\ LegsWait' /\ Reported'
<1>1. ASSUME answer = "result" PROVE box' = "done" /\ verdict' = verdict
  BY <1>1, VerdictStays DEF ToolInv, Reported, ProgramReported
<1>2. ToolTypeOK'
  BY DEF callVars, ToolInv, ToolTypeOK
<1>. QED
  BY <1>1, <1>2 DEF callVars, ToolInv, NotBegun, LegsWait, Reported, FetchReported,
     ProgramReported, CalculationReported, LegsReported, Away

LEMMA CallCalculatorStep ==
  ASSUME ToolInv, CallCalculator, FetchTypeOK', SandboxTypeOK'
  PROVE  ToolTypeOK' /\ NotBegun' /\ LegsWait' /\ Reported'
<1>1. tool = "none" /\ answer = "none" /\ leg = "none" /\ ~stopped
  BY DEF ToolInv, NotBegun, CallCalculator, Begins
<1>2. /\ tool' = "calculator" /\ input' \in CalculatorInputs
      /\ answer' = AnswerFor(Calculated(input').kind)
      /\ UNCHANGED <<leg, stopped, replies>>
  BY DEF CallCalculator, Begins
<1>3. Calculated(input').kind \in {"value", "error", "fault"}
  BY <1>2, CalculatorAssumption
<1>4. answer' \in {"result", "isError", "generic"}
  BY <1>2, <1>3 DEF AnswerFor
<1>5. ToolTypeOK'
  BY <1>2, <1>4 DEF ToolInv, ToolTypeOK, Tool
<1>. QED
  BY <1>1, <1>2, <1>5 DEF NotBegun, LegsWait, Reported, FetchReported, ProgramReported,
     CalculationReported, LegsReported, Away

LEMMA CallAwayStep ==
  ASSUME ToolInv, NEW name \in Away, NEW blank \in BOOLEAN, NEW late \in BOOLEAN,
         CallAway(name, blank, late), FetchTypeOK', SandboxTypeOK'
  PROVE  ToolTypeOK' /\ NotBegun' /\ LegsWait' /\ Reported'
<1>1. tool = "none" /\ answer = "none" /\ leg = "none" /\ replies = <<>>
  BY DEF ToolInv, NotBegun, CallAway, Begins
<1>2. tool' = name /\ stopped' = late /\ UNCHANGED <<input, replies>>
  BY DEF CallAway, Begins
<1>3. \/ answer' \in {"isError", "service"} /\ leg' = "none"
      \/ answer' = "none" /\ leg' \in {"geocode", "search", "articles"}
  BY <1>1 DEF CallAway, Away
<1>4. ToolTypeOK'
  BY <1>2, <1>3 DEF ToolInv, ToolTypeOK, Tool, Away
<1>. QED
  BY <1>1, <1>2, <1>3, <1>4 DEF NotBegun, LegsWait, Reported, FetchReported, ProgramReported,
     CalculationReported, LegsReported, Away

(* The legs before the one that is waited for have been found.             *)
LEMMA ReplyStep ==
  ASSUME ToolInv, NEW reply, Reply(reply), FetchTypeOK', SandboxTypeOK'
  PROVE  ToolTypeOK' /\ NotBegun' /\ LegsWait' /\ Reported'
<1>. DEFINE R == {"fails", "404", "refused", "unreadable", "empty", "outside", "found"}
<1>1. tool \in Away /\ answer = "none"
  BY DEF Reply, ToolInv, LegsWait
<1>2. leg \in {"geocode", "forecast", "search", "articles"}
  BY DEF Reply, ToolInv, ToolTypeOK
<1>3. reply \in R /\ (reply # "fails" => ~stopped)
  BY <1>2 DEF Reply, Replies
<1>4. /\ answer' = Outcome(leg, reply) /\ replies' = Append(replies, reply)
      /\ leg' = IF answer' = "none" THEN "forecast" ELSE "none"
      /\ UNCHANGED <<tool, stopped, input>>
  BY DEF Reply
<1>5. /\ answer' \in {"none", "result", "isError", "service", "generic"}
      /\ answer' \in {"none", "result"} => reply = "found"
  BY <1>2, <1>3, <1>4 DEF Outcome
<1>6. replies \in Seq(R)
  BY DEF ToolInv, ToolTypeOK
<1>7. replies' \in Seq(R)
  BY <1>3, <1>4, <1>6
<1>8. ToolTypeOK'
  BY <1>4, <1>5, <1>7 DEF ToolInv, ToolTypeOK
<1>9. ASSUME answer' \in {"none", "result"}
      PROVE  \A i \in DOMAIN replies' : replies'[i] = "found"
  <2>1. \A i \in DOMAIN replies : replies[i] = "found"
    BY <1>1 DEF ToolInv, Reported, LegsReported
  <2>. QED
    BY <2>1, <1>4, <1>5, <1>6, <1>9
<1>10. LegsReported'
  BY <1>3, <1>4, <1>5, <1>9 DEF LegsReported
<1>11. FetchReported' /\ ProgramReported' /\ CalculationReported'
  BY <1>1, <1>4 DEF FetchReported, ProgramReported, CalculationReported, Away
<1>. QED
  BY <1>1, <1>4, <1>8, <1>10, <1>11 DEF NotBegun, LegsWait, Reported, Away

LEMMA ToolInductive == ToolInv /\ [ToolNext]_toolVars => ToolInv'
<1>. SUFFICES ASSUME ToolInv, [ToolNext]_toolVars PROVE ToolInv'
  OBVIOUS
<1>1. [FetchNext]_fetchVars /\ [SandboxNext]_sandboxVars
  BY FetchSteps, SandboxSteps
<1>2. FetchInv' /\ ReadThrough' /\ SandboxInv'
  BY <1>1, FetchInductive, ReadThroughStep, SandboxInductive DEF ToolInv
<1>3. FetchTypeOK' /\ SandboxTypeOK'
  BY <1>2 DEF FetchInv, SandboxInv
<1>. SUFFICES ToolTypeOK' /\ NotBegun' /\ LegsWait' /\ Reported'
  BY <1>2 DEF ToolInv
<1>. DEFINE Goal == ToolTypeOK' /\ NotBegun' /\ LegsWait' /\ Reported'
<1>4. ASSUME NEW url \in Urls, NEW pooled \in BOOLEAN, NEW late \in BOOLEAN,
             CallFetchUrl(url, pooled, late)
      PROVE  Goal
  BY <1>3, <1>4, CallFetchUrlStep
<1>5. CASE FetchStep(AbortFetch) \/ FetchStep(FetchSettles)
  BY <1>3, <1>5, FetchStepStep
<1>6. ASSUME NEW extracts \in BOOLEAN, AnswerFetchUrl(extracts) PROVE Goal
  BY <1>3, <1>6, AnswerFetchUrlStep
<1>7. CASE CallPythonExecute \/ AnswerPythonExecute
  BY <1>3, <1>7, PythonStep
<1>8. CASE \/ \E s \in Streams, n \in 1..MaxOutput, line \in BOOLEAN : SandboxStep(Data(s, n, line))
           \/ SandboxStep(Close) \/ SandboxStep(Timeout)
           \/ SandboxStep(GraceEnds) \/ SandboxStep(Runtime)
  <2>1. tool = "python-execute" /\ UNCHANGED callVars
    BY <1>8 DEF SandboxStep
  <2>. QED
    BY <1>1, <1>3, <2>1, SandboxStepStep
<1>9. CASE CallCalculator
  BY <1>3, <1>9, CallCalculatorStep
<1>10. ASSUME NEW name \in {"get-weather", "web-search", "get-news"}, NEW blank \in BOOLEAN,
              NEW late \in BOOLEAN, CallAway(name, blank, late)
       PROVE  Goal
  BY <1>3, <1>10, CallAwayStep DEF Away
<1>11. ASSUME NEW reply, Reply(reply) PROVE Goal
  BY <1>3, <1>11, ReplyStep
<1>12. CASE UNCHANGED toolVars
  BY <1>3, <1>12 DEF toolVars, callVars, fetchVars, body, sandboxVars, ToolInv, ToolTypeOK,
     NotBegun, LegsWait, Reported, FetchReported, ProgramReported, CalculationReported, LegsReported
<1>. QED
  BY <1>4, <1>5, <1>6, <1>7, <1>8, <1>9, <1>10, <1>11, <1>12 DEF ToolNext

LEMMA ToolInvImplies == ToolInv => AnswerHonest
<1>. SUFFICES ASSUME ToolInv PROVE AnswerHonest
  OBVIOUS
<1>1. ASSUME answer = "result", tool = "fetch-url"
      PROVE  /\ phase = "returned" /\ status \in 200..299 /\ ~stopped
             /\ truncated \/ total = size
  BY <1>1 DEF ToolInv, ReadThrough, Reported, FetchReported
<1>2. ASSUME answer = "result", tool = "python-execute"
      PROVE  ended = 0 /\ ~verdict.timedOut
  BY <1>2 DEF ToolInv, SandboxInv, VerdictHolds, Reported, ProgramReported
<1>3. ASSUME answer = "result", tool = "calculator" PROVE Calculated(input).v # <<>>
  <2>1. input \in CalculatorInputs /\ AnswerFor(Calculated(input).kind) = "result"
    BY <1>3 DEF ToolInv, Reported, CalculationReported
  <2>2. Calculated(input).kind = "value"
    BY <2>1, CalculatorAssumption DEF AnswerFor
  <2>. QED
    BY <2>1, <2>2, CalculatorAssumption
<1>4. ASSUME answer = "result", tool \notin {"fetch-url", "python-execute", "calculator"}
      PROVE  ~stopped /\ \A i \in DOMAIN replies : replies[i] = "found"
  <2>1. tool \in Away
    BY <1>4 DEF ToolInv, ToolTypeOK, Tool, NotBegun, Away
  <2>. QED
    BY <1>4, <2>1 DEF ToolInv, Reported, LegsReported
<1>5. tool \in {"fetch-url", "python-execute"} => answer \notin {"service", "generic"}
  BY DEF ToolInv, Reported, FetchReported, ProgramReported
<1>. QED
  BY <1>1, <1>2, <1>3, <1>4, <1>5 DEF AnswerHonest

(* The variables have their types.                                         *)
THEOREM ToolCallsTypeOK == ToolSpec => []ToolTypeOK
<1>1. ToolInv => ToolTypeOK
  BY DEF ToolInv
<1>. QED
  BY <1>1, ToolInitial, ToolInductive, PTL DEF ToolSpec

(* A caller is told of a result only when there is one, whatever the peers *)
(* and the runtime do, and fetch-url and python-execute never throw.       *)
THEOREM CallsAnswerHonestly == ToolSpec => []AnswerHonest
BY ToolInitial, ToolInductive, ToolInvImplies, PTL DEF ToolSpec

-----------------------------------------------------------------------------
(* Every call ends.                                                        *)

Fetching == tool = "fetch-url" /\ answer = "none"
Settled == phase \in {"returned", "thrown", "uncaught"}

(* A call that has begun waits for something.                              *)
Underway ==
  /\ tool = "fetch-url" => phase # "idle"
  /\ tool = "python-execute" => box # "idle"
  /\ tool = "calculator" => answer # "none"
  /\ tool \in Away => answer # "none" \/ leg # "none"

(* The fairness of ToolFairness, with what enables each action spelled out *)
(* in place of ENABLED.                                                    *)
AbortFires ==
  \/ []<>~(Fetching /\ phase \in {"lookup", "connect", "body"} /\ ~aborted)
  \/ []<><<FetchStep(AbortFetch)>>_toolVars

LookupReturns ==
  \/ []<>~(Fetching /\ phase = "lookup")
  \/ []<><<FetchStep(LookupFails \/ \E a \in Answers : LookupAnswers(a))>>_toolVars

AbortedSettles ==
  \/ []<>~(Fetching /\ aborted /\ phase \in {"connect", "body"})
  \/ []<><<FetchStep(aborted /\ (\/ BodyFails
                                 \/ \E f \in {"transient", "error"} : ConnectFails(f)))>>_toolVars

FetchAnswers ==
  \/ []<>~(Fetching /\ Settled)
  \/ []<><<\E extracts \in BOOLEAN : AnswerFetchUrl(extracts)>>_toolVars

TimeoutRings ==
  \/ []<>~(tool = "python-execute" /\ box = "racing")
  \/ []<><<SandboxStep(Timeout)>>_toolVars

GraceRings ==
  \/ []<>~(tool = "python-execute" /\ box = "grace")
  \/ []<><<SandboxStep(GraceEnds)>>_toolVars

PythonAnswers ==
  \/ []<>~(tool = "python-execute" /\ answer = "none" /\ box = "done")
  \/ []<><<AnswerPythonExecute>>_toolVars

LegTimesOut ==
  \/ []<>~(leg \notin {"none", "articles"})
  \/ []<><<leg # "articles" /\ Reply("fails")>>_toolVars

ToolTimers ==
  /\ AbortFires /\ LookupReturns /\ AbortedSettles /\ FetchAnswers
  /\ TimeoutRings /\ GraceRings /\ PythonAnswers /\ LegTimesOut

(* A call keeps its tool.                                                  *)
LEMMA ToolStays ==
  ASSUME tool # "none", [ToolNext]_toolVars
  PROVE  tool' = tool
<1>1. ASSUME NEW url, NEW pooled, NEW late, CallFetchUrl(url, pooled, late) PROVE FALSE
  BY <1>1 DEF CallFetchUrl, Begins
<1>2. CASE FetchStep(AbortFetch) \/ FetchStep(FetchSettles)
  BY <1>2 DEF FetchStep, callVars
<1>3. ASSUME NEW extracts, AnswerFetchUrl(extracts) PROVE tool' = tool
  BY <1>3 DEF AnswerFetchUrl
<1>4. CASE CallPythonExecute \/ AnswerPythonExecute \/ CallCalculator
  BY <1>4 DEF CallPythonExecute, AnswerPythonExecute, CallCalculator, Begins
<1>5. CASE \/ \E s \in Streams, n \in 1..MaxOutput, line \in BOOLEAN : SandboxStep(Data(s, n, line))
           \/ SandboxStep(Close) \/ SandboxStep(Timeout)
           \/ SandboxStep(GraceEnds) \/ SandboxStep(Runtime)
  BY <1>5 DEF SandboxStep, callVars
<1>6. ASSUME NEW name, NEW blank, NEW late, CallAway(name, blank, late) PROVE FALSE
  BY <1>6 DEF CallAway, Begins
<1>7. ASSUME NEW reply, Reply(reply) PROVE tool' = tool
  BY <1>7 DEF Reply
<1>8. CASE UNCHANGED toolVars
  BY <1>8 DEF toolVars, callVars
<1>. QED
  BY <1>1, <1>2, <1>3, <1>4, <1>5, <1>6, <1>7, <1>8 DEF ToolNext

(* While a call is one of fetch-url, nothing but the fetch and its answer  *)
(* steps.                                                                  *)
LEMMA FetchOnly ==
  ASSUME ToolInv, tool = "fetch-url", [ToolNext]_toolVars
  PROVE  \/ Fetching /\ (AbortFetch \/ FetchSettles) /\ UNCHANGED callVars
         \/ UNCHANGED fetchVars /\ answer # "none" /\ answer' = answer
         \/ UNCHANGED fetchVars /\ Fetching /\ UNCHANGED answer
         \/ Fetching /\ Settled /\ answer' # "none" /\ UNCHANGED fetchVars
<1>. DEFINE Goal == \/ Fetching /\ (AbortFetch \/ FetchSettles) /\ UNCHANGED callVars
                    \/ UNCHANGED fetchVars /\ answer # "none" /\ answer' = answer
                    \/ UNCHANGED fetchVars /\ Fetching /\ UNCHANGED answer
                    \/ Fetching /\ Settled /\ answer' # "none" /\ UNCHANGED fetchVars
<1>1. ASSUME NEW url, NEW pooled, NEW late, CallFetchUrl(url, pooled, late) PROVE FALSE
  BY <1>1 DEF CallFetchUrl, Begins
<1>2. CASE FetchStep(AbortFetch) \/ FetchStep(FetchSettles)
  BY <1>2 DEF FetchStep, Fetching
<1>3. ASSUME NEW extracts, AnswerFetchUrl(extracts) PROVE Goal
  BY <1>3 DEF AnswerFetchUrl, Fetching, Settled
<1>4. ~(CallPythonExecute \/ AnswerPythonExecute \/ CallCalculator)
  BY DEF CallPythonExecute, AnswerPythonExecute, CallCalculator, Begins
<1>5. ~ (\/ \E s \in Streams, n \in 1..MaxOutput, line \in BOOLEAN : SandboxStep(Data(s, n, line))
         \/ SandboxStep(Close) \/ SandboxStep(Timeout)
         \/ SandboxStep(GraceEnds) \/ SandboxStep(Runtime))
  BY DEF SandboxStep
<1>6. ASSUME NEW name, NEW blank, NEW late, CallAway(name, blank, late) PROVE FALSE
  BY <1>6 DEF CallAway, Begins
<1>7. ASSUME NEW reply, Reply(reply) PROVE FALSE
  BY <1>7 DEF Reply, ToolInv, LegsWait, Away
<1>8. CASE UNCHANGED toolVars
  BY <1>8 DEF toolVars, callVars, Fetching
<1>. QED
  BY <1>1, <1>2, <1>3, <1>4, <1>5, <1>6, <1>7, <1>8 DEF ToolNext

(* What a fetch does of its own: the phases before its end are left for    *)
(* the next hop's, for the body or for an end, and an aborted one cannot   *)
(* reach another hop.                                                      *)
LEMMA FetchForward ==
  ASSUME FetchTypeOK, AbortFetch \/ FetchSettles
  PROVE  /\ phase \in {"lookup", "connect", "body"} /\ phase' # "idle"
         /\ aborted => aborted'
         /\ aborted /\ phase \in {"connect", "body"} => phase' \in {"returned", "thrown", "uncaught"}
         /\ phase = "lookup" => phase' \in {"lookup", "connect", "thrown"}
         /\ ~(phase' \in {"lookup", "connect", "body"}) => Settled'
<1>1. CASE AbortFetch
  BY <1>1 DEF AbortFetch, Settled
<1>2. ASSUME NEW found \in Answers, LookupAnswers(found)
      PROVE  phase = "lookup" /\ phase' \in {"connect", "thrown"} /\ aborted' = aborted
  BY <1>2 DEF LookupAnswers, Throw
<1>3. CASE LookupFails
  BY <1>3 DEF LookupFails, Throw, Settled
<1>4. CASE ConnectRefused
  BY <1>4 DEF ConnectRefused, Throw, Settled
<1>5. ASSUME NEW f, ConnectFails(f) PROVE phase = "connect" /\ phase' = "thrown" /\ aborted' = aborted
  BY <1>5 DEF ConnectFails, Throw
<1>6. ASSUME NEW location, Redirect(location)
      PROVE  phase = "connect" /\ phase' \in {"lookup", "thrown"} /\ aborted' = aborted /\ ~aborted
  BY <1>6 DEF Redirect, Go, Throw
<1>7. ASSUME NEW s, NEW n, Respond(s, n)
      PROVE  /\ phase = "connect" /\ phase' \in {"uncaught", "returned", "body"}
             /\ aborted' = aborted /\ ~aborted
  BY <1>7 DEF Respond
<1>8. ASSUME NEW n, ReadChunk(n)
      PROVE  phase = "body" /\ phase' \in {"body", "returned"} /\ aborted' = aborted /\ ~aborted
  BY <1>8 DEF ReadChunk
<1>9. CASE EndOfBody \/ BodyFails
  BY <1>9 DEF EndOfBody, BodyFails, Throw, Settled
<1>. QED
  BY <1>1, <1>2, <1>3, <1>4, <1>5, <1>6, <1>7, <1>8, <1>9 DEF FetchSettles, Settled

(* No step makes a call that waits for nothing.                            *)
LEMMA UnderwayStep == ToolInv /\ Underway /\ [ToolNext]_toolVars => Underway'
<1>. SUFFICES ASSUME ToolInv, Underway, [ToolNext]_toolVars PROVE Underway'
  OBVIOUS
<1>1. ASSUME NEW url, NEW pooled, NEW late, CallFetchUrl(url, pooled, late) PROVE Underway'
  BY <1>1 DEF CallFetchUrl, Begins, BeginFetch, Go, Throw, Underway, Away
<1>2. CASE FetchStep(AbortFetch) \/ FetchStep(FetchSettles)
  BY <1>2, FetchForward DEF FetchStep, callVars, Underway, Away, ToolInv, ToolTypeOK
<1>3. ASSUME NEW extracts, AnswerFetchUrl(extracts) PROVE Underway'
  BY <1>3 DEF AnswerFetchUrl, fetchVars, Underway, Away
<1>4. CASE CallPythonExecute
  BY <1>4 DEF CallPythonExecute, Begins, Spawn, SpawnError, Underway, Away
<1>5. CASE AnswerPythonExecute
  BY <1>5 DEF AnswerPythonExecute, sandboxVars, Underway, Away
<1>6. ASSUME tool = "python-execute", UNCHANGED callVars PROVE Underway'
  <2>1. [SandboxNext]_sandboxVars
    BY SandboxSteps
  <2>2. box # "idle" => box' # "idle"
    BY <2>1 DEF SandboxNext, Spawn, SpawnError, Data, Close, Timeout, GraceEnds, Finish, Runtime, Create,
       ContainerStarts, RuntimeRefuses, ProgramEnds, ClientLost, HelperEnds, sandboxVars
  <2>. QED
    BY <1>6, <2>2 DEF callVars, Underway, Away
<1>7. CASE \/ \E s \in Streams, n \in 1..MaxOutput, line \in BOOLEAN : SandboxStep(Data(s, n, line))
           \/ SandboxStep(Close) \/ SandboxStep(Timeout)
           \/ SandboxStep(GraceEnds) \/ SandboxStep(Runtime)
  BY <1>6, <1>7 DEF SandboxStep
<1>8. CASE CallCalculator
  <2>1. answer' \in {"result", "isError", "generic"}
    <3>1. input' \in CalculatorInputs /\ answer' = AnswerFor(Calculated(input').kind)
      BY <1>8 DEF CallCalculator
    <3>. QED
      BY <3>1, CalculatorAssumption DEF AnswerFor
  <2>. QED
    BY <1>8, <2>1 DEF CallCalculator, Begins, Underway, Away
<1>9. ASSUME NEW name \in {"get-weather", "web-search", "get-news"}, NEW blank \in BOOLEAN,
             NEW late \in BOOLEAN, CallAway(name, blank, late)
      PROVE  Underway'
  <2>1. tool' = name /\ (answer' # "none" \/ leg' # "none")
    BY <1>9 DEF CallAway, Begins
  <2>. QED
    BY <2>1 DEF Underway, Away
<1>10. ASSUME NEW reply, Reply(reply) PROVE Underway'
  BY <1>10 DEF Reply, ToolInv, LegsWait, Underway, Away
<1>11. CASE UNCHANGED toolVars
  BY <1>11 DEF toolVars, callVars, fetchVars, sandboxVars, Underway
<1>. QED
  BY <1>1, <1>2, <1>3, <1>4, <1>5, <1>7, <1>8, <1>9, <1>10, <1>11 DEF ToolNext

LEMMA CallsUnderway == ToolSpec => [](ToolInv /\ Underway)
<1>1. ToolInit => Underway
  BY DEF ToolInit, Underway, Away
<1>. QED
  BY <1>1, ToolInitial, ToolInductive, UnderwayStep, PTL DEF ToolSpec

(* fetch-url: the signal fires at the latest with its timeout, the hop's   *)
(* lookup comes back, and what is aborted settles.                         *)
LEMMA FetchUrlEnds ==
  ToolSpec /\ ToolTimers => (tool = "fetch-url" ~> answer # "none")
<1>. DEFINE Inv == ToolInv /\ Underway
            Running == Fetching /\ ~aborted /\ phase \in {"lookup", "connect", "body"}
            Resolving == Fetching /\ aborted /\ phase = "lookup"
            Failing == Fetching /\ aborted /\ phase \in {"connect", "body"}
            Ended == Fetching /\ Settled
            Answered == answer # "none"
<1>0. Inv /\ tool = "fetch-url" => Running \/ Resolving \/ Failing \/ Ended \/ Answered
  BY DEF ToolInv, ToolTypeOK, FetchTypeOK, Underway, Fetching, Settled
<1>1. Inv /\ Running /\ [ToolNext]_toolVars =>
        Running' \/ Resolving' \/ Failing' \/ Ended' \/ Answered'
  <2>. SUFFICES ASSUME Inv, Running, [ToolNext]_toolVars
                PROVE  Running' \/ Resolving' \/ Failing' \/ Ended' \/ Answered'
    OBVIOUS
  <2>1. tool = "fetch-url" /\ answer = "none"
    BY DEF Fetching
  <2>2. tool' = "fetch-url"
    BY <2>1, ToolStays
  <2>3. CASE AbortFetch \/ FetchSettles
    <3>1. (phase' \in {"lookup", "connect", "body"} \/ Settled') /\ FetchTypeOK'
      BY <2>3, FetchForward, ToolInductive DEF ToolInv, ToolTypeOK
    <3>. QED
      BY <2>2, <3>1 DEF Fetching, FetchTypeOK
  <2>4. CASE UNCHANGED fetchVars
    BY <2>2, <2>4 DEF fetchVars, Fetching
  <2>. QED
    BY <2>1, <2>3, <2>4, FetchOnly
<1>2. Inv /\ Running /\ <<FetchStep(AbortFetch)>>_toolVars => Resolving' \/ Failing'
  BY DEF FetchStep, AbortFetch, callVars, Fetching
<1>3. Inv /\ Resolving /\ [ToolNext]_toolVars => Resolving' \/ Failing' \/ Ended' \/ Answered'
  <2>. SUFFICES ASSUME Inv, Resolving, [ToolNext]_toolVars
                PROVE  Resolving' \/ Failing' \/ Ended' \/ Answered'
    OBVIOUS
  <2>1. tool = "fetch-url" /\ answer = "none" /\ tool' = "fetch-url"
    BY ToolStays DEF Fetching
  <2>2. CASE AbortFetch \/ FetchSettles
    BY <2>1, <2>2, FetchForward DEF ToolInv, ToolTypeOK, Fetching, Settled
  <2>3. CASE UNCHANGED fetchVars
    BY <2>1, <2>3 DEF fetchVars, Fetching
  <2>. QED
    BY <2>1, <2>2, <2>3, FetchOnly
<1>4. /\ Inv /\ Resolving
      /\ <<FetchStep(LookupFails \/ \E a \in Answers : LookupAnswers(a))>>_toolVars
      => Failing' \/ Ended'
  BY DEF FetchStep, LookupFails, LookupAnswers, Throw, callVars, Fetching, Settled
<1>5. Inv /\ Failing /\ [ToolNext]_toolVars => Failing' \/ Ended' \/ Answered'
  <2>. SUFFICES ASSUME Inv, Failing, [ToolNext]_toolVars
                PROVE  Failing' \/ Ended' \/ Answered'
    OBVIOUS
  <2>1. tool = "fetch-url" /\ answer = "none" /\ tool' = "fetch-url"
    BY ToolStays DEF Fetching
  <2>2. CASE AbortFetch \/ FetchSettles
    BY <2>1, <2>2, FetchForward DEF ToolInv, ToolTypeOK, Fetching, Settled
  <2>3. CASE UNCHANGED fetchVars
    BY <2>1, <2>3 DEF fetchVars, Fetching
  <2>. QED
    BY <2>1, <2>2, <2>3, FetchOnly
<1>6. /\ Inv /\ Failing
      /\ <<FetchStep(aborted /\ (\/ BodyFails
                                 \/ \E f \in {"transient", "error"} : ConnectFails(f)))>>_toolVars
      => Ended'
  BY DEF FetchStep, BodyFails, ConnectFails, Throw, callVars, Fetching, Settled
<1>7. Inv /\ Ended /\ [ToolNext]_toolVars => Ended' \/ Answered'
  <2>. SUFFICES ASSUME Inv, Ended, [ToolNext]_toolVars PROVE Ended' \/ Answered'
    OBVIOUS
  <2>1. tool = "fetch-url" /\ answer = "none" /\ tool' = "fetch-url"
    BY ToolStays DEF Fetching
  <2>2. ~(AbortFetch \/ FetchSettles)
    BY FetchForward DEF ToolInv, ToolTypeOK, Settled
  <2>3. CASE UNCHANGED fetchVars
    BY <2>1, <2>3 DEF fetchVars, Fetching, Settled
  <2>. QED
    BY <2>1, <2>2, <2>3, FetchOnly
<1>8. Inv /\ Ended /\ <<\E extracts \in BOOLEAN : AnswerFetchUrl(extracts)>>_toolVars => Answered'
  BY DEF AnswerFetchUrl
<1>9. /\ Running => Fetching /\ phase \in {"lookup", "connect", "body"} /\ ~aborted
      /\ Resolving => Fetching /\ phase = "lookup"
      /\ Failing => Fetching /\ aborted /\ phase \in {"connect", "body"}
  OBVIOUS
<1>10. ToolSpec => []Inv
  BY CallsUnderway
<1>. HIDE DEF Inv, Running, Resolving, Failing, Answered
<1>11. ToolSpec /\ ToolTimers => (Running ~> Resolving \/ Failing \/ Ended \/ Answered)
  BY <1>1, <1>2, <1>9, <1>10, PTL DEF ToolSpec, ToolTimers, AbortFires
<1>12. ToolSpec /\ ToolTimers => (Resolving ~> Failing \/ Ended \/ Answered)
  BY <1>3, <1>4, <1>9, <1>10, PTL DEF ToolSpec, ToolTimers, LookupReturns
<1>13. ToolSpec /\ ToolTimers => (Failing ~> Ended \/ Answered)
  BY <1>5, <1>6, <1>9, <1>10, PTL DEF ToolSpec, ToolTimers, AbortedSettles
<1>14. ToolSpec /\ ToolTimers => (Ended ~> Answered)
  BY <1>7, <1>8, <1>10, PTL DEF ToolSpec, ToolTimers, FetchAnswers, Ended
<1>15. ToolSpec /\ ToolTimers => (tool = "fetch-url" ~> Answered)
  BY <1>0, <1>10, <1>11, <1>12, <1>13, <1>14, PTL
<1>. QED
  BY <1>15 DEF Answered

(* python-execute: the timer or the 'close' event ends the first race, the *)
(* grace period or the 'close' event the second.                           *)
LEMMA SandboxForward ==
  ASSUME [SandboxNext]_sandboxVars
  PROVE  /\ box = "racing" => box' \in {"racing", "grace", "done"}
         /\ box = "grace" => box' \in {"grace", "done"}
         /\ box = "done" => box' = "done"
BY DEF SandboxNext, Spawn, SpawnError, Data, Close, Timeout, GraceEnds, Finish, Runtime, Create,
       ContainerStarts, RuntimeRefuses, ProgramEnds, ClientLost, HelperEnds, sandboxVars

LEMMA PythonExecuteEnds ==
  ToolSpec /\ ToolTimers => (tool = "python-execute" ~> answer # "none")
<1>. DEFINE Inv == ToolInv /\ Underway
            Racing == tool = "python-execute" /\ box = "racing"
            Waiting == tool = "python-execute" /\ box = "grace"
            Over == tool = "python-execute" /\ box = "done" /\ answer = "none"
            Answered == answer # "none"
<1>0. Inv /\ tool = "python-execute" => Racing \/ Waiting \/ Over \/ Answered
  BY DEF ToolInv, ToolTypeOK, SandboxTypeOK, Underway
<1>1. Inv /\ Racing /\ [ToolNext]_toolVars => Racing' \/ Waiting' \/ Over' \/ Answered'
  BY ToolStays, SandboxSteps, SandboxForward
<1>2. Inv /\ Racing /\ <<SandboxStep(Timeout)>>_toolVars => Waiting'
  BY DEF SandboxStep, Timeout, callVars
<1>3. Inv /\ Waiting /\ [ToolNext]_toolVars => Waiting' \/ Over' \/ Answered'
  BY ToolStays, SandboxSteps, SandboxForward
<1>4. Inv /\ Waiting /\ <<SandboxStep(GraceEnds)>>_toolVars => Over' \/ Answered'
  BY DEF SandboxStep, GraceEnds, Finish, callVars
<1>5. Inv /\ Over /\ [ToolNext]_toolVars => Over' \/ Answered'
  BY ToolStays, SandboxSteps, SandboxForward
<1>6. Inv /\ Over /\ <<AnswerPythonExecute>>_toolVars => Answered'
  BY DEF AnswerPythonExecute
<1>7. ToolSpec => []Inv
  BY CallsUnderway
<1>. HIDE DEF Inv, Answered
<1>8. ToolSpec /\ ToolTimers => (Racing ~> Waiting \/ Over \/ Answered)
  BY <1>1, <1>2, <1>7, PTL DEF ToolSpec, ToolTimers, TimeoutRings, Racing
<1>9. ToolSpec /\ ToolTimers => (Waiting ~> Over \/ Answered)
  BY <1>3, <1>4, <1>7, PTL DEF ToolSpec, ToolTimers, GraceRings, Waiting
<1>10. ToolSpec /\ ToolTimers => (Over ~> Answered)
  BY <1>5, <1>6, <1>7, PTL DEF ToolSpec, ToolTimers, PythonAnswers, Over
<1>11. ToolSpec /\ ToolTimers => (tool = "python-execute" ~> Answered)
  BY <1>0, <1>7, <1>8, <1>9, <1>10, PTL
<1>. QED
  BY <1>11 DEF Answered

(* The calls over the network: each leg but the query for the articles has *)
(* a timeout, and a place that was found is followed by one leg more, the  *)
(* last.                                                                   *)
LEMMA LegsForward ==
  ASSUME ToolInv, leg # "none", [ToolNext]_toolVars
  PROVE  \/ UNCHANGED leg
         \/ leg' = "none" /\ answer' # "none"
         \/ leg # "forecast" /\ leg' = "forecast"
<1>1. tool \in Away /\ answer = "none" /\ leg \in {"geocode", "forecast", "search", "articles"}
  BY DEF ToolInv, ToolTypeOK, LegsWait
<1>2. ASSUME NEW reply, Reply(reply)
      PROVE  \/ leg' = "none" /\ answer' # "none"
             \/ leg # "forecast" /\ leg' = "forecast"
  <2>1. reply \in {"fails", "404", "refused", "unreadable", "empty", "outside", "found"}
    BY <1>1, <1>2 DEF Reply, Replies
  <2>2. answer' = Outcome(leg, reply) /\ leg' = IF answer' = "none" THEN "forecast" ELSE "none"
    BY <1>2 DEF Reply
  <2>. QED
    BY <1>1, <2>1, <2>2 DEF Outcome
<1>3. ASSUME NEW url, NEW pooled, NEW late, CallFetchUrl(url, pooled, late) PROVE FALSE
  BY <1>1, <1>3 DEF CallFetchUrl, Begins, Away
<1>4. ~(FetchStep(AbortFetch) \/ FetchStep(FetchSettles))
  BY <1>1 DEF FetchStep, Away
<1>5. ASSUME NEW extracts, AnswerFetchUrl(extracts) PROVE FALSE
  BY <1>1, <1>5 DEF AnswerFetchUrl, Away
<1>6. ~(CallPythonExecute \/ AnswerPythonExecute \/ CallCalculator)
  BY <1>1 DEF CallPythonExecute, AnswerPythonExecute, CallCalculator, Begins, Away
<1>7. ~ (\/ \E s \in Streams, n \in 1..MaxOutput, line \in BOOLEAN : SandboxStep(Data(s, n, line))
         \/ SandboxStep(Close) \/ SandboxStep(Timeout)
         \/ SandboxStep(GraceEnds) \/ SandboxStep(Runtime))
  BY <1>1 DEF SandboxStep, Away
<1>8. ASSUME NEW name, NEW blank, NEW late, CallAway(name, blank, late) PROVE FALSE
  BY <1>1, <1>8 DEF CallAway, Begins, Away
<1>9. CASE UNCHANGED toolVars
  BY <1>9 DEF toolVars, callVars
<1>. QED
  BY <1>2, <1>3, <1>4, <1>5, <1>6, <1>7, <1>8, <1>9 DEF ToolNext

LEMMA LegsEnd ==
  ToolSpec /\ ToolTimers => (leg \notin {"none", "articles"} ~> answer # "none")
<1>. DEFINE Inv == ToolInv /\ Underway
            First == leg \notin {"none", "forecast", "articles"}
            Second == leg = "forecast"
            Waits == leg \notin {"none", "articles"}
            Answered == answer # "none"
<1>0. Waits <=> First \/ Second
  OBVIOUS
<1>1. Inv /\ First /\ [ToolNext]_toolVars => First' \/ Second' \/ Answered'
  BY LegsForward
<1>2. Inv /\ Second /\ [ToolNext]_toolVars => Second' \/ Answered'
  BY LegsForward
<1>3. Inv /\ Waits /\ <<leg # "articles" /\ Reply("fails")>>_toolVars => Answered'
  BY DEF Reply, Outcome
<1>4. ToolSpec => []Inv
  BY CallsUnderway
<1>. HIDE DEF Inv, Answered, First, Second
<1>5. ToolSpec /\ ToolTimers => (Waits ~> Answered)
  BY <1>0, <1>1, <1>2, <1>3, <1>4, PTL DEF ToolSpec, ToolTimers, LegTimesOut, Waits
<1>. QED
  BY <1>5 DEF Answered, Waits

(* Every call comes to an answer, or the process ends, whatever DNS, the   *)
(* peers, the services and the runtime do and however long they take; only *)
(* get-news may wait for ever, for the database.  The timers are the only  *)
(* ones assumed to do something (the timers of fetchSafe, runPython and    *)
(* the tools, and the resolver's).                                         *)
THEOREM EveryCallEnds == ToolSpec /\ ToolTimers => CallEnds
<1>. DEFINE Inv == ToolInv /\ Underway
<1>1. Inv /\ tool # "none" =>
        \/ tool = "fetch-url" \/ tool = "python-execute"
        \/ leg \notin {"none", "articles"} \/ leg = "articles" \/ answer # "none"
  BY DEF ToolInv, ToolTypeOK, Tool, Underway, Away
<1>2. ToolSpec => []Inv
  BY CallsUnderway
<1>. HIDE DEF Inv
<1>. QED
  BY <1>1, <1>2, FetchUrlEnds, PythonExecuteEnds, LegsEnd, PTL DEF CallEnds

-----------------------------------------------------------------------------
(* Addresses.                                                              *)

(* What is left of an octet after one bit more is cut off it.              *)
LEMMA Halves ==
  ASSUME NEW a \in Nat
  PROVE  /\ a \div 256 = (a \div 128) \div 2 /\ a \div 128 = (a \div 64) \div 2
         /\ a \div 64 = (a \div 32) \div 2   /\ a \div 32 = (a \div 16) \div 2
         /\ a \div 16 = (a \div 8) \div 2    /\ a \div 8 = (a \div 4) \div 2
         /\ a \div 4 = (a \div 2) \div 2     /\ a \div 2 = (a \div 1) \div 2
OBVIOUS

(* A number is what is left of it and the bit cut off.                     *)
LEMMA LastBit ==
  ASSUME NEW q \in Nat, NEW r \in Nat
  PROVE  q = r <=> q \div 2 = r \div 2 /\ q % 2 = r % 2
OBVIOUS

(* What the masks of an octet are.                                         *)
LEMMA Powers ==
  /\ 2 ^ 0 = 1 /\ 2 ^ 1 = 2 /\ 2 ^ 2 = 4 /\ 2 ^ 3 = 8 /\ 2 ^ 4 = 16
  /\ 2 ^ 5 = 32 /\ 2 ^ 6 = 64 /\ 2 ^ 7 = 128 /\ 2 ^ 8 = 256
OBVIOUS

(* The j-th bit of an octet, from the left.                                *)
BitOf(a, j) == (a \div (2 ^ (8 - j))) % 2

(* Its bits, one by one.                                                   *)
LEMMA BitValues ==
  ASSUME NEW a
  PROVE  /\ BitOf(a, 1) = (a \div 128) % 2 /\ BitOf(a, 2) = (a \div 64) % 2
         /\ BitOf(a, 3) = (a \div 32) % 2  /\ BitOf(a, 4) = (a \div 16) % 2
         /\ BitOf(a, 5) = (a \div 8) % 2   /\ BitOf(a, 6) = (a \div 4) % 2
         /\ BitOf(a, 7) = (a \div 2) % 2   /\ BitOf(a, 8) = (a \div 1) % 2
<1>1. /\ 8 - 1 = 7 /\ 8 - 2 = 6 /\ 8 - 3 = 5 /\ 8 - 4 = 4
      /\ 8 - 5 = 3 /\ 8 - 6 = 2 /\ 8 - 7 = 1 /\ 8 - 8 = 0
  OBVIOUS
<1>. QED
  BY <1>1, Powers DEF BitOf

(* Octets have the same leading bits when the rest of both, cut off,       *)
(* leaves the same number (bytesMatch: the mask of the last octet).        *)
LEMMA LeadingBits ==
  ASSUME NEW a \in Octet, NEW b \in Octet, NEW n \in 0..8
  PROVE  (\A j \in 1..n : BitOf(a, j) = BitOf(b, j)) <=> a \div (2 ^ (8 - n)) = b \div (2 ^ (8 - n))
<1>. DEFINE Same(j) == BitOf(a, j) = BitOf(b, j)
<1>1. \A x \in Octet : x \div 1 = x /\ x \div 256 = 0
  BY DEF Octet
<1>2. /\ (a \div 128 = b \div 128 <=> Same(1))
      /\ (a \div 64 = b \div 64 <=> a \div 128 = b \div 128 /\ Same(2))
      /\ (a \div 32 = b \div 32 <=> a \div 64 = b \div 64 /\ Same(3))
      /\ (a \div 16 = b \div 16 <=> a \div 32 = b \div 32 /\ Same(4))
      /\ (a \div 8 = b \div 8 <=> a \div 16 = b \div 16 /\ Same(5))
      /\ (a \div 4 = b \div 4 <=> a \div 8 = b \div 8 /\ Same(6))
      /\ (a \div 2 = b \div 2 <=> a \div 4 = b \div 4 /\ Same(7))
      /\ (a \div 1 = b \div 1 <=> a \div 2 = b \div 2 /\ Same(8))
  <2>1. \A m \in {1, 2, 4, 8, 16, 32, 64, 128} : a \div m \in Nat /\ b \div m \in Nat
    BY DEF Octet
  <2>2. a \in Nat /\ b \in Nat
    BY DEF Octet
  <2>3. \A m \in {1, 2, 4, 8, 16, 32, 64, 128} :
          a \div m = b \div m <=>
            (a \div m) \div 2 = (b \div m) \div 2 /\ (a \div m) % 2 = (b \div m) % 2
    <3>. SUFFICES ASSUME NEW m \in {1, 2, 4, 8, 16, 32, 64, 128}
                  PROVE  a \div m = b \div m <=>
                           /\ (a \div m) \div 2 = (b \div m) \div 2
                           /\ (a \div m) % 2 = (b \div m) % 2
      OBVIOUS
    <3>. DEFINE q == a \div m
                r == b \div m
    <3>1. q \in Nat /\ r \in Nat
      BY <2>1, Zenon
    <3>. HIDE DEF q, r
    <3>2. q = r <=> q \div 2 = r \div 2 /\ q % 2 = r % 2
      BY <3>1, LastBit
    <3>. QED
      BY <3>2 DEF q, r
  <2>4. /\ (Same(1) <=> (a \div 128) % 2 = (b \div 128) % 2)
        /\ (Same(2) <=> (a \div 64) % 2 = (b \div 64) % 2)
        /\ (Same(3) <=> (a \div 32) % 2 = (b \div 32) % 2)
        /\ (Same(4) <=> (a \div 16) % 2 = (b \div 16) % 2)
        /\ (Same(5) <=> (a \div 8) % 2 = (b \div 8) % 2)
        /\ (Same(6) <=> (a \div 4) % 2 = (b \div 4) % 2)
        /\ (Same(7) <=> (a \div 2) % 2 = (b \div 2) % 2)
        /\ (Same(8) <=> (a \div 1) % 2 = (b \div 1) % 2)
    <3>. USE BitValues DEF Same
    <3>1. Same(1) <=> (a \div 128) % 2 = (b \div 128) % 2
      OBVIOUS
    <3>2. Same(2) <=> (a \div 64) % 2 = (b \div 64) % 2
      OBVIOUS
    <3>3. Same(3) <=> (a \div 32) % 2 = (b \div 32) % 2
      OBVIOUS
    <3>4. Same(4) <=> (a \div 16) % 2 = (b \div 16) % 2
      OBVIOUS
    <3>5. Same(5) <=> (a \div 8) % 2 = (b \div 8) % 2
      OBVIOUS
    <3>6. Same(6) <=> (a \div 4) % 2 = (b \div 4) % 2
      OBVIOUS
    <3>7. Same(7) <=> (a \div 2) % 2 = (b \div 2) % 2
      OBVIOUS
    <3>8. Same(8) <=> (a \div 1) % 2 = (b \div 1) % 2
      OBVIOUS
    <3>. QED
      BY <3>1, <3>2, <3>3, <3>4, <3>5, <3>6, <3>7, <3>8
  <2>5. (a \div 128) \div 2 = 0 /\ (b \div 128) \div 2 = 0
    BY <1>1, <2>2, Halves
  <2>. HIDE DEF Same
  <2>6. a \div 128 = b \div 128 <=> Same(1)
    BY <2>3, <2>4, <2>5
  <2>7. a \div 64 = b \div 64 <=> a \div 128 = b \div 128 /\ Same(2)
    BY <2>2, <2>3, <2>4, Halves
  <2>8. a \div 32 = b \div 32 <=> a \div 64 = b \div 64 /\ Same(3)
    BY <2>2, <2>3, <2>4, Halves
  <2>9. a \div 16 = b \div 16 <=> a \div 32 = b \div 32 /\ Same(4)
    BY <2>2, <2>3, <2>4, Halves
  <2>10. a \div 8 = b \div 8 <=> a \div 16 = b \div 16 /\ Same(5)
    BY <2>2, <2>3, <2>4, Halves
  <2>11. a \div 4 = b \div 4 <=> a \div 8 = b \div 8 /\ Same(6)
    BY <2>2, <2>3, <2>4, Halves
  <2>12. a \div 2 = b \div 2 <=> a \div 4 = b \div 4 /\ Same(7)
    BY <2>2, <2>3, <2>4, Halves
  <2>13. a \div 1 = b \div 1 <=> a \div 2 = b \div 2 /\ Same(8)
    BY <2>2, <2>3, <2>4, Halves
  <2>. QED
    BY <2>6, <2>7, <2>8, <2>9, <2>10, <2>11, <2>12, <2>13
<1>. HIDE DEF Same
<1>3. CASE n = 0
  BY <1>1, <1>3, Powers
<1>4. CASE n = 1
  BY <1>2, <1>4, Powers DEF Same
<1>5. CASE n = 2
  BY <1>2, <1>5, Powers DEF Same
<1>6. CASE n = 3
  BY <1>2, <1>6, Powers DEF Same
<1>7. CASE n = 4
  BY <1>2, <1>7, Powers DEF Same
<1>8. CASE n = 5
  BY <1>2, <1>8, Powers DEF Same
<1>9. CASE n = 6
  BY <1>2, <1>9, Powers DEF Same
<1>10. CASE n = 7
  BY <1>2, <1>10, Powers DEF Same
<1>11. CASE n = 8
  BY <1>2, <1>11, Powers DEF Same
<1>. QED
  BY <1>3, <1>4, <1>5, <1>6, <1>7, <1>8, <1>9, <1>10, <1>11

(* The bits of an address are those of its octets.                         *)
LEMMA BitInOctet ==
  ASSUME NEW octets, NEW i \in Nat, NEW j \in 1..8
  PROVE  Bit(octets, 8 * i + j) = BitOf(octets[i + 1], j)
<1>1. (8 * i + j - 1) \div 8 = i /\ (8 * i + j - 1) % 8 = j - 1
  OBVIOUS
<1>2. 7 - (j - 1) = 8 - j
  OBVIOUS
<1>. QED
  BY <1>1, <1>2 DEF Bit, BitOf

(* A block is the octets before its length and the leading bits of the one *)
(* it ends in.                                                             *)
LEMMA BlocksByOctets ==
  ASSUME NEW N \in Nat, NEW bits \in 0..(8 * N), NEW x, NEW y,
         \A i \in 1..N : x[i] \in Octet /\ y[i] \in Octet
  PROVE  InBlock(x, y, bits) <=> BytesMatch(x, y, bits)
<1>. DEFINE full == bits \div 8
            rem == bits % 8
<1>1. full \in Nat /\ rem \in 0..7 /\ bits = 8 * full + rem /\ full <= N
      /\ (rem # 0 => full + 1 <= N)
  OBVIOUS
<1>2. \A k \in 1..bits : \E i \in 0..full, j \in 1..8 :
        k = 8 * i + j /\ (i = full => j <= rem)
  <2>. SUFFICES ASSUME NEW k \in 1..bits
                PROVE  \E i \in 0..full, j \in 1..8 : k = 8 * i + j /\ (i = full => j <= rem)
    OBVIOUS
  <2>. DEFINE i == (k - 1) \div 8
              j == ((k - 1) % 8) + 1
  <2>1. i \in 0..full /\ j \in 1..8 /\ k = 8 * i + j /\ (i = full => j <= rem)
    OBVIOUS
  <2>. QED
    BY <2>1
<1>. HIDE DEF full, rem
<1>3. \A i \in 0..full, j \in 1..8 : (i = full => j <= rem) => 8 * i + j \in 1..bits
  BY <1>1
<1>4. InBlock(x, y, bits) <=>
        \A i \in 0..full, j \in 1..8 : (i = full => j <= rem) =>
          BitOf(x[i + 1], j) = BitOf(y[i + 1], j)
  <2>1. \A i \in 0..full, j \in 1..8 :
          /\ Bit(x, 8 * i + j) = BitOf(x[i + 1], j)
          /\ Bit(y, 8 * i + j) = BitOf(y[i + 1], j)
    BY <1>1, BitInOctet
  <2>. HIDE DEF BitOf
  <2>2. ASSUME InBlock(x, y, bits), NEW i \in 0..full, NEW j \in 1..8, i = full => j <= rem
        PROVE  BitOf(x[i + 1], j) = BitOf(y[i + 1], j)
    <3>1. Bit(x, 8 * i + j) = Bit(y, 8 * i + j)
      BY <1>3, <2>2 DEF InBlock
    <3>. QED
      BY <2>1, <3>1
  <2>3. ASSUME \A i \in 0..full, j \in 1..8 : (i = full => j <= rem) =>
                 BitOf(x[i + 1], j) = BitOf(y[i + 1], j),
               NEW k \in 1..bits
        PROVE  Bit(x, k) = Bit(y, k)
    <3>1. PICK i \in 0..full, j \in 1..8 : k = 8 * i + j /\ (i = full => j <= rem)
      BY <1>2
    <3>2. BitOf(x[i + 1], j) = BitOf(y[i + 1], j)
      BY <2>3, <3>1
    <3>. QED
      BY <2>1, <3>1, <3>2
  <2>. QED
    BY <2>2, <2>3 DEF InBlock
<1>5. ASSUME NEW i \in 0..full, i < full
      PROVE  (\A j \in 1..8 : BitOf(x[i + 1], j) = BitOf(y[i + 1], j)) <=> x[i + 1] = y[i + 1]
  <2>1. x[i + 1] \in Octet /\ y[i + 1] \in Octet
    BY <1>1, <1>5
  <2>2. (\A j \in 1..8 : BitOf(x[i + 1], j) = BitOf(y[i + 1], j))
          <=> x[i + 1] \div (2 ^ (8 - 8)) = y[i + 1] \div (2 ^ (8 - 8))
    <3>1. 8 \in 0..8
      OBVIOUS
    <3>. HIDE DEF BitOf
    <3>. QED
      BY <2>1, <3>1, LeadingBits
  <2>3. \A a \in Octet : a \div (2 ^ (8 - 8)) = a
    <3>1. 8 - 8 = 0 /\ \A a \in Octet : a \div 1 = a
      BY DEF Octet
    <3>. QED
      BY <3>1, Powers
  <2>. HIDE DEF BitOf
  <2>. QED
    BY <2>1, <2>2, <2>3
<1>6. ASSUME rem # 0
      PROVE  (\A j \in 1..rem : BitOf(x[full + 1], j) = BitOf(y[full + 1], j))
               <=> x[full + 1] \div (2 ^ (8 - rem)) = y[full + 1] \div (2 ^ (8 - rem))
  <2>1. x[full + 1] \in Octet /\ y[full + 1] \in Octet /\ rem \in 0..8
    BY <1>1, <1>6
  <2>. QED
    BY <2>1, LeadingBits
<1>7. BytesMatch(x, y, bits) <=>
        /\ \A i \in 1..full : x[i] = y[i]
        /\ rem # 0 => x[full + 1] \div (2 ^ (8 - rem)) = y[full + 1] \div (2 ^ (8 - rem))
  BY DEF BytesMatch, full, rem
<1>8. (\A i \in 1..full : x[i] = y[i]) <=>
      \A i \in 0..full : i < full => x[i + 1] = y[i + 1]
  <2>1. ASSUME \A i \in 0..full : i < full => x[i + 1] = y[i + 1], NEW i \in 1..full
        PROVE  x[i] = y[i]
    <3>1. i - 1 \in 0..full /\ i - 1 < full /\ (i - 1) + 1 = i
      BY <1>1
    <3>. QED
      BY <2>1, <3>1
  <2>2. ASSUME \A i \in 1..full : x[i] = y[i], NEW i \in 0..full, i < full
        PROVE  x[i + 1] = y[i + 1]
    BY <1>1, <2>2
  <2>. QED
    BY <2>1, <2>2
<1>9. (\A i \in 0..full, j \in 1..8 : (i = full => j <= rem) =>
         BitOf(x[i + 1], j) = BitOf(y[i + 1], j))
      <=> /\ \A i \in 0..full : i < full => \A j \in 1..8 : BitOf(x[i + 1], j) = BitOf(y[i + 1], j)
          /\ rem # 0 => \A j \in 1..rem : BitOf(x[full + 1], j) = BitOf(y[full + 1], j)
  <2>1. /\ full \in 0..full /\ \A i \in 0..full : i < full \/ i = full
        /\ \A j \in 1..8 : j <= rem <=> (rem # 0 /\ j \in 1..rem)
        /\ \A j \in 1..rem : j \in 1..8
    BY <1>1
  <2>. HIDE DEF BitOf
  <2>. QED
    BY <2>1
<1>. QED
  BY <1>4, <1>5, <1>6, <1>7, <1>8, <1>9

(* The blocks that end within the first two octets.                        *)
LEMMA FirstOctets ==
  ASSUME NEW x, NEW y, x[1] \in Octet, x[2] \in Octet, y[1] \in Octet, y[2] \in Octet
  PROVE  /\ InBlock(x, y, 4) <=> x[1] \div 16 = y[1] \div 16
         /\ InBlock(x, y, 7) <=> x[1] \div 2 = y[1] \div 2
         /\ InBlock(x, y, 8) <=> x[1] = y[1]
         /\ InBlock(x, y, 10) <=> x[1] = y[1] /\ x[2] \div 64 = y[2] \div 64
         /\ InBlock(x, y, 12) <=> x[1] = y[1] /\ x[2] \div 16 = y[2] \div 16
         /\ InBlock(x, y, 15) <=> x[1] = y[1] /\ x[2] \div 2 = y[2] \div 2
         /\ InBlock(x, y, 16) <=> x[1] = y[1] /\ x[2] = y[2]
<1>1. \A i \in 1..2 : x[i] \in Octet /\ y[i] \in Octet
  OBVIOUS
<1>2. \A bits \in 0..16 : InBlock(x, y, bits) <=> BytesMatch(x, y, bits)
  <2>1. 8 * 2 = 16 /\ 2 \in Nat
    OBVIOUS
  <2>. QED
    BY <1>1, <2>1, BlocksByOctets
<1>3. /\ BytesMatch(x, y, 4) <=> x[1] \div 16 = y[1] \div 16
      /\ BytesMatch(x, y, 7) <=> x[1] \div 2 = y[1] \div 2
  <2>1. /\ 4 \div 8 = 0 /\ 4 % 8 = 4 /\ 7 \div 8 = 0 /\ 7 % 8 = 7
        /\ 8 - 4 = 4 /\ 8 - 7 = 1 /\ 0 + 1 = 1 /\ 1..0 = {}
    OBVIOUS
  <2>. QED
    BY <2>1, Powers DEF BytesMatch
<1>4. BytesMatch(x, y, 8) <=> x[1] = y[1]
  <2>1. 8 \div 8 = 1 /\ 8 % 8 = 0
    OBVIOUS
  <2>. QED
    BY <2>1 DEF BytesMatch
<1>5. /\ BytesMatch(x, y, 10) <=> x[1] = y[1] /\ x[2] \div 64 = y[2] \div 64
      /\ BytesMatch(x, y, 12) <=> x[1] = y[1] /\ x[2] \div 16 = y[2] \div 16
      /\ BytesMatch(x, y, 15) <=> x[1] = y[1] /\ x[2] \div 2 = y[2] \div 2
  <2>1. /\ 10 \div 8 = 1 /\ 10 % 8 = 2 /\ 12 \div 8 = 1 /\ 12 % 8 = 4 /\ 15 \div 8 = 1 /\ 15 % 8 = 7
        /\ 8 - 2 = 6 /\ 8 - 4 = 4 /\ 8 - 7 = 1 /\ 1 + 1 = 2 /\ \A i \in 1..1 : i = 1
    OBVIOUS
  <2>. QED
    BY <2>1, Powers DEF BytesMatch
<1>6. BytesMatch(x, y, 16) <=> x[1] = y[1] /\ x[2] = y[2]
  <2>1. 16 \div 8 = 2 /\ 16 % 8 = 0
    OBVIOUS
  <2>. QED
    BY <2>1 DEF BytesMatch
<1>. QED
  BY <1>2, <1>3, <1>4, <1>5, <1>6

(* A private IPv4 address is in a block that is not the public internet.   *)
LEMMA IPv4Blocks ==
  ASSUME NEW o, DOMAIN o = 1..4, IsOctets(o)
  PROVE  IsPrivateIPv4(o) <=> IsSpecialIPv4(o)
<1>. DEFINE At(a, b, bits) == InBlock(o, <<a, b>>, bits)
            first == o[1]
            second == o[2]
<1>1. first \in Octet /\ second \in Octet
  BY DEF IsOctets
<1>2. \A a, b \in Octet : <<a, b>>[1] = a /\ <<a, b>>[2] = b
  OBVIOUS
<1>3. \A a, b \in Octet : At(a, b, 4) <=> first \div 16 = a \div 16
  BY <1>1, <1>2, FirstOctets
<1>4. \A a, b \in Octet : At(a, b, 8) <=> first = a
  BY <1>1, <1>2, FirstOctets
<1>5. \A a, b \in Octet : At(a, b, 10) <=> first = a /\ second \div 64 = b \div 64
  BY <1>1, <1>2, FirstOctets
<1>6. \A a, b \in Octet : At(a, b, 12) <=> first = a /\ second \div 16 = b \div 16
  BY <1>1, <1>2, FirstOctets
<1>7. \A a, b \in Octet : At(a, b, 15) <=> first = a /\ second \div 2 = b \div 2
  BY <1>1, <1>2, FirstOctets
<1>8. \A a, b \in Octet : At(a, b, 16) <=> first = a /\ second = b
  BY <1>1, <1>2, FirstOctets
<1>9. IsSpecialIPv4(o) <=>
        \/ At(0, 0, 8) \/ At(10, 0, 8) \/ At(127, 0, 8)
        \/ At(100, 64, 10) \/ At(169, 254, 16)
        \/ At(172, 16, 12) \/ At(192, 0, 16)
        \/ At(192, 168, 16) \/ At(198, 18, 15)
        \/ At(224, 0, 4) \/ At(240, 0, 4)
  BY DEF IsSpecialIPv4, SpecialIPv4
<1>. HIDE DEF At, first, second
<1>10. /\ At(0, 0, 8) <=> first = 0
       /\ At(10, 0, 8) <=> first = 10
       /\ At(127, 0, 8) <=> first = 127
  BY <1>4 DEF Octet
<1>11. At(100, 64, 10) <=> first = 100 /\ second \in 64..127
  BY <1>1, <1>5 DEF Octet
<1>12. At(172, 16, 12) <=> first = 172 /\ second \in 16..31
  BY <1>1, <1>6 DEF Octet
<1>13. At(198, 18, 15) <=> first = 198 /\ second \in {18, 19}
  BY <1>1, <1>7 DEF Octet
<1>14. /\ At(169, 254, 16) <=> first = 169 /\ second = 254
       /\ At(192, 0, 16) <=> first = 192 /\ second = 0
       /\ At(192, 168, 16) <=> first = 192 /\ second = 168
  BY <1>8 DEF Octet
<1>15. At(224, 0, 4) \/ At(240, 0, 4) <=> first >= 224
  BY <1>1, <1>3 DEF Octet
<1>. QED
  BY <1>9, <1>10, <1>11, <1>12, <1>13, <1>14, <1>15 DEF IsPrivateIPv4, first, second

-----------------------------------------------------------------------------
(* A group is two octets.                                                  *)
LEMMA OctetsOfGroups ==
  ASSUME NEW g, \A i \in 1..8 : g[i] \in Group
  PROVE  /\ \A i \in 1..16 : OctetsOf(g)[i] \in Octet
         /\ \A i \in 1..8 : /\ OctetsOf(g)[2 * i - 1] = g[i] \div 256
                            /\ OctetsOf(g)[2 * i] = g[i] % 256
<1>. DEFINE Nth(k) ==
                LET v == g[(k + 1) \div 2] IN IF k % 2 = 1 THEN v \div 256 ELSE v % 256
            x == OctetsOf(g)
<1>1. x = [k \in 1..16 |-> Nth(k)]
  BY Zenon DEF OctetsOf
<1>. HIDE DEF Nth, x
<1>2. \A k \in 1..16 : x[k] = Nth(k)
  BY <1>1
<1>3. ASSUME NEW i \in 1..8
      PROVE  Nth(2 * i - 1) = g[i] \div 256 /\ Nth(2 * i) = g[i] % 256
  <2>1. /\ (2 * i - 1) % 2 = 1 /\ (2 * i) % 2 = 0 /\ 0 # 1
        /\ (2 * i - 1 + 1) \div 2 = i /\ (2 * i + 1) \div 2 = i
    OBVIOUS
  <2>. QED
    BY <2>1, Zenon DEF Nth
<1>4. ASSUME NEW i \in 1..8
      PROVE  /\ x[2 * i - 1] = g[i] \div 256 /\ x[2 * i] = g[i] % 256
             /\ x[2 * i - 1] \in Octet /\ x[2 * i] \in Octet
  <2>1. 2 * i - 1 \in 1..16 /\ 2 * i \in 1..16
    OBVIOUS
  <2>2. x[2 * i - 1] = g[i] \div 256 /\ x[2 * i] = g[i] % 256
    BY <1>2, <1>3, <2>1
  <2>3. \A v \in Group : v \div 256 \in Octet /\ v % 256 \in Octet
    BY DEF Octet, Group
  <2>. QED
    BY <2>2, <2>3
<1>5. \A k \in 1..16 : \E i \in 1..8 : k = 2 * i - 1 \/ k = 2 * i
  <2>1. ASSUME NEW k \in 1..16
        PROVE  (k + 1) \div 2 \in 1..8
               /\ (k = 2 * ((k + 1) \div 2) - 1 \/ k = 2 * ((k + 1) \div 2))
    OBVIOUS
  <2>. QED
    BY <2>1, Zenon
<1>6. \A k \in 1..16 : x[k] \in Octet
  BY <1>4, <1>5, Zenon
<1>. QED
  BY <1>4, <1>6, Zenon DEF x

(* The blocks that end with a group.                                       *)
LEMMA GroupBlocks ==
  ASSUME NEW g, NEW p, \A i \in 1..8 : g[i] \in Group /\ p[i] \in Group, NEW n \in 0..8
  PROVE  InBlock(OctetsOf(g), OctetsOf(p), 16 * n) <=> \A i \in 1..n : g[i] = p[i]
<1>. DEFINE x == OctetsOf(g)
            y == OctetsOf(p)
<1>1. /\ \A i \in 1..16 : x[i] \in Octet /\ y[i] \in Octet
      /\ \A i \in 1..8 : /\ x[2 * i - 1] = g[i] \div 256 /\ x[2 * i] = g[i] % 256
                         /\ y[2 * i - 1] = p[i] \div 256 /\ y[2 * i] = p[i] % 256
  BY OctetsOfGroups
<1>. HIDE DEF x, y
<1>2. InBlock(x, y, 16 * n) <=> \A i \in 1..(2 * n) : x[i] = y[i]
  <2>1. 16 * n \in 0..(8 * 16) /\ 16 \in Nat
    OBVIOUS
  <2>2. (16 * n) \div 8 = 2 * n /\ (16 * n) % 8 = 0
    OBVIOUS
  <2>3. InBlock(x, y, 16 * n) <=> BytesMatch(x, y, 16 * n)
    BY <1>1, <2>1, BlocksByOctets
  <2>. QED
    BY <2>2, <2>3 DEF BytesMatch
<1>3. ASSUME \A i \in 1..(2 * n) : x[i] = y[i], NEW i \in 1..n
      PROVE  g[i] = p[i]
  <2>1. i \in 1..8 /\ 2 * i - 1 \in 1..(2 * n) /\ 2 * i \in 1..(2 * n)
    OBVIOUS
  <2>2. g[i] \div 256 = p[i] \div 256 /\ g[i] % 256 = p[i] % 256
    BY <1>1, <1>3, <2>1
  <2>3. \A v, w \in Group : v \div 256 = w \div 256 /\ v % 256 = w % 256 => v = w
    BY DEF Group
  <2>. QED
    BY <2>1, <2>2, <2>3
<1>4. ASSUME \A i \in 1..n : g[i] = p[i], NEW i \in 1..(2 * n)
      PROVE  x[i] = y[i]
  <2>1. PICK j \in 1..n : i = 2 * j - 1 \/ i = 2 * j
    <3>1. (i + 1) \div 2 \in 1..n /\ (i = 2 * ((i + 1) \div 2) - 1 \/ i = 2 * ((i + 1) \div 2))
      OBVIOUS
    <3>. QED
      BY <3>1
  <2>2. j \in 1..8 /\ g[j] = p[j]
    BY <1>4
  <2>. QED
    BY <1>1, <2>1, <2>2
<1>. QED
  BY <1>2, <1>3, <1>4 DEF x, y

(* What the text of an address starts with, by its groups.                 *)
LEMMA StartsWithGroups ==
  ASSUME NEW g \in [1..8 -> Group], NEW n \in 1..8, NEW p \in Seq(Nat), Len(p) = n
  PROVE  StartsWith(g, p) <=> \A i \in 1..n : g[i] = p[i]
<1>1. SubSeq(g, 1, n) = [i \in 1..n |-> g[i]]
  OBVIOUS
<1>2. p = [i \in 1..n |-> p[i]]
  OBVIOUS
<1>. QED
  BY <1>1, <1>2 DEF StartsWith

(* Three texts in a row have their lengths together.                       *)
LEMMA ThreeLengths ==
  ASSUME NEW a \in Seq(Nat), NEW z \in Seq(Nat), NEW b \in Seq(Nat)
  PROVE  a \o z \o b \in Seq(Nat) /\ Len(a \o z \o b) = Len(a) + Len(z) + Len(b)
<1>1. a \o z \in Seq(Nat) /\ Len(a \o z) = Len(a) + Len(z)
  OBVIOUS
<1>. DEFINE az == a \o z
<1>. HIDE DEF az
<1>2. az \o b \in Seq(Nat) /\ Len(az \o b) = Len(az) + Len(b)
  BY <1>1 DEF az
<1>. QED
  BY <1>1, <1>2 DEF az

(* The elements of three sequences in a row.                               *)
LEMMA ThreeParts ==
  ASSUME NEW a \in Seq(Nat), NEW z \in Seq(Nat), NEW b \in Seq(Nat)
  PROVE  /\ a \o z \o b \in Seq(Nat)
         /\ Len(a \o z \o b) = Len(a) + Len(z) + Len(b)
         /\ \A i \in 1..(Len(a) + Len(z) + Len(b)) :
              (a \o z \o b)[i] = IF i <= Len(a) THEN a[i]
                                 ELSE IF i <= Len(a) + Len(z) THEN z[i - Len(a)]
                                 ELSE b[i - (Len(a) + Len(z))]
<1>1. a \o z \in Seq(Nat) /\ Len(a \o z) = Len(a) + Len(z)
  OBVIOUS
<1>2. \A i \in 1..(Len(a) + Len(z)) : (a \o z)[i] = IF i <= Len(a) THEN a[i] ELSE z[i - Len(a)]
  OBVIOUS
<1>. DEFINE az == a \o z
<1>. HIDE DEF az
<1>3. az \o b \in Seq(Nat) /\ Len(az \o b) = Len(az) + Len(b)
  BY <1>1 DEF az
<1>4. \A i \in 1..(Len(az) + Len(b)) : (az \o b)[i] = IF i <= Len(az) THEN az[i] ELSE b[i - Len(az)]
  BY <1>1 DEF az
<1>5. ASSUME NEW i \in 1..(Len(a) + Len(z) + Len(b))
      PROVE  (az \o b)[i] = IF i <= Len(a) THEN a[i]
                             ELSE IF i <= Len(a) + Len(z) THEN z[i - Len(a)]
                             ELSE b[i - (Len(a) + Len(z))]
  <2>1. Len(az) = Len(a) + Len(z) /\ Len(a) \in Nat /\ Len(z) \in Nat /\ Len(b) \in Nat
    BY <1>1 DEF az
  <2>2. CASE i <= Len(a) + Len(z)
    <3>1. az[i] = IF i <= Len(a) THEN a[i] ELSE z[i - Len(a)]
      BY <1>2, <2>1, <2>2 DEF az
    <3>. QED
      BY <1>4, <2>1, <2>2, <3>1
  <2>3. CASE ~(i <= Len(a) + Len(z))
    BY <1>4, <2>1, <2>3
  <2>. QED
    BY <2>2, <2>3
<1>. QED
  BY <1>1, <1>3, <1>5 DEF az

(* What a text stands for is what it is expanded to.                       *)
LEMMA Expanded ==
  ASSUME NEW text, text.left \in Seq(Nat), text.right \in Seq(Nat), text.gap \in BOOLEAN,
         ~text.gap => text.right = <<>>
  PROVE  Normalize(text) = IF IsAddress(text) THEN Meant(text) ELSE Malformed
<1>. DEFINE l == Len(text.left)
            r == Len(text.right)
            missing == 8 - l - r
            zeros == [i \in 1..missing |-> 0]
            groups == text.left \o zeros \o text.right
            long == missing < 0 \/ (~text.gap /\ missing # 0)
            g == Meant(text)
<1>1. l \in Nat /\ r \in Nat /\ (~text.gap => r = 0)
  OBVIOUS
<1>2. Normalize(text) = IF long THEN Malformed
                        ELSE IF \E i \in DOMAIN groups : groups[i] \notin Group THEN Malformed
                        ELSE groups
  BY Zenon DEF Normalize
<1>3. g = [i \in 1..8 |-> IF i <= l THEN text.left[i]
                          ELSE IF i > 8 - r THEN text.right[i - 8 + r] ELSE 0]
  BY Zenon DEF Meant
<1>4. IsAddress(text) <=> (IF text.gap THEN l + r <= 8 ELSE l = 8) /\ \A i \in 1..8 : g[i] \in Group
  BY Zenon DEF IsAddress
<1>. HIDE DEF g
<1>5. CASE long
  <2>1. ~(IF text.gap THEN l + r <= 8 ELSE l = 8)
    <3>. HIDE DEF l, r
    <3>. QED
      BY <1>1, <1>5
  <2>. QED
    BY <1>2, <1>4, <1>5, <2>1, Zenon
<1>6. CASE ~long
  <2>1. /\ (IF text.gap THEN l + r <= 8 ELSE l = 8)
        /\ missing \in Nat /\ l + missing + r = 8 /\ 8 - r = l + missing
    <3>. HIDE DEF l, r
    <3>. QED
      BY <1>1, <1>6
  <2>2. zeros \in Seq(Nat) /\ Len(zeros) = missing /\ \A i \in 1..missing : zeros[i] = 0
    <3>. HIDE DEF missing
    <3>. QED
      BY <2>1
  <2>. HIDE DEF missing, zeros, l, r
  <2>3. /\ groups \in Seq(Nat) /\ Len(groups) = 8
        /\ \A i \in 1..8 : groups[i] = IF i <= l THEN text.left[i]
                                       ELSE IF i > 8 - r THEN text.right[i - 8 + r] ELSE 0
    <3>1. /\ groups \in Seq(Nat) /\ Len(groups) = l + missing + r
          /\ \A i \in 1..(l + missing + r) :
               groups[i] = IF i <= l THEN text.left[i]
                           ELSE IF i <= l + missing THEN zeros[i - l]
                           ELSE text.right[i - (l + missing)]
      <4>. DEFINE a == text.left
                  b == text.right
      <4>1. a \in Seq(Nat) /\ zeros \in Seq(Nat) /\ b \in Seq(Nat) /\ Len(zeros) = missing
        BY <2>2
      <4>. HIDE DEF a, b
      <4>2. /\ a \o zeros \o b \in Seq(Nat)
            /\ Len(a \o zeros \o b) = Len(a) + Len(zeros) + Len(b)
        BY <4>1, ThreeLengths
      <4>3. \A i \in 1..(Len(a) + Len(zeros) + Len(b)) :
              (a \o zeros \o b)[i] = IF i <= Len(a) THEN a[i]
                                     ELSE IF i <= Len(a) + Len(zeros) THEN zeros[i - Len(a)]
                                     ELSE b[i - (Len(a) + Len(zeros))]
        <5>. DEFINE c == a \o zeros \o b
                    Part(i) == IF i <= Len(a) THEN a[i]
                               ELSE IF i <= Len(a) + Len(zeros) THEN zeros[i - Len(a)]
                               ELSE b[i - (Len(a) + Len(zeros))]
        <5>1. \A i \in 1..(Len(a) + Len(zeros) + Len(b)) : c[i] = Part(i)
          BY <4>1, ThreeParts, ZenonT(40)
        <5>. QED
          BY <5>1
      <4>. QED
        BY <4>1, <4>2, <4>3, Zenon DEF l, r, a, b
    <3>. HIDE DEF groups
    <3>2. ASSUME NEW i \in 1..8
          PROVE  /\ (i <= l + missing /\ ~(i <= l) => zeros[i - l] = 0)
                 /\ (i > 8 - r <=> ~(i <= l + missing)) /\ i - (l + missing) = i - 8 + r
                 /\ (i <= l => i <= l + missing)
      BY <1>1, <2>1, <2>2
    <3>3. ASSUME NEW i \in 1..8
          PROVE  groups[i] = IF i <= l THEN text.left[i]
                             ELSE IF i > 8 - r THEN text.right[i - 8 + r] ELSE 0
      BY <2>1, <3>1, <3>2, Zenon
    <3>. QED
      BY <2>1, <3>1, <3>3, Zenon
  <2>. HIDE DEF groups
  <2>4. groups = g /\ DOMAIN groups = 1..8
    <3>1. groups = [i \in 1..8 |-> groups[i]]
      BY <2>3
    <3>. QED
      BY <1>3, <2>3, <3>1, Zenon
  <2>5. (\E i \in DOMAIN groups : groups[i] \notin Group) <=> ~\A i \in 1..8 : g[i] \in Group
    BY <2>4, Zenon
  <2>6. CASE IsAddress(text)
    BY <1>2, <1>4, <1>6, <2>4, <2>5, <2>6, Zenon DEF g
  <2>7. CASE ~IsAddress(text)
    BY <1>2, <1>4, <1>6, <2>1, <2>5, <2>7, Zenon
  <2>. QED
    BY <2>6, <2>7, Zenon DEF g
<1>. QED
  BY <1>5, <1>6 DEF g

-----------------------------------------------------------------------------
(* The groups an IPv6 address is private by, and those that say an IPv4    *)
(* address is in it.                                                       *)
Unrouted(g) == (\A i \in 1..7 : g[i] = 0) /\ g[8] \in {0, 1}
Carries(g) ==
  \/ g[1] = 0 /\ g[2] = 0 /\ g[3] = 0 /\ g[4] = 0 /\ g[5] = 0 /\ g[6] = 65535
  \/ g[1] = 0 /\ g[2] = 0 /\ g[3] = 0 /\ g[4] = 0 /\ g[5] = 65535 /\ g[6] = 0
  \/ g[1] = 100 /\ g[2] = 65435 /\ g[3] = 0 /\ g[4] = 0 /\ g[5] = 0 /\ g[6] = 0

(* Eight groups are a sequence, and not what stands for no address.        *)
LEMMA GroupsInARow ==
  ASSUME NEW g \in [1..8 -> Group]
  PROVE  g \in Seq(Nat) /\ Len(g) = 8 /\ g # Malformed
<1>1. \A v \in Group : v \in Nat
  BY DEF Group
<1>2. g \in [1..8 -> Nat] /\ DOMAIN g = 1..8
  BY <1>1
<1>3. g \in Seq(Nat) /\ Len(g) = 8
  <2>1. g = [i \in 1..8 |-> g[i]] /\ \A i \in 1..8 : g[i] \in Nat
    BY <1>2
  <2>2. [i \in 1..8 |-> g[i]] \in Seq(Nat) /\ Len([i \in 1..8 |-> g[i]]) = 8
    BY <2>1
  <2>. QED
    BY <2>1, <2>2, Zenon
<1>4. Len(<<>>) = 0 /\ 0 # 8
  OBVIOUS
<1>. QED
  BY <1>3, <1>4, Zenon DEF Malformed

(* isPrivateIPv6, by the groups of the address: what its order of the      *)
(* checks comes to.                                                        *)
LEMMA PrivateByGroups ==
  ASSUME NEW g \in [1..8 -> Group], NEW text, Normalize(text) = g
  PROVE  IsPrivateIPv6(text) <=>
           \/ Unrouted(g)
           \/ Carries(g) /\ IsPrivateIPv4(Embedded(g[7], g[8]))
           \/ g[1] = 8194 /\ IsPrivateIPv4(Embedded(g[2], g[3]))
           \/ IsReserved(g)
<1>1. g # Malformed
  BY GroupsInARow
<1>2. g \in {<<0, 0, 0, 0, 0, 0, 0, 1>>, <<0, 0, 0, 0, 0, 0, 0, 0>>} <=> Unrouted(g)
  <2>1. ASSUME NEW n \in {0, 1}
        PROVE  g = <<0, 0, 0, 0, 0, 0, 0, n>> <=> (\A i \in 1..7 : g[i] = 0) /\ g[8] = n
    OBVIOUS
  <2>. QED
    BY <2>1 DEF Unrouted
<1>3. EndsInIPv4(g) <=> Carries(g)
  <2>1. StartsWith(g, <<0, 0, 0, 0, 0, 65535>>) <=>
          g[1] = 0 /\ g[2] = 0 /\ g[3] = 0 /\ g[4] = 0 /\ g[5] = 0 /\ g[6] = 65535
    <3>. DEFINE p == <<0, 0, 0, 0, 0, 65535>>
    <3>1. p \in Seq(Nat) /\ Len(p) = 6 /\ 6 \in 1..8
      OBVIOUS
    <3>2. p[1] = 0 /\ p[2] = 0 /\ p[3] = 0 /\ p[4] = 0 /\ p[5] = 0 /\ p[6] = 65535
      OBVIOUS
    <3>. HIDE DEF p
    <3>3. StartsWith(g, p) <=> \A i \in 1..6 : g[i] = p[i]
      BY <3>1, StartsWithGroups
    <3>. QED
      BY <3>2, <3>3 DEF p
  <2>2. StartsWith(g, <<0, 0, 0, 0, 65535, 0>>) <=>
          g[1] = 0 /\ g[2] = 0 /\ g[3] = 0 /\ g[4] = 0 /\ g[5] = 65535 /\ g[6] = 0
    <3>. DEFINE p == <<0, 0, 0, 0, 65535, 0>>
    <3>1. p \in Seq(Nat) /\ Len(p) = 6 /\ 6 \in 1..8
      OBVIOUS
    <3>2. p[1] = 0 /\ p[2] = 0 /\ p[3] = 0 /\ p[4] = 0 /\ p[5] = 65535 /\ p[6] = 0
      OBVIOUS
    <3>. HIDE DEF p
    <3>3. StartsWith(g, p) <=> \A i \in 1..6 : g[i] = p[i]
      BY <3>1, StartsWithGroups
    <3>. QED
      BY <3>2, <3>3 DEF p
  <2>3. StartsWith(g, <<100, 65435, 0, 0, 0, 0>>) <=>
          g[1] = 100 /\ g[2] = 65435 /\ g[3] = 0 /\ g[4] = 0 /\ g[5] = 0 /\ g[6] = 0
    <3>. DEFINE p == <<100, 65435, 0, 0, 0, 0>>
    <3>1. p \in Seq(Nat) /\ Len(p) = 6 /\ 6 \in 1..8
      OBVIOUS
    <3>2. p[1] = 100 /\ p[2] = 65435 /\ p[3] = 0 /\ p[4] = 0 /\ p[5] = 0 /\ p[6] = 0
      OBVIOUS
    <3>. HIDE DEF p
    <3>3. StartsWith(g, p) <=> \A i \in 1..6 : g[i] = p[i]
      BY <3>1, StartsWithGroups
    <3>. QED
      BY <3>2, <3>3 DEF p
  <2>. QED
    BY <2>1, <2>2, <2>3 DEF EndsInIPv4, Carries
<1>4. StartsWith(g, <<8194>>) <=> g[1] = 8194
  <2>. DEFINE p == <<8194>>
  <2>1. p \in Seq(Nat) /\ Len(p) = 1 /\ p[1] = 8194
    OBVIOUS
  <2>. HIDE DEF p
  <2>2. StartsWith(g, p) <=> \A i \in 1..1 : g[i] = p[i]
    BY <2>1, StartsWithGroups
  <2>. QED
    BY <2>1, <2>2 DEF p
<1>5. IsPrivateIPv6(text) <=>
        IF Unrouted(g) THEN TRUE
        ELSE IF Carries(g) THEN IsPrivateIPv4(Embedded(g[7], g[8]))
        ELSE IF g[1] = 8194 THEN IsPrivateIPv4(Embedded(g[2], g[3]))
        ELSE IsReserved(g)
  <2>1. IsPrivateIPv6(text) <=>
          IF g = Malformed \/ g \in {<<0, 0, 0, 0, 0, 0, 0, 1>>, <<0, 0, 0, 0, 0, 0, 0, 0>>} THEN TRUE
          ELSE IF EndsInIPv4(g) THEN IsPrivateIPv4(Embedded(g[7], g[8]))
          ELSE IF StartsWith(g, <<8194>>) THEN IsPrivateIPv4(Embedded(g[2], g[3]))
          ELSE IsReserved(g)
    BY DEF IsPrivateIPv6
  <2>. QED
    BY <1>1, <1>2, <1>3, <1>4, <2>1
<1>6. /\ Carries(g) => g[1] # 8194 /\ ~IsReserved(g)
      /\ g[1] = 8194 => ~IsReserved(g)
  <2>1. g[1] \in {0, 100, 8194} => ~IsReserved(g)
    <3>. DEFINE p == <<8193, 3512>>
    <3>1. p \in Seq(Nat) /\ Len(p) = 2 /\ p[1] = 8193
      OBVIOUS
    <3>. HIDE DEF p
    <3>2. StartsWith(g, p) => g[1] = 8193
      BY <3>1, StartsWithGroups
    <3>. QED
      BY <3>2 DEF p, IsReserved
  <2>. QED
    BY <2>1 DEF Carries
<1>7. CASE Unrouted(g)
  BY <1>5, <1>7
<1>8. CASE ~Unrouted(g) /\ Carries(g)
  BY <1>5, <1>6, <1>8
<1>9. CASE ~Unrouted(g) /\ ~Carries(g) /\ g[1] = 8194
  BY <1>5, <1>6, <1>9
<1>10. CASE ~Unrouted(g) /\ ~Carries(g) /\ g[1] # 8194
  BY <1>5, <1>10
<1>. QED
  BY <1>7, <1>8, <1>9, <1>10

-----------------------------------------------------------------------------
(* The octets of a prefix.                                                 *)
LEMMA PrefixGroups ==
  ASSUME NEW p \in Seq(Group), Len(p) <= 8, NEW n \in Group
  PROVE  \E q \in [1..8 -> Group] :
           /\ Groups(p, n) = OctetsOf(q)
           /\ \A i \in 1..8 : q[i] = IF i <= Len(p) THEN p[i] ELSE IF i = 8 THEN n ELSE 0
<1>. DEFINE q == [i \in 1..8 |-> IF i \in DOMAIN p THEN p[i] ELSE IF i = 8 THEN n ELSE 0]
<1>1. 0 \in Group
  BY DEF Group
<1>2. \A i \in 1..8 : i \in DOMAIN p <=> i <= Len(p)
  OBVIOUS
<1>3. \A i \in DOMAIN p : p[i] \in Group
  OBVIOUS
<1>4. q \in [1..8 -> Group]
  BY <1>1, <1>3
<1>5. \A i \in 1..8 : q[i] = IF i <= Len(p) THEN p[i] ELSE IF i = 8 THEN n ELSE 0
  BY <1>2
<1>6. Groups(p, n) = OctetsOf(q)
  BY Zenon DEF Groups
<1>. HIDE DEF q
<1>. QED
  BY <1>4, <1>5, <1>6

(* The first k groups are those of the prefix.                             *)
StartsAs(g, p, n, k) == \A i \in 1..k : g[i] = IF i <= Len(p) THEN p[i] ELSE IF i = 8 THEN n ELSE 0

(* The blocks of a prefix that end with a group.                           *)
LEMMA PrefixBlock ==
  ASSUME NEW g \in [1..8 -> Group], NEW p \in Seq(Group), Len(p) <= 8, NEW n \in Group,
         NEW k \in 0..8
  PROVE  InBlock(OctetsOf(g), Groups(p, n), 16 * k) <=> StartsAs(g, p, n, k)
<1>1. PICK q \in [1..8 -> Group] :
        /\ Groups(p, n) = OctetsOf(q)
        /\ \A i \in 1..8 : q[i] = IF i <= Len(p) THEN p[i] ELSE IF i = 8 THEN n ELSE 0
  BY PrefixGroups
<1>2. \A i \in 1..8 : g[i] \in Group /\ q[i] \in Group
  OBVIOUS
<1>3. InBlock(OctetsOf(g), OctetsOf(q), 16 * k) <=> \A i \in 1..k : g[i] = q[i]
  BY <1>2, GroupBlocks
<1>4. \A i \in 1..k : i \in 1..8
  OBVIOUS
<1>. QED
  BY <1>1, <1>3, <1>4, Zenon DEF StartsAs

(* The octets of a prefix of one group.                                    *)
LEMMA PrefixFirst ==
  ASSUME NEW v \in Group
  PROVE  /\ Groups(<<v>>, 0)[1] = v \div 256 /\ Groups(<<v>>, 0)[2] = v % 256
         /\ v \div 256 \in Octet /\ v % 256 \in Octet
<1>. DEFINE p == <<v>>
<1>1. p \in Seq(Group) /\ Len(p) = 1 /\ Len(p) <= 8 /\ 1 <= Len(p) /\ p[1] = v
  OBVIOUS
<1>. HIDE DEF p
<1>2. 0 \in Group /\ 1 \in 1..8
  BY DEF Group
<1>3. PICK q \in [1..8 -> Group] :
        /\ Groups(p, 0) = OctetsOf(q)
        /\ \A i \in 1..8 : q[i] = IF i <= Len(p) THEN p[i] ELSE IF i = 8 THEN 0 ELSE 0
  BY <1>1, <1>2, PrefixGroups
<1>4. q[1] = v
  BY <1>1, <1>2, <1>3, Zenon
<1>5. \A i \in 1..8 : q[i] \in Group
  OBVIOUS
<1>6. OctetsOf(q)[2 * 1 - 1] = q[1] \div 256 /\ OctetsOf(q)[2 * 1] = q[1] % 256
  BY <1>2, <1>5, OctetsOfGroups
<1>7. 2 * 1 - 1 = 1 /\ 2 * 1 = 2
  OBVIOUS
<1>. QED
  BY <1>3, <1>4, <1>6, <1>7 DEF p, Group, Octet

-----------------------------------------------------------------------------
(* The blocks an IPv6 address is in, by its groups.                        *)
LEMMA SpecialByGroups ==
  ASSUME NEW g \in [1..8 -> Group]
  PROVE  IsSpecialIPv6(OctetsOf(g)) <=>
           \/ Unrouted(g)
           \/ Carries(g) /\ IsSpecialIPv4(Embedded(g[7], g[8]))
           \/ g[1] = 8194 /\ IsSpecialIPv4(Embedded(g[2], g[3]))
           \/ IsReserved(g)
<1>. DEFINE x == OctetsOf(g)
<1>1. 0 \in Group /\ 1 \in Group
  BY DEF Group
<1>. HIDE DEF x
<1>2. InBlock(x, Groups(<<>>, 1), 128) <=>
        g[1] = 0 /\ g[2] = 0 /\ g[3] = 0 /\ g[4] = 0 /\ g[5] = 0 /\ g[6] = 0 /\ g[7] = 0 /\ g[8] = 1
  <2>. DEFINE p == <<>>
  <2>1. p \in Seq(Group) /\ Len(p) = 0 /\ Len(p) <= 8
    BY DEF Group
  <2>. HIDE DEF p
  <2>2. 8 \in 0..8 /\ 128 = 16 * 8
    OBVIOUS
  <2>3. InBlock(x, Groups(p, 1), 16 * 8) <=> StartsAs(g, p, 1, 8)
    BY <1>1, <2>1, <2>2, PrefixBlock DEF x
  <2>. QED
    BY <2>1, <2>2, <2>3 DEF p, StartsAs
<1>3. InBlock(x, Groups(<<>>, 0), 128) <=>
        g[1] = 0 /\ g[2] = 0 /\ g[3] = 0 /\ g[4] = 0 /\ g[5] = 0 /\ g[6] = 0 /\ g[7] = 0 /\ g[8] = 0
  <2>. DEFINE p == <<>>
  <2>1. p \in Seq(Group) /\ Len(p) = 0 /\ Len(p) <= 8
    BY DEF Group
  <2>. HIDE DEF p
  <2>2. 8 \in 0..8 /\ 128 = 16 * 8
    OBVIOUS
  <2>3. InBlock(x, Groups(p, 0), 16 * 8) <=> StartsAs(g, p, 0, 8)
    BY <1>1, <2>1, <2>2, PrefixBlock DEF x
  <2>. QED
    BY <2>1, <2>2, <2>3 DEF p, StartsAs
<1>4. InBlock(x, Groups(<<8193, 3512>>, 0), 32) <=>
        g[1] = 8193 /\ g[2] = 3512
  <2>. DEFINE p == <<8193, 3512>>
  <2>1. p \in Seq(Group) /\ Len(p) = 2 /\ Len(p) <= 8
    BY DEF Group
  <2>4. p[1] = 8193 /\ p[2] = 3512
    OBVIOUS
  <2>. HIDE DEF p
  <2>2. 2 \in 0..8 /\ 32 = 16 * 2
    OBVIOUS
  <2>3. InBlock(x, Groups(p, 0), 16 * 2) <=> StartsAs(g, p, 0, 2)
    BY <1>1, <2>1, <2>2, PrefixBlock DEF x
  <2>. QED
    BY <2>1, <2>2, <2>3, <2>4 DEF p, StartsAs
<1>5. InBlock(x, Groups(<<0, 0, 0, 0, 0, 65535>>, 0), 96) <=>
        g[1] = 0 /\ g[2] = 0 /\ g[3] = 0 /\ g[4] = 0 /\ g[5] = 0 /\ g[6] = 65535
  <2>. DEFINE p == <<0, 0, 0, 0, 0, 65535>>
  <2>1. p \in Seq(Group) /\ Len(p) = 6 /\ Len(p) <= 8
    BY DEF Group
  <2>4. p[1] = 0 /\ p[2] = 0 /\ p[3] = 0 /\ p[4] = 0 /\ p[5] = 0 /\ p[6] = 65535
    OBVIOUS
  <2>. HIDE DEF p
  <2>2. 6 \in 0..8 /\ 96 = 16 * 6
    OBVIOUS
  <2>3. InBlock(x, Groups(p, 0), 16 * 6) <=> StartsAs(g, p, 0, 6)
    BY <1>1, <2>1, <2>2, PrefixBlock DEF x
  <2>. QED
    BY <2>1, <2>2, <2>3, <2>4 DEF p, StartsAs
<1>6. InBlock(x, Groups(<<0, 0, 0, 0, 65535>>, 0), 96) <=>
        g[1] = 0 /\ g[2] = 0 /\ g[3] = 0 /\ g[4] = 0 /\ g[5] = 65535 /\ g[6] = 0
  <2>. DEFINE p == <<0, 0, 0, 0, 65535>>
  <2>1. p \in Seq(Group) /\ Len(p) = 5 /\ Len(p) <= 8
    BY DEF Group
  <2>4. p[1] = 0 /\ p[2] = 0 /\ p[3] = 0 /\ p[4] = 0 /\ p[5] = 65535
    OBVIOUS
  <2>. HIDE DEF p
  <2>2. 6 \in 0..8 /\ 96 = 16 * 6
    OBVIOUS
  <2>3. InBlock(x, Groups(p, 0), 16 * 6) <=> StartsAs(g, p, 0, 6)
    BY <1>1, <2>1, <2>2, PrefixBlock DEF x
  <2>. QED
    BY <2>1, <2>2, <2>3, <2>4 DEF p, StartsAs
<1>7. InBlock(x, Groups(<<100, 65435>>, 0), 96) <=>
        g[1] = 100 /\ g[2] = 65435 /\ g[3] = 0 /\ g[4] = 0 /\ g[5] = 0 /\ g[6] = 0
  <2>. DEFINE p == <<100, 65435>>
  <2>1. p \in Seq(Group) /\ Len(p) = 2 /\ Len(p) <= 8
    BY DEF Group
  <2>4. p[1] = 100 /\ p[2] = 65435
    OBVIOUS
  <2>. HIDE DEF p
  <2>2. 6 \in 0..8 /\ 96 = 16 * 6
    OBVIOUS
  <2>3. InBlock(x, Groups(p, 0), 16 * 6) <=> StartsAs(g, p, 0, 6)
    BY <1>1, <2>1, <2>2, PrefixBlock DEF x
  <2>. QED
    BY <2>1, <2>2, <2>3, <2>4 DEF p, StartsAs
<1>8. InBlock(x, Groups(<<8194>>, 0), 16) <=>
        g[1] = 8194
  <2>. DEFINE p == <<8194>>
  <2>1. p \in Seq(Group) /\ Len(p) = 1 /\ Len(p) <= 8
    BY DEF Group
  <2>4. p[1] = 8194
    OBVIOUS
  <2>. HIDE DEF p
  <2>2. 1 \in 0..8 /\ 16 = 16 * 1
    OBVIOUS
  <2>3. InBlock(x, Groups(p, 0), 16 * 1) <=> StartsAs(g, p, 0, 1)
    BY <1>1, <2>1, <2>2, PrefixBlock DEF x
  <2>. QED
    BY <2>1, <2>2, <2>3, <2>4 DEF p, StartsAs
<1>9. /\ x[1] = g[1] \div 256 /\ x[2] = g[1] % 256
      /\ x[1] \in Octet /\ x[2] \in Octet /\ g[1] \in Group
  <2>1. \A i \in 1..8 : g[i] \in Group
    OBVIOUS
  <2>2. x[2 * 1 - 1] = g[1] \div 256 /\ x[2 * 1] = g[1] % 256
    <3>1. 1 \in 1..8
      OBVIOUS
    <3>. QED
      BY <2>1, <3>1, OctetsOfGroups DEF x
  <2>3. 2 * 1 - 1 = 1 /\ 2 * 1 = 2
    OBVIOUS
  <2>. QED
    BY <2>1, <2>2, <2>3 DEF Octet, Group
<1>10. ASSUME NEW v \in Group
       PROVE  /\ InBlock(x, Groups(<<v>>, 0), 7) <=> x[1] \div 2 = (v \div 256) \div 2
              /\ InBlock(x, Groups(<<v>>, 0), 8) <=> x[1] = v \div 256
              /\ InBlock(x, Groups(<<v>>, 0), 10) <=>
                   x[1] = v \div 256 /\ x[2] \div 64 = (v % 256) \div 64
  <2>. DEFINE y == Groups(<<v>>, 0)
  <2>1. y[1] = v \div 256 /\ y[2] = v % 256 /\ y[1] \in Octet /\ y[2] \in Octet
    BY PrefixFirst
  <2>. HIDE DEF y
  <2>2. /\ InBlock(x, y, 7) <=> x[1] \div 2 = y[1] \div 2
        /\ InBlock(x, y, 8) <=> x[1] = y[1]
        /\ InBlock(x, y, 10) <=> x[1] = y[1] /\ x[2] \div 64 = y[2] \div 64
    BY <1>9, <2>1, FirstOctets
  <2>. QED
    BY <2>1, <2>2 DEF y
<1>11. ASSUME NEW v, v = 64512
       PROVE  InBlock(x, Groups(<<v>>, 0), 7) <=> (g[1] \div 4096) = 15 /\ (g[1] \div 256) % 16 \in {12, 13}
  <2>1. v \in Group
    BY <1>11 DEF Group
  <2>2. InBlock(x, Groups(<<v>>, 0), 7) <=> x[1] \div 2 = (v \div 256) \div 2
    BY <1>10, <2>1
  <2>. QED
    BY <1>9, <1>11, <2>2 DEF Group
<1>12. ASSUME NEW v, v = 65280
       PROVE  InBlock(x, Groups(<<v>>, 0), 8) <=> g[1] \div 256 = 255
  <2>1. v \in Group
    BY <1>12 DEF Group
  <2>2. InBlock(x, Groups(<<v>>, 0), 8) <=> x[1] = v \div 256
    BY <1>10, <2>1
  <2>. QED
    BY <1>9, <1>12, <2>2 DEF Group
<1>13. ASSUME NEW v, v = 65152
       PROVE  InBlock(x, Groups(<<v>>, 0), 10) <=> g[1] \div 16 \in 4072..4075
  <2>1. v \in Group
    BY <1>13 DEF Group
  <2>2. InBlock(x, Groups(<<v>>, 0), 10) <=> x[1] = v \div 256 /\ x[2] \div 64 = (v % 256) \div 64
    BY <1>10, <2>1
  <2>. QED
    BY <1>9, <1>13, <2>2 DEF Group
<1>14. ASSUME NEW v, v = 65216
       PROVE  InBlock(x, Groups(<<v>>, 0), 10) <=> g[1] \div 16 \in 4076..4079
  <2>1. v \in Group
    BY <1>14 DEF Group
  <2>2. InBlock(x, Groups(<<v>>, 0), 10) <=> x[1] = v \div 256 /\ x[2] \div 64 = (v % 256) \div 64
    BY <1>10, <2>1
  <2>. QED
    BY <1>9, <1>14, <2>2 DEF Group
<1>15. IsReserved(g) <=>
         \/ g[1] = 8193 /\ g[2] = 3512
         \/ g[1] \div 16 \in 4072..4079
         \/ (g[1] \div 4096) = 15 /\ (g[1] \div 256) % 16 \in {12, 13}
         \/ g[1] \div 256 = 255
  <2>. DEFINE p == <<8193, 3512>>
  <2>1. p \in Seq(Nat) /\ Len(p) = 2 /\ p[1] = 8193 /\ p[2] = 3512
    OBVIOUS
  <2>. HIDE DEF p
  <2>2. StartsWith(g, p) <=> \A i \in 1..2 : g[i] = p[i]
    BY <2>1, StartsWithGroups
  <2>3. StartsWith(g, <<8193, 3512>>) <=> g[1] = 8193 /\ g[2] = 3512
    BY <2>1, <2>2 DEF p
  <2>. QED
    BY <2>3 DEF IsReserved
<1>16. /\ SubSeq(x, 12 + 1, 12 + 4) = Embedded(g[7], g[8])
       /\ SubSeq(x, 2 + 1, 2 + 4) = Embedded(g[2], g[3])
  <2>1. \A i \in 1..8 : g[i] \in Group
    OBVIOUS
  <2>2. /\ x[3] = g[2] \div 256 /\ x[4] = g[2] % 256
        /\ x[5] = g[3] \div 256 /\ x[6] = g[3] % 256
        /\ x[13] = g[7] \div 256 /\ x[14] = g[7] % 256
        /\ x[15] = g[8] \div 256 /\ x[16] = g[8] % 256
    <3>1. \A i \in 1..8 : x[2 * i - 1] = g[i] \div 256 /\ x[2 * i] = g[i] % 256
      BY <2>1, OctetsOfGroups DEF x
    <3>2. /\ 2 \in 1..8 /\ 3 \in 1..8 /\ 7 \in 1..8 /\ 8 \in 1..8
          /\ 2 * 2 - 1 = 3 /\ 2 * 2 = 4 /\ 2 * 3 - 1 = 5 /\ 2 * 3 = 6
          /\ 2 * 7 - 1 = 13 /\ 2 * 7 = 14 /\ 2 * 8 - 1 = 15 /\ 2 * 8 = 16
      OBVIOUS
    <3>. QED
      BY <3>1, <3>2
  <2>3. ASSUME NEW m \in {2, 12}
        PROVE  SubSeq(x, m + 1, m + 4) = <<x[m + 1], x[m + 2], x[m + 3], x[m + 4]>>
    <3>. DEFINE t == <<x[m + 1], x[m + 2], x[m + 3], x[m + 4]>>
    <3>1. SubSeq(x, m + 1, m + 4) = [i \in 1..4 |-> x[i + m]]
      OBVIOUS
    <3>2. t = [i \in 1..4 |-> t[i]] /\ \A i \in 1..4 : t[i] = x[i + m]
      OBVIOUS
    <3>. QED
      BY <3>1, <3>2
  <2>4. /\ SubSeq(x, 12 + 1, 12 + 4) = <<x[13], x[14], x[15], x[16]>>
        /\ SubSeq(x, 2 + 1, 2 + 4) = <<x[3], x[4], x[5], x[6]>>
    BY <2>3
  <2>. QED
    BY <2>2, <2>4, Zenon DEF Embedded
<1>. DEFINE here == \/ InBlock(x, Groups(<<8193, 3512>>, 0), 32)
                    \/ InBlock(x, Groups(<<65152>>, 0), 10) \/ InBlock(x, Groups(<<65216>>, 0), 10)
                    \/ InBlock(x, Groups(<<64512>>, 0), 7) \/ InBlock(x, Groups(<<65280>>, 0), 8)
            carried == \/ InBlock(x, Groups(<<0, 0, 0, 0, 0, 65535>>, 0), 96)
                       \/ InBlock(x, Groups(<<0, 0, 0, 0, 65535>>, 0), 96)
                       \/ InBlock(x, Groups(<<100, 65435>>, 0), 96)
            unrouted == InBlock(x, Groups(<<>>, 1), 128) \/ InBlock(x, Groups(<<>>, 0), 128)
            sixToFour == InBlock(x, Groups(<<8194>>, 0), 16)
            last == SubSeq(x, 12 + 1, 12 + 4)
            second == SubSeq(x, 2 + 1, 2 + 4)
<1>17. IsSpecialIPv6(x) <=>
         \/ unrouted
         \/ here
         \/ carried /\ IsSpecialIPv4(last)
         \/ sixToFour /\ IsSpecialIPv4(second)
  BY DEF IsSpecialIPv6, SpecialIPv6, Carriers
<1>18. InBlock(x, Groups(<<>>, 1), 128) \/ InBlock(x, Groups(<<>>, 0), 128) <=> Unrouted(g)
  BY <1>2, <1>3 DEF Unrouted
<1>19. \/ InBlock(x, Groups(<<0, 0, 0, 0, 0, 65535>>, 0), 96)
       \/ InBlock(x, Groups(<<0, 0, 0, 0, 65535>>, 0), 96)
       \/ InBlock(x, Groups(<<100, 65435>>, 0), 96)
       <=> Carries(g)
  BY <1>5, <1>6, <1>7 DEF Carries
<1>20. /\ InBlock(x, Groups(<<64512>>, 0), 7) <=>
            (g[1] \div 4096) = 15 /\ (g[1] \div 256) % 16 \in {12, 13}
       /\ InBlock(x, Groups(<<65280>>, 0), 8) <=> g[1] \div 256 = 255
       /\ InBlock(x, Groups(<<65152>>, 0), 10) <=> g[1] \div 16 \in 4072..4075
       /\ InBlock(x, Groups(<<65216>>, 0), 10) <=> g[1] \div 16 \in 4076..4079
  BY <1>11, <1>12, <1>13, <1>14
<1>21. g[1] \div 16 \in 4072..4079 <=> g[1] \div 16 \in 4072..4075 \/ g[1] \div 16 \in 4076..4079
  OBVIOUS
<1>22. here <=> IsReserved(g)
  BY <1>4, <1>15, <1>20, <1>21
<1>23. (carried <=> Carries(g)) /\ (unrouted <=> Unrouted(g)) /\ (sixToFour <=> g[1] = 8194)
  BY <1>8, <1>18, <1>19
<1>24. last = Embedded(g[7], g[8]) /\ second = Embedded(g[2], g[3])
  BY <1>16, Zenon
<1>. HIDE DEF here, carried, unrouted, sixToFour, last, second
<1>. QED
  BY <1>17, <1>22, <1>23, <1>24 DEF x

-----------------------------------------------------------------------------
(* A private address of either form.                                       *)
LEMMA EmbeddedIsIPv4 ==
  ASSUME NEW hi \in Group, NEW lo \in Group
  PROVE  IsPrivateIPv4(Embedded(hi, lo)) <=> IsSpecialIPv4(Embedded(hi, lo))
<1>. DEFINE o == Embedded(hi, lo)
<1>1. DOMAIN o = 1..4
  BY DEF Embedded
<1>2. o[1] \in Octet /\ o[2] \in Octet /\ o[3] \in Octet /\ o[4] \in Octet
  BY DEF Embedded, Group, Octet
<1>3. \A i \in 1..4 : i = 1 \/ i = 2 \/ i = 3 \/ i = 4
  OBVIOUS
<1>. HIDE DEF o
<1>4. IsOctets(o)
  BY <1>1, <1>2, <1>3, Zenon DEF IsOctets
<1>. QED
  BY <1>1, <1>4, IPv4Blocks DEF o

(* What a text stands for is eight groups.                                 *)
LEMMA MeantGroups ==
  ASSUME NEW text, IsAddress(text)
  PROVE  Meant(text) \in [1..8 -> Group]
<1>1. \A i \in 1..8 : Meant(text)[i] \in Group
  BY Zenon DEF IsAddress
<1>2. Meant(text) = [i \in 1..8 |-> Meant(text)[i]]
  BY DEF Meant
<1>. QED
  BY <1>1, <1>2

(* A text with groups is private just when it stands for no address or for *)
(* one in a block.                                                         *)
LEMMA ColonsClassified ==
  ASSUME NEW text, text.left \in Seq(Nat), text.right \in Seq(Nat), text.gap \in BOOLEAN,
         ~text.gap => text.right = <<>>
  PROVE  IsPrivateIPv6(text) <=> ~IsAddress(text) \/ IsSpecialIPv6(OctetsOf(Meant(text)))
<1>1. CASE ~IsAddress(text)
  <2>1. Normalize(text) = Malformed
    BY <1>1, Expanded
  <2>. QED
    BY <1>1, <2>1 DEF IsPrivateIPv6
<1>2. CASE IsAddress(text)
  <2>. DEFINE g == Meant(text)
  <2>1. Normalize(text) = g /\ g \in [1..8 -> Group]
    BY <1>2, Expanded, MeantGroups
  <2>. HIDE DEF g
  <2>2. /\ IsPrivateIPv4(Embedded(g[7], g[8])) <=> IsSpecialIPv4(Embedded(g[7], g[8]))
        /\ IsPrivateIPv4(Embedded(g[2], g[3])) <=> IsSpecialIPv4(Embedded(g[2], g[3]))
    BY <2>1, EmbeddedIsIPv4
  <2>3. IsPrivateIPv6(text) <=>
           \/ Unrouted(g)
           \/ Carries(g) /\ IsPrivateIPv4(Embedded(g[7], g[8]))
           \/ g[1] = 8194 /\ IsPrivateIPv4(Embedded(g[2], g[3]))
           \/ IsReserved(g)
    BY <2>1, PrivateByGroups
  <2>4. IsSpecialIPv6(OctetsOf(g)) <=>
           \/ Unrouted(g)
           \/ Carries(g) /\ IsSpecialIPv4(Embedded(g[7], g[8]))
           \/ g[1] = 8194 /\ IsSpecialIPv4(Embedded(g[2], g[3]))
           \/ IsReserved(g)
    BY <2>1, SpecialByGroups
  <2>5. IsPrivateIPv6(text) <=> IsSpecialIPv6(OctetsOf(g))
    BY <2>2, <2>3, <2>4
  <2>. QED
    BY <1>2, <2>5 DEF g
<1>. QED
  BY <1>1, <1>2

(* The texts of the bound, apart.                                          *)
LEMMA TextForms ==
  ASSUME NEW text \in AddressTexts
  PROVE  \/ /\ text.form \in {"dotted", "mapped"}
            /\ text.octets \in [1..4 -> Nat]
         \/ /\ text.form \notin {"dotted", "mapped"}
            /\ text.left \in Seq(Nat) /\ text.right \in Seq(Nat) /\ text.gap \in BOOLEAN
            /\ ~text.gap => text.right = <<>>
BY AddressesAssumption

(* isPrivateAddress, for every text.                                       *)
LEMMA AllClassified == ClassifiesByBlocks
<1>. SUFFICES ASSUME NEW text \in AddressTexts
              PROVE  IsPrivateAddress(text) <=>
                       IF text.form \in {"dotted", "mapped"}
                       THEN ~IsOctets(text.octets) \/ IsSpecialIPv4(text.octets)
                       ELSE ~IsAddress(text) \/ IsSpecialIPv6(OctetsOf(Meant(text)))
  BY Zenon DEF ClassifiesByBlocks
<1>1. CASE text.form \in {"dotted", "mapped"}
  <2>1. DOMAIN text.octets = 1..4
    BY <1>1, TextForms
  <2>2. IsPrivateIPv4(text.octets) <=> ~IsOctets(text.octets) \/ IsSpecialIPv4(text.octets)
    <3>1. CASE IsOctets(text.octets)
      BY <2>1, <3>1, IPv4Blocks
    <3>2. CASE ~IsOctets(text.octets)
      BY <3>2 DEF IsPrivateIPv4
    <3>. QED
      BY <3>1, <3>2
  <2>. QED
    BY <1>1, <2>2 DEF IsPrivateAddress
<1>2. CASE text.form \notin {"dotted", "mapped"}
  <2>1. IsPrivateIPv6(text) <=> ~IsAddress(text) \/ IsSpecialIPv6(OctetsOf(Meant(text)))
    BY <1>2, TextForms, ColonsClassified
  <2>. QED
    BY <1>2, <2>1 DEF IsPrivateAddress
<1>. QED
  BY <1>1, <1>2

-----------------------------------------------------------------------------
(* A peer is in a range by the bits of its address.                        *)
LEMMA RangesByBits ==
  ASSUME NEW text \in AddressTexts, NEW cidr \in Cidrs
  PROVE  IsInCidr(text, cidr) <=>
           LET dotted == text.form \in {"dotted", "mapped"}
               octets == IF dotted THEN text.octets ELSE OctetsOf(Meant(text))
               valid == IF dotted THEN IsOctets(text.octets) ELSE IsAddress(text)
           IN  /\ valid
               /\ cidr.family = IF dotted THEN 4 ELSE 6
               /\ InBlock(octets, cidr.octets, cidr.bits)
<1>1. \/ cidr.family = 4 /\ cidr.octets \in [1..4 -> Octet] /\ cidr.bits \in 0..32
      \/ cidr.family = 6 /\ cidr.octets \in [1..16 -> Octet] /\ cidr.bits \in 0..128
  BY AddressesAssumption
<1>2. CASE text.form \in {"dotted", "mapped"}
  <2>1. ASSUME IsOctets(text.octets), cidr.family = 4
        PROVE  InBlock(text.octets, cidr.octets, cidr.bits)
                 <=> BytesMatch(text.octets, cidr.octets, cidr.bits)
    <3>1. \A i \in 1..4 : text.octets[i] \in Octet /\ cidr.octets[i] \in Octet
      BY <1>1, <1>2, <2>1, TextForms DEF IsOctets
    <3>2. cidr.bits \in 0..(8 * 4) /\ 4 \in Nat
      BY <1>1, <2>1
    <3>. QED
      BY <3>1, <3>2, BlocksByOctets
  <2>. QED
    BY <1>2, <2>1 DEF IsInCidr
<1>3. CASE text.form \notin {"dotted", "mapped"}
  <2>. DEFINE g == Meant(text)
  <2>1. Normalize(text) = IF IsAddress(text) THEN g ELSE Malformed
    BY <1>3, TextForms, Expanded
  <2>2. IsAddress(text) => g \in [1..8 -> Group]
    BY MeantGroups
  <2>. HIDE DEF g
  <2>3. IsAddress(text) => g # Malformed
    BY <2>2, GroupsInARow
  <2>4. ASSUME IsAddress(text), cidr.family = 6
        PROVE  InBlock(OctetsOf(g), cidr.octets, cidr.bits)
                 <=> BytesMatch(OctetsOf(g), cidr.octets, cidr.bits)
    <3>1. \A i \in 1..16 : OctetsOf(g)[i] \in Octet
      BY <2>2, <2>4, OctetsOfGroups
    <3>2. \A i \in 1..16 : cidr.octets[i] \in Octet
      BY <1>1, <2>4
    <3>3. cidr.bits \in 0..(8 * 16) /\ 16 \in Nat
      BY <1>1, <2>4
    <3>. QED
      BY <3>1, <3>2, <3>3, BlocksByOctets
  <2>5. IsInCidr(text, cidr) <=>
          IsAddress(text) /\ cidr.family = 6 /\ InBlock(OctetsOf(g), cidr.octets, cidr.bits)
    BY <1>3, <2>1, <2>3, <2>4 DEF IsInCidr
  <2>. QED
    BY <1>3, <2>5 DEF g
<1>. QED
  BY <1>2, <1>3

(* A verdict does not depend on a port.                                    *)
LEMMA PortsDoNotMatter ==
  ASSUME NEW named \in HostTexts, NEW expected \in HostTexts
  PROVE  LET answerTo(h) == ValidateHeaders({h}, "none", expected, {}, FALSE)
         IN  /\ answerTo(named) = "ok" => named.name = expected.name
             /\ named.shape = "name" => answerTo(named) = answerTo([named EXCEPT !.port = "other"])
<1>. DEFINE answerTo(h) == ValidateHeaders({h}, "none", expected, {}, FALSE)
            other == [named EXCEPT !.port = "other"]
<1>1. \A h : answerTo(h) = IF StripPort(h) # StripPort(expected) THEN "host-mismatch" ELSE "ok"
  BY DEF ValidateHeaders
<1>2. /\ named \in [name : STRING, port : STRING, shape : {"name", "bracketed", "bare", "open"}]
      /\ expected \in [name : STRING, port : STRING, shape : {"name", "bracketed", "bare", "open"}]
  BY AddressesAssumption
<1>3. StripPort(named).name = named.name /\ StripPort(expected).name = expected.name
  BY <1>2 DEF StripPort
<1>4. named.shape = "name" => StripPort(other) = StripPort(named)
  BY <1>2 DEF StripPort
<1>. HIDE DEF answerTo, other
<1>5. answerTo(named) = "ok" => named.name = expected.name
  BY <1>1, <1>3
<1>6. named.shape = "name" => answerTo(named) = answerTo(other)
  BY <1>1, <1>4
<1>. QED
  BY <1>5, <1>6 DEF answerTo, other

(* isInCidr, getClientIp and validateHeaders, for every text, range and    *)
(* named.                                                                   *)
LEMMA AllAdmittedByPeer == AdmitsByPeer
<1>1. ASSUME NEW text \in AddressTexts, NEW cidr \in Cidrs
      PROVE  /\ IsTrusted(text, {cidr}) <=> IsInCidr(text, cidr)
             /\ ~IsInCidr(text, cidr) => GetClientIp(text, <<Dotted(<<1, 1, 1, 1>>)>>, {cidr}) = text
  BY DEF IsTrusted, GetClientIp
<1>. QED
  BY <1>1, RangesByBits, PortsDoNotMatter DEF AdmitsByPeer

(* Every text of every address, in every notation: it is private just when *)
(* the address, or the IPv4 address inside it, is in a block that is not   *)
(* the public internet, or it is the text of no address (isPrivateAddress, *)
(* which fetchSafe asks before every connect).                             *)
THEOREM AddressesAreClassified == ToolSpec => []AddressesClassified
<1>1. AddressesClassified
  BY AllClassified DEF AddressesClassified
<1>. QED
  BY <1>1, PTL

(* Every peer and every range of any length: a peer is trusted by the bits *)
(* of its address, only a trusted one says whom the request is counted     *)
(* under, and a port never lets a request in (isInCidr, getClientIp,       *)
(* validateHeaders).                                                       *)
THEOREM AdmissionIsExact == ToolSpec => []AdmissionExact
<1>1. AdmissionExact
  BY AllAdmittedByPeer DEF AdmissionExact
<1>. QED
  BY <1>1, PTL

=============================================================================
