------------------------------- MODULE Egress -------------------------------
(***************************************************************************)
(* Outbound requests through the proxy pool: fetchExternal                 *)
(* (shared/net/egress.ts) and the pool it asks (shared/net/proxy/pool.ts). *)
(* Code between two awaits is one action: a request that fails is          *)
(* reported and is sent through the next proxy in the same turn.  What a   *)
(* fetch through a proxy yields is external.                               *)
(*                                                                         *)
(* The pool is built without a failureThreshold (proxy/registry.ts), so    *)
(* every failure reaches the default of 1 and starts a cooldown.           *)
(***************************************************************************)
EXTENDS Integers, FiniteSets

CONSTANTS Requests,   \* bound: requests being sent at one time
          Size,       \* proxies of the pool
          Strategies, \* values of config.proxyRotation
          Retries,    \* config.proxyMaxRetriesPerRequest
          Cooldown,   \* config.proxyFailureCooldownMs, in ticks
          MaxClock    \* bound: Date.now()

ASSUME EgressAssumption ==
  /\ Size \in Nat \ {0}
  /\ Strategies \subseteq {"round-robin", "random"}
  /\ Retries \in Nat \ {0}
  /\ Cooldown \in Nat \ {0}
  /\ MaxClock \in Nat \ {0}

Proxies == 0..(Size - 1)
NoProxy == Size
MaxAttempts == IF Retries < Size THEN Retries ELSE Size

VARIABLES clock,         \* Date.now()
          strategy,      \* options.strategy of the pool
          rrCursor,      \* the pool's round-robin cursor
          cooldownUntil, \* per proxy; 0 for null, which is as good as any time gone by
          poolHealthy,   \* the proxy_pool_healthy gauge
          pc,            \* "idle", "trying", or "failed": the TransientError is thrown
          proxy,         \* the proxy a request is sent through
          attempts,      \* attempts a request has begun
          attempted,     \* proxies it has been sent through
          waited         \* history: per proxy, how many requests round-robin has sent
                         \* elsewhere since its last turn, the proxy being healthy

pool == <<strategy, rrCursor, cooldownUntil, poolHealthy>>
requests == <<pc, proxy, attempts, attempted>>
vars == <<clock, pool, requests, waited>>

TypeOK ==
  /\ clock \in 1..MaxClock
  /\ strategy \in Strategies
  /\ rrCursor \in Proxies
  /\ cooldownUntil \in [Proxies -> 0..(MaxClock + Cooldown)]
  /\ poolHealthy \in 0..Size
  /\ pc \in [Requests -> {"idle", "trying", "failed"}]
  /\ proxy \in [Requests -> Proxies \union {NoProxy}]
  /\ attempts \in [Requests -> 0..MaxAttempts]
  /\ attempted \in [Requests -> SUBSET Proxies]
  /\ waited \in [Proxies -> Nat]

Init ==
  /\ clock = 1
  /\ strategy \in Strategies
  /\ rrCursor = 0
  /\ cooldownUntil = [p \in Proxies |-> 0]
  /\ poolHealthy = 0
  /\ pc = [r \in Requests |-> "idle"]
  /\ proxy = [r \in Requests |-> NoProxy]
  /\ attempts = [r \in Requests |-> 0]
  /\ attempted = [r \in Requests |-> {}]
  /\ waited = [p \in Proxies |-> 0]

-----------------------------------------------------------------------------
(* The pool, with the cooldowns cd.                                        *)

Healthy(cd) == {p \in Proxies : cd[p] <= clock}

(* How far round-robin has to go from its cursor to p.                     *)
Distance(p) == IF p >= rrCursor THEN p - rrCursor ELSE p + Size - rrCursor

(* Mutant: the search begins at the first proxy.                           *)
FirstHealthy(H, p) == p \in H /\ \A q \in H : p <= q

NextInTurn(H, p) == p \in H /\ \A q \in H : Distance(p) <= Distance(q)

(* The proxy whose cooldown ends first, ties broken by index.              *)
EarliestCooldown(cd, p) ==
  \A q \in Proxies : cd[p] < cd[q] \/ (cd[p] = cd[q] /\ p <= q)

(* next() may return p.                                                    *)
Eligible(cd, p) ==
  \/ Healthy(cd) = {} /\ EarliestCooldown(cd, p)
  \/ strategy = "random" /\ p \in Healthy(cd)
  \/ strategy = "round-robin" /\ NextInTurn(Healthy(cd), p)

InRotation(cd) == strategy = "round-robin" /\ Healthy(cd) # {}

(* The n-th attempt of a request: next(), and the fetch begins.            *)
Attempt(r, cd, n, tried) ==
  \E p \in Proxies :
    /\ Eligible(cd, p)
    /\ rrCursor' = IF InRotation(cd) THEN (p + 1) % Size ELSE rrCursor
    /\ waited' = [q \in Proxies |-> IF InRotation(cd) /\ q \in Healthy(cd) \ {p}
                                    THEN waited[q] + 1 ELSE 0]
    /\ pc' = [pc EXCEPT ![r] = "trying"]
    /\ proxy' = [proxy EXCEPT ![r] = p]
    /\ attempts' = [attempts EXCEPT ![r] = n]
    /\ attempted' = [attempted EXCEPT ![r] = tried \union {p}]

(* report(): success ends the cooldown, a failure starts it anew.          *)
Succeeded(p) == [cooldownUntil EXCEPT ![p] = 0]
Penalised(p) == [cooldownUntil EXCEPT ![p] = clock + Cooldown]

(* Mutant: the gauge is set before the outcome is reported.                *)
ReportedLate(cd) ==
  /\ cooldownUntil' = cd
  /\ poolHealthy' = Cardinality(Healthy(cooldownUntil))
  /\ UNCHANGED <<clock, strategy>>

(* report() and the gauge behind it.                                       *)
Report(cd) ==
  /\ cooldownUntil' = cd
  /\ poolHealthy' = Cardinality(Healthy(cd))
  /\ UNCHANGED <<clock, strategy>>

Leave(r) ==
  /\ pc' = [pc EXCEPT ![r] = "idle"]
  /\ proxy' = [proxy EXCEPT ![r] = NoProxy]
  /\ attempts' = [attempts EXCEPT ![r] = 0]
  /\ attempted' = [attempted EXCEPT ![r] = {}]
  /\ UNCHANGED <<rrCursor, waited>>

-----------------------------------------------------------------------------
(* fetchExternal()                                                         *)

Send(r) ==
  /\ pc[r] = "idle"
  /\ Attempt(r, cooldownUntil, 1, {})
  /\ UNCHANGED <<clock, strategy, cooldownUntil, poolHealthy>>

(* Any response, whatever its status.                                      *)
Succeed(r) ==
  /\ pc[r] = "trying"
  /\ Report(Succeeded(proxy[r]))
  /\ Leave(r)

(* The caller's signal, or an error that says so.                          *)
Abort(r) ==
  /\ pc[r] = "trying"
  /\ Report(cooldownUntil)
  /\ Leave(r)

(* Mutant: a retry does not count.                                         *)
FailOverForever(r) ==
  /\ pc[r] = "trying"
  /\ attempts[r] < MaxAttempts
  /\ Report(Penalised(proxy[r]))
  /\ Attempt(r, Penalised(proxy[r]), attempts[r], attempted[r])

(* Any other error, the retry budget not being spent.                      *)
FailOver(r) ==
  /\ pc[r] = "trying"
  /\ attempts[r] < MaxAttempts
  /\ Report(Penalised(proxy[r]))
  /\ Attempt(r, Penalised(proxy[r]), attempts[r] + 1, attempted[r])

(* The budget is spent: TransientError.                                    *)
Exhaust(r) ==
  /\ pc[r] = "trying"
  /\ attempts[r] >= MaxAttempts
  /\ Report(Penalised(proxy[r]))
  /\ pc' = [pc EXCEPT ![r] = "failed"]
  /\ proxy' = [proxy EXCEPT ![r] = NoProxy]
  /\ UNCHANGED <<rrCursor, waited, attempts, attempted>>

(* The caller has got the error.                                           *)
Surface(r) ==
  /\ pc[r] = "failed"
  /\ Leave(r)
  /\ UNCHANGED <<clock, strategy, cooldownUntil, poolHealthy>>

Tick ==
  /\ clock < MaxClock
  /\ clock' = clock + 1
  /\ UNCHANGED <<pool, requests, waited>>

Settle(r) == Succeed(r) \/ Abort(r) \/ FailOver(r) \/ Exhaust(r)

Next ==
  \/ \E r \in Requests : Send(r) \/ Settle(r) \/ Surface(r)
  \/ Tick

Spec == Init /\ [][Next]_vars

(* A fetch settles: undici bounds how long it waits for a connection, for  *)
(* headers and for the body, and callers pass a signal with a timeout.     *)
FairSpec == Spec /\ \A r \in Requests : WF_vars(Settle(r))

-----------------------------------------------------------------------------
(* Round-robin passes over no healthy proxy: however requests interleave   *)
(* and proxies cool down and come back, one that stays healthy gets its    *)
(* turn at the latest with the Size-th request.                            *)
RoundRobinFair == \A p \in Proxies : waited[p] < Size

(* proxy_pool_healthy is only set when an outcome is reported; it may lag  *)
(* behind cooldowns that ended since, but never shows a proxy as eligible  *)
(* that is not.                                                            *)
GaugeNotAbove == poolHealthy <= Cardinality(Healthy(cooldownUntil))

(* The retry budget ends every request, although each failure makes other  *)
(* proxies eligible again.                                                 *)
RequestEnds == \A r \in Requests : pc[r] = "trying" ~> pc[r] # "trying"

=============================================================================
