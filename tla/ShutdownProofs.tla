--------------------------- MODULE ShutdownProofs ---------------------------
(***************************************************************************)
(* The end of a process for any handlers, resources, jobs and budget:      *)
(* every handler is called once and none is left out, what was registered  *)
(* before the front closes behind it, the whole stays in its budget, and   *)
(* it comes to its end.                                                    *)
(***************************************************************************)
EXTENDS Shutdown, TLAPS

NoJobs == \A j \in Jobs : jobs[j] = Idle

(* What the registry holds: nothing until the process has started, then    *)
(* what it registered at start and behind it what jobs have created.       *)
Registered ==
  /\ phase = "loading" => entries = <<>>
  /\ entries # <<>> =>
       /\ Len(Boot) <= Len(entries)
       /\ \A i \in 1..Len(Boot) : entries[i] = Boot[i]
  /\ \A r \in Resources : resource[r] = "unused" =>
       \A i \in 1..Len(entries) : entries[i] # r
  /\ admitting \/ ~NoJobs => entries # <<>>

(* Handlers run from the last one down: those below the one awaited have   *)
(* not been called, those of the start above it have.                      *)
CallOrder ==
  /\ phase \in {"loading", "serving"} =>
       elapsed = 0 /\ \A n \in Names : calls[n] = 0
  /\ phase = "shutting" =>
       /\ pending \in 1..Len(entries)
       /\ \A i \in 1..(pending - 1) : calls[entries[i]] = 0
       /\ \A i \in 1..Len(Boot) : i >= pending => calls[Boot[i]] = 1

IInv ==
  /\ TypeOK
  /\ Registered
  /\ CallOrder
  /\ CalledOnce
  /\ NoHandlerSkipped

-----------------------------------------------------------------------------
LEMMA MaxOfTwo ==
  ASSUME NEW a \in Int, NEW b \in Int
  PROVE  /\ Max({a, b}) \in {a, b}
         /\ Max({a, b}) \in Int
         /\ Max({a, b}) >= a
         /\ Max({a, b}) >= b
<1>1. \E x \in {a, b} : \A y \in {a, b} : x >= y
  <2>1. CASE a >= b
    BY <2>1
  <2>2. CASE b >= a
    BY <2>2
  <2> QED
    BY <2>1, <2>2
<1> QED
  BY <1>1 DEF Max

LEMMA AppendDistinct ==
  ASSUME NEW S, NEW s \in Seq(S), NEW e \in S,
         \A i, k \in 1..Len(s) : s[i] = s[k] => i = k,
         \A i \in 1..Len(s) : s[i] # e
  PROVE  \A i, k \in 1..Len(Append(s, e)) : Append(s, e)[i] = Append(s, e)[k] => i = k
<1>1. /\ Len(s) \in Nat
      /\ Len(Append(s, e)) = Len(s) + 1
      /\ Append(s, e)[Len(s) + 1] = e
      /\ \A i \in 1..Len(s) : Append(s, e)[i] = s[i]
  OBVIOUS
<1>2. \A i \in 1..(Len(s) + 1) : i \in 1..Len(s) \/ i = Len(s) + 1
  BY <1>1
<1> QED
  BY <1>1, <1>2

LEMMA Shares ==
  ASSUME NEW n \in Nat
  PROVE  PerHandler(n) \in Nat
<1>1. CASE n = 0
  BY <1>1, ShutdownAssumption DEF PerHandler
<1>2. CASE n # 0
  <2>1. Total \in Nat /\ MinShare \in Nat /\ n \in Nat \ {0}
    BY <1>2, ShutdownAssumption
  <2>2. Total \div n \in Nat
    BY <2>1
  <2> QED
    <3>1. /\ Total \div n \in Int /\ MinShare \in Int
          /\ PerHandler(n) = Max({Total \div n, MinShare})
      BY <1>2, <2>1, <2>2 DEF PerHandler
    <3>2. PerHandler(n) \in {Total \div n, MinShare}
      BY <3>1, MaxOfTwo
    <3> QED
      BY <2>1, <2>2, <3>2
<1> QED
  BY <1>1, <1>2

LEMMA IInvInit == Init => IInv
<1> SUFFICES ASSUME Init PROVE IInv
  OBVIOUS
<1>1. TypeOK
  <2>1. fatal \in -1..Floor /\ pending \in 0..Len(entries) /\ spent \in 0..share
    BY ShutdownAssumption DEF Init
  <2>2. /\ entries \in Seq(Names)
        /\ \A i, j \in 1..Len(entries) : entries[i] = entries[j] => i = j
    BY DEF Init
  <2> QED
    BY <2>1, <2>2 DEF Init, TypeOK
<1> QED
  BY <1>1, ShutdownAssumption DEF Init, IInv, Registered, CallOrder, CalledOnce, NoHandlerSkipped, NoJobs

-----------------------------------------------------------------------------
LEMMA StartStep == IInv /\ Start => IInv'
<1> SUFFICES ASSUME IInv, Start PROVE IInv'
  OBVIOUS
<1> USE DEF IInv, TypeOK, Registered
<1>1. entries' = Boot
  BY ShutdownAssumption DEF Start
<1>2. Boot # <<>>
  BY ShutdownAssumption
<1>3. TypeOK'
  BY <1>1, ShutdownAssumption DEF Start, ending
<1>4. Registered'
  BY <1>1, <1>2, ShutdownAssumption DEF Start, ending, Eager, NoJobs
<1>5. (CallOrder /\ CalledOnce /\ NoHandlerSkipped)'
  BY ShutdownAssumption DEF Start, ending, CallOrder, CalledOnce, NoHandlerSkipped
<1> QED
  BY <1>3, <1>4, <1>5

(* Call(i), the heart of run() and of the loop, when the handlers up to i  *)
(* have not been called and those of the start above it have.              *)
LEMMA CallStep ==
  ASSUME IInv, NEW i \in 0..Len(entries), Call(i),
         UNCHANGED <<entries, admitting, jobs, awaited>>,
         \A k \in 1..i : calls[entries[k]] = 0,
         \A k \in 1..Len(Boot) : k > i /\ entries # <<>> => calls[Boot[k]] = 1,
         phase # "exited"
  PROVE  (Registered /\ CallOrder /\ CalledOnce /\ NoHandlerSkipped)'
         /\ calls' \in [Names -> Nat]
         /\ phase' \in {"loading", "serving", "shutting", "exited"}
         /\ pending' \in 0..Len(entries')
         /\ resource' \in [Resources -> {"unused", "open", "closing"}]
<1> USE DEF IInv, TypeOK
<1>1. CASE i = 0
  BY <1>1 DEF Call, Registered, CallOrder, CalledOnce, NoHandlerSkipped, NoJobs
<1>2. CASE i # 0
  <2>1. calls' = [calls EXCEPT ![entries[i]] = @ + 1] /\ entries[i] \in Names /\ calls[entries[i]] = 0
    BY <1>2 DEF Call
  <2>2. Registered'
    BY <1>2, <2>1 DEF Call, Registered, NoJobs
  <2>3. CalledOnce'
    BY <2>1 DEF CalledOnce
  <2>4. CallOrder'
    BY <1>2, <2>1 DEF Call, CallOrder, Registered
  <2>5. NoHandlerSkipped'
    BY <1>2 DEF Call, NoHandlerSkipped
  <2> QED
    BY <1>2, <2>1, <2>2, <2>3, <2>4, <2>5 DEF Call
<1> QED
  BY <1>1, <1>2

LEMMA RunStep ==
  ASSUME IInv, Alive, Run, UNCHANGED forced, fatal' \in -1..Floor, listening' \subseteq Signals
  PROVE  IInv'
<1> USE DEF IInv, TypeOK, Alive
<1>1. CASE phase = "shutting"
  <2>1. UNCHANGED <<registry, work>>
    BY <1>1 DEF Run
  <2> QED
    BY <2>1, <1>1 DEF registry, work, Registered, CallOrder, CalledOnce, NoHandlerSkipped, NoJobs
<1>2. CASE phase # "shutting"
  <2>1. /\ Call(Len(entries))
        /\ share' = PerHandler(Len(entries))
        /\ UNCHANGED <<entries, elapsed, late, admitting, jobs, awaited>>
    BY <1>2 DEF Run
  <2>2. /\ \A k \in 1..Len(entries) : calls[entries[k]] = 0
        /\ \A k \in 1..Len(Boot) : k > Len(entries) /\ entries # <<>> => calls[Boot[k]] = 1
    BY <1>2, ShutdownAssumption DEF CallOrder, Registered
  <2>3. share' \in Nat
    BY <2>1, Shares
  <2>4. spent' \in 0..share'
    BY <2>1, <2>3 DEF Call
  <2>0. Len(entries) \in 0..Len(entries) /\ IInv
    OBVIOUS
  <2>5. /\ (Registered /\ CallOrder /\ CalledOnce /\ NoHandlerSkipped)'
        /\ calls' \in [Names -> Nat]
        /\ phase' \in {"loading", "serving", "shutting", "exited"}
        /\ pending' \in 0..Len(entries')
        /\ resource' \in [Resources -> {"unused", "open", "closing"}]
    BY <1>2, <2>0, <2>1, <2>2, CallStep
  <2> QED
    BY <2>1, <2>3, <2>4, <2>5
<1> QED
  BY <1>1, <1>2

(* Settle, GiveUp and TimeOut: the loop goes on to the entry below.        *)
LEMMA LoopStep ==
  ASSUME IInv, phase = "shutting", Call(pending - 1),
         UNCHANGED <<entries, share, elapsed, ending, admitting, jobs, awaited>>, late' \subseteq Names
  PROVE  IInv'
<1> USE DEF IInv, TypeOK
<1>1. pending - 1 \in 0..Len(entries)
  BY DEF CallOrder
<1>2. /\ \A k \in 1..(pending - 1) : calls[entries[k]] = 0
      /\ \A k \in 1..Len(Boot) : k > pending - 1 /\ entries # <<>> => calls[Boot[k]] = 1
  BY DEF CallOrder
<1>3. /\ (Registered /\ CallOrder /\ CalledOnce /\ NoHandlerSkipped)'
      /\ calls' \in [Names -> Nat]
      /\ phase' \in {"loading", "serving", "shutting", "exited"}
      /\ pending' \in 0..Len(entries')
      /\ resource' \in [Resources -> {"unused", "open", "closing"}]
  BY <1>1, <1>2, CallStep
<1>4. spent' \in 0..share'
  BY DEF Call
<1> QED
  BY <1>3, <1>4 DEF ending

LEMMA UseStep ==
  ASSUME IInv, NEW j \in Jobs, NEW r \in Resources, Use(j, r)
  PROVE  IInv'
<1> USE DEF IInv, TypeOK, Alive
<1>1. entries # <<>>
  BY ShutdownAssumption DEF Use, Registered, NoJobs
<1>2. CASE resource[r] # "unused"
  <2>1. UNCHANGED <<registry, ending, admitting>>
    BY <1>2 DEF Use, registry
  <2>2. TypeOK'
    BY <2>1 DEF Use, registry, ending
  <2>3. Registered'
    BY <2>1, <1>1, <1>2 DEF Use, registry, Registered
  <2> QED
    BY <2>1, <2>2, <2>3 DEF registry, ending, CallOrder, CalledOnce, NoHandlerSkipped
<1>3. CASE resource[r] = "unused"
  <2>1. entries' = Append(entries, r) /\ r \in Names
    BY <1>3 DEF Use, Names
  <2>2. /\ entries' \in Seq(Names)
        /\ Len(entries') = Len(entries) + 1
        /\ entries'[Len(entries) + 1] = r
        /\ \A i \in 1..Len(entries) : entries'[i] = entries[i] /\ entries[i] # r
    BY <1>3, <2>1 DEF Registered
  <2>3. TypeOK'
    <3>1. \A i, k \in 1..Len(entries') : entries'[i] = entries'[k] => i = k
      BY <2>1, <2>2, AppendDistinct
    <3> QED
      BY <2>2, <3>1 DEF Use, ending
  <2>4. Registered'
    <3>1. /\ Len(Boot) \in Nat /\ Len(entries) \in Nat
          /\ Len(Boot) <= Len(entries)
          /\ \A i \in 1..Len(Boot) : entries[i] = Boot[i]
          /\ phase' # "loading"
      BY <1>1, ShutdownAssumption DEF Use, Registered
    <3>2. /\ entries' # <<>>
          /\ Len(Boot) <= Len(entries')
          /\ \A i \in 1..Len(Boot) : entries'[i] = Boot[i]
      BY <2>2, <3>1
    <3>3. \A q \in Resources : resource'[q] = "unused" => \A i \in 1..Len(entries') : entries'[i] # q
      BY <2>2 DEF Use, Registered
    <3> QED
      BY <3>1, <3>2, <3>3 DEF Registered
  <2>5. (CallOrder /\ CalledOnce /\ NoHandlerSkipped)'
    BY <2>2 DEF Use, ending, CallOrder, CalledOnce, NoHandlerSkipped
  <2> QED
    BY <2>3, <2>4, <2>5
<1> QED
  BY <1>2, <1>3

LEMMA IInvNext == IInv /\ [Next]_vars => IInv'
<1> SUFFICES ASSUME IInv, [Next]_vars PROVE IInv'
  OBVIOUS
<1> USE DEF Alive
<1>1. CASE Start
  BY <1>1, StartStep
<1>2. ASSUME NEW j \in Jobs, Admit(j) \/ LetGo(j) \/ Finish(j) \/ Detach(j) PROVE IInv'
  <2>1. UNCHANGED <<registry, ending, admitting, resource>>
    BY <1>2 DEF Admit, LetGo, Finish, Detach
  <2>2. entries # <<>>
    BY <1>2, ShutdownAssumption DEF Admit, LetGo, Finish, Detach, IInv, Registered, NoJobs
  <2>3. jobs' \in [Jobs -> Resources \union {Idle, Busy}] /\ awaited' \subseteq Jobs
    BY <1>2 DEF Admit, LetGo, Finish, Detach, IInv, TypeOK
  <2> QED
    BY <2>1, <2>2, <2>3 DEF registry, ending, IInv, TypeOK, Registered, CallOrder, CalledOnce,
                            NoHandlerSkipped
<1>3. ASSUME NEW j \in Jobs, NEW r \in Resources, Use(j, r) PROVE IInv'
  BY <1>3, UseStep
<1>4. ASSUME NEW s \in Signals, Signal(s) PROVE IInv'
  BY <1>4, RunStep DEF Signal, IInv, TypeOK
<1>5. CASE Fatal
  <2>1. fatal' \in -1..Floor
    BY <1>5, ShutdownAssumption DEF Fatal
  <2> QED
    BY <1>5, <2>1, RunStep DEF Fatal, IInv, TypeOK
<1>6. ASSUME NEW s \in Signals, Kill(s) PROVE IInv'
  BY <1>6 DEF Kill, work, IInv, TypeOK, Registered, CallOrder, CalledOnce,
              NoHandlerSkipped, NoJobs
<1>7. CASE StopAdmitting
  BY <1>7 DEF StopAdmitting, registry, ending, IInv, TypeOK, Registered, CallOrder, CalledOnce,
              NoHandlerSkipped, NoJobs
<1>8. CASE Settle
  BY <1>8, LoopStep DEF Settle, IInv, TypeOK
<1>9. CASE GiveUp \/ TimeOut
  <2>1. entries[pending] \in Names
    BY <1>9 DEF GiveUp, TimeOut, IInv, TypeOK, CallOrder
  <2> QED
    BY <1>9, <2>1, LoopStep DEF GiveUp, TimeOut, IInv, TypeOK
<1>10. CASE Tick
  <2>1. TypeOK'
    BY <1>10, ShutdownAssumption DEF Tick, work, IInv, TypeOK
  <2> QED
    BY <1>10, <2>1 DEF Tick, work, IInv, Registered, CallOrder, CalledOnce, NoHandlerSkipped, NoJobs
<1>11. CASE UNCHANGED vars
  BY <1>11 DEF vars, registry, ending, work, IInv, TypeOK, Registered, CallOrder, CalledOnce,
              NoHandlerSkipped, NoJobs
<1>12. CASE FloorExit
  BY <1>12 DEF FloorExit, work, IInv, TypeOK, Registered, CallOrder, CalledOnce,
              NoHandlerSkipped, NoJobs
<1> QED
  BY <1>1, <1>2, <1>3, <1>4, <1>5, <1>6, <1>7, <1>8, <1>9, <1>10, <1>11, <1>12 DEF Next

LEMMA Invariance == Spec => []IInv
BY IInvInit, IInvNext, PTL DEF Spec

(* The registry and the life of the process have their types; nothing is   *)
(* registered twice.                                                       *)
THEOREM ShutdownTypeOK == Spec => []TypeOK
<1>1. IInv => TypeOK
  BY DEF IInv
<1> QED
  BY <1>1, Invariance, PTL

(* shutdown.ts: all signals and errors share one shutdown, no handler is   *)
(* called twice.                                                           *)
THEOREM HandlersCalledOnce == Spec => []CalledOnce
<1>1. IInv => CalledOnce
  BY DEF IInv
<1> QED
  BY <1>1, Invariance, PTL

(* shutdown.ts: timeouts do not end the loop; unless it is forced, the     *)
(* process ends with every handler of its start called.                    *)
THEOREM NoHandlerLeftOut == Spec => []NoHandlerSkipped
<1>1. IInv => NoHandlerSkipped
  BY DEF IInv
<1> QED
  BY <1>1, Invariance, PTL

-----------------------------------------------------------------------------
LEMMA TimesMonotone ==
  ASSUME NEW a \in Nat, NEW b \in Nat, NEW c \in Nat, a <= b
  PROVE  a * c <= b * c
OBVIOUS

LEMMA DivTimes ==
  ASSUME NEW a \in Nat, NEW n \in Nat \ {0}
  PROVE  n * (a \div n) <= a
OBVIOUS

(* n shares fit in the budget of n handlers.                               *)
LEMMA SharesFit ==
  ASSUME NEW n \in Nat \ {0}
  PROVE  n * PerHandler(n) <= Max({Total, n * MinShare})
<1>1. /\ Total \in Nat /\ Total \in Int /\ MinShare \in Int
      /\ n * MinShare \in Int /\ Total \div n \in Int
  BY ShutdownAssumption
<1>2. PerHandler(n) = Max({Total \div n, MinShare})
  BY DEF PerHandler
<1>3. PerHandler(n) \in {Total \div n, MinShare}
  BY <1>1, <1>2, MaxOfTwo, Zenon
<1>4. /\ Max({Total, n * MinShare}) >= Total
      /\ Max({Total, n * MinShare}) >= n * MinShare
      /\ Max({Total, n * MinShare}) \in Int
  BY <1>1, MaxOfTwo, Zenon
<1>5. CASE PerHandler(n) = Total \div n
  <2>1. n * (Total \div n) <= Total /\ n * (Total \div n) \in Int
    BY <1>1, DivTimes
  <2> QED
    BY <1>1, <1>4, <1>5, <2>1
<1>6. CASE PerHandler(n) = MinShare
  BY <1>4, <1>6
<1> QED
  BY <1>3, <1>5, <1>6

(* The budget grows with the number of handlers.                           *)
LEMMA BudgetMonotone ==
  ASSUME NEW m \in Nat, NEW n \in Nat, m <= n
  PROVE  Max({Total, m * MinShare}) <= Max({Total, n * MinShare})
<1>1. /\ MinShare \in Nat
      /\ Total \in Int /\ m * MinShare \in Int /\ n * MinShare \in Int
  BY ShutdownAssumption
<1>2. m * MinShare <= n * MinShare
  BY <1>1, TimesMonotone
<1>3. /\ Max({Total, m * MinShare}) \in {Total, m * MinShare}
      /\ Max({Total, n * MinShare}) >= Total
      /\ Max({Total, n * MinShare}) >= n * MinShare
      /\ Max({Total, n * MinShare}) \in Int
  BY <1>1, MaxOfTwo, Zenon
<1> QED
  BY <1>1, <1>2, <1>3

(* Of the n handlers shutdown began with, those before the one awaited     *)
(* have used at most a share each.                                         *)
InShares(n) ==
  /\ n \in pending..Len(entries)
  /\ share = PerHandler(n)
  /\ elapsed <= (n - pending) * share + spent

Spending ==
  /\ phase = "shutting" => \E n \in Nat : InShares(n)
  /\ WithinBudget

LEMMA InSharesInBudget ==
  ASSUME NEW len \in Nat, NEW n \in 1..len, NEW p \in 1..n, NEW s \in Nat, NEW t \in 0..s,
         NEW e \in Nat, s = PerHandler(n), e <= (n - p) * s + t
  PROVE  e <= Max({Total, len * MinShare})
<1> DEFINE k == n - p
<1>1. k \in Nat /\ k + 1 <= n
  OBVIOUS
<1>2. e <= (k + 1) * s
  <2>1. e <= k * s + t /\ k * s \in Nat
    BY <1>1
  <2>2. (k + 1) * s = k * s + s
    BY <1>1
  <2> QED
    BY <1>1, <2>1, <2>2
<1>3. (k + 1) * s <= n * s
  BY <1>1, TimesMonotone
<1>4. n * s <= Max({Total, n * MinShare})
  BY SharesFit
<1>5. Max({Total, n * MinShare}) <= Max({Total, len * MinShare})
  BY BudgetMonotone
<1>6. /\ Total \in Int /\ n * MinShare \in Int /\ len * MinShare \in Int
      /\ (k + 1) * s \in Int /\ n * s \in Int
  BY <1>1, ShutdownAssumption
<1>7. Max({Total, n * MinShare}) \in Int /\ Max({Total, len * MinShare}) \in Int
  BY <1>6, MaxOfTwo, Zenon
<1> QED
  BY <1>2, <1>3, <1>4, <1>5, <1>6, <1>7

LEMMA SpendingInit == Init => Spending
<1> SUFFICES ASSUME Init PROVE Spending
  OBVIOUS
<1>1. /\ Total \in Int /\ Len(entries) * MinShare \in Int /\ Total >= 0 /\ elapsed = 0
      /\ phase # "shutting"
  BY ShutdownAssumption DEF Init
<1>2. /\ Max({Total, Len(entries) * MinShare}) >= Total
      /\ Max({Total, Len(entries) * MinShare}) \in Int
  BY <1>1, MaxOfTwo, Zenon
<1> QED
  BY <1>1, <1>2 DEF Spending, WithinBudget

(* A shutdown that begins, goes on to the next handler or lets time pass.  *)
LEMMA SpendingShut ==
  ASSUME IInv, IInv', phase' = "shutting", NEW n \in Nat, InShares(n)'
  PROVE  Spending'
<1>1. /\ Len(entries') \in Nat /\ n \in 1..Len(entries') /\ pending' \in 1..n
      /\ share' \in Nat /\ spent' \in 0..share' /\ elapsed' \in Nat
      /\ share' = PerHandler(n) /\ elapsed' <= (n - pending') * share' + spent'
  BY DEF IInv, TypeOK, CallOrder, InShares
<1>2. WithinBudget'
  BY <1>1, InSharesInBudget DEF WithinBudget
<1> QED
  BY <1>2 DEF Spending

(* The registry as it was, or the process at its end.                      *)
LEMMA SpendingSame ==
  ASSUME Spending, UNCHANGED <<entries, elapsed>>,
         \/ phase' # "shutting"
         \/ UNCHANGED <<phase, pending, share, spent>>
  PROVE  Spending'
BY DEF Spending, WithinBudget, InShares

LEMMA SpendingNext == IInv /\ IInv' /\ Spending /\ [Next]_vars => Spending'
<1> SUFFICES ASSUME IInv, IInv', Spending, [Next]_vars PROVE Spending'
  OBVIOUS
<1>1. ASSUME Alive, Run PROVE Spending'
  <2>1. CASE phase = "shutting"
    BY <1>1, <2>1, SpendingSame DEF Run, registry
  <2>2. CASE phase # "shutting" /\ Len(entries) = 0
    BY <1>1, <2>2, SpendingSame DEF Run, Call
  <2>3. CASE phase # "shutting" /\ Len(entries) # 0
    <3>1. /\ phase' = "shutting" /\ pending' = Len(entries) /\ share' = PerHandler(Len(entries))
          /\ spent' = 0 /\ entries' = entries /\ elapsed' = elapsed /\ Len(entries) \in Nat
      BY <1>1, <2>3 DEF Run, Call, IInv, TypeOK
    <3>2. elapsed = 0
      BY <1>1, <2>3 DEF Alive, IInv, TypeOK, CallOrder
    <3>3. share' \in Nat
      BY <3>1, Shares
    <3>4. InShares(Len(entries))'
      BY <3>1, <3>2, <3>3 DEF InShares
    <3> QED
      BY <3>1, <3>4, SpendingShut
  <2> QED
    BY <2>1, <2>2, <2>3
<1>2. ASSUME phase = "shutting", Call(pending - 1), UNCHANGED <<entries, share, elapsed>>
      PROVE  Spending'
  <2>1. CASE pending - 1 = 0
    BY <1>2, <2>1, SpendingSame DEF Call
  <2>2. CASE pending - 1 # 0
    <3>1. PICK n \in Nat : InShares(n)
      BY <1>2 DEF Spending
    <3>2. phase' = "shutting" /\ pending' = pending - 1 /\ spent' = 0
      BY <1>2, <2>2 DEF Call
    <3>3. /\ pending \in 1..n /\ share \in Nat /\ spent \in 0..share /\ elapsed \in Nat
          /\ elapsed <= (n - pending) * share + spent /\ n <= Len(entries) /\ Len(entries) \in Nat
      BY <1>2, <3>1 DEF IInv, TypeOK, CallOrder, InShares
    <3>4. elapsed <= (n - (pending - 1)) * share
      <4>1. (n - (pending - 1)) * share = (n - pending) * share + share
        BY <3>3
      <4>2. (n - pending) * share \in Int
        BY <3>3
      <4> QED
        BY <3>3, <4>1, <4>2
    <3>5. (n - (pending - 1)) * share \in Int
      BY <3>3
    <3>6. InShares(n)'
      BY <1>2, <3>1, <3>2, <3>3, <3>4, <3>5 DEF InShares
    <3> QED
      BY <3>2, <3>6, SpendingShut
  <2> QED
    BY <2>1, <2>2
<1>3. CASE Tick
  <2>1. PICK n \in Nat : InShares(n)
    BY <1>3 DEF Tick, Spending
  <2>2. /\ (n - pending) * share \in Int /\ elapsed \in Nat /\ spent \in Nat
        /\ elapsed' = elapsed + 1 /\ spent' = spent + 1
    <3>1. share \in Nat /\ pending \in Nat
      BY DEF IInv, TypeOK
    <3>2. (n - pending) * share \in Int
      BY <3>1
    <3> QED
      BY <1>3, <3>2 DEF Tick, IInv, TypeOK
  <2>3. InShares(n)'
    BY <1>3, <2>1, <2>2 DEF Tick, work, InShares
  <2> QED
    BY <1>3, <2>3, SpendingShut DEF Tick
<1>4. ASSUME NEW j \in Jobs, NEW r \in Resources, Use(j, r) PROVE Spending'
  <2>1. /\ Len(entries) \in Nat /\ Len(entries') \in Nat /\ Len(entries) <= Len(entries')
        /\ UNCHANGED <<phase, pending, share, spent, elapsed>>
    BY <1>4 DEF Use, IInv, TypeOK
  <2>2. Max({Total, Len(entries) * MinShare}) <= Max({Total, Len(entries') * MinShare})
    BY <2>1, BudgetMonotone
  <2>3. /\ Total \in Int /\ Len(entries) * MinShare \in Int /\ Len(entries') * MinShare \in Int
    BY <2>1, ShutdownAssumption
  <2>4. /\ Max({Total, Len(entries) * MinShare}) \in Int
        /\ Max({Total, Len(entries') * MinShare}) \in Int
    BY <2>3, MaxOfTwo, Zenon
  <2>5. WithinBudget'
    BY <2>1, <2>2, <2>4 DEF Spending, WithinBudget, IInv, TypeOK
  <2>6. ASSUME NEW n \in Nat, InShares(n) PROVE InShares(n)'
    BY <2>1, <2>6 DEF InShares, IInv, TypeOK
  <2> QED
    BY <2>1, <2>5, <2>6 DEF Spending
<1>5. CASE Start
  <2>1. elapsed' = 0 /\ phase' = "serving" /\ Len(entries') \in Nat
    BY <1>5 DEF Start, IInv, TypeOK, CallOrder
  <2>2. Total \in Int /\ Len(entries') * MinShare \in Int /\ Total >= 0
    BY <2>1, ShutdownAssumption
  <2>3. /\ Max({Total, Len(entries') * MinShare}) >= Total
        /\ Max({Total, Len(entries') * MinShare}) \in Int
    BY <2>2, MaxOfTwo, Zenon
  <2> QED
    BY <2>1, <2>2, <2>3 DEF Spending, WithinBudget
<1>6. ASSUME NEW j \in Jobs, Admit(j) \/ LetGo(j) \/ Finish(j) \/ Detach(j) PROVE Spending'
  BY <1>6, SpendingSame DEF Admit, LetGo, Finish, Detach, registry
<1>7. CASE StopAdmitting \/ UNCHANGED vars
  BY <1>7, SpendingSame DEF StopAdmitting, vars, registry
<1>8. ASSUME NEW s \in Signals, Kill(s) PROVE Spending'
  BY <1>8, SpendingSame DEF Kill
<1>9. CASE FloorExit
  BY <1>9, SpendingSame DEF FloorExit
<1>10. CASE Settle \/ GiveUp \/ TimeOut
  BY <1>2, <1>10 DEF Settle, GiveUp, TimeOut
<1>11. CASE Fatal
  BY <1>1, <1>11 DEF Fatal
<1>12. ASSUME NEW s \in Signals, Signal(s) PROVE Spending'
  BY <1>1, <1>12 DEF Signal
<1> QED
  BY <1>3, <1>4, <1>5, <1>6, <1>7, <1>8, <1>9, <1>10, <1>11, <1>12 DEF Next

(* shutdown.ts: whatever handlers do, however many resources register      *)
(* while it is under way, shutdown takes no longer than its budget.        *)
THEOREM ShutdownWithinBudget == Spec => []WithinBudget
<1>1. Spending => WithinBudget
  BY DEF Spending
<1>2. Spec => []Spending
  BY SpendingInit, SpendingNext, Invariance, PTL DEF Spec
<1> QED
  BY <1>1, <1>2, PTL

-----------------------------------------------------------------------------
(* The position of the front and of the teller among what is registered at *)
(* start.                                                                  *)
FrontAt == CHOOSE f \in 1..Len(Boot) : Boot[f] = Front
TellerAt == CHOOSE f \in 1..Len(Boot) : Boot[f] = Teller

LEMMA FrontIsAt ==
  /\ FrontAt \in 1..Len(Boot)
  /\ Boot[FrontAt] = Front
  /\ \A i \in 1..Len(Boot) : Boot[i] \in Resources => i < FrontAt
BY ShutdownAssumption DEF FrontAt

LEMMA TellerIsAt ==
  /\ TellerAt \in 1..Len(Boot)
  /\ Boot[TellerAt] = Teller
  /\ \A i \in 1..Len(Boot) : Boot[i] \in Resources => i < TellerAt
BY ShutdownAssumption DEF TellerAt

(* Nothing is left for the front to wait for, or a timer ended it.         *)
FrontGone == Front \in late \/ (~admitting /\ awaited = {})

(* From the moment the loop is below the front, and as long as a resource  *)
(* of the start is closing, the front is gone; by then jobs were told.     *)
Behind ==
  /\ phase = "shutting" /\ pending < FrontAt => FrontGone
  /\ \A r \in Eager : resource[r] = "closing" =>
       /\ calls[Front] > 0 /\ calls[Teller] > 0
       /\ FrontGone
       /\ phase = "exited" \/ pending < FrontAt

LEMMA FrontName == Front \in Names /\ Teller \in Names
BY ShutdownAssumption DEF Names

LEMMA BehindInit == Init => Behind
BY DEF Init, Behind, Eager

LEMMA BehindOutlives == IInv /\ Behind => EagerOutlivesAwaited
<1> SUFFICES ASSUME IInv, Behind, NEW r \in Eager, resource[r] = "closing"
             PROVE  Settled(Front) /\ calls[Teller] > 0 /\ (Front \in late \/ awaited = {})
  BY DEF EagerOutlivesAwaited
<1>1. calls[Teller] > 0 /\ (Front \in late \/ awaited = {})
  BY DEF Behind, FrontGone
<1>2. calls[Front] > 0 /\ (phase = "exited" \/ pending < FrontAt)
  BY DEF Behind
<1>3. CASE phase = "shutting"
  <2>1. pending \in 1..Len(entries) /\ pending < FrontAt
    BY <1>2, <1>3 DEF IInv, CallOrder
  <2>2. FrontAt \in 1..Len(entries) /\ entries[FrontAt] = Front
    BY <2>1, FrontIsAt DEF IInv, Registered, TypeOK
  <2>3. entries[pending] # Front
    BY <2>1, <2>2 DEF IInv, TypeOK
  <2> QED
    BY <1>1, <1>2, <2>3 DEF Settled
<1>4. CASE phase = "exited"
  BY <1>1, <1>2, <1>4 DEF Settled
<1>5. CASE phase \in {"loading", "serving"}
  BY <1>2, <1>5, FrontName DEF IInv, CallOrder
<1> QED
  BY <1>3, <1>4, <1>5 DEF IInv, TypeOK

(* The loop goes on to the entry below the one that is done.               *)
LEMMA BehindLoop ==
  ASSUME IInv, Behind, phase = "shutting", Call(pending - 1),
         UNCHANGED <<entries, admitting, jobs, awaited>>, late \subseteq late',
         pending = FrontAt => FrontGone'
  PROVE  Behind'
<1>1. /\ pending \in 1..Len(entries) /\ Len(entries) \in Nat /\ FrontAt \in 1..Len(Boot)
      /\ Len(Boot) <= Len(entries) /\ \A i \in 1..Len(Boot) : entries[i] = Boot[i]
      /\ pending' = pending - 1
  <2>1. pending \in 1..Len(entries)
    BY DEF IInv, CallOrder
  <2>2. Len(entries) \in Nat
    BY DEF IInv, TypeOK
  <2>3. Len(Boot) <= Len(entries) /\ \A i \in 1..Len(Boot) : entries[i] = Boot[i]
    BY <2>1, <2>2 DEF IInv, Registered
  <2> QED
    BY <2>1, <2>2, <2>3, FrontIsAt DEF Call
<1>2. FrontGone => FrontGone'
  BY DEF FrontGone
<1>3. pending' < FrontAt => FrontGone'
  <2>1. ASSUME pending' < FrontAt PROVE pending < FrontAt \/ pending = FrontAt
    BY <1>1, <2>1
  <2> QED
    BY <1>2, <2>1 DEF Behind
<1>4. \A n \in {Front, Teller} : calls[n] > 0 => calls'[n] > 0
  <2>1. calls \in [Names -> Nat]
    BY DEF IInv, TypeOK
  <2>2. \/ calls' = calls
        \/ calls' = [calls EXCEPT ![entries[pending - 1]] = @ + 1]
    BY DEF Call
  <2> QED
    BY <2>1, <2>2, FrontName
<1>5. ASSUME NEW r \in Eager, resource'[r] = "closing"
      PROVE  /\ calls'[Front] > 0 /\ calls'[Teller] > 0
             /\ FrontGone' /\ (phase' = "exited" \/ pending' < FrontAt)
  <2>1. CASE resource[r] = "closing"
    <3>1. calls[Front] > 0 /\ calls[Teller] > 0 /\ FrontGone /\ pending < FrontAt
      BY <2>1 DEF Behind
    <3> QED
      BY <1>1, <1>2, <1>4, <3>1
  <2>2. CASE resource[r] # "closing"
    <3>1. pending - 1 # 0 /\ r = entries[pending - 1]
      BY <1>5, <2>2 DEF Call, Eager
    <3>2. PICK i \in 1..Len(Boot) : Boot[i] = r
      BY DEF Eager
    <3>3. i < FrontAt /\ i < TellerAt
      BY <3>2, FrontIsAt, TellerIsAt DEF Eager
    <3>4. pending - 1 = i
      <4>1. \A k, m \in 1..Len(entries) : entries[k] = entries[m] => k = m
        BY DEF IInv, TypeOK
      <4>2. i \in 1..Len(entries) /\ pending - 1 \in 1..Len(entries)
        BY <1>1, <3>1, FrontIsAt
      <4>3. entries[i] = entries[pending - 1]
        BY <1>1, <3>1, <3>2
      <4> QED
        BY <4>1, <4>2, <4>3
    <3>5. pending' < FrontAt /\ pending <= FrontAt /\ pending <= TellerAt
      BY <1>1, <3>3, <3>4, TellerIsAt
    <3>6. calls[Boot[FrontAt]] = 1 /\ calls[Boot[TellerAt]] = 1
      BY <1>1, <3>5, TellerIsAt DEF IInv, CallOrder
    <3> QED
      BY <1>3, <1>4, <3>5, <3>6, FrontIsAt, TellerIsAt
  <2> QED
    BY <2>1, <2>2
<1> QED
  BY <1>3, <1>5 DEF Behind

(* Steps that close nothing and bring back neither jobs nor admission.     *)
LEMMA BehindKept ==
  ASSUME Behind, UNCHANGED <<pending, calls>>, late \subseteq late', FrontGone => FrontGone',
         phase' = phase \/ phase' = "exited",
         \A r \in Eager : resource'[r] = "closing" => resource[r] = "closing"
  PROVE  Behind'
BY DEF Behind

LEMMA BehindNext == IInv /\ Behind /\ [Next]_vars => Behind'
<1> SUFFICES ASSUME IInv, Behind, [Next]_vars PROVE Behind'
  OBVIOUS
<1>1. ASSUME phase \in {"loading", "serving"}, NEW r \in Eager PROVE resource[r] # "closing"
  BY <1>1, FrontName DEF Behind, IInv, CallOrder
<1>2. CASE Start
  <2>1. \A r \in Eager : resource'[r] # "closing"
    BY <1>2 DEF Start, Eager
  <2> QED
    BY <1>2, <2>1 DEF Start, Behind
<1>3. ASSUME Alive, Run PROVE Behind'
  <2>1. CASE phase = "shutting"
    BY <1>3, <2>1, BehindKept DEF Run, registry, work, FrontGone
  <2>2. CASE phase # "shutting"
    <3>1. /\ phase \in {"loading", "serving"} /\ Call(Len(entries)) /\ Len(entries) \in Nat
          /\ FrontAt \in 1..Len(Boot)
      BY <1>3, <2>2, FrontIsAt DEF Run, Alive, IInv, TypeOK
    <3>2. ASSUME Len(entries) # 0
          PROVE  /\ ~(pending' < FrontAt)
                 /\ \A r \in Eager : entries[Len(entries)] # r
      <4>1. /\ Len(Boot) <= Len(entries) /\ \A i \in 1..Len(Boot) : entries[i] = Boot[i]
            /\ Len(Boot) \in Nat
        BY <3>1, <3>2, ShutdownAssumption DEF IInv, Registered
      <4>2. ASSUME NEW r \in Eager, entries[Len(entries)] = r PROVE FALSE
        <5>1. PICK i \in 1..Len(Boot) : Boot[i] = r
          BY DEF Eager
        <5>2. i = Len(entries)
          <6>1. \A k, m \in 1..Len(entries) : entries[k] = entries[m] => k = m
            BY DEF IInv, TypeOK
          <6>2. i \in 1..Len(entries) /\ Len(entries) \in 1..Len(entries)
            BY <3>1, <3>2, <4>1
          <6>3. entries[i] = entries[Len(entries)]
            BY <4>1, <4>2, <5>1
          <6> QED
            BY <6>1, <6>2, <6>3
        <5>3. i < FrontAt
          BY <5>1, FrontIsAt DEF Eager
        <5> QED
          BY <3>1, <4>1, <5>2, <5>3
      <4> QED
        BY <3>1, <4>1, <4>2 DEF Call
    <3>3. \A r \in Eager : resource'[r] # "closing"
      BY <1>1, <3>1, <3>2 DEF Call, Eager
    <3>4. CASE Len(entries) = 0
      BY <3>1, <3>3, <3>4 DEF Call, Behind
    <3> QED
      BY <3>2, <3>3, <3>4 DEF Behind
  <2> QED
    BY <2>1, <2>2
<1>4. ASSUME NEW j \in Jobs, Admit(j) PROVE Behind'
  <2>1. FrontGone => FrontGone'
    BY <1>4 DEF Admit, registry, FrontGone
  <2> QED
    BY <1>4, <2>1, BehindKept DEF Admit, registry
<1>5. ASSUME NEW j \in Jobs, LetGo(j) \/ Finish(j) \/ Detach(j) PROVE Behind'
  BY <1>5, BehindKept DEF LetGo, Finish, Detach, registry, FrontGone
<1>6. ASSUME NEW j \in Jobs, NEW r \in Resources, Use(j, r) PROVE Behind'
  <2>1. \A q \in Eager : resource'[q] = "closing" => resource[q] = "closing"
    BY <1>6 DEF Use, Eager, IInv, TypeOK
  <2> QED
    BY <1>6, <2>1, BehindKept DEF Use, FrontGone
<1>7. CASE StopAdmitting
  BY <1>7, BehindKept DEF StopAdmitting, registry, FrontGone
<1>8. ASSUME NEW s \in Signals, Kill(s) PROVE Behind'
  BY <1>8, BehindKept DEF Kill, work, FrontGone
<1>9. CASE FloorExit
  BY <1>9, BehindKept DEF FloorExit, work, FrontGone
<1>10. CASE Tick
  <2>1. FrontGone => FrontGone'
    BY <1>10 DEF Tick, work, FrontGone
  <2> QED
    BY <1>10, <2>1, BehindKept DEF Tick, work
<1>11. CASE UNCHANGED vars
  BY <1>11, BehindKept DEF vars, registry, work, FrontGone
<1>12. ASSUME phase = "shutting", pending = FrontAt PROVE entries[pending] = Front
  BY <1>12, FrontIsAt DEF IInv, CallOrder, Registered, TypeOK
<1>13. CASE Settle
  <2>1. pending = FrontAt => FrontGone'
    BY <1>12, <1>13 DEF Settle, CanSettle, FrontGone
  <2> QED
    BY <1>13, <2>1, BehindLoop DEF Settle
<1>14. CASE GiveUp \/ TimeOut
  <2>1. pending = FrontAt => FrontGone'
    BY <1>12, <1>14 DEF GiveUp, TimeOut, FrontGone
  <2> QED
    BY <1>14, <2>1, BehindLoop DEF GiveUp, TimeOut
<1>15. CASE Fatal
  BY <1>3, <1>15 DEF Fatal
<1>16. ASSUME NEW s \in Signals, Signal(s) PROVE Behind'
  BY <1>3, <1>16 DEF Signal
<1> QED
  BY <1>2, <1>4, <1>5, <1>6, <1>7, <1>8, <1>9, <1>10, <1>11, <1>13, <1>14, <1>15, <1>16 DEF Next

(* OPERATIONS.md, for what is registered at start: a resource begins to    *)
(* close when the front has nothing left to wait for, or ran into a        *)
(* timeout; jobs nothing waits for have been told to stop.                 *)
THEOREM EagerCloseBehind == Spec => []EagerOutlivesAwaited
<1>1. Spec => []Behind
  BY BehindInit, BehindNext, Invariance, PTL DEF Spec
<1> QED
  BY <1>1, BehindOutlives, Invariance, PTL

-----------------------------------------------------------------------------
(* Shutdown comes to an end.                                               *)

(* What is left: the handlers up to the awaited one, and the ticks of its  *)
(* share.                                                                  *)
Left(i, k) == phase = "shutting" /\ pending = i /\ share - spent = k
Before(i, k) ==
  phase = "shutting" /\ (pending < i \/ (pending = i /\ share - spent < k))

(* The fairness of FairSpec.  The guard of each action takes the place of  *)
(* ENABLED; each of the three changes the state whenever its guard holds.  *)
TickDue == phase = "shutting" /\ spent < share /\ fatal < Floor
TimeOutDue == phase = "shutting" /\ spent = share
FloorDue == Alive /\ fatal = Floor

Timers ==
  /\ []<>~TickDue \/ []<><<Tick>>_vars
  /\ []<>~TimeOutDue \/ []<><<TimeOut>>_vars
  /\ []<>~FloorDue \/ []<><<FloorExit>>_vars

(* What a step does to the handler that is awaited.                        *)
LEMMA Moves ==
  ASSUME IInv, NEW i \in Nat, NEW k \in Nat, Left(i, k), [Next]_vars
  PROVE  /\ \/ /\ Left(i, k)'
               /\ TimeOutDue => TimeOutDue'
               /\ FloorDue => FloorDue'
            \/ Before(i, k)'
            \/ (phase = "exited")'
         /\ Tick \/ TimeOut => Before(i, k)' \/ (phase = "exited")'
<1>. USE ShutdownAssumption
<1>. DEFINE Same == Left(i, k)' /\ (TimeOutDue => TimeOutDue') /\ (FloorDue => FloorDue')
<1>0. /\ phase = "shutting" /\ pending = i /\ share - spent = k
      /\ TypeOK
  BY DEF Left, IInv
<1>1. ASSUME Settle \/ GiveUp \/ TimeOut PROVE Before(i, k)' \/ (phase = "exited")'
  <2>1. Call(i - 1) /\ i \in Nat
    BY <1>0, <1>1 DEF Settle, GiveUp, TimeOut
  <2>. QED
    BY <2>1 DEF Call, Before
<1>2. ASSUME Tick PROVE Before(i, k)'
  BY <1>0, <1>2 DEF Tick, Before, TypeOK
<1>3. ASSUME UNCHANGED registry, UNCHANGED fatal PROVE Same
  BY <1>3 DEF registry, Left, TimeOutDue, FloorDue, Alive
<1>4. ASSUME NEW s \in Signals, Signal(s) PROVE UNCHANGED registry /\ UNCHANGED fatal
  BY <1>0, <1>4 DEF Signal, Run, registry
<1>5. ASSUME Fatal PROVE Same
  BY <1>0, <1>5 DEF Fatal, Run, registry, Left, TimeOutDue, FloorDue, Alive
<1>6. ASSUME (\E s \in Signals : Kill(s)) \/ FloorExit PROVE (phase = "exited")'
  BY <1>6 DEF Kill, FloorExit
<1>7. ASSUME NEW j \in Jobs, NEW r \in Resources, Use(j, r) PROVE Same
  BY <1>7 DEF Use, ending, Left, TimeOutDue, FloorDue, Alive
<1>8. ASSUME \/ \E j \in Jobs : Admit(j) \/ LetGo(j) \/ Finish(j) \/ Detach(j)
             \/ StopAdmitting
      PROVE  UNCHANGED registry /\ UNCHANGED fatal
  BY <1>8 DEF Admit, LetGo, Finish, Detach, StopAdmitting, ending
<1>9. Start => FALSE
  BY <1>0 DEF Start
<1>10. UNCHANGED vars => UNCHANGED registry /\ UNCHANGED fatal
  BY DEF vars, ending
<1>11. CASE Tick \/ TimeOut \/ Settle \/ GiveUp
  BY <1>1, <1>2, <1>11
<1>12. CASE ~(Tick \/ TimeOut \/ Settle \/ GiveUp)
  BY <1>3, <1>4, <1>5, <1>6, <1>7, <1>8, <1>9, <1>10, <1>12 DEF Next
<1>. QED
  BY <1>11, <1>12

(* The same as the facts the temporal steps rest on.                       *)
Descends(i, k) ==
  /\ IInv /\ Left(i, k) /\ [Next]_vars =>
       Left(i, k)' \/ Before(i, k)' \/ (phase = "exited")'
  /\ IInv /\ Left(i, k) /\ TimeOutDue /\ [Next]_vars =>
       TimeOutDue' \/ Before(i, k)' \/ (phase = "exited")'
  /\ IInv /\ Left(i, k) /\ FloorDue /\ [Next]_vars =>
       FloorDue' \/ Before(i, k)' \/ (phase = "exited")'
  /\ IInv /\ Left(i, k) /\ [Next]_vars /\ <<Tick>>_vars => Before(i, k)' \/ (phase = "exited")'
  /\ IInv /\ Left(i, k) /\ [Next]_vars /\ <<TimeOut>>_vars => Before(i, k)' \/ (phase = "exited")'
  /\ <<FloorExit>>_vars => (phase = "exited")'
  /\ IInv /\ Left(i, k) => TickDue \/ TimeOutDue \/ FloorDue

LEMMA DescendsAlways ==
  ASSUME NEW i \in Nat, NEW k \in Nat
  PROVE  Descends(i, k)
<1>1. <<FloorExit>>_vars => (phase = "exited")'
  BY DEF FloorExit
<1>2. IInv /\ Left(i, k) => TickDue \/ TimeOutDue \/ FloorDue
  BY ShutdownAssumption DEF IInv, TypeOK, Left, TickDue, TimeOutDue, FloorDue, Alive
<1>. QED
  BY <1>1, <1>2, Moves DEF Descends

(* However the awaited handler behaves, its wait grows shorter, or the     *)
(* handler before it is awaited, or the process ends.                      *)
THEOREM ShutdownMovesOn ==
  ASSUME NEW i \in Nat, NEW k \in Nat
  PROVE  Spec /\ Timers => (Left(i, k) ~> Before(i, k) \/ phase = "exited")
<1>1. Descends(i, k)
  BY DescendsAlways
<1>. QED
  BY <1>1, Invariance, PTL DEF Spec, Timers, Descends

(* Induction over what is left, the number of handlers first and the ticks *)
(* of the awaited one second: what always grows less comes to an end.  It  *)
(* holds of every behaviour, and the provers cannot instantiate it.        *)
DescentInduction ==
  (\A i, k \in Nat : Left(i, k) ~> Before(i, k) \/ phase = "exited")
  => ((\E i, k \in Nat : Left(i, k)) ~> phase = "exited")

(* A shutdown that began ends: handlers that never return, signals, errors *)
(* and jobs that go on do not keep the process alive.                      *)
THEOREM ShutdownTerminates == Spec /\ Timers /\ DescentInduction => ShutdownEnds
<1>1. Spec /\ Timers => \A i, k \in Nat : Left(i, k) ~> Before(i, k) \/ phase = "exited"
  <2>. SUFFICES ASSUME NEW i \in Nat, NEW k \in Nat
                PROVE  Spec /\ Timers => (Left(i, k) ~> Before(i, k) \/ phase = "exited")
    OBVIOUS
  <2>1. Descends(i, k)
    BY DescendsAlways
  <2>. QED
    BY <2>1, Invariance, PTL DEF Spec, Timers, Descends
<1>2. Spec /\ Timers /\ DescentInduction => ((\E i, k \in Nat : Left(i, k)) ~> phase = "exited")
  BY <1>1 DEF DescentInduction
<1>3. IInv /\ phase = "shutting" => \E i, k \in Nat : Left(i, k)
  <2>. SUFFICES ASSUME IInv, phase = "shutting" PROVE \E i, k \in Nat : Left(i, k)
    OBVIOUS
  <2>1. pending \in Nat /\ share - spent \in Nat
    BY DEF IInv, TypeOK
  <2>. QED
    BY <2>1 DEF Left
<1>. QED
  BY <1>2, <1>3, Invariance, PTL DEF ShutdownEnds, Spec

=============================================================================
