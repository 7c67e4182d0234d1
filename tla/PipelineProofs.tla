--------------------------- MODULE PipelineProofs ---------------------------
(***************************************************************************)
(* The request pipeline for any number of requests, tools and slots: its   *)
(* type invariant, one answer per request, slots taken in order, and the   *)
(* usage records.                                                          *)
(***************************************************************************)
EXTENDS Pipeline, FiniteSetTheorems, TLAPS

(* What a request has written, by where its handler is.                    *)
AnswerOf(r) ==
  /\ pc[r] \in {"idle"} \union (Awaiting \ {"transport"}) => writes[r] = 0
  /\ pc[r] = "transport" => writes[r] = 1
  /\ pc[r] = "done" => writes[r] = 1 \/ (writes[r] = 0 /\ body[r] = "null")

(* The scopes a request that reaches the session has passed.               *)
Granted(r) == {"ip", "key"} \union ({body[r]} \intersect LimitedTools)

(* The slots of a request, by where its handler is.                        *)
SlotsOf(r) ==
  /\ pc[r] \in {"idle", "ip"} => slots[r] = {}
  /\ pc[r] \in {"auth", "key"} => slots[r] = {"ip"}
  /\ pc[r] \in {"body", "tool"} => slots[r] = {"ip", "key"}
  /\ pc[r] \in {"route", "transport"} => Granted(r) \subseteq slots[r]
  /\ pc[r] \in {"idle", "ip", "auth", "key", "body"} => body[r] = "unread"
  /\ pc[r] = "tool" => body[r] \in LimitedTools
  /\ slots[r] \intersect LimitedTools # {} => "key" \in slots[r]
  /\ "key" \in slots[r] => "ip" \in slots[r]
  /\ usage[r] # "none" => pc[r] \in {"transport", "done"}
  /\ usage[r] = "executing" => Granted(r) \subseteq slots[r]
  /\ usage[r] \in Unwritten => call[r] \in Tools
  /\ usage[r] = "executing" => call[r] \in Tools

-----------------------------------------------------------------------------
LEMMA TypeInit == Init => TypeOK
BY PipelineAssumption DEF Init, TypeOK, Scopes, Awaiting

LEMMA TypeNext == TypeOK /\ (\A r \in Requests : SlotsOf(r)) /\ [Next]_vars => TypeOK'
<1> SUFFICES ASSUME TypeOK, \A r \in Requests : SlotsOf(r), [Next]_vars
             PROVE  TypeOK'
  OBVIOUS
<1> USE PipelineAssumption DEF TypeOK
<1>1. ASSUME NEW r \in Requests, Arrive(r) PROVE TypeOK'
  BY <1>1 DEF Arrive, Go, Respond, usageVars, Awaiting
<1>2. ASSUME NEW r \in Requests, NEW s \in Scopes, NEW stage \in Awaiting, Check(r, s, stage)
      PROVE  TypeOK'
  BY <1>2 DEF Check, Go, Respond, usageVars
<1>3. ASSUME NEW r \in Requests, CheckIp(r) PROVE TypeOK'
  BY <1>2, <1>3 DEF CheckIp, Scopes, Awaiting
<1>4. ASSUME NEW r \in Requests, Authenticate(r) PROVE TypeOK'
  BY <1>4 DEF Authenticate, Go, Respond, usageVars, Awaiting
<1>5. ASSUME NEW r \in Requests, CheckKey(r) PROVE TypeOK'
  BY <1>2, <1>5 DEF CheckKey, Scopes, Awaiting
<1>6. ASSUME NEW r \in Requests, RefuseBody(r) \/ RefuseRoute(r) PROVE TypeOK'
  BY <1>6 DEF RefuseBody, RefuseRoute, Respond, usageVars
<1>7. ASSUME NEW r \in Requests, ParseNull(r) PROVE TypeOK'
  BY <1>7 DEF ParseNull, Go, usageVars
<1>8. ASSUME NEW r \in Requests, Parse(r) PROVE TypeOK'
  BY <1>8 DEF Parse, AfterBody, Go, usageVars, Awaiting
<1>9. ASSUME NEW r \in Requests, CheckTool(r) PROVE TypeOK'
  BY <1>2, <1>9 DEF CheckTool, SlotsOf, Scopes, Awaiting
<1>10. ASSUME NEW r \in Requests, Dispatch(r) PROVE TypeOK'
  BY <1>10 DEF Dispatch, CallsIn, Awaiting
<1>11. ASSUME NEW r \in Requests, Return(r) PROVE TypeOK'
  BY <1>11 DEF Return, Go, usageVars
<1>12. ASSUME NEW r \in Requests, Throw(r) PROVE TypeOK'
  BY <1>12 DEF Throw, Catch, Go, Respond, usageVars
<1>13. ASSUME NEW r \in Requests, Leave(r) PROVE TypeOK'
  BY <1>13 DEF Leave, usageVars
<1>14. ASSUME NEW r \in Requests, CallSucceeds(r) PROVE TypeOK'
  BY <1>14 DEF CallSucceeds, requestVars, Unwritten
<1>15. ASSUME NEW r \in Requests, CallFails(r) PROVE TypeOK'
  BY <1>15 DEF CallFails, requestVars
<1>16. ASSUME NEW r \in Requests, UpdateKey(r) \/ UpsertTool(r) PROVE TypeOK'
  BY <1>16 DEF UpdateKey, UpsertTool, requestVars, Unwritten
<1>17. ASSUME NEW r \in Requests, Commit(r) PROVE TypeOK'
  BY <1>17 DEF Commit, Committed, SlotsOf, requestVars, Unwritten
<1>18. ASSUME NEW r \in Requests, RecordFails(r) PROVE TypeOK'
  BY <1>18 DEF RecordFails, requestVars
<1>19. ASSUME NEW s \in Scopes, Expire(s) PROVE TypeOK'
  BY <1>19 DEF Expire, usageVars
<1>20. CASE UNCHANGED vars
  BY <1>20 DEF vars
<1> QED
  BY <1>1, <1>3, <1>4, <1>5, <1>6, <1>7, <1>8, <1>9, <1>10, <1>11, <1>12, <1>13,
     <1>14, <1>15, <1>16, <1>17, <1>18, <1>19, <1>20 DEF Next, Handle

-----------------------------------------------------------------------------
(* An action of one request leaves the others alone.                       *)
Same(q) ==
  /\ pc'[q] = pc[q]
  /\ body'[q] = body[q]
  /\ writes'[q] = writes[q]
  /\ slots'[q] = slots[q]
  /\ call'[q] = call[q]
  /\ usage'[q] = usage[q]

LEMMA OthersSame ==
  ASSUME TypeOK, NEW r \in Requests, Handle(r), NEW q \in Requests, q # r
  PROVE  Same(q)
<1> USE DEF TypeOK, Same
<1>1. CASE Arrive(r) \/ Authenticate(r) \/ RefuseBody(r) \/ ParseNull(r) \/ RefuseRoute(r)
  BY <1>1 DEF Arrive, Authenticate, RefuseBody, ParseNull, RefuseRoute, Go, Respond, usageVars
<1>2. CASE CheckIp(r) \/ CheckKey(r) \/ CheckTool(r)
  BY <1>2 DEF CheckIp, CheckKey, CheckTool, Check, Go, Respond, usageVars
<1>3. CASE Parse(r) \/ Return(r) \/ Throw(r)
  BY <1>3 DEF Parse, Return, Throw, Catch, Go, Respond, usageVars
<1>4. CASE Dispatch(r) \/ Leave(r)
  BY <1>4 DEF Dispatch, Leave, usageVars
<1>5. CASE CallSucceeds(r) \/ CallFails(r) \/ UpdateKey(r) \/ UpsertTool(r)
           \/ Commit(r) \/ RecordFails(r)
  BY <1>5 DEF CallSucceeds, CallFails, UpdateKey, UpsertTool, Commit, Committed,
              RecordFails, requestVars
<1> QED
  BY <1>1, <1>2, <1>3, <1>4, <1>5 DEF Handle

(* Every action keeps what is said of its own request.                     *)
LEMMA AnswerStep ==
  ASSUME TypeOK, NEW r \in Requests, AnswerOf(r), Handle(r)
  PROVE  AnswerOf(r)'
<1> USE DEF TypeOK, AnswerOf, Awaiting
<1>1. CASE Arrive(r) \/ Authenticate(r)
  BY <1>1 DEF Arrive, Authenticate, Go, Respond
<1>2. CASE CheckIp(r)
  BY <1>2 DEF CheckIp, Check, Go, Respond
<1>3. CASE CheckKey(r)
  BY <1>3 DEF CheckKey, Check, Go, Respond
<1>4. CASE CheckTool(r)
  BY <1>4 DEF CheckTool, Check, Go, Respond
<1>5. CASE RefuseBody(r) \/ RefuseRoute(r)
  BY <1>5 DEF RefuseBody, RefuseRoute, Respond
<1>6. CASE ParseNull(r)
  BY <1>6 DEF ParseNull, Go
<1>7. CASE Parse(r)
  BY <1>7 DEF Parse, AfterBody, Go
<1>8. CASE Dispatch(r)
  BY <1>8 DEF Dispatch
<1>9. CASE Return(r)
  BY <1>9 DEF Return, Go
<1>10. CASE Throw(r)
  BY <1>10 DEF Throw, Catch, Go, Respond
<1>11. CASE Leave(r)
  BY <1>11 DEF Leave
<1>12. CASE CallSucceeds(r) \/ CallFails(r) \/ UpdateKey(r) \/ UpsertTool(r)
            \/ Commit(r) \/ RecordFails(r)
  BY <1>12 DEF CallSucceeds, CallFails, UpdateKey, UpsertTool, Commit, RecordFails, requestVars
<1> QED
  BY <1>1, <1>2, <1>3, <1>4, <1>5, <1>6, <1>7, <1>8, <1>9, <1>10, <1>11, <1>12 DEF Handle

LEMMA SlotsStep ==
  ASSUME TypeOK, NEW r \in Requests, SlotsOf(r), Handle(r)
  PROVE  SlotsOf(r)'
<1> USE PipelineAssumption DEF TypeOK, SlotsOf, Granted, Awaiting, Unwritten, Scopes
<1>1. CASE Arrive(r)
  BY <1>1 DEF Arrive, Go, Respond, usageVars
<1>2. CASE CheckIp(r)
  BY <1>2 DEF CheckIp, Check, Go, Respond, usageVars
<1>3. CASE Authenticate(r)
  BY <1>3 DEF Authenticate, Go, Respond, usageVars
<1>4. CASE CheckKey(r)
  BY <1>4 DEF CheckKey, Check, Go, Respond, usageVars
<1>5. CASE RefuseBody(r)
  BY <1>5 DEF RefuseBody, Respond, usageVars
<1>6. CASE ParseNull(r)
  BY <1>6 DEF ParseNull, Go, usageVars
<1>7. CASE Parse(r)
  BY <1>7 DEF Parse, AfterBody, Go, usageVars
<1>8. CASE CheckTool(r)
  BY <1>8 DEF CheckTool, Check, Go, Respond, usageVars
<1>9. CASE RefuseRoute(r)
  BY <1>9 DEF RefuseRoute, Respond, usageVars
<1>10. CASE Dispatch(r)
  BY <1>10 DEF Dispatch, CallsIn
<1>11. CASE Return(r)
  BY <1>11 DEF Return, Go, usageVars
<1>12. CASE Throw(r)
  BY <1>12 DEF Throw, Catch, Go, Respond, usageVars
<1>13. CASE Leave(r)
  BY <1>13 DEF Leave, usageVars
<1>14. CASE CallSucceeds(r) \/ CallFails(r) \/ RecordFails(r)
  BY <1>14 DEF CallSucceeds, CallFails, RecordFails, requestVars
<1>15. CASE UpdateKey(r) \/ UpsertTool(r) \/ Commit(r)
  BY <1>15 DEF UpdateKey, UpsertTool, Commit, requestVars
<1> QED
  BY <1>1, <1>2, <1>3, <1>4, <1>5, <1>6, <1>7, <1>8, <1>9, <1>10, <1>11, <1>12, <1>13,
     <1>14, <1>15 DEF Handle

-----------------------------------------------------------------------------
IInv ==
  /\ TypeOK
  /\ \A r \in Requests : AnswerOf(r) /\ SlotsOf(r)

LEMMA IInvInit == Init => IInv
<1> SUFFICES ASSUME Init PROVE IInv
  OBVIOUS
<1>1. \A r \in Requests : AnswerOf(r)
  BY DEF Init, AnswerOf
<1>2. \A r \in Requests : SlotsOf(r)
  BY DEF Init, SlotsOf, Unwritten
<1> QED
  BY <1>1, <1>2, TypeInit DEF IInv

LEMMA IInvNext == IInv /\ [Next]_vars => IInv'
<1> SUFFICES ASSUME IInv, [Next]_vars PROVE IInv'
  OBVIOUS
<1>1. TypeOK'
  BY TypeNext DEF IInv
<1>2. ASSUME NEW r \in Requests, Handle(r), NEW q \in Requests
      PROVE  AnswerOf(q)' /\ SlotsOf(q)'
  <2>1. CASE q = r
    BY <1>2, <2>1, AnswerStep, SlotsStep DEF IInv
  <2>2. CASE q # r
    BY <1>2, <2>2, OthersSame DEF IInv, Same, AnswerOf, SlotsOf, Granted
  <2> QED
    BY <2>1, <2>2
<1>3. ASSUME NEW s \in Scopes, Expire(s), NEW q \in Requests
      PROVE  AnswerOf(q)' /\ SlotsOf(q)'
  BY <1>3 DEF IInv, Expire, usageVars, AnswerOf, SlotsOf, Granted
<1>4. ASSUME UNCHANGED vars, NEW q \in Requests
      PROVE  AnswerOf(q)' /\ SlotsOf(q)'
  BY <1>4 DEF IInv, vars, AnswerOf, SlotsOf, Granted
<1> QED
  BY <1>1, <1>2, <1>3, <1>4 DEF IInv, Next

LEMMA Invariance == Spec => []IInv
BY IInvInit, IInvNext, PTL DEF Spec

(* The pipeline is type correct: no scope of the limiter grants more slots *)
(* than it has.                                                            *)
THEOREM PipelineTypeOK == Spec => []TypeOK
<1>1. IInv => TypeOK
  BY DEF IInv
<1> QED
  BY <1>1, Invariance, PTL

(* server.ts: a request is answered once, whatever rejects, unless its     *)
(* body is the JSON text null.                                             *)
THEOREM RequestAnsweredOnce == Spec => []AnsweredOnce
<1>1. IInv => AnsweredOnce
  <2> SUFFICES ASSUME IInv, NEW r \in Requests
               PROVE  /\ writes[r] <= 1
                      /\ pc[r] = "done" /\ writes[r] = 0 => body[r] = "null"
    BY DEF AnsweredOnce
  <2>1. pc[r] \in {"idle"} \union (Awaiting \ {"transport"}) \union {"transport", "done"}
    BY DEF IInv, TypeOK
  <2> QED
    BY <2>1 DEF IInv, AnswerOf
<1> QED
  BY <1>1, Invariance, PTL

(* server.ts: a tool executes only with the slots of every scope that      *)
(* applies to its request, and no scope is charged before those checked    *)
(* ahead of it.                                                            *)
THEOREM ToolHasItsSlots == Spec => []SlotsInOrder
<1>1. IInv => SlotsInOrder
  BY DEF IInv, SlotsOf, Granted, SlotsInOrder
<1> QED
  BY <1>1, Invariance, PTL

-----------------------------------------------------------------------------
(* Records under way are finitely many; an action adds or removes one.     *)
LEMMA PendingCount ==
  /\ IsFiniteSet(Pending)
  /\ Cardinality(Pending) \in Nat
<1>1. IsFiniteSet(Pending)
  BY PipelineAssumption, FS_Subset DEF Pending
<1> QED
  BY <1>1, FS_CardinalityType

LEMMA RecordedNext ==
  ASSUME IInv, RecordedOrLogged, [Next]_vars
  PROVE  RecordedOrLogged'
<1> TypeOK /\ \A r \in Requests : SlotsOf(r)
  BY DEF IInv
<1> USE DEF TypeOK
<1>1. ASSUME Pending' = Pending,
             UNCHANGED <<succeeded, logged, requestCount>>
      PROVE  RecordedOrLogged'
  BY <1>1 DEF RecordedOrLogged
<1>2. ASSUME NEW r \in Requests, CallSucceeds(r) PROVE RecordedOrLogged'
  <2>1. r \notin Pending /\ Pending' = Pending \union {r}
    BY <1>2 DEF CallSucceeds, Pending, Unwritten
  <2>2. Cardinality(Pending') = Cardinality(Pending) + 1
    BY <2>1, PendingCount, FS_AddElement
  <2> QED
    BY <1>2, <2>2, PendingCount DEF CallSucceeds, RecordedOrLogged
<1>3. ASSUME NEW r \in Requests, usage[r] \in Unwritten, usage' = [usage EXCEPT ![r] = "none"]
      PROVE  Cardinality(Pending') = Cardinality(Pending) - 1
  <2>1. r \in Pending /\ Pending' = Pending \ {r}
    BY <1>3 DEF Pending, Unwritten
  <2> QED
    BY <2>1, PendingCount, FS_RemoveElement
<1>4. ASSUME NEW r \in Requests, Commit(r) PROVE RecordedOrLogged'
  <2>1. Cardinality(Pending') = Cardinality(Pending) - 1
    BY <1>3, <1>4 DEF Commit, Unwritten
  <2> QED
    BY <1>4, <2>1, PendingCount DEF Commit, Committed, requestVars, RecordedOrLogged
<1>5. ASSUME NEW r \in Requests, RecordFails(r) PROVE RecordedOrLogged'
  <2>1. Cardinality(Pending') = Cardinality(Pending) - 1
    BY <1>3, <1>5 DEF RecordFails
  <2> QED
    BY <1>5, <2>1, PendingCount DEF RecordFails, RecordedOrLogged
<1>6. ASSUME NEW r \in Requests, UpdateKey(r) \/ UpsertTool(r) PROVE RecordedOrLogged'
  <2>1. Pending' = Pending
    BY <1>6 DEF UpdateKey, UpsertTool, Pending, Unwritten
  <2> QED
    BY <1>1, <1>6, <2>1 DEF UpdateKey, UpsertTool
<1>7. ASSUME NEW r \in Requests, CallFails(r) PROVE RecordedOrLogged'
  <2>1. Pending' = Pending
    BY <1>7 DEF CallFails, Pending, Unwritten
  <2> QED
    BY <1>1, <1>7, <2>1 DEF CallFails
<1>8. ASSUME NEW r \in Requests, Dispatch(r) PROVE RecordedOrLogged'
  <2>1. usage[r] = "none"
    BY <1>8 DEF Dispatch, SlotsOf
  <2>2. Pending' = Pending
    BY <1>8, <2>1 DEF Dispatch, Pending, Unwritten
  <2> QED
    BY <1>1, <1>8, <2>2 DEF Dispatch
<1>9. ASSUME UNCHANGED usageVars PROVE RecordedOrLogged'
  BY <1>1, <1>9 DEF usageVars, Pending
<1>10. ASSUME NEW r \in Requests, Handle(r) PROVE RecordedOrLogged'
  <2>1. CASE \/ Arrive(r) \/ CheckIp(r) \/ Authenticate(r) \/ CheckKey(r)
             \/ RefuseBody(r) \/ ParseNull(r) \/ Parse(r) \/ CheckTool(r)
             \/ RefuseRoute(r) \/ Return(r) \/ Throw(r) \/ Leave(r)
    BY <1>9, <2>1 DEF Arrive, CheckIp, Authenticate, CheckKey, RefuseBody, ParseNull, Parse,
                      CheckTool, Check, RefuseRoute, Return, Throw, Leave
  <2>2. CASE CallSucceeds(r) \/ CallFails(r) \/ Dispatch(r)
    BY <1>2, <1>7, <1>8, <2>2
  <2>3. CASE UpdateKey(r) \/ UpsertTool(r) \/ Commit(r) \/ RecordFails(r)
    BY <1>4, <1>5, <1>6, <2>3
  <2> QED
    BY <1>10, <2>1, <2>2, <2>3 DEF Handle
<1>11. ASSUME NEW s \in Scopes, Expire(s) PROVE RecordedOrLogged'
  BY <1>9, <1>11 DEF Expire
<1>12. CASE UNCHANGED vars
  BY <1>9, <1>12 DEF vars, usageVars
<1> QED
  BY <1>10, <1>11, <1>12 DEF Next

(* api-keys.ts, recordUsage(): written without being awaited and without a *)
(* retry, a record is never written twice, and one that is lost leaves a   *)
(* log line.                                                               *)
THEOREM UsageRecordedOrLogged == Spec => []RecordedOrLogged
<1>1. Init => RecordedOrLogged
  <2> SUFFICES ASSUME Init PROVE RecordedOrLogged
    OBVIOUS
  <2>1. Pending = {}
    BY DEF Init, Pending, Unwritten
  <2> QED
    BY <2>1, FS_EmptySet DEF Init, RecordedOrLogged
<1>2. IInv /\ RecordedOrLogged /\ [Next]_vars => RecordedOrLogged'
  BY RecordedNext
<1> QED
  BY <1>1, <1>2, Invariance, PTL DEF Spec

-----------------------------------------------------------------------------
(* Sums over a finite set, as FoldSet computes them: an element is chosen  *)
(* and the rest is summed.  What the recursion yields for every set is     *)
(* shown by looking at a least set it would fail for.                      *)
First(s) == CHOOSE x \in s : TRUE
Rest(s) == s \ {First(s)}
SumStep(g, f, s) == IF s = {} THEN 0 ELSE f[First(s)] + g[Rest(s)]
Sums(g, f, T) == g = [s \in SUBSET T |-> SumStep(g, f, s)]
Total(f, T) == LET sum == CHOOSE g : Sums(g, f, T) IN sum[T]

LEMMA RestIsLess ==
  ASSUME NEW s, s # {}
  PROVE  First(s) \in s /\ Rest(s) \subseteq s /\ Rest(s) # s
BY DEF First, Rest

LEMMA LeastSubset ==
  ASSUME NEW T, IsFiniteSet(T), NEW D \in SUBSET (SUBSET T), D # {}
  PROVE  \E s \in D : \A u \in D : u \subseteq s => u = s
<1>1. D \subseteq FiniteSubsetsOf(T)
  BY FS_Subset DEF FiniteSubsetsOf
<1>2. PICK s \in D : \A u \in D : ~(<<u, s>> \in StrictSubsetOrdering(T))
  BY <1>1, WFMin, FS_StrictSubsetOrderingWellFounded
<1>. QED
  BY <1>1, <1>2 DEF StrictSubsetOrdering

(* Two of them agree where both are defined.                               *)
LEMMA SumsAgree ==
  ASSUME NEW T, IsFiniteSet(T), NEW U, NEW f, NEW g, NEW h, Sums(g, f, T), Sums(h, f, U),
         NEW s \in SUBSET T, s \in SUBSET U
  PROVE  g[s] = h[s]
<1>. DEFINE D == {u \in SUBSET T : u \in SUBSET U /\ g[u] # h[u]}
<1>1. \A u \in SUBSET T : g[u] = SumStep(g, f, u)
  BY DEF Sums
<1>2. \A u \in SUBSET U : h[u] = SumStep(h, f, u)
  BY DEF Sums
<1>3. ASSUME D # {} PROVE FALSE
  <2>1. PICK u \in D : \A v \in D : v \subseteq u => v = u
    <3>1. D \in SUBSET (SUBSET T)
      OBVIOUS
    <3>. HIDE DEF D
    <3>. QED
      BY <1>3, <3>1, LeastSubset
  <2>2. u # {} => g[Rest(u)] = h[Rest(u)]
    BY <2>1, RestIsLess
  <2>. QED
    BY <1>1, <1>2, <2>1, <2>2 DEF SumStep
<1>. QED
  BY <1>3

LEMMA SumsExist ==
  ASSUME NEW T, IsFiniteSet(T), NEW f
  PROVE  \E g : Sums(g, f, T)
<1>. DEFINE D == {u \in SUBSET T : ~\E g : Sums(g, f, u)}
            G(u) == CHOOSE g : Sums(g, f, u)
<1>1. ASSUME D # {} PROVE FALSE
  <2>1. PICK s \in D : \A u \in D : u \subseteq s => u = s
    <3>1. D \in SUBSET (SUBSET T)
      OBVIOUS
    <3>. HIDE DEF D
    <3>. QED
      BY <1>1, <3>1, LeastSubset
  <2>2. ASSUME NEW u \in SUBSET s, u # s PROVE Sums(G(u), f, u) /\ IsFiniteSet(u)
    <3>1. \E g : Sums(g, f, u)
      BY <2>1, <2>2
    <3>2. IsFiniteSet(u)
      BY <2>1, <2>2, FS_Subset
    <3>. QED
      BY <3>1, <3>2
  <2>. DEFINE h == [u \in SUBSET s |-> SumStep(G(Rest(u)), f, u)]
  <2>3. ASSUME NEW u \in SUBSET s PROVE h[u] = SumStep(h, f, u)
    <3>1. CASE u = {}
      BY <3>1 DEF SumStep
    <3>2. CASE u # {}
      <4>. DEFINE v == Rest(u)
      <4>1. v \in SUBSET s /\ v # s
        BY <3>2, RestIsLess
      <4>2. G(v)[v] = SumStep(G(v), f, v)
        <5>1. Sums(G(v), f, v)
          BY <2>2, <4>1
        <5>. HIDE DEF G, v
        <5>. QED
          BY <5>1 DEF Sums
      <4>3. h[v] = SumStep(G(Rest(v)), f, v)
        BY <4>1
      <4>4. SumStep(G(v), f, v) = SumStep(G(Rest(v)), f, v)
        <5>1. CASE v = {}
          BY <5>1 DEF SumStep
        <5>2. CASE v # {}
          <6>. DEFINE w == Rest(v)
          <6>1. w \in SUBSET s /\ w # s /\ w \in SUBSET v
            BY <4>1, <5>2, RestIsLess
          <6>2. Sums(G(v), f, v) /\ Sums(G(w), f, w) /\ IsFiniteSet(w)
            BY <2>2, <4>1, <6>1
          <6>. HIDE DEF G, v, w
          <6>3. G(w)[w] = G(v)[w]
            BY <6>1, <6>2, SumsAgree
          <6>. QED
            BY <6>3 DEF SumStep, w
        <5>. QED
          BY <5>1, <5>2
      <4>. HIDE DEF h, G
      <4>. QED
        BY <2>3, <4>2, <4>3, <4>4 DEF SumStep, h
    <3>. QED
      BY <3>1, <3>2
  <2>4. Sums(h, f, s)
    BY <2>3 DEF Sums
  <2>. QED
    BY <2>1, <2>4
<1>. QED
  BY <1>1

(* The sum of zeros, and the sum after one summand has grown by one.       *)
LEMMA TotalOfZeros ==
  ASSUME NEW T, IsFiniteSet(T)
  PROVE  Total([t \in T |-> 0], T) = 0
<1>. DEFINE f == [t \in T |-> 0]
            g == CHOOSE h : Sums(h, f, T)
            D == {u \in SUBSET T : g[u] # 0}
<1>1. Sums(g, f, T)
  BY SumsExist
<1>. HIDE DEF g
<1>2. ASSUME D # {} PROVE FALSE
  <2>1. PICK u \in D : \A v \in D : v \subseteq u => v = u
    <3>1. D \in SUBSET (SUBSET T)
      OBVIOUS
    <3>. HIDE DEF D
    <3>. QED
      BY <1>2, <3>1, LeastSubset
  <2>2. u # {} => g[Rest(u)] = 0 /\ f[First(u)] = 0
    BY <2>1, RestIsLess
  <2>3. g[u] = SumStep(g, f, u)
    BY <1>1, <2>1 DEF Sums
  <2>. QED
    BY <2>1, <2>2, <2>3 DEF SumStep
<1>3. g[T] = 0
  BY <1>2
<1>. QED
  BY <1>3 DEF Total, g

LEMMA TotalGrows ==
  ASSUME NEW T, IsFiniteSet(T), NEW f \in [T -> Nat], NEW t \in T
  PROVE  Total([f EXCEPT ![t] = @ + 1], T) = Total(f, T) + 1
<1>. DEFINE e == [f EXCEPT ![t] = @ + 1]
            g == CHOOSE k : Sums(k, f, T)
            h == CHOOSE k : Sums(k, e, T)
            One(u) == IF t \in u THEN 1 ELSE 0
            D == {u \in SUBSET T : ~(g[u] \in Nat /\ h[u] = g[u] + One(u))}
<1>1. Sums(g, f, T) /\ Sums(h, e, T)
  <2>. HIDE DEF e
  <2>. QED
    BY SumsExist
<1>. HIDE DEF g, h
<1>2. ASSUME D # {} PROVE FALSE
  <2>1. PICK u \in D : \A v \in D : v \subseteq u => v = u
    <3>1. D \in SUBSET (SUBSET T)
      OBVIOUS
    <3>. HIDE DEF D
    <3>. QED
      BY <1>2, <3>1, LeastSubset
  <2>2. g[u] = SumStep(g, f, u) /\ h[u] = SumStep(h, e, u)
    BY <1>1, <2>1 DEF Sums
  <2>3. CASE u = {}
    BY <2>1, <2>2, <2>3 DEF SumStep
  <2>4. CASE u # {}
    <3>1. First(u) \in u /\ First(u) \in T /\ Rest(u) \in SUBSET T /\ Rest(u) # u /\ Rest(u) \subseteq u
      BY <2>1, <2>4, RestIsLess
    <3>2. g[Rest(u)] \in Nat /\ h[Rest(u)] = g[Rest(u)] + One(Rest(u))
      BY <2>1, <3>1
    <3>3. g[u] = f[First(u)] + g[Rest(u)] /\ h[u] = e[First(u)] + h[Rest(u)]
      BY <2>2, <2>4 DEF SumStep
    <3>4. f[First(u)] \in Nat
      BY <3>1
    <3>5. e[First(u)] = IF First(u) = t THEN f[First(u)] + 1 ELSE f[First(u)]
      BY <3>1
    <3>6. First(u) = t => One(u) = 1 /\ One(Rest(u)) = 0
      BY <3>1 DEF Rest
    <3>7. First(u) # t => One(u) = One(Rest(u))
      BY DEF Rest
    <3>8. One(u) \in Nat /\ One(Rest(u)) \in Nat
      OBVIOUS
    <3>9. g[u] \in Nat /\ h[u] = g[u] + One(u)
      <4>. HIDE DEF One, e
      <4>. QED
        BY <3>2, <3>3, <3>4, <3>5, <3>6, <3>7, <3>8
    <3>. QED
      BY <2>1, <3>9
  <2>. QED
    BY <2>3, <2>4
<1>3. h[T] = g[T] + 1
  BY <1>2
<1>. QED
  BY <1>3 DEF Total, g, h

-----------------------------------------------------------------------------
Exact == requestCount = Total(invocations, Tools)

LEMMA ExactNext ==
  ASSUME IInv, Exact, [Next]_vars
  PROVE  Exact'
<1>1. ASSUME NEW r \in Requests, Commit(r) PROVE Exact'
  <2>1. /\ call[r] \in Tools /\ invocations \in [Tools -> Nat] /\ IsFiniteSet(Tools)
    BY <1>1, PipelineAssumption DEF IInv, TypeOK, SlotsOf, Commit, Unwritten
  <2>2. /\ requestCount' = requestCount + 1
        /\ invocations' = [invocations EXCEPT ![call[r]] = @ + 1]
    BY <1>1 DEF Commit, Committed
  <2>. QED
    BY <2>1, <2>2, TotalGrows DEF Exact
<1>2. ASSUME UNCHANGED <<requestCount, invocations>> PROVE Exact'
  BY <1>2 DEF Exact
<1>3. ASSUME NEW r \in Requests, Handle(r), ~Commit(r)
      PROVE  UNCHANGED <<requestCount, invocations>>
  BY <1>3 DEF Handle, Arrive, CheckIp, Authenticate, CheckKey, RefuseBody, ParseNull, Parse,
              CheckTool, Check, RefuseRoute, Dispatch, Return, Throw, Leave, CallSucceeds, CallFails,
              UpdateKey, UpsertTool, RecordFails, usageVars
<1>4. ASSUME NEW s \in Scopes, Expire(s) PROVE UNCHANGED <<requestCount, invocations>>
  BY <1>4 DEF Expire, usageVars
<1>. QED
  BY <1>1, <1>2, <1>3, <1>4 DEF Next, vars

(* api-keys.ts, recordUsage(): moreover the key's counter is the sum of    *)
(* its tools' counters in every state a reader can see, for any number of  *)
(* tools: both are written in one transaction.                             *)
THEOREM UsageIsExact == Spec => []UsageExact
<1>1. Init => Exact
  BY PipelineAssumption, TotalOfZeros DEF Init, Exact
<1>2. IInv /\ Exact /\ [Next]_vars => Exact'
  BY ExactNext
<1>3. RecordedOrLogged /\ Exact => UsageExact
  BY DEF UsageExact, Exact, FoldSet, MapThenFoldSet, Total, Sums, SumStep, First, Rest
<1>. QED
  BY <1>1, <1>2, <1>3, Invariance, UsageRecordedOrLogged, PTL DEF Spec

=============================================================================
