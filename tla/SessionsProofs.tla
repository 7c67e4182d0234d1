--------------------------- MODULE SessionsProofs ---------------------------
(***************************************************************************)
(* Proofs about the session map, for any number of requests, keys and      *)
(* sessions and any caps: the type invariant, ownership, the gauge, that   *)
(* no MCP server is orphaned, by how much the caps can be passed, and that *)
(* idle sessions are evicted.                                              *)
(***************************************************************************)
EXTENDS Sessions, FiniteSetTheorems, TLAPS

OnSession == {"streaming", "deleting", "creating", "answered"}

(* A request under way has a key, and a session where it works on one;     *)
(* a session that is in the map, open or lost has been created.            *)
OwnerInv ==
  /\ \A r \in Requests : pc[r] # "idle" => key[r] \in Keys
  /\ \A r \in Requests : pc[r] \in OnSession => sid[r] \in Sids
  /\ \A s \in sessions \union open \union thrown : owner[s] # NoKey
  /\ OwnSessionOnly

(* A request that creates a session holds an open server that is not in    *)
(* the map yet, and no other request holds it.                             *)
AnswerInv ==
  \A r \in Requests : Creating(r) =>
    /\ sid[r] \in open \ (sessions \union thrown)
    /\ \A q \in Requests \ {r} : pc[q] \in OnSession => sid[q] # sid[r]

Creators == {r \in Requests : Creating(r)}
CreatorsOf(k) == {r \in Requests : Creating(r) /\ key[r] = k}

IInv == TypeOK /\ OwnerInv /\ AnswerInv /\ NoOrphan /\ GaugeMatches

Overshoot == TotalOvershoot /\ KeyOvershoot

(* How one step changes a set S of sessions into T and a set C of requests *)
(* creating one into D: it only removes, it adds a request where the cap   *)
(* leaves room, or it turns a request of C into a session.                 *)
Moves(S, T, C, D, cap) ==
  \/ T \subseteq S /\ D \subseteq C
  \/ T = S /\ Cardinality(S) < cap
  \/ \E r \in C : \E s : T = S \union {s} /\ D = C \ {r}

-----------------------------------------------------------------------------
LEMMA FiniteSessions ==
  ASSUME TypeOK
  PROVE  IsFiniteSet(sessions)
BY FS_Subset, SessionsAssumption DEF TypeOK

LEMMA InitIInv == Init => IInv
<1> SUFFICES ASSUME Init PROVE IInv
  OBVIOUS
<1> USE DEF Init
<1>1. TypeOK
  BY SessionsAssumption DEF TypeOK, PC, Phase
<1>2. OwnerInv /\ AnswerInv /\ NoOrphan
  BY DEF OwnerInv, AnswerInv, NoOrphan, OwnSessionOnly, OnSession, Creating
<1>3. GaugeMatches
  BY FS_EmptySet DEF GaugeMatches
<1>4. QED
  BY <1>1, <1>2, <1>3 DEF IInv

(* What the end of a request does to the three request variables.          *)
LEMMA DoneType ==
  ASSUME TypeOK, NEW r \in Requests, Done(r)
  PROVE  /\ pc' \in [Requests -> PC]
         /\ key' \in [Requests -> Keys \union {NoKey}]
         /\ sid' \in [Requests -> Sids \union {NoSid}]
         /\ pc'[r] = "idle"
         /\ \A q \in Requests \ {r} :
              pc'[q] = pc[q] /\ key'[q] = key[q] /\ sid'[q] = sid[q]
BY DEF TypeOK, Done, PC

(* A request that ends without touching the map keeps the invariant.       *)
LEMMA DoneIInv ==
  ASSUME IInv, NEW r \in Requests, Done(r), pc[r] \notin {"creating", "answered", "deleting"},
         UNCHANGED <<owner, sessions, age, open, gauge, phase, thrown>>
  PROVE  IInv'
<1>1. TypeOK'
  BY DoneType DEF IInv, TypeOK
<1>2. OwnerInv'
  BY DoneType DEF IInv, OwnerInv, OwnSessionOnly, OnSession
<1>3. AnswerInv'
  BY DoneType DEF IInv, AnswerInv, Creating, OnSession
<1>4. NoOrphan' /\ GaugeMatches'
  BY DoneType DEF IInv, NoOrphan, GaugeMatches, Creating
<1>5. QED
  BY <1>1, <1>2, <1>3, <1>4 DEF IInv

(* So does a rejection, which is remembered where it leaves the server     *)
(* open outside of the map or closed in it.                                *)
LEMMA ThrowIInv ==
  ASSUME IInv, NEW r \in Requests, CreationThrows(r) \/ DeleteThrows(r)
  PROVE  IInv'
<1>1. /\ Done(r) /\ sid[r] \in Sids /\ owner[sid[r]] # NoKey
      /\ UNCHANGED <<owner, sessions, age, open, gauge, phase>>
      /\ thrown \subseteq thrown' /\ thrown' \subseteq thrown \union {sid[r]}
      /\ Creating(r) => sid[r] \in thrown'
      /\ pc[r] = "deleting" => sid[r] \notin sessions \ open \/ sid[r] \in thrown'
      /\ pc[r] \in OnSession
  <2>1. pc[r] \in OnSession /\ pc[r] # "idle"
    BY DEF CreationThrows, DeleteThrows, OnSession
  <2>2. sid[r] \in Sids /\ owner[sid[r]] # NoKey
    BY <2>1, SessionsAssumption DEF IInv, OwnerInv, OwnSessionOnly, OnSession
  <2>. QED
    BY <2>1, <2>2 DEF CreationThrows, DeleteThrows, Creating
<1>2. TypeOK'
  BY <1>1, DoneType DEF IInv, TypeOK
<1>3. OwnerInv'
  BY <1>1, DoneType DEF IInv, OwnerInv, OwnSessionOnly, OnSession
<1>4. AnswerInv'
  BY <1>1, DoneType DEF IInv, AnswerInv, Creating, OnSession
<1>5. NoOrphan' /\ GaugeMatches'
  BY <1>1, DoneType DEF IInv, NoOrphan, GaugeMatches, Creating
<1>. QED
  BY <1>2, <1>3, <1>4, <1>5 DEF IInv

(* Removing sessions keeps the invariant, whether or not they are in the   *)
(* map; the request that asked for it, if any, is a DELETE that ends.      *)
LEMMA RemoveIInv ==
  ASSUME IInv, NEW S \in SUBSET Sids, RemoveSessions(S),
         phase' \in Phase, UNCHANGED owner,
         \/ UNCHANGED <<pc, key, sid>>
         \/ \E r \in Requests : pc[r] = "deleting" /\ S = {sid[r]} /\ Done(r)
  PROVE  IInv'
<1> USE DEF RemoveSessions
<1> DEFINE Ends ==
      /\ pc' \in [Requests -> PC]
      /\ key' \in [Requests -> Keys \union {NoKey}]
      /\ sid' \in [Requests -> Sids \union {NoSid}]
      /\ \A q \in Requests :
           \/ pc'[q] = pc[q] /\ key'[q] = key[q] /\ sid'[q] = sid[q]
           \/ pc[q] = "deleting" /\ sid[q] \in S /\ pc'[q] = "idle"
<1>1. Ends
  <2>1. CASE UNCHANGED <<pc, key, sid>>
    BY <2>1 DEF IInv, TypeOK
  <2>2. ASSUME NEW r \in Requests, pc[r] = "deleting", S = {sid[r]}, Done(r)
        PROVE  Ends
    BY <2>2, DoneType DEF IInv
  <2>3. QED
    BY <2>1, <2>2
<1>2. IsFiniteSet(sessions)
  BY FiniteSessions DEF IInv
<1>3. /\ Cardinality(S \intersect sessions) \in Nat
      /\ Cardinality(sessions \ S) = Cardinality(sessions) - Cardinality(S \intersect sessions)
  <2>1. IsFiniteSet(S \intersect sessions)
    BY <1>2, FS_Subset
  <2>2. Cardinality(S \intersect sessions) \in Nat
    BY <2>1, FS_CardinalityType
  <2>3. S \intersect sessions = sessions \intersect S
    OBVIOUS
  <2>4. Cardinality(sessions \ S) = Cardinality(sessions) - Cardinality(sessions \intersect S)
    BY <1>2, FS_Difference
  <2>5. QED
    BY <2>2, <2>3, <2>4
<1>4. GaugeMatches'
  BY <1>3 DEF IInv, GaugeMatches
<1>5. TypeOK'
  <2>1. IsFiniteSet(sessions \ S)
    BY <1>2, FS_Subset
  <2>2. gauge' \in Nat
    BY <1>4, <2>1, FS_CardinalityType DEF GaugeMatches
  <2>3. QED
    BY <1>1, <2>2, SessionsAssumption DEF IInv, TypeOK
<1>6. OwnerInv'
  BY <1>1 DEF IInv, OwnerInv, OwnSessionOnly, OnSession
<1>7. AnswerInv'
  BY <1>1 DEF IInv, AnswerInv, Creating, OnSession
<1>8. NoOrphan'
  BY <1>1 DEF IInv, NoOrphan, Creating
<1>9. QED
  BY <1>4, <1>5, <1>6, <1>7, <1>8 DEF IInv

-----------------------------------------------------------------------------
LEMMA StepIInv == IInv /\ [Next]_vars => IInv'
<1> SUFFICES ASSUME IInv, [Next]_vars PROVE IInv'
  OBVIOUS
<1>1. ASSUME NEW r \in Requests, NEW k \in Keys, Accept(r, k) PROVE IInv'
  <2> USE <1>1 DEF Accept
  <2>1. TypeOK'
    BY DEF IInv, TypeOK, PC
  <2>2. OwnerInv' /\ AnswerInv'
    BY DEF IInv, TypeOK, OwnerInv, AnswerInv, OwnSessionOnly, OnSession, Creating
  <2>3. NoOrphan' /\ GaugeMatches'
    BY DEF IInv, TypeOK, NoOrphan, GaugeMatches, Creating
  <2>4. QED
    BY <2>1, <2>2, <2>3 DEF IInv
<1>2. ASSUME NEW r \in Requests,
             \/ Refuse(r) \/ FinishUse(r) \/ RefuseOverCap(r)
             \/ \E s \in Sids : NotFound(r, s)
      PROVE  IInv'
  BY <1>2, DoneIInv DEF Refuse, FinishUse, RefuseOverCap, NotFound
<1>3. ASSUME NEW r \in Requests, NEW s \in Sids, UseSession(r, s) PROVE IInv'
  <2> USE <1>3 DEF UseSession
  <2>1. TypeOK'
    BY SessionsAssumption DEF IInv, TypeOK, PC
  <2>2. OwnerInv' /\ AnswerInv'
    BY DEF IInv, TypeOK, OwnerInv, AnswerInv, OwnSessionOnly, OnSession, Creating, Found
  <2>3. NoOrphan' /\ GaugeMatches'
    BY DEF IInv, TypeOK, NoOrphan, GaugeMatches, Creating
  <2>4. QED
    BY <2>1, <2>2, <2>3 DEF IInv
<1>4. ASSUME NEW r \in Requests, NEW s \in Sids, DeleteSession(r, s) PROVE IInv'
  <2> USE <1>4 DEF DeleteSession
  <2>1. TypeOK'
    BY SessionsAssumption DEF IInv, TypeOK, PC
  <2>2. OwnerInv' /\ AnswerInv'
    BY DEF IInv, TypeOK, OwnerInv, AnswerInv, OwnSessionOnly, OnSession, Creating, Found
  <2>3. NoOrphan' /\ GaugeMatches'
    BY DEF IInv, TypeOK, NoOrphan, GaugeMatches, Creating, Found
  <2>4. QED
    BY <2>1, <2>2, <2>3 DEF IInv
<1>5. ASSUME NEW r \in Requests, FinishDelete(r) PROVE IInv'
  <2>1. {sid[r]} \in SUBSET Sids
    BY <1>5 DEF FinishDelete, IInv, OwnerInv, OnSession
  <2>2. QED
    BY <1>5, <2>1, RemoveIInv DEF FinishDelete, IInv, TypeOK
<1>6. ASSUME NEW r \in Requests, NEW s \in Sids, AdmitNew(r, s) PROVE IInv'
  <2> USE <1>6 DEF AdmitNew
  <2>1. /\ s \notin sessions \union open \union thrown
        /\ \A q \in Requests : pc[q] \in OnSession => sid[q] # s
    BY SessionsAssumption DEF IInv, OwnerInv, OwnSessionOnly, OnSession
  <2>2. key[r] \in Keys /\ key[r] # NoKey
    BY SessionsAssumption DEF IInv, OwnerInv
  <2>3. TypeOK'
    BY <2>2 DEF IInv, TypeOK, PC
  <2>4. OwnerInv'
    BY <2>1, <2>2 DEF IInv, TypeOK, OwnerInv, OwnSessionOnly, OnSession
  <2>5. AnswerInv'
    BY <2>1 DEF IInv, TypeOK, AnswerInv, OnSession, Creating
  <2>6. NoOrphan' /\ GaugeMatches'
    BY <2>1 DEF IInv, TypeOK, NoOrphan, GaugeMatches, Creating
  <2>7. QED
    BY <2>3, <2>4, <2>5, <2>6 DEF IInv
<1>7. ASSUME NEW r \in Requests, Answer(r) PROVE IInv'
  <2> USE <1>7 DEF Answer
  <2>1. TypeOK'
    BY DEF IInv, TypeOK, PC
  <2>2. OwnerInv' /\ AnswerInv'
    BY DEF IInv, TypeOK, OwnerInv, AnswerInv, OwnSessionOnly, OnSession, Creating
  <2>3. NoOrphan' /\ GaugeMatches'
    BY DEF IInv, TypeOK, NoOrphan, GaugeMatches, Creating
  <2>4. QED
    BY <2>1, <2>2, <2>3 DEF IInv
<1>8. ASSUME NEW r \in Requests, Register(r) PROVE IInv'
  <2> USE <1>8 DEF Register
  <2>1. sid[r] \in Sids /\ sid[r] \in open \ sessions
    BY DEF IInv, OwnerInv, AnswerInv, OnSession, Creating
  <2>2. TypeOK'
    BY <2>1, DoneType, SessionsAssumption DEF IInv, TypeOK
  <2>3. OwnerInv'
    BY <2>1, DoneType DEF IInv, OwnerInv, OwnSessionOnly, OnSession
  <2>4. AnswerInv'
    BY <2>1, DoneType DEF IInv, AnswerInv, Creating, OnSession
  <2>5. NoOrphan'
    BY <2>1, DoneType DEF IInv, NoOrphan, Creating
  <2>6. GaugeMatches'
    BY <2>1, FiniteSessions, FS_AddElement DEF IInv, GaugeMatches
  <2>7. QED
    BY <2>2, <2>3, <2>4, <2>5, <2>6 DEF IInv
<1>9. CASE Tick
  <2> USE <1>9 DEF Tick
  <2>1. TypeOK'
    BY SessionsAssumption DEF IInv, TypeOK
  <2>2. OwnerInv' /\ AnswerInv' /\ NoOrphan' /\ GaugeMatches'
    BY DEF IInv, OwnerInv, AnswerInv, NoOrphan, GaugeMatches, OwnSessionOnly, Creating
  <2>3. QED
    BY <2>1, <2>2 DEF IInv
<1>10. CASE Sweep
  <2>1. IdleSessions \in SUBSET Sids
    BY DEF IInv, TypeOK, IdleSessions
  <2>2. QED
    BY <1>10, <2>1, RemoveIInv DEF Sweep, IInv, TypeOK
<1>11. CASE CloseSessions
  <2>1. sessions \in SUBSET Sids
    BY DEF IInv, TypeOK
  <2>2. phase' \in Phase
    BY <1>11 DEF CloseSessions, Phase
  <2>3. QED
    BY <1>11, <2>1, <2>2, RemoveIInv DEF CloseSessions
<1>12. CASE CloseListener
  <2>1. TypeOK'
    BY <1>12 DEF CloseListener, IInv, TypeOK, Phase
  <2>2. OwnerInv' /\ AnswerInv' /\ NoOrphan' /\ GaugeMatches'
    BY <1>12 DEF CloseListener, IInv, OwnerInv, AnswerInv, NoOrphan,
                 GaugeMatches, OwnSessionOnly, Creating
  <2>3. QED
    BY <2>1, <2>2 DEF IInv
<1>13. CASE UNCHANGED vars
  BY <1>13 DEF vars, IInv, TypeOK, OwnerInv, AnswerInv, NoOrphan, GaugeMatches,
               OwnSessionOnly, Creating
<1>14. ASSUME NEW r \in Requests, NotInitialized(r) PROVE IInv'
  <2> USE <1>14 DEF NotInitialized
  <2>1. /\ sid[r] \in Sids /\ Creating(r)
        /\ sid[r] \in open \ (sessions \union thrown)
        /\ \A q \in Requests \ {r} : pc[q] \in OnSession => sid[q] # sid[r]
    BY DEF IInv, OwnerInv, AnswerInv, OnSession, Creating
  <2>2. TypeOK'
    BY <2>1, DoneType DEF IInv, TypeOK
  <2>3. OwnerInv'
    BY <2>1, DoneType DEF IInv, TypeOK, OwnerInv, OwnSessionOnly, OnSession
  <2>4. AnswerInv'
    BY <2>1, DoneType DEF IInv, AnswerInv, Creating, OnSession
  <2>5. NoOrphan' /\ GaugeMatches'
    BY <2>1, DoneType DEF IInv, NoOrphan, GaugeMatches, Creating
  <2>6. QED
    BY <2>2, <2>3, <2>4, <2>5 DEF IInv
<1>15. ASSUME NEW r \in Requests, CreationThrows(r) \/ DeleteThrows(r) PROVE IInv'
  BY <1>15, ThrowIInv
<1>16. QED
  BY <1>1, <1>2, <1>3, <1>4, <1>5, <1>6, <1>7, <1>8, <1>9, <1>10, <1>11, <1>12, <1>13, <1>14, <1>15
     DEF Next, Handle

LEMMA SpecIInv == Spec => []IInv
  BY InitIInv, StepIInv, PTL DEF Spec

-----------------------------------------------------------------------------
(* The bound on sessions and requests that create one survives such a step.*)
LEMMA MovesBound ==
  ASSUME NEW S, NEW T, NEW C \in SUBSET Requests, NEW D \in SUBSET Requests,
         NEW cap \in Nat, IsFiniteSet(S), Moves(S, T, C, D, cap),
         Cardinality(S) + Cardinality(C) < cap + Cardinality(Requests)
  PROVE  Cardinality(T) + Cardinality(D) < cap + Cardinality(Requests)
<1>1. /\ IsFiniteSet(C) /\ IsFiniteSet(D)
      /\ Cardinality(D) <= Cardinality(Requests)
  BY FS_Subset, SessionsAssumption
<1>2. /\ Cardinality(S) \in Nat /\ Cardinality(C) \in Nat /\ Cardinality(D) \in Nat
      /\ Cardinality(Requests) \in Nat
  BY <1>1, FS_CardinalityType, SessionsAssumption
<1>3. CASE T \subseteq S /\ D \subseteq C
  <2>1. /\ IsFiniteSet(T)
        /\ Cardinality(T) <= Cardinality(S)
        /\ Cardinality(D) <= Cardinality(C)
    BY <1>1, <1>3, FS_Subset
  <2>2. Cardinality(T) \in Nat
    BY <2>1, FS_CardinalityType
  <2>3. QED
    BY <1>2, <2>1, <2>2
<1>4. CASE T = S /\ Cardinality(S) < cap
  BY <1>1, <1>2, <1>4
<1>5. ASSUME NEW r \in C, NEW s, T = S \union {s}, D = C \ {r}
      PROVE  Cardinality(T) + Cardinality(D) < cap + Cardinality(Requests)
  <2>1. Cardinality(D) = Cardinality(C) - 1
    BY <1>1, <1>5, FS_RemoveElement
  <2>2. Cardinality(T) = Cardinality(S) \/ Cardinality(T) = Cardinality(S) + 1
    BY <1>5, FS_AddElement
  <2>3. QED
    BY <1>2, <2>1, <2>2
<1>6. QED
  BY <1>3, <1>4, <1>5 DEF Moves

(* Every step of the server moves sessions and requests that way, for the  *)
(* whole map and for each key.                                             *)
LEMMA StepMoves ==
  ASSUME IInv, [Next]_vars
  PROVE  /\ Moves(sessions, sessions', Creators, Creators', TotalCap)
         /\ \A k \in Keys :
              Moves(SessionsOf(k), SessionsOf(k)', CreatorsOf(k), CreatorsOf(k)', PerKeyCap)
<1> DEFINE Goal ==
      /\ Moves(sessions, sessions', Creators, Creators', TotalCap)
      /\ \A k \in Keys :
           Moves(SessionsOf(k), SessionsOf(k)', CreatorsOf(k), CreatorsOf(k)', PerKeyCap)
<1>1. ASSUME sessions' \subseteq sessions,
             \A s \in sessions : owner'[s] = owner[s],
             \A q \in Requests : Creating(q)' => Creating(q) /\ key'[q] = key[q]
      PROVE  Goal
  <2>1. sessions' \subseteq sessions /\ Creators' \subseteq Creators
    BY <1>1 DEF Creators
  <2>2. ASSUME NEW k \in Keys
        PROVE  SessionsOf(k)' \subseteq SessionsOf(k) /\ CreatorsOf(k)' \subseteq CreatorsOf(k)
    BY <1>1 DEF SessionsOf, CreatorsOf
  <2>3. QED
    BY <2>1, <2>2 DEF Moves
<1>2. ASSUME UNCHANGED <<sessions, owner, pc, key>> PROVE Goal
  BY <1>1, <1>2 DEF Creating
<1>3. ASSUME NEW r \in Requests, Done(r), sessions' \subseteq sessions, UNCHANGED owner
      PROVE  Goal
  BY <1>1, <1>3, DoneType DEF IInv, Creating
<1>4. ASSUME NEW r \in Requests, NEW k \in Keys, Accept(r, k) PROVE Goal
  BY <1>1, <1>4 DEF Accept, IInv, TypeOK, Creating
<1>5. ASSUME NEW r \in Requests, NEW s \in Sids, UseSession(r, s) \/ DeleteSession(r, s)
      PROVE  Goal
  BY <1>1, <1>5 DEF UseSession, DeleteSession, IInv, TypeOK, Creating
<1>6. ASSUME NEW r \in Requests,
             \/ Refuse(r) \/ FinishUse(r) \/ RefuseOverCap(r)
             \/ FinishDelete(r) \/ DeleteThrows(r) \/ CreationThrows(r)
             \/ \E s \in Sids : NotFound(r, s)
      PROVE  Goal
  BY <1>3, <1>6 DEF Refuse, FinishUse, RefuseOverCap, FinishDelete, DeleteThrows, CreationThrows,
                    RemoveSessions, NotFound
<1>7. ASSUME NEW r \in Requests, NEW s \in Sids, AdmitNew(r, s) PROVE Goal
  <2> USE <1>7 DEF AdmitNew
  <2>0. s \notin sessions
    BY DEF IInv, OwnerInv
  <2>1. sessions' = sessions /\ Cardinality(sessions) < TotalCap
    <3>1. Cardinality(sessions) \in Nat
      BY FiniteSessions, FS_CardinalityType DEF IInv
    <3>2. QED
      BY <3>1, SessionsAssumption DEF TotalCapReached
  <2>2. SessionsOf(key[r])' = SessionsOf(key[r]) /\ Cardinality(SessionsOf(key[r])) < PerKeyCap
    <3>1. IsFiniteSet(SessionsOf(key[r]))
      BY FiniteSessions, FS_Subset DEF IInv, SessionsOf
    <3>2. Cardinality(SessionsOf(key[r])) \in Nat
      BY <3>1, FS_CardinalityType
    <3>3. QED
      BY <2>0, <3>2, SessionsAssumption DEF IInv, TypeOK, KeyCapReached, SessionsOf
  <2>3. ASSUME NEW k \in Keys \ {key[r]}
        PROVE  SessionsOf(k)' \subseteq SessionsOf(k) /\ CreatorsOf(k)' \subseteq CreatorsOf(k)
    BY <2>0, <2>3 DEF IInv, TypeOK, SessionsOf, CreatorsOf, Creating
  <2>4. \A k \in Keys : SessionsOf(k)' = SessionsOf(k)
    BY <2>0 DEF IInv, TypeOK, SessionsOf
  <2>5. QED
    BY <2>1, <2>2, <2>3, <2>4 DEF Moves
<1>8. ASSUME NEW r \in Requests, Answer(r) PROVE Goal
  BY <1>1, <1>8 DEF Answer, IInv, TypeOK, Creating
<1>9. ASSUME NEW r \in Requests, Register(r) PROVE Goal
  <2> USE <1>9 DEF Register
  <2>1. owner[sid[r]] = key[r] /\ Creating(r)
    BY DEF IInv, OwnerInv, OwnSessionOnly, Creating
  <2>2. \A q \in Requests : Creating(q)' <=> Creating(q) /\ q # r
    BY DoneType DEF IInv, Creating
  <2>3. \A q \in Requests \ {r} : key'[q] = key[q]
    BY DoneType DEF IInv
  <2>4. /\ r \in Creators
        /\ sessions' = sessions \union {sid[r]}
        /\ Creators' = Creators \ {r}
    BY <2>1, <2>2 DEF Creators
  <2>5. ASSUME NEW k \in Keys, k = key[r]
        PROVE  /\ r \in CreatorsOf(k)
               /\ SessionsOf(k)' = SessionsOf(k) \union {sid[r]}
               /\ CreatorsOf(k)' = CreatorsOf(k) \ {r}
    BY <2>1, <2>2, <2>3, <2>5 DEF SessionsOf, CreatorsOf
  <2>6. ASSUME NEW k \in Keys, k # key[r]
        PROVE  SessionsOf(k)' \subseteq SessionsOf(k) /\ CreatorsOf(k)' \subseteq CreatorsOf(k)
    BY <2>1, <2>2, <2>3, <2>6 DEF SessionsOf, CreatorsOf
  <2>7. Moves(sessions, sessions', Creators, Creators', TotalCap)
    BY <2>4 DEF Moves
  <2>8. ASSUME NEW k \in Keys
        PROVE  Moves(SessionsOf(k), SessionsOf(k)', CreatorsOf(k), CreatorsOf(k)', PerKeyCap)
    BY <2>5, <2>6 DEF Moves
  <2>9. QED
    BY <2>7, <2>8
<1>10. CASE Tick
  BY <1>2, <1>10 DEF Tick
<1>11. CASE Sweep \/ CloseSessions
  BY <1>1, <1>11 DEF Sweep, CloseSessions, RemoveSessions, Creating
<1>12. CASE CloseListener \/ UNCHANGED vars
  BY <1>2, <1>12 DEF CloseListener, vars
<1>13. ASSUME NEW r \in Requests, NotInitialized(r) PROVE Goal
  <2>1. sid[r] \notin sessions /\ \A s \in sessions : owner'[s] = owner[s]
    BY <1>13 DEF NotInitialized, IInv, TypeOK, AnswerInv, Creating
  <2>. QED
    BY <1>1, <1>13, <2>1, DoneType DEF NotInitialized, IInv, Creating
<1>14. QED
  BY <1>4, <1>5, <1>6, <1>7, <1>8, <1>9, <1>10, <1>11, <1>12, <1>13 DEF Next, Handle

LEMMA StepOvershoot ==
  IInv /\ Overshoot /\ [Next]_vars => Overshoot'
<1> SUFFICES ASSUME IInv, Overshoot, [Next]_vars PROVE Overshoot'
  OBVIOUS
<1>1. IsFiniteSet(sessions) /\ \A k \in Keys : IsFiniteSet(SessionsOf(k))
  BY FiniteSessions, FS_Subset DEF IInv, SessionsOf
<1>2. TotalOvershoot'
  <2>1. Creators \in SUBSET Requests /\ Creators' \in SUBSET Requests
    BY DEF Creators
  <2>2. Cardinality(sessions) + Cardinality(Creators) < TotalCap + Cardinality(Requests)
    BY DEF Overshoot, TotalOvershoot, Creators
  <2>3. Cardinality(sessions') + Cardinality(Creators') < TotalCap + Cardinality(Requests)
    BY <1>1, <2>1, <2>2, StepMoves, MovesBound, SessionsAssumption
  <2>4. QED
    BY <2>3 DEF TotalOvershoot, Creators
<1>3. KeyOvershoot'
  <2>1. ASSUME NEW k \in Keys
        PROVE  Cardinality(SessionsOf(k)') + Cardinality(CreatorsOf(k)')
                 < PerKeyCap + Cardinality(Requests)
    <3>1. CreatorsOf(k) \in SUBSET Requests /\ CreatorsOf(k)' \in SUBSET Requests
      BY DEF CreatorsOf
    <3>2. Cardinality(SessionsOf(k)) + Cardinality(CreatorsOf(k))
            < PerKeyCap + Cardinality(Requests)
      BY DEF Overshoot, KeyOvershoot, CreatorsOf
    <3>3. QED
      BY <1>1, <3>1, <3>2, StepMoves, MovesBound, SessionsAssumption
  <2>2. QED
    BY <2>1 DEF KeyOvershoot, CreatorsOf
<1>4. QED
  BY <1>2, <1>3 DEF Overshoot

LEMMA InitOvershoot == Init => Overshoot
<1> SUFFICES ASSUME Init PROVE Overshoot
  OBVIOUS
<1>1. /\ Cardinality({}) = 0
      /\ Cardinality(Requests) \in Nat
  BY FS_EmptySet, FS_CardinalityType, SessionsAssumption
<1>2. /\ sessions = {}
      /\ {r \in Requests : Creating(r)} = {}
      /\ \A k \in Keys : SessionsOf(k) = {} /\ {r \in Requests : Creating(r) /\ key[r] = k} = {}
  BY DEF Init, Creating, SessionsOf
<1>3. 0 + 0 < TotalCap + Cardinality(Requests) /\ 0 + 0 < PerKeyCap + Cardinality(Requests)
  BY <1>1, SessionsAssumption
<1>4. QED
  BY <1>1, <1>2, <1>3 DEF Overshoot, TotalOvershoot, KeyOvershoot

-----------------------------------------------------------------------------
(* The type invariant.                                                     *)
THEOREM SessionsTypeOK == Spec => []TypeOK
<1>1. IInv => TypeOK
  BY DEF IInv
<1>2. QED
  BY <1>1, SpecIInv, PTL

(* The gauge is the size of the session map, whichever of the sweep, a     *)
(* DELETE and close() removes a session first.                             *)
THEOREM GaugeIsMapSize == Spec => []GaugeMatches
<1>1. IInv => GaugeMatches
  BY DEF IInv
<1>2. QED
  BY <1>1, SpecIInv, PTL

(* A request only ever works on a session of the key it came with.         *)
THEOREM SessionOwnership == Spec => []OwnSessionOnly
<1>1. IInv => OwnSessionOnly
  BY DEF IInv, OwnerInv
<1>2. QED
  BY <1>1, SpecIInv, PTL

(* server.ts: only an exception, or a creation or DELETE under way, leaves *)
(* an MCP server open outside of the map or closed in it.                  *)
THEOREM NoOrphanedServer == Spec => []NoOrphan
<1>1. IInv => NoOrphan
  BY DEF IInv
<1>2. QED
  BY <1>1, SpecIInv, PTL

(* Both caps are passed by less than the number of requests handled at one *)
(* time.                                                                   *)
LEMMA CapsOvershoot == Spec => [](TotalOvershoot /\ KeyOvershoot)
<1>1. Overshoot => TotalOvershoot /\ KeyOvershoot
  BY DEF Overshoot
<1>2. QED
  BY <1>1, InitOvershoot, StepOvershoot, SpecIInv, PTL DEF Spec

(* The process has at most its cap of sessions and one for each request    *)
(* that passed the check together with the one that took the last place.   *)
THEOREM TotalCapOvershoot == Spec => []TotalOvershoot
<1>1. TotalOvershoot /\ KeyOvershoot => TotalOvershoot
  OBVIOUS
<1>2. QED
  BY <1>1, CapsOvershoot, PTL

(* The same of each API key and of the requests made with it.              *)
THEOREM KeyCapOvershoot == Spec => []KeyOvershoot
<1>1. TotalOvershoot /\ KeyOvershoot => KeyOvershoot
  OBVIOUS
<1>2. QED
  BY <1>1, CapsOvershoot, PTL

-----------------------------------------------------------------------------
(* Idle sessions are evicted.                                              *)

(* A request renews s; s is in the map of a running server, n ticks after  *)
(* its last use; it is not.                                                *)
Used(s) == \E r \in Requests : UseSession(r, s) \/ DeleteSession(r, s)
Aged(s, n) == s \in sessions /\ phase = "serving" /\ age[s] = n
Gone(s) == s \notin sessions \/ phase # "serving"
Young(s) == \E n \in 0..IdleTicks : Aged(s, n)

(* The fairness of FairSpec: time passes for a session that is not idle    *)
(* yet, and the interval timer's sweep runs when there is something to     *)
(* sweep.  The guards take the place of ENABLED.                           *)
TickCounts == \E s \in sessions : age[s] <= IdleTicks
SweepDue == phase = "serving" /\ IdleSessions # {}
TimePasses == []<>~TickCounts \/ []<><<Tick>>_vars
SweepRuns == []<>~SweepDue \/ []<><<Sweep>>_vars

(* What a step other than a use does to a session in the map.              *)
LEMMA Ageing ==
  ASSUME IInv, NEW s \in Sids, NEW n \in 0..(IdleTicks + 1), Aged(s, n), [Next]_vars, ~Used(s)
  PROVE  /\ Gone(s)' \/ Aged(s, n)' \/ (n <= IdleTicks /\ Aged(s, n + 1)')
         /\ Tick => Gone(s)' \/ n > IdleTicks \/ Aged(s, n + 1)'
<1>. USE SessionsAssumption
<1>0. s \in sessions /\ phase = "serving" /\ age[s] = n /\ TypeOK
  BY DEF Aged, IInv
<1>1. CASE Tick
  BY <1>0, <1>1 DEF Tick, Aged
<1>2. ASSUME UNCHANGED <<age, sessions, phase>> PROVE Aged(s, n)'
  BY <1>2 DEF Aged
<1>3. ASSUME NEW r \in Requests, NEW t \in Sids, UseSession(r, t) PROVE Aged(s, n)'
  <2>1. t # s
    BY <1>3 DEF Used
  <2>. QED
    BY <1>0, <1>3, <2>1 DEF UseSession, Aged, TypeOK
<1>4. ASSUME NEW r \in Requests, NEW t \in Sids, DeleteSession(r, t) PROVE Aged(s, n)'
  <2>1. t # s
    BY <1>4 DEF Used
  <2>. QED
    BY <1>0, <1>4, <2>1 DEF DeleteSession, Aged, TypeOK
<1>5. ASSUME NEW r \in Requests, Register(r) PROVE Aged(s, n)'
  <2>1. sid[r] # s
    BY <1>0, <1>5 DEF Register, IInv, AnswerInv, Creating
  <2>. QED
    BY <1>0, <1>5, <2>1 DEF Register, Done, Aged, TypeOK
<1>6. ASSUME NEW r \in Requests, FinishDelete(r) PROVE Aged(s, n)' \/ Gone(s)'
  BY <1>0, <1>6 DEF FinishDelete, RemoveSessions, Done, Aged, Gone
<1>7. ASSUME Sweep \/ CloseSessions \/ CloseListener PROVE Aged(s, n)' \/ Gone(s)'
  BY <1>0, <1>7 DEF Sweep, CloseSessions, CloseListener, RemoveSessions, Aged, Gone
<1>8. ASSUME NEW r \in Requests,
             \/ \E k \in Keys : Accept(r, k)
             \/ Refuse(r) \/ FinishUse(r) \/ RefuseOverCap(r) \/ Answer(r) \/ NotInitialized(r)
             \/ CreationThrows(r) \/ DeleteThrows(r)
             \/ \E t \in Sids : NotFound(r, t) \/ AdmitNew(r, t)
      PROVE  UNCHANGED <<age, sessions, phase>>
  BY <1>8 DEF Accept, Refuse, FinishUse, RefuseOverCap, Answer, NotInitialized, CreationThrows,
              DeleteThrows, NotFound, AdmitNew
<1>9. UNCHANGED vars => UNCHANGED <<age, sessions, phase>>
  BY DEF vars
<1>10. CASE ~Tick
  BY <1>2, <1>3, <1>4, <1>5, <1>6, <1>7, <1>8, <1>9, <1>10 DEF Next, Handle
<1>. QED
  BY <1>1, <1>10

(* The facts the temporal steps rest on.                                   *)
Ages(s, n) ==
  /\ IInv /\ Aged(s, n) /\ [Next]_vars /\ [~Used(s)]_vars =>
       Aged(s, n)' \/ Aged(s, n + 1)' \/ Gone(s)'
  /\ IInv /\ Aged(s, n) /\ [Next]_vars /\ [~Used(s)]_vars /\ <<Tick>>_vars =>
       Aged(s, n + 1)' \/ Gone(s)'
  /\ Aged(s, n) => TickCounts

LEMMA AgesAlways ==
  ASSUME NEW s \in Sids, NEW n \in 0..IdleTicks
  PROVE  Ages(s, n)
<1>1. IInv /\ Aged(s, n) /\ [Next]_vars /\ [~Used(s)]_vars =>
        Aged(s, n)' \/ Aged(s, n + 1)' \/ Gone(s)'
  <2>1. ASSUME IInv, Aged(s, n), Next, ~Used(s) PROVE Aged(s, n)' \/ Aged(s, n + 1)' \/ Gone(s)'
    BY <2>1, Ageing, SessionsAssumption
  <2>2. ASSUME Aged(s, n), UNCHANGED vars PROVE Aged(s, n)'
    BY <2>2 DEF vars, Aged
  <2>. QED
    BY <2>1, <2>2
<1>2. IInv /\ Aged(s, n) /\ [Next]_vars /\ [~Used(s)]_vars /\ <<Tick>>_vars =>
        Aged(s, n + 1)' \/ Gone(s)'
  BY Ageing, SessionsAssumption
<1>3. Aged(s, n) => TickCounts
  BY SessionsAssumption DEF Aged, TickCounts
<1>. QED
  BY <1>1, <1>2, <1>3 DEF Ages

(* A session that nobody uses any more grows older, tick by tick, until it *)
(* leaves the map or the server closes.                                    *)
THEOREM SessionAges ==
  ASSUME NEW s \in Sids, NEW n \in 0..IdleTicks
  PROVE  Spec /\ TimePasses =>
           (Aged(s, n) /\ [][~Used(s)]_vars ~> Aged(s, n + 1) \/ Gone(s))
<1>1. Ages(s, n)
  BY AgesAlways
<1>. QED
  BY <1>1, SpecIInv, PTL DEF Spec, TimePasses, Ages

(* Induction over the age: a session that grows older from every age up to *)
(* the limit, unless it goes, comes to the limit, unless it goes.  It      *)
(* holds of every behaviour, and the provers cannot instantiate it.        *)
AgeInduction(s) ==
  (\A n \in 0..IdleTicks : Aged(s, n) /\ [][~Used(s)]_vars ~> Aged(s, n + 1) \/ Gone(s))
  => (Young(s) /\ [][~Used(s)]_vars ~> Aged(s, IdleTicks + 1) \/ Gone(s))

(* While the server runs, a session that is not used any more leaves the   *)
(* map, whatever the requests to other sessions do (the idle sweep).       *)
THEOREM AbandonedIsEvicted ==
  Spec /\ TimePasses /\ SweepRuns /\ (\A s \in Sids : AgeInduction(s)) => AbandonedEvicted
<1>. SUFFICES ASSUME NEW s \in Sids
              PROVE  Spec /\ TimePasses /\ SweepRuns /\ AgeInduction(s) =>
                       (s \in sessions ~> Gone(s)) \/ []<><<Used(s)>>_vars
  BY DEF AbandonedEvicted, Gone, Used
<1>1. Spec /\ TimePasses =>
        \A n \in 0..IdleTicks : (Aged(s, n) /\ [][~Used(s)]_vars ~> Aged(s, n + 1) \/ Gone(s))
  <2>. SUFFICES ASSUME NEW n \in 0..IdleTicks
                PROVE  Spec /\ TimePasses =>
                         (Aged(s, n) /\ [][~Used(s)]_vars ~> Aged(s, n + 1) \/ Gone(s))
    OBVIOUS
  <2>1. Ages(s, n)
    BY AgesAlways
  <2>. QED
    BY <2>1, SpecIInv, PTL DEF Spec, TimePasses, Ages
<1>2. Spec /\ TimePasses /\ AgeInduction(s) =>
        (Young(s) /\ [][~Used(s)]_vars ~> Aged(s, IdleTicks + 1) \/ Gone(s))
  BY <1>1 DEF AgeInduction
<1>3. IInv /\ Aged(s, IdleTicks + 1) /\ [Next]_vars /\ [~Used(s)]_vars =>
        Aged(s, IdleTicks + 1)' \/ Gone(s)'
  <2>1. ASSUME IInv, Aged(s, IdleTicks + 1), Next, ~Used(s)
        PROVE  Aged(s, IdleTicks + 1)' \/ Gone(s)'
    BY <2>1, Ageing, SessionsAssumption
  <2>2. ASSUME Aged(s, IdleTicks + 1), UNCHANGED vars PROVE Aged(s, IdleTicks + 1)'
    BY <2>2 DEF vars, Aged
  <2>. QED
    BY <2>1, <2>2
<1>4. IInv /\ Aged(s, IdleTicks + 1) /\ <<Sweep>>_vars => Gone(s)'
  BY SessionsAssumption DEF Sweep, RemoveSessions, IdleSessions, Aged, Gone
<1>5. Aged(s, IdleTicks + 1) => SweepDue
  BY SessionsAssumption DEF SweepDue, IdleSessions, Aged
<1>6. IInv => Young(s) \/ Aged(s, IdleTicks + 1) \/ Gone(s)
  BY SessionsAssumption DEF IInv, TypeOK, Young, Aged, Gone
<1>. QED
  BY <1>2, <1>3, <1>4, <1>5, <1>6, SpecIInv, PTL DEF Spec, SweepRuns

=============================================================================
