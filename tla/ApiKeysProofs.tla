---------------------------- MODULE ApiKeysProofs ----------------------------
(***************************************************************************)
(* For any keys, requests and operators: the type invariant of ApiKeys,    *)
(* that no command reactivates a deleted key by itself, and that a key     *)
(* comes into use although misses were cached before it existed.           *)
(***************************************************************************)
EXTENDS ApiKeys, TLAPS

(* Who is under way has a key: a request from its lookup to its answer, an *)
(* operator, one with a row, from the check of a command to its end.       *)
IInv ==
  /\ TypeOK
  /\ \A r \in Requests : pc[r] # "idle" => presented[r] \in Keys
  /\ \A o \in Operators : command[o] # "none" =>
       target[o] \in Keys /\ status[target[o]] # "absent"

LEMMA IInvInit == Init => IInv
BY DEF Init, IInv, TypeOK, Status, Verdict

LEMMA IInvNext == IInv /\ [Next]_vars => IInv'
<1> SUFFICES ASSUME IInv, [Next]_vars PROVE IInv'
  OBVIOUS
<1> USE ApiKeysAssumption DEF IInv, TypeOK, keyVars, authVars, cliVars
<1>1. ASSUME NEW r \in Requests, NEW k \in Keys, CacheMiss(r, k) \/ RejectCached(r, k)
      PROVE  IInv'
  BY <1>1 DEF CacheMiss, RejectCached, Verdict
<1>2. ASSUME NEW r \in Requests, RejectUnknown(r) \/ Decide(r) PROVE IInv'
  BY <1>2 DEF RejectUnknown, Decide, Verdict
<1>3. ASSUME NEW r \in Requests, Reply(r) PROVE IInv'
  BY <1>3 DEF Reply, Verdict
<1>4. ASSUME NEW r \in Requests, StoreMiss(r) PROVE IInv'
  BY <1>4 DEF StoreMiss, Verdict
<1>5. ASSUME NEW k \in Keys, ExpireMiss(k) \/ ClearMiss(k) PROVE IInv'
  BY <1>5 DEF ExpireMiss, ClearMiss
<1>6. ASSUME NEW k \in Keys, Create(k) PROVE IInv'
  BY <1>6 DEF Create, Status
<1>7. ASSUME NEW o \in Operators, NEW c \in {"blacklist", "unblacklist", "delete"}, NEW k \in Keys,
             CommandCheck(o, c, k)
      PROVE  IInv'
  BY <1>7 DEF CommandCheck
<1>8. ASSUME NEW o \in Operators, Abort(o) PROVE IInv'
  BY <1>8 DEF Abort, CommandDone
<1>9. ASSUME NEW o \in Operators, Blacklist(o) \/ Unblacklist(o) PROVE IInv'
  BY <1>9 DEF Blacklist, Unblacklist, CommandDone, Status
<1>10. ASSUME NEW o \in Operators, SoftDelete(o) PROVE IInv'
  BY <1>10 DEF SoftDelete, CommandDone, Status
<1>11. CASE UNCHANGED vars
  BY <1>11 DEF vars
<1> QED
  BY <1>1, <1>2, <1>3, <1>4, <1>5, <1>6, <1>7, <1>8, <1>9, <1>10, <1>11 DEF Next

LEMMA Invariance == Spec => []IInv
BY IInvInit, IInvNext, PTL DEF Spec

(* The rows, the cache and the commands of ApiKeys have their types.       *)
THEOREM ApiKeysTypeOK == Spec => []TypeOK
<1>1. IInv => TypeOK
  BY DEF IInv
<1> QED
  BY <1>1, Invariance, PTL

-----------------------------------------------------------------------------
(* The row of a key changes only by create and by the three commands.      *)
LEMMA StatusSteps ==
  ASSUME IInv, [Next]_vars, NEW k \in Keys, status'[k] # status[k]
  PROVE  \/ status[k] = "absent" /\ status'[k] = "active"
         \/ status[k] = "blacklisted" /\ status'[k] = "active"
         \/ status[k] # "absent" /\ status'[k] \in {"blacklisted", "deleted"}
<1> USE DEF IInv, TypeOK
<1>1. CASE UNCHANGED status
  BY <1>1
<1>2. ASSUME NEW c \in Keys, Create(c)
      PROVE  status[k] = "absent" /\ status'[k] = "active"
  BY <1>2 DEF Create
<1>3. ASSUME NEW o \in Operators, Blacklist(o) \/ SoftDelete(o)
      PROVE  status[k] # "absent" /\ status'[k] \in {"blacklisted", "deleted"}
  BY <1>3 DEF Blacklist, SoftDelete
<1>4. ASSUME NEW o \in Operators, Unblacklist(o)
      PROVE  status[k] = "blacklisted" /\ status'[k] = "active"
  BY <1>4 DEF Unblacklist
<1>5. CASE \E r \in Requests :
             \/ \E c \in Keys : CacheMiss(r, c) \/ RejectCached(r, c)
             \/ RejectUnknown(r) \/ Decide(r) \/ Reply(r) \/ StoreMiss(r)
  BY <1>1, <1>5 DEF CacheMiss, RejectCached, RejectUnknown, Decide, Reply, StoreMiss, keyVars
<1>6. CASE \E c \in Keys : ExpireMiss(c) \/ ClearMiss(c)
  BY <1>1, <1>6 DEF ExpireMiss, ClearMiss, keyVars
<1>7. CASE \E o \in Operators :
             \/ \E c \in {"blacklist", "unblacklist", "delete"}, t \in Keys : CommandCheck(o, c, t)
             \/ Abort(o)
  BY <1>1, <1>7 DEF CommandCheck, Abort, keyVars
<1>8. CASE UNCHANGED vars
  BY <1>1, <1>8 DEF vars
<1> QED
  BY <1>2, <1>3, <1>4, <1>5, <1>6, <1>7, <1>8 DEF Next

(* api-keys.ts: no command, however long its confirmation took, takes a    *)
(* deleted key back to active.                                             *)
THEOREM NoReactivation == Spec => NoDirectReactivation
<1>1. IInv /\ [Next]_vars =>
        [\A k \in Keys : status[k] = "deleted" => status'[k] # "active"]_vars
  BY StatusSteps
<1> QED
  BY <1>1, Invariance, PTL DEF Spec, NoDirectReactivation

-----------------------------------------------------------------------------
(* Stale misses heal.                                                      *)

Exists(k) == status[k] # "absent"

(* The SET of a verdict "unknown key" about k is on its way.               *)
Stale(r, k) == pc[r] = "storing" /\ presented[r] = k
AnyStale(k) == \E r \in Requests : Stale(r, k)

(* The fairness of FairSpec: a SET that was sent takes effect or fails,    *)
(* and Redis expires its entries.  The guards take the place of ENABLED.   *)
Storing(r) == pc[r] = "storing"
Missed(k) == k \in miss
SetEnds(r) == []<>~Storing(r) \/ []<><<StoreMiss(r)>>_vars
EntryExpires(k) == []<>~Missed(k) \/ []<><<ExpireMiss(k)>>_vars

(* A key that exists goes on to, and no verdict about it is "unknown" any  *)
(* more but those that were reached before.                                *)
LEMMA KeyStays ==
  ASSUME IInv, NEW k \in Keys, Exists(k), [Next]_vars
  PROVE  /\ Exists(k)'
         /\ \A r \in Requests : ~Stale(r, k) => ~Stale(r, k)'
<1>1. Exists(k)'
  BY DEF IInv, TypeOK, Next, vars, Exists, keyVars, cliVars, authVars, CommandDone,
         CacheMiss, RejectCached, RejectUnknown, Decide, Reply, StoreMiss, ExpireMiss,
         Create, ClearMiss, CommandCheck, Abort, Blacklist, Unblacklist, SoftDelete
<1>2. ASSUME NEW r \in Requests, ~Stale(r, k) PROVE ~Stale(r, k)'
  <2>1. ASSUME UNCHANGED authVars PROVE ~Stale(r, k)'
    BY <1>2, <2>1 DEF authVars, Stale
  <2>2. ASSUME NEW q \in Requests, NEW c \in Keys, CacheMiss(q, c) \/ RejectCached(q, c)
        PROVE  ~Stale(r, k)'
    BY <1>2, <2>2 DEF IInv, TypeOK, CacheMiss, RejectCached, Stale
  <2>3. ASSUME NEW q \in Requests, RejectUnknown(q) PROVE ~Stale(r, k)'
    BY <1>2, <2>3 DEF IInv, TypeOK, RejectUnknown, Stale, Exists
  <2>4. ASSUME NEW q \in Requests, Decide(q) \/ Reply(q) \/ StoreMiss(q) PROVE ~Stale(r, k)'
    BY <1>2, <2>4 DEF IInv, TypeOK, Decide, Reply, StoreMiss, Stale
  <2>5. ASSUME NEW c \in Keys, ExpireMiss(c) \/ Create(c) \/ ClearMiss(c)
        PROVE  UNCHANGED authVars
    BY <2>5 DEF ExpireMiss, Create, ClearMiss
  <2>6. ASSUME NEW o \in Operators,
               \/ \E c \in {"blacklist", "unblacklist", "delete"}, t \in Keys : CommandCheck(o, c, t)
               \/ Abort(o) \/ Blacklist(o) \/ Unblacklist(o) \/ SoftDelete(o)
        PROVE  UNCHANGED authVars
    BY <2>6 DEF CommandCheck, CommandDone, Abort, Blacklist, Unblacklist, SoftDelete
  <2>7. UNCHANGED vars => UNCHANGED authVars
    BY DEF vars, authVars
  <2>. QED
    BY <2>1, <2>2, <2>3, <2>4, <2>5, <2>6, <2>7 DEF Next
<1>. QED
  BY <1>1, <1>2

(* An entry only appears through a SET on its way.                         *)
LEMMA MissAppears ==
  ASSUME IInv, NEW k \in Keys, ~AnyStale(k), ~Missed(k), [Next]_vars
  PROVE  ~Missed(k)'
<1>1. ASSUME UNCHANGED miss PROVE ~Missed(k)'
  BY <1>1 DEF Missed
<1>2. ASSUME NEW r \in Requests, StoreMiss(r) PROVE ~Missed(k)'
  BY <1>2 DEF StoreMiss, AnyStale, Stale, Missed
<1>3. ASSUME NEW c \in Keys, ExpireMiss(c) \/ ClearMiss(c) PROVE ~Missed(k)'
  BY <1>3 DEF ExpireMiss, ClearMiss, Missed
<1>. QED
  BY <1>1, <1>2, <1>3 DEF Next, vars, CacheMiss, RejectCached, RejectUnknown, Decide, Reply,
     Create, CommandCheck, CommandDone, Abort, Blacklist, Unblacklist, SoftDelete

(* The facts the temporal steps rest on.                                   *)
Heals(r, k) ==
  /\ IInv /\ Exists(k) /\ [Next]_vars => Exists(k)'
  /\ IInv /\ Exists(k) /\ ~Stale(r, k) /\ [Next]_vars => ~Stale(r, k)'
  /\ IInv /\ <<StoreMiss(r)>>_vars => ~Stale(r, k)'
  /\ Stale(r, k) => Storing(r)

LEMMA HealsAlways ==
  ASSUME NEW r \in Requests, NEW k \in Keys
  PROVE  Heals(r, k)
<1>1. IInv /\ <<StoreMiss(r)>>_vars => ~Stale(r, k)'
  BY DEF IInv, TypeOK, StoreMiss, Stale
<1>2. Stale(r, k) => Storing(r)
  BY DEF Stale, Storing
<1>. QED
  BY <1>1, <1>2, KeyStays DEF Heals

(* Once a key exists, the SETs of verdicts from before are over for good,  *)
(* each of them (the SET that authenticate() does not await).              *)
THEOREM StaleSetEnds ==
  ASSUME NEW r \in Requests, NEW k \in Keys
  PROVE  Spec /\ SetEnds(r) => (Exists(k) ~> []~Stale(r, k))
<1>1. Heals(r, k)
  BY HealsAlways
<1>. QED
  BY <1>1, Invariance, PTL DEF Spec, SetEnds, Heals

(* Finitely many requests: what each of them has behind it for good, all   *)
(* have behind them for good.  It holds of every behaviour with finitely   *)
(* many requests, and no prover here takes the maximum of the moments.     *)
LastOfAll(k) ==
  (\A r \in Requests : Exists(k) ~> []~Stale(r, k)) => (Exists(k) ~> []~AnyStale(k))

(* A key that was asked for before it was created is looked up in the      *)
(* database from some time on, although create() clears its entry before   *)
(* a SET on its way, or not at all (the TTL heals what the DEL misses).    *)
THEOREM CreatedKeyBecomesUsable ==
  Spec /\ (\A r \in Requests : SetEnds(r)) /\ (\A k \in Keys : EntryExpires(k))
       /\ (\A k \in Keys : LastOfAll(k)) => CreatedKeyUsable
<1>. SUFFICES ASSUME NEW k \in Keys
              PROVE  Spec /\ (\A r \in Requests : SetEnds(r)) /\ EntryExpires(k) /\ LastOfAll(k) =>
                       [](Exists(k) => <>[](k \notin miss))
  BY DEF CreatedKeyUsable, Exists
<1>1. Spec /\ (\A r \in Requests : SetEnds(r)) => \A r \in Requests : Exists(k) ~> []~Stale(r, k)
  <2>. SUFFICES ASSUME NEW r \in Requests
                PROVE  Spec /\ SetEnds(r) => (Exists(k) ~> []~Stale(r, k))
    OBVIOUS
  <2>1. Heals(r, k)
    BY HealsAlways
  <2>. QED
    BY <2>1, Invariance, PTL DEF Spec, SetEnds, Heals
<1>2. Spec /\ (\A r \in Requests : SetEnds(r)) /\ LastOfAll(k) => (Exists(k) ~> []~AnyStale(k))
  BY <1>1 DEF LastOfAll
<1>3. IInv /\ ~AnyStale(k) /\ ~Missed(k) /\ [Next]_vars => ~Missed(k)'
  BY MissAppears
<1>4. <<ExpireMiss(k)>>_vars => ~Missed(k)'
  BY DEF ExpireMiss, Missed
<1>5. ~Missed(k) => k \notin miss
  BY DEF Missed
<1>. QED
  BY <1>2, <1>3, <1>4, <1>5, Invariance, PTL DEF Spec, EntryExpires

=============================================================================
