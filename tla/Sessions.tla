------------------------------ MODULE Sessions ------------------------------
(***************************************************************************)
(* The stateful MCP sessions of the server process (server.ts): the map    *)
(* from session id to session, its two caps, the idle sweep, DELETE, and   *)
(* the close handler of shutdown.                                          *)
(*                                                                         *)
(* A request is modelled from the point where it has passed the header,    *)
(* authentication and rate-limit steps: it carries the key it was          *)
(* authenticated with.  Code between two awaits runs in one action.  The   *)
(* MCP SDK's transport and server are external: connect() opens them,      *)
(* handleRequest() returns when the response has been written, or rejects, *)
(* close() closes them and ends their streams.                             *)
(*                                                                         *)
(* A McpServer and the session id it may get are one value: it is taken    *)
(* from Sids when the server is created, and free again when a server that *)
(* got no id has been closed.                                              *)
(***************************************************************************)
EXTENDS Integers, FiniteSets

CONSTANTS Requests,  \* bound: requests being handled at one time
          Keys,      \* API keys
          Sids,      \* bound: servers and their session ids (randomUUID, never reused)
          NoKey,     \* owner of one that was not created yet
          NoSid,     \* session of a request that has none
          PerKeyCap, \* config.mcpMaxSessionsPerKey
          TotalCap,  \* config.mcpMaxSessionsTotal
          IdleTicks  \* config.mcpSessionIdleMs, in clock ticks

ASSUME SessionsAssumption ==
  /\ IsFiniteSet(Requests)
  /\ IsFiniteSet(Sids)
  /\ NoKey \notin Keys
  /\ NoSid \notin Sids
  /\ PerKeyCap \in Nat \ {0}
  /\ TotalCap \in Nat \ {0}
  /\ IdleTicks \in Nat

VARIABLES pc,       \* where the handler of each request stands
          key,      \* the key a request was authenticated with
          sid,      \* the session a request works on
          owner,    \* the key a server was created for, session.apiKeyId
          sessions, \* ids in the sessions map
          age,      \* ticks since session.lastActivityMs, up to IdleTicks + 1;
                    \* 0 outside of the map
          open,     \* those whose McpServer and transport are not closed
          gauge,    \* the mcp_active_sessions gauge
          phase,    \* of the close handler of shutdown
          thrown    \* history: those an exception left open outside of the map,
                    \* or closed in it

vars == <<pc, key, sid, owner, sessions, age, open, gauge, phase, thrown>>

PC == {"idle", "accepted", "creating", "answered", "streaming", "deleting"}
Phase == {"serving", "removing", "draining"}

TypeOK ==
  /\ pc \in [Requests -> PC]
  /\ key \in [Requests -> Keys \union {NoKey}]
  /\ sid \in [Requests -> Sids \union {NoSid}]
  /\ owner \in [Sids -> Keys \union {NoKey}]
  /\ sessions \subseteq Sids
  /\ age \in [Sids -> 0..(IdleTicks + 1)]
  /\ open \subseteq Sids
  /\ gauge \in Nat
  /\ phase \in Phase
  /\ thrown \subseteq Sids

Init ==
  /\ pc = [r \in Requests |-> "idle"]
  /\ key = [r \in Requests |-> NoKey]
  /\ sid = [r \in Requests |-> NoSid]
  /\ owner = [s \in Sids |-> NoKey]
  /\ sessions = {}
  /\ age = [s \in Sids |-> 0]
  /\ open = {}
  /\ gauge = 0
  /\ phase = "serving"
  /\ thrown = {}

-----------------------------------------------------------------------------
SessionsOf(k) == {s \in sessions : owner[s] = k}

(* Mutant: any key may use any session.                                    *)
FoundForAnyKey(r, s) == s \in sessions

Found(r, s) == s \in sessions /\ owner[s] = key[r]

Done(r) ==
  /\ pc' = [pc EXCEPT ![r] = "idle"]
  /\ key' = [key EXCEPT ![r] = NoKey]
  /\ sid' = [sid EXCEPT ![r] = NoSid]

(* removeSession for each of S: a no-op for an id that is not in the map.  *)
RemoveSessions(S) ==
  /\ sessions' = sessions \ S
  /\ gauge' = gauge - Cardinality(S \intersect sessions)
  /\ open' = open \ (S \intersect sessions)
  /\ age' = [s \in Sids |-> IF s \in S THEN 0 ELSE age[s]]
  /\ thrown' = thrown \ (S \intersect sessions)

(* A request gets through to session routing.                              *)
Accept(r, k) ==
  /\ phase \in {"serving", "removing"}
  /\ pc[r] = "idle"
  /\ pc' = [pc EXCEPT ![r] = "accepted"]
  /\ key' = [key EXCEPT ![r] = k]
  /\ UNCHANGED <<sid, owner, sessions, age, open, gauge, phase, thrown>>

(* The body is too large or is not JSON, the per-tool limit is reached, or *)
(* a request without a session id is not a POST.                           *)
Refuse(r) ==
  /\ pc[r] = "accepted"
  /\ Done(r)
  /\ UNCHANGED <<owner, sessions, age, open, gauge, phase, thrown>>

(* Unknown id, or another key's session: one answer for both.              *)
NotFound(r, s) ==
  /\ pc[r] = "accepted"
  /\ ~Found(r, s)
  /\ Done(r)
  /\ UNCHANGED <<owner, sessions, age, open, gauge, phase, thrown>>

(* GET or POST on a session: the handler waits for the transport, which    *)
(* returns or rejects; nothing follows either way.                         *)
UseSession(r, s) ==
  /\ pc[r] = "accepted"
  /\ Found(r, s)
  /\ age' = [age EXCEPT ![s] = 0]
  /\ pc' = [pc EXCEPT ![r] = "streaming"]
  /\ sid' = [sid EXCEPT ![r] = s]
  /\ UNCHANGED <<key, owner, sessions, open, gauge, phase, thrown>>

FinishUse(r) ==
  /\ pc[r] = "streaming"
  /\ Done(r)
  /\ UNCHANGED <<owner, sessions, age, open, gauge, phase, thrown>>

(* DELETE: the transport closes itself while it answers, unless it refuses *)
(* the request; the map follows when the answer has been written.          *)
DeleteSession(r, s) ==
  /\ pc[r] = "accepted"
  /\ Found(r, s)
  /\ age' = [age EXCEPT ![s] = 0]
  /\ open' \in {open, open \ {s}}
  /\ pc' = [pc EXCEPT ![r] = "deleting"]
  /\ sid' = [sid EXCEPT ![r] = s]
  /\ UNCHANGED <<key, owner, sessions, gauge, phase, thrown>>

(* Mutant: DELETE does its own bookkeeping, sure that it is first.         *)
FinishDeleteUnshared(r) ==
  /\ pc[r] = "deleting"
  /\ sessions' = sessions \ {sid[r]}
  /\ gauge' = gauge - 1
  /\ open' = open \ {sid[r]}
  /\ age' = [age EXCEPT ![sid[r]] = 0]
  /\ thrown' = thrown \ ({sid[r]} \intersect sessions)
  /\ Done(r)
  /\ UNCHANGED <<owner, phase>>

FinishDelete(r) ==
  /\ pc[r] = "deleting"
  /\ RemoveSessions({sid[r]})
  /\ Done(r)
  /\ UNCHANGED <<owner, phase>>

(* handleRequest() rejects, and removeSession() is not reached.            *)
DeleteThrows(r) ==
  /\ pc[r] = "deleting"
  /\ thrown' = thrown \union ({sid[r]} \intersect (sessions \ open))
  /\ Done(r)
  /\ UNCHANGED <<owner, sessions, age, open, gauge, phase>>

-----------------------------------------------------------------------------
(* Mutant: one more is let in.                                             *)
KeyCapPassed(k) == Cardinality(SessionsOf(k)) > PerKeyCap

TotalCapReached == Cardinality(sessions) >= TotalCap
KeyCapReached(k) == Cardinality(SessionsOf(k)) >= PerKeyCap

RefuseOverCap(r) ==
  /\ pc[r] = "accepted"
  /\ TotalCapReached \/ KeyCapReached(key[r])
  /\ Done(r)
  /\ UNCHANGED <<owner, sessions, age, open, gauge, phase, thrown>>

(* Both caps leave room: the handler creates a server with its transport   *)
(* and waits for connect() and handleRequest().                            *)
AdmitNew(r, s) ==
  /\ pc[r] = "accepted"
  /\ ~TotalCapReached
  /\ ~KeyCapReached(key[r])
  /\ owner[s] = NoKey
  /\ owner' = [owner EXCEPT ![s] = key[r]]
  /\ open' = open \union {s}
  /\ pc' = [pc EXCEPT ![r] = "creating"]
  /\ sid' = [sid EXCEPT ![r] = s]
  /\ UNCHANGED <<key, sessions, age, gauge, phase, thrown>>

(* The transport generates the id and answers the client with it.          *)
Answer(r) ==
  /\ pc[r] = "creating"
  /\ pc' = [pc EXCEPT ![r] = "answered"]
  /\ UNCHANGED <<key, sid, owner, sessions, age, open, gauge, phase, thrown>>

(* Mutant: without an id there is nothing to clean up.                     *)
NotInitializedUnclosed(r) ==
  /\ pc[r] = "creating"
  /\ Done(r)
  /\ UNCHANGED <<owner, sessions, age, open, gauge, phase, thrown>>

(* Not an initialize request, or it failed: the server, which got no id,   *)
(* is closed again.                                                        *)
NotInitialized(r) ==
  /\ pc[r] = "creating"
  /\ owner' = [owner EXCEPT ![sid[r]] = NoKey]
  /\ open' = open \ {sid[r]}
  /\ Done(r)
  /\ UNCHANGED <<sessions, age, gauge, phase, thrown>>

(* connect() or handleRequest() rejects, before or after the id was        *)
(* generated: the request is answered with 500 or not at all, and nobody   *)
(* registers or closes the server.                                         *)
CreationThrows(r) ==
  /\ pc[r] \in {"creating", "answered"}
  /\ thrown' = thrown \union {sid[r]}
  /\ Done(r)
  /\ UNCHANGED <<owner, sessions, age, open, gauge, phase>>

(* handleRequest() has returned: the session enters the map.               *)
Register(r) ==
  /\ pc[r] = "answered"
  /\ sessions' = sessions \union {sid[r]}
  /\ age' = [age EXCEPT ![sid[r]] = 0]
  /\ gauge' = gauge + 1
  /\ Done(r)
  /\ UNCHANGED <<owner, open, phase, thrown>>

-----------------------------------------------------------------------------
Tick ==
  /\ age' = [s \in Sids |-> IF s \in sessions /\ age[s] <= IdleTicks
                            THEN age[s] + 1 ELSE age[s]]
  /\ UNCHANGED <<pc, key, sid, owner, sessions, open, gauge, phase, thrown>>

IdleSessions == {s \in sessions : age[s] > IdleTicks}

(* Mutant: idle sessions are only evicted to make room.                    *)
SweepWhenFull ==
  /\ phase = "serving"
  /\ TotalCapReached
  /\ IdleSessions # {}
  /\ RemoveSessions(IdleSessions)
  /\ UNCHANGED <<pc, key, sid, owner, phase>>

(* The interval timer's sweep; close() clears the timer.                   *)
Sweep ==
  /\ phase = "serving"
  /\ IdleSessions # {}
  /\ RemoveSessions(IdleSessions)
  /\ UNCHANGED <<pc, key, sid, owner, phase>>

(* close(): remove what is in the map now, wait for the servers to close,  *)
(* and only then stop listening.  Requests under way go on; when the last  *)
(* connection has ended, nothing changes here (see Shutdown).              *)
CloseSessions ==
  /\ phase = "serving"
  /\ phase' = "removing"
  /\ RemoveSessions(sessions)
  /\ UNCHANGED <<pc, key, sid, owner>>

CloseListener ==
  /\ phase = "removing"
  /\ phase' = "draining"
  /\ UNCHANGED <<pc, key, sid, owner, sessions, age, open, gauge, thrown>>

Handle(r) ==
  \/ \E k \in Keys : Accept(r, k)
  \/ Refuse(r)
  \/ \E s \in Sids : NotFound(r, s)
  \/ \E s \in Sids : UseSession(r, s)
  \/ FinishUse(r)
  \/ \E s \in Sids : DeleteSession(r, s)
  \/ FinishDelete(r)
  \/ DeleteThrows(r)
  \/ RefuseOverCap(r)
  \/ \E s \in Sids : AdmitNew(r, s)
  \/ Answer(r)
  \/ NotInitialized(r)
  \/ CreationThrows(r)
  \/ Register(r)

Next ==
  \/ \E r \in Requests : Handle(r)
  \/ Tick
  \/ Sweep
  \/ CloseSessions
  \/ CloseListener

Spec == Init /\ [][Next]_vars

(* Time passes and the interval timer fires; requests promise nothing.     *)
FairSpec == Spec /\ WF_vars(Tick) /\ WF_vars(Sweep)

-----------------------------------------------------------------------------
(* mcp_active_sessions counts the sessions in the map, although eviction,  *)
(* DELETE and close() may all remove the same session.                     *)
GaugeMatches == gauge = Cardinality(sessions)

(* A request only ever works on a session, or on a server that is to       *)
(* become one, of the key it came with.                                    *)
OwnSessionOnly ==
  \A r \in Requests :
    pc[r] \in {"streaming", "deleting", "creating", "answered"} => owner[sid[r]] = key[r]

Creating(r) == pc[r] \in {"creating", "answered"}

(* The caps are checked before two awaits and the map is written after     *)
(* them, so they can be passed; by how much is bounded: sessions in the    *)
(* map and on their way into it stay below the cap plus the requests       *)
(* handled at one time.                                                    *)
TotalOvershoot ==
  Cardinality(sessions) + Cardinality({r \in Requests : Creating(r)})
    < TotalCap + Cardinality(Requests)

KeyOvershoot ==
  \A k \in Keys :
    Cardinality(SessionsOf(k)) + Cardinality({r \in Requests : Creating(r) /\ key[r] = k})
      < PerKeyCap + Cardinality(Requests)

(* Only an exception separates the map from the MCP servers: one is open   *)
(* without being in the map only while its request is on the way into it,  *)
(* and one in the map is closed only while a DELETE is under way, unless   *)
(* that request's handler was left by a rejection.                         *)
NoOrphan ==
  /\ open \ sessions \subseteq thrown \union {sid[r] : r \in {q \in Requests : Creating(q)}}
  /\ sessions \ open \subseteq thrown \union {sid[r] : r \in {q \in Requests : pc[q] = "deleting"}}

(* While the server runs, a session that is not used any more leaves the   *)
(* map (the idle sweep).                                                   *)
AbandonedEvicted ==
  \A s \in Sids :
    \/ s \in sessions ~> (s \notin sessions \/ phase # "serving")
    \/ []<><<\E r \in Requests : UseSession(r, s) \/ DeleteSession(r, s)>>_vars

=============================================================================
