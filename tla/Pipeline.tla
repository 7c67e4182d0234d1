------------------------------- MODULE Pipeline -------------------------------
(***************************************************************************)
(* A request to /mcp from its headers to its answer (server.ts), the tool  *)
(* call it starts, and the usage record written after the call.  One       *)
(* action is what runs between two awaits.  The limiter is abstract here   *)
(* (its module is RateLimiter): a scope holds slots, a slot leaves its     *)
(* window at any time.  Requests come from one address with one key; which *)
(* session they name, and whether it is there, is Sessions' concern.  The  *)
(* SDK's transport and the tools' handlers are external.                   *)
(***************************************************************************)
EXTENDS Integers, FiniteSets, FiniteSetsExt

CONSTANTS Requests,     \* bound: requests, with their call and usage record, at one time
          Tools,        \* registered tools
          LimitedTools, \* those with a rateLimit of their own
          Limit,        \* slots of every scope: "ip", "key" and each limited tool
          MaxCalls      \* bound: tool calls that succeed

Scopes == {"ip", "key"} \union LimitedTools

ASSUME PipelineAssumption ==
  /\ IsFiniteSet(Requests)
  /\ IsFiniteSet(Tools)
  /\ LimitedTools \subseteq Tools
  /\ Tools \intersect {"ip", "key", "other", "batch", "null", "unread", "none"} = {}
  /\ Limit \in [Scopes -> Nat \ {0}]
  /\ MaxCalls \in Nat

VARIABLES pc,           \* what the request's handler awaits
          body,         \* the parsed body: the tool a tools/call names, "null", "batch" or "other"
          writes,       \* responses begun for the request (writeHead)
          slots,        \* scopes that granted the request a slot
          used,         \* slots taken, per scope
          call,         \* the tool the request calls, of a batch one of them
          usage,        \* how far the call is, and its recordUsage() after it
          succeeded,    \* tool calls that returned a result
          logged,       \* "record usage failed" log lines
          requestCount, \* api_keys.request_count
          invocations   \* api_key_tool_usage.invocation_count, per tool

vars == <<pc, body, writes, slots, used, call, usage, succeeded, logged,
          requestCount, invocations>>
requestVars == <<pc, body, writes, slots, used, call>>
usageVars == <<usage, succeeded, logged, requestCount, invocations>>

Awaiting == {"ip", "auth", "key", "body", "tool", "route", "transport"}
Unwritten == {"queued", "updated", "upserted"}

TypeOK ==
  /\ pc \in [Requests -> Awaiting \union {"idle", "done"}]
  /\ body \in [Requests -> Tools \union {"unread", "null", "batch", "other"}]
  /\ writes \in [Requests -> Nat]
  /\ slots \in [Requests -> SUBSET Scopes]
  /\ used \in [Scopes -> Nat]
  /\ \A s \in Scopes : used[s] <= Limit[s]
  /\ call \in [Requests -> Tools \union {"none"}]
  /\ usage \in [Requests -> Unwritten \union {"none", "executing"}]
  /\ succeeded \in 0..MaxCalls
  /\ logged \in Nat
  /\ requestCount \in Nat
  /\ invocations \in [Tools -> Nat]

Init ==
  /\ pc = [r \in Requests |-> "idle"]
  /\ body = [r \in Requests |-> "unread"]
  /\ writes = [r \in Requests |-> 0]
  /\ slots = [r \in Requests |-> {}]
  /\ used = [s \in Scopes |-> 0]
  /\ call = [r \in Requests |-> "none"]
  /\ usage = [r \in Requests |-> "none"]
  /\ succeeded = 0
  /\ logged = 0
  /\ requestCount = 0
  /\ invocations = [t \in Tools |-> 0]

-----------------------------------------------------------------------------
Go(r, stage) ==
  /\ pc' = [pc EXCEPT ![r] = stage]
  /\ UNCHANGED writes

(* A response is written and the handler returns.                          *)
Respond(r) ==
  /\ pc' = [pc EXCEPT ![r] = "done"]
  /\ writes' = [writes EXCEPT ![r] = @ + 1]

(* Mutant: the 500 is written whatever was written before.                 *)
CatchAlways(r) == Respond(r)

(* The catch clause around handleRequest(): a 500, unless headers are sent. *)
Catch(r) ==
  \/ writes[r] = 0 /\ Respond(r)
  \/ writes[r] # 0 /\ Go(r, "done")

(* Host, Origin: 403 at once; another path: 404.                           *)
Arrive(r) ==
  /\ pc[r] = "idle"
  /\ Go(r, "ip") \/ Respond(r)
  /\ UNCHANGED <<body, slots, used, call, usageVars>>

(* rateLimiter.check(): a slot is taken, or the answer is 429.             *)
Check(r, scope, stage) ==
  /\ \/ /\ used[scope] < Limit[scope]
        /\ used' = [used EXCEPT ![scope] = @ + 1]
        /\ slots' = [slots EXCEPT ![r] = @ \union {scope}]
        /\ Go(r, stage)
     \/ used[scope] >= Limit[scope] /\ Respond(r) /\ UNCHANGED <<used, slots>>
  /\ UNCHANGED <<body, call, usageVars>>

CheckIp(r) == pc[r] = "ip" /\ Check(r, "ip", "auth")

(* authenticate(), and the Origin header as the key demands it.            *)
Authenticate(r) ==
  /\ pc[r] = "auth"
  /\ Go(r, "key") \/ Respond(r)
  /\ UNCHANGED <<body, slots, used, call, usageVars>>

(* A POST goes on to its body, the other methods to their session.         *)
CheckKey(r) ==
  /\ pc[r] = "key"
  /\ \E stage \in {"body", "route"} : Check(r, "key", stage)

(* Mutant: a tool's own limit is not looked up.                            *)
AfterBodyUnlimited(b) == "route"

(* Only a tools/call of a tool that has a limit goes to the limiter again; *)
(* a batch, an array without a method, does not.                           *)
AfterBody(b) == IF b \in LimitedTools THEN "tool" ELSE "route"

(* 413, or the 400 of parseJsonRpcBody().                                  *)
RefuseBody(r) ==
  /\ pc[r] = "body"
  /\ Respond(r)
  /\ UNCHANGED <<body, slots, used, call, usageVars>>

(* parseJsonRpcBody() also returns null for the JSON text null, without    *)
(* having answered: handleMcp() takes it for answered and returns.         *)
ParseNull(r) ==
  /\ pc[r] = "body"
  /\ body' = [body EXCEPT ![r] = "null"]
  /\ Go(r, "done")
  /\ UNCHANGED <<slots, used, call, usageVars>>

Parse(r) ==
  /\ pc[r] = "body"
  /\ \E b \in Tools \union {"batch", "other"} :
       /\ body' = [body EXCEPT ![r] = b]
       /\ Go(r, AfterBody(b))
  /\ UNCHANGED <<slots, used, call, usageVars>>

CheckTool(r) == pc[r] = "tool" /\ Check(r, body[r], "route")

(* No such session, not the key's, none for a GET or DELETE, or a cap.     *)
RefuseRoute(r) ==
  /\ pc[r] = "route"
  /\ Respond(r)
  /\ UNCHANGED <<body, slots, used, call, usageVars>>

(* The tool calls the transport may find in a body.                        *)
CallsIn(b) == IF b = "batch" THEN Tools ELSE {b} \intersect Tools

(* transport.handleRequest(): the transport begins the response and, for a *)
(* tools/call it finds nothing wrong with, the tool's wrapper.  Whether it *)
(* takes batches is the SDK's choice.                                      *)
Dispatch(r) ==
  /\ pc[r] = "route"
  /\ pc' = [pc EXCEPT ![r] = "transport"]
  /\ writes' = [writes EXCEPT ![r] = @ + 1]
  /\ \/ UNCHANGED <<call, usage>>
     \/ /\ \E t \in CallsIn(body[r]) : call' = [call EXCEPT ![r] = t]
        /\ usage' = [usage EXCEPT ![r] = "executing"]
  /\ UNCHANGED <<body, slots, used, succeeded, logged, requestCount, invocations>>

Return(r) ==
  /\ pc[r] = "transport"
  /\ Go(r, "done")
  /\ UNCHANGED <<body, slots, used, call, usageVars>>

(* Redis, Postgres or the transport: what the handler awaits rejects.      *)
(* readBody() has a catch of its own.                                      *)
Throw(r) ==
  /\ pc[r] \in Awaiting \ {"body"}
  /\ Catch(r)
  /\ UNCHANGED <<body, slots, used, call, usageVars>>

(* The handler returned, the call ended, its usage is written or lost.     *)
Leave(r) ==
  /\ pc[r] = "done"
  /\ usage[r] = "none"
  /\ pc' = [pc EXCEPT ![r] = "idle"]
  /\ body' = [body EXCEPT ![r] = "unread"]
  /\ writes' = [writes EXCEPT ![r] = 0]
  /\ slots' = [slots EXCEPT ![r] = {}]
  /\ call' = [call EXCEPT ![r] = "none"]
  /\ UNCHANGED <<used, usageVars>>

(* A slot's window has passed.                                             *)
Expire(s) ==
  /\ used[s] > 0
  /\ used' = [used EXCEPT ![s] = @ - 1]
  /\ UNCHANGED <<pc, body, writes, slots, call, usageVars>>

-----------------------------------------------------------------------------
(* The tool's handler returns: the result is sent, recordUsage() is queued *)
(* behind it.                                                              *)
CallSucceeds(r) ==
  /\ usage[r] = "executing"
  /\ succeeded < MaxCalls
  /\ usage' = [usage EXCEPT ![r] = "queued"]
  /\ succeeded' = succeeded + 1
  /\ UNCHANGED <<requestVars, logged, requestCount, invocations>>

(* The handler throws, by itself or on its abort signal: no usage.         *)
CallFails(r) ==
  /\ usage[r] = "executing"
  /\ usage' = [usage EXCEPT ![r] = "none"]
  /\ UNCHANGED <<requestVars, succeeded, logged, requestCount, invocations>>

(* BEGIN; UPDATE api_keys: the key's row is locked to the end of the       *)
(* transaction.                                                            *)
UpdateKey(r) ==
  /\ usage[r] = "queued"
  /\ \A q \in Requests : usage[q] \notin {"updated", "upserted"}
  /\ usage' = [usage EXCEPT ![r] = "updated"]
  /\ UNCHANGED <<requestVars, succeeded, logged, requestCount, invocations>>

(* INSERT ... ON CONFLICT DO UPDATE                                        *)
UpsertTool(r) ==
  /\ usage[r] = "updated"
  /\ usage' = [usage EXCEPT ![r] = "upserted"]
  /\ UNCHANGED <<requestVars, succeeded, logged, requestCount, invocations>>

Committed(r) ==
  /\ requestCount' = requestCount + 1
  /\ invocations' = [invocations EXCEPT ![call[r]] = @ + 1]

(* Mutant: the record is written again when the answer to COMMIT is lost.  *)
CommitRetrying(r) ==
  /\ usage[r] = "upserted"
  /\ Committed(r)
  /\ \E again \in {"none", "queued"} : usage' = [usage EXCEPT ![r] = again]
  /\ UNCHANGED <<requestVars, succeeded, logged>>

(* COMMIT; when its answer is lost the failure is logged all the same.     *)
Commit(r) ==
  /\ usage[r] = "upserted"
  /\ Committed(r)
  /\ usage' = [usage EXCEPT ![r] = "none"]
  /\ logged' \in {logged, logged + 1}
  /\ UNCHANGED <<requestVars, succeeded>>

(* No connection, or a statement fails: ROLLBACK, a log line, no retry.    *)
RecordFails(r) ==
  /\ usage[r] \in Unwritten
  /\ usage' = [usage EXCEPT ![r] = "none"]
  /\ logged' = logged + 1
  /\ UNCHANGED <<requestVars, succeeded, requestCount, invocations>>

Handle(r) ==
  \/ Arrive(r)
  \/ CheckIp(r)
  \/ Authenticate(r)
  \/ CheckKey(r)
  \/ RefuseBody(r)
  \/ ParseNull(r)
  \/ Parse(r)
  \/ CheckTool(r)
  \/ RefuseRoute(r)
  \/ Dispatch(r)
  \/ Return(r)
  \/ Throw(r)
  \/ Leave(r)
  \/ CallSucceeds(r)
  \/ CallFails(r)
  \/ UpdateKey(r)
  \/ UpsertTool(r)
  \/ Commit(r)
  \/ RecordFails(r)

Next ==
  \/ \E r \in Requests : Handle(r)
  \/ \E s \in Scopes : Expire(s)

Spec == Init /\ [][Next]_vars

-----------------------------------------------------------------------------
(* A handler that has returned has answered once, whichever of its awaits  *)
(* rejected and although the transport may have begun the response; the    *)
(* one request it leaves open is a POST whose body is null.                *)
AnsweredOnce ==
  \A r \in Requests :
    /\ writes[r] <= 1
    /\ pc[r] = "done" /\ writes[r] = 0 => body[r] = "null"

(* A tool executes only with a slot of the address, of the key and, if it  *)
(* is limited and not called in a batch, its own; a request that has no    *)
(* slot of one scope has none of the scopes checked after it.              *)
SlotsInOrder ==
  \A r \in Requests :
    /\ usage[r] = "executing" =>
         {"ip", "key"} \union ({body[r]} \intersect LimitedTools) \subseteq slots[r]
    /\ slots[r] \intersect LimitedTools # {} => "key" \in slots[r]
    /\ "key" \in slots[r] => "ip" \in slots[r]

Pending == {r \in Requests : usage[r] \in Unwritten}

(* recordUsage(): a call is never recorded twice, and one that is not      *)
(* recorded has left a log line.                                           *)
RecordedOrLogged ==
  /\ requestCount + Cardinality(Pending) <= succeeded
  /\ succeeded <= requestCount + Cardinality(Pending) + logged

(* Usage is exact: moreover the key's counter is the sum of its tools'     *)
(* counters in every state a reader can see.                               *)
UsageExact ==
  LET Add(t, sum) == invocations[t] + sum
  IN /\ requestCount = FoldSet(Add, 0, Tools)
     /\ RecordedOrLogged

(* ARCHITECTURE.md, the data flow of a tool call: a response is sent back. *)
EveryRequestAnswered == \A r \in Requests : pc[r] = "done" => writes[r] # 0

=============================================================================
