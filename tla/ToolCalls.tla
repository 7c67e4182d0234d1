------------------------------ MODULE ToolCalls ------------------------------
(***************************************************************************)
(* One tool call: the handlers of tools/*.ts under the wrapper of          *)
(* server.ts, over fetchSafe (module SafeFetch), runPython (Sandbox), the  *)
(* calculator, the two weather services, the search engine and the news    *)
(* cache.  The wrapper passes an AppError on and makes a general one of    *)
(* any other error; a result may itself be marked as an error for the      *)
(* model to read.  Before a call its request has been admitted, and before *)
(* a connect the address is classified (module Addresses).                 *)
(***************************************************************************)
EXTENDS SafeFetch, Sandbox, Addresses

CONSTANTS CalculatorInputs, \* bound: the arguments the calculator is called with
          Calculated(_)     \* what the calculator makes of them (module Calculator)

(* The calculator ends with a value, an error it words or a fault, and     *)
(* with nothing else; a value is not the <<>> that stands for none.        *)
ASSUME CalculatorAssumption ==
  \A i \in CalculatorInputs :
    /\ Calculated(i).kind \in {"value", "error", "fault"}
    /\ Calculated(i).kind = "value" => Calculated(i).v # <<>>

Tool == {"fetch-url", "python-execute", "calculator", "get-weather", "web-search", "get-news"}

VARIABLES tool,    \* the tool called, or "none"
          leg,     \* the request or query it waits for: "geocode", "forecast",
                   \* "search", "articles"; "none"
          stopped, \* ctx.signal was aborted when the call began
          answer,  \* "none"; "result", "isError"; "service" for an AppError,
                   \* "generic" for another one, "crash" of the process
          input,   \* of the calculator
          replies  \* history: what the legs got

callVars == <<tool, leg, stopped, answer, input, replies>>
toolVars == <<fetchVars, sandboxVars, callVars>>

NoInput == [mode |-> "none"]

ToolTypeOK ==
  /\ FetchTypeOK /\ SandboxTypeOK
  /\ tool \in Tool \union {"none"}
  /\ leg \in {"none", "geocode", "forecast", "search", "articles"}
  /\ stopped \in BOOLEAN
  /\ answer \in {"none", "result", "isError", "service", "generic", "crash"}
  /\ input \in CalculatorInputs \union {NoInput}
  /\ replies \in Seq({"fails", "404", "refused", "unreadable", "empty", "outside", "found"})

ToolInit ==
  /\ FetchInit /\ SandboxInit
  /\ tool = "none" /\ leg = "none" /\ stopped = FALSE
  /\ answer = "none" /\ input = NoInput /\ replies = <<>>

(* Of the signal only the calls that read it are told.                     *)
Begins(name) == tool = "none" /\ tool' = name

-----------------------------------------------------------------------------
(* fetch-url, python-execute.                                              *)

CallFetchUrl(url, pooled, late) ==
  /\ Begins("fetch-url")
  /\ stopped' = late
  /\ BeginFetch(url, pooled, late)
  /\ UNCHANGED <<sandboxVars, leg, answer, input, replies>>

FetchStep(A) ==
  /\ tool = "fetch-url" /\ answer = "none"
  /\ A
  /\ UNCHANGED <<sandboxVars, callVars>>

(* Mutant: what is thrown is for the wrapper.                              *)
AnswerFetchUrlThrowing(extracts) ==
  /\ tool = "fetch-url" /\ answer = "none"
  /\ phase \in {"returned", "thrown", "uncaught"}
  /\ answer' = CASE phase = "returned" -> IF status \in 200..299 /\ extracts THEN "result"
                                          ELSE "isError"
                 [] phase = "thrown" -> IF failure = "raw" THEN "generic" ELSE "service"
                 [] phase = "uncaught" -> "crash"
  /\ UNCHANGED <<fetchVars, sandboxVars, tool, leg, stopped, input, replies>>

(* formatOutcome, and the catch around everything; extracts: the body is   *)
(* decoded and made into Markdown without an error.                        *)
AnswerFetchUrl(extracts) ==
  /\ tool = "fetch-url" /\ answer = "none"
  /\ phase \in {"returned", "thrown", "uncaught"}
  /\ answer' = IF phase = "uncaught" THEN "crash"
               ELSE IF phase = "returned" /\ status \in 200..299 /\ extracts THEN "result"
               ELSE "isError"
  /\ UNCHANGED <<fetchVars, sandboxVars, tool, leg, stopped, input, replies>>

(* The signal is not for the sandbox.                                      *)
CallPythonExecute ==
  /\ Begins("python-execute")
  /\ Spawn \/ \E enoent \in BOOLEAN : SpawnError(enoent)
  /\ UNCHANGED <<fetchVars, leg, stopped, answer, input, replies>>

SandboxStep(A) ==
  /\ tool = "python-execute"
  /\ A
  /\ UNCHANGED <<fetchVars, callVars>>

AnswerPythonExecute ==
  /\ tool = "python-execute" /\ answer = "none"
  /\ box = "done"
  /\ answer' = IF verdict.category = "success" THEN "result" ELSE "isError"
  /\ UNCHANGED <<fetchVars, sandboxVars, tool, leg, stopped, input, replies>>

-----------------------------------------------------------------------------
(* calculator: no step of anybody else comes between.                      *)

AnswerFor(kind) ==
  CASE kind = "value" -> "result" [] kind = "error" -> "isError" [] kind = "fault" -> "generic"

CallCalculator ==
  /\ Begins("calculator")
  /\ input' \in CalculatorInputs
  /\ answer' = AnswerFor(Calculated(input').kind)
  /\ UNCHANGED <<fetchVars, sandboxVars, leg, stopped, replies>>

-----------------------------------------------------------------------------
(* get-weather, web-search, get-news.                                      *)

(* A blank location is refused, an aborted call for news too.              *)
CallAway(name, blank, late) ==
  /\ Begins(name)
  /\ stopped' = late
  /\ CASE name = "get-weather" /\ blank -> answer' = "isError" /\ UNCHANGED leg
       [] name = "get-weather" /\ ~blank -> leg' = "geocode" /\ UNCHANGED answer
       [] name = "web-search" -> leg' = "search" /\ UNCHANGED answer
       [] name = "get-news" /\ late -> answer' = "service" /\ UNCHANGED leg
       [] name = "get-news" /\ ~late -> leg' = "articles" /\ UNCHANGED answer
  /\ UNCHANGED <<fetchVars, sandboxVars, input, replies>>

(* What a leg may get: nothing ("fails"), a status that is not ok ("404"   *)
(* apart), a body that is no JSON or not of the shape the handler reads    *)
(* ("unreadable"), nothing in it ("empty"), a place that is not covered    *)
(* ("outside"), or what was asked for ("found").                           *)
Replies ==
  [l \in {"geocode", "forecast", "search", "articles"} |->
     CASE l = "geocode" -> {"fails", "404", "refused", "unreadable", "empty", "outside", "found"}
       [] l \in {"forecast", "search"} -> {"fails", "404", "refused", "unreadable", "empty", "found"}
       [] l = "articles" -> {"fails", "empty", "found"}]

Outcome(l, reply) ==
  CASE reply = "fails" -> IF l = "articles" THEN "generic" ELSE "service"
    [] reply = "404" -> IF l = "forecast" THEN "isError" ELSE "service"
    [] reply = "refused" -> "service"
    [] reply = "unreadable" -> "generic"
    [] reply \in {"empty", "outside"} -> "isError"
    [] reply = "found" -> IF l = "geocode" THEN "none" ELSE "result"

Reply(reply) ==
  /\ leg # "none"
  /\ reply \in (IF stopped THEN {"fails"} ELSE Replies[leg])
  /\ replies' = Append(replies, reply)
  /\ answer' = Outcome(leg, reply)
  /\ leg' = IF answer' = "none" THEN "forecast" ELSE "none"
  /\ UNCHANGED <<fetchVars, sandboxVars, tool, stopped, input>>

-----------------------------------------------------------------------------
ToolNext ==
  \/ \E url \in Urls, pooled, late \in BOOLEAN : CallFetchUrl(url, pooled, late)
  \/ FetchStep(AbortFetch)
  \/ FetchStep(FetchSettles)
  \/ \E extracts \in BOOLEAN : AnswerFetchUrl(extracts)
  \/ CallPythonExecute
  \/ \E s \in Streams, n \in 1..MaxOutput, line \in BOOLEAN : SandboxStep(Data(s, n, line))
  \/ SandboxStep(Close)
  \/ SandboxStep(Timeout)
  \/ SandboxStep(GraceEnds)
  \/ SandboxStep(Runtime)
  \/ AnswerPythonExecute
  \/ CallCalculator
  \/ \E name \in {"get-weather", "web-search", "get-news"}, blank, late \in BOOLEAN :
       CallAway(name, blank, late)
  \/ \E reply \in UNION {Replies[l] : l \in DOMAIN Replies} : Reply(reply)

(* Timers fire, and what has been aborted settles; a lookup, which nothing *)
(* aborts, comes to an end by the resolver's own timeout.  Nobody has to   *)
(* answer, to exit or to close a pipe, and the database, whose queries     *)
(* have no timeout and no signal (createPool, get-news), not even to fail. *)
ToolFairness ==
  /\ WF_toolVars(FetchStep(AbortFetch))
  /\ WF_toolVars(FetchStep(LookupFails \/ \E a \in Answers : LookupAnswers(a)))
  /\ WF_toolVars(FetchStep(aborted /\ (BodyFails \/ \E f \in {"transient", "error"} : ConnectFails(f))))
  /\ WF_toolVars(\E extracts \in BOOLEAN : AnswerFetchUrl(extracts))
  /\ WF_toolVars(SandboxStep(Timeout))
  /\ WF_toolVars(SandboxStep(GraceEnds))
  /\ WF_toolVars(AnswerPythonExecute)
  /\ WF_toolVars(leg # "articles" /\ Reply("fails"))

ToolSpec == ToolInit /\ [][ToolNext]_toolVars
FairToolSpec == ToolSpec /\ ToolFairness

-----------------------------------------------------------------------------
(* The caller is told of a result only when there is one: a 2xx response   *)
(* read to its end or its limit, a program that exited with 0 in time,     *)
(* every leg answered, and none of it over the network for a call that was *)
(* stopped when it began.  fetch-url and python-execute, whose             *)
(* descriptions say so, never throw (the handlers of tools/*.ts).          *)
AnswerHonest ==
  /\ answer = "result" =>
       CASE tool = "fetch-url" ->
              /\ phase = "returned" /\ status \in 200..299 /\ ~stopped
              /\ truncated \/ total = size
         [] tool = "python-execute" -> ended = 0 /\ ~verdict.timedOut
         [] tool = "calculator" -> Calculated(input).v # <<>>
         [] OTHER -> ~stopped /\ \A i \in DOMAIN replies : replies[i] = "found"
  /\ tool \in {"fetch-url", "python-execute"} => answer \notin {"service", "generic"}

(* Every call comes to an answer, or the process ends, however slow the    *)
(* peers are and whatever keeps a pipe open (the timers of fetchSafe,      *)
(* runPython and the tools); but get-news may wait for the database for    *)
(* ever (listAll).                                                         *)
CallEnds == tool # "none" ~> answer # "none" \/ leg = "articles"

-----------------------------------------------------------------------------
(* The address checks, which no call has a part in.                        *)

(* In every notation of it an address is private just when it, or the IPv4 *)
(* address inside it, is in a block that is not the public internet        *)
(* (isPrivateAddress).                                                     *)
AddressesClassified == tool = "none" => ClassifiesByBlocks

(* A peer is trusted by the bits of its address, only a trusted one says   *)
(* whom a request is counted under, and a port never lets a request in     *)
(* (isInCidr, getClientIp, validateHeaders).                               *)
AdmissionExact == tool = "none" => AdmitsByPeer

=============================================================================
