------------------------------ MODULE Sandbox ------------------------------
(***************************************************************************)
(* runPython (shared/sandbox/python-runner.ts): one program in one         *)
(* container.  Three parties run beside each other: Node, the client it    *)
(* spawns (`podman run`), and the container, which may outlive the client. *)
(* Node only learns of the client by its 'close' event, and reaches the    *)
(* container, after the timeout, by a second client (`podman kill`) that   *)
(* nobody waits for.  What the clients and the container do is external.   *)
(***************************************************************************)
EXTENDS Integers

CONSTANTS OutputLimit, \* SANDBOX_OUTPUT_LIMIT_BYTES
          MaxOutput    \* bound: bytes of a stream that are read

ASSUME SandboxAssumption == OutputLimit \in Nat /\ MaxOutput \in Nat

(* 125 is what the runtime exits with when it cannot run the program; a    *)
(* program may exit with it too.                                           *)
ExitCodes == {0, 1, 125}
NoCode == -1
Streams == {"stdout", "stderr"}
Categories == {"success", "code-error", "timeout", "runtime-not-installed",
               "runtime-failed-to-start"}
NoVerdict == [category |-> "none", code |-> NoCode, timedOut |-> FALSE, truncated |-> FALSE]

VARIABLES box,       \* runPython: "idle", "racing", "grace" after the timeout, "done"
          client,    \* "none", "running", "exited"; "closed": Node has seen it
          exitCode,  \* the client's; NoCode when a signal ended it
          container, \* "none", "creating", "running", "gone", "refused"
          helper,    \* podman kill: "none", "sent", "done"
          output,    \* per stream: bytes read, bytes kept, truncated
          errorLine, \* stderr has a line that begins with "Error: "
          verdict,   \* the SandboxResult
          ended,     \* history: the code the program exited with by itself, or NoCode
          lost       \* history: something else than Node killed the client

sandboxVars == <<box, client, exitCode, container, helper, output, errorLine, verdict,
                 ended, lost>>

SandboxTypeOK ==
  /\ box \in {"idle", "racing", "grace", "done"}
  /\ client \in {"none", "running", "exited", "closed"}
  /\ exitCode \in ExitCodes \union {NoCode}
  /\ container \in {"none", "creating", "running", "gone", "refused"}
  /\ helper \in {"none", "sent", "done"}
  /\ output \in [Streams -> [read : Nat, kept : Nat, cut : BOOLEAN]]
  /\ errorLine \in BOOLEAN
  /\ verdict \in [category : Categories \union {"none"}, code : ExitCodes \union {NoCode, -2},
                  timedOut : BOOLEAN, truncated : BOOLEAN]
  /\ ended \in ExitCodes \union {NoCode}
  /\ lost \in BOOLEAN

SandboxInit ==
  /\ box = "idle" /\ client = "none" /\ exitCode = NoCode
  /\ container = "none" /\ helper = "none"
  /\ output = [s \in Streams |-> [read |-> 0, kept |-> 0, cut |-> FALSE]]
  /\ errorLine = FALSE
  /\ verdict = NoVerdict
  /\ ended = NoCode /\ lost = FALSE

-----------------------------------------------------------------------------
(* What runPython makes of an outcome.                                     *)

Truncated == \E s \in Streams : output[s].cut

(* Mutant: the timeout counts only when it leaves no exit code.            *)
CategoryByCode(code, timedOut) ==
  IF timedOut /\ code = NoCode THEN "timeout"
  ELSE IF code = 0 THEN "success"
  ELSE IF code = 125 /\ errorLine /\ output["stdout"].kept = 0 THEN "runtime-failed-to-start"
  ELSE "code-error"

Category(code, timedOut) ==
  IF timedOut THEN "timeout"
  ELSE IF code = 0 THEN "success"
  ELSE IF code = 125 /\ errorLine /\ output["stdout"].kept = 0 THEN "runtime-failed-to-start"
  ELSE "code-error"

Finish(code, timedOut) ==
  /\ box' = "done"
  /\ verdict' = [category |-> Category(code, timedOut), code |-> code,
                 timedOut |-> timedOut, truncated |-> Truncated]

-----------------------------------------------------------------------------
(* Node.                                                                   *)

Spawn ==
  /\ box = "idle"
  /\ box' = "racing" /\ client' = "running"
  /\ UNCHANGED <<exitCode, container, helper, output, errorLine, verdict, ended, lost>>

(* The 'error' event instead of a process, before any timer; enoent: the   *)
(* runtime is not there.                                                   *)
SpawnError(enoent) ==
  /\ box = "idle"
  /\ box' = "done"
  /\ verdict' = [category |-> IF enoent THEN "runtime-not-installed"
                              ELSE "runtime-failed-to-start",
                 code |-> -2, timedOut |-> FALSE, truncated |-> Truncated]
  /\ UNCHANGED <<client, exitCode, container, helper, output, errorLine, ended, lost>>

(* newCappedBuffer: append.                                                *)
AppendCapped(buffer, n) ==
  LET room == OutputLimit - buffer.kept
  IN  [read |-> buffer.read + n,
       kept |-> buffer.kept + (IF n <= room THEN n ELSE room),
       cut |-> buffer.cut \/ n > room]

(* A chunk of the program's output, or of what is left of it in the pipe.  *)
Data(s, n, line) ==
  /\ box \in {"racing", "grace"}
  /\ client \in {"running", "exited"}
  /\ container \in {"running", "gone"}
  /\ output[s].read + n <= MaxOutput
  /\ output' = [output EXCEPT ![s] = AppendCapped(@, n)]
  /\ errorLine' = (errorLine \/ (s = "stderr" /\ line /\ output[s].kept < OutputLimit))
  /\ UNCHANGED <<box, client, exitCode, container, helper, verdict, ended, lost>>

(* The 'close' event wins the first or the second race.                    *)
Close ==
  /\ box \in {"racing", "grace"}
  /\ client = "exited"
  /\ client' = "closed"
  /\ Finish(exitCode, box = "grace")
  /\ UNCHANGED <<exitCode, container, helper, output, errorLine, ended, lost>>

(* Mutant: the container is left to end with its client.                   *)
TimeoutClientOnly ==
  /\ box = "racing"
  /\ box' = "grace"
  /\ client' = "exited"
  /\ UNCHANGED <<exitCode, container, helper, output, errorLine, verdict, ended, lost>>

(* The timer wins: SIGKILL for the client, which does nothing to one that  *)
(* has exited, and a helper for the container.                             *)
Timeout ==
  /\ box = "racing"
  /\ box' = "grace"
  /\ client' = "exited"
  /\ helper' = "sent"
  /\ UNCHANGED <<exitCode, container, output, errorLine, verdict, ended, lost>>

(* Mutant: after the kill only the 'close' event ends the wait.            *)
GraceEndsByClose ==
  /\ box = "grace" /\ client = "closed"
  /\ Finish(NoCode, TRUE)
  /\ UNCHANGED <<client, exitCode, container, helper, output, errorLine, ended, lost>>

(* The pipes stay open past POST_KILL_GRACE_MS: a result is made up.       *)
GraceEnds ==
  /\ box = "grace"
  /\ Finish(NoCode, TRUE)
  /\ UNCHANGED <<client, exitCode, container, helper, output, errorLine, ended, lost>>

-----------------------------------------------------------------------------
(* The runtime.                                                            *)

Create ==
  /\ client = "running" /\ container = "none"
  /\ container' = "creating"
  /\ UNCHANGED <<box, client, exitCode, helper, output, errorLine, verdict, ended, lost>>

(* A request to create, once made, is carried out whatever has happened to *)
(* the client.                                                             *)
ContainerStarts ==
  /\ container = "creating"
  /\ container' = "running"
  /\ UNCHANGED <<box, client, exitCode, helper, output, errorLine, verdict, ended, lost>>

(* No image, no room: "Error: ..." on stderr, not counted as output here,  *)
(* and 125, from a client that is still there.                             *)
RuntimeRefuses ==
  /\ container = "creating" \/ (container = "none" /\ client = "running")
  /\ container' = "refused"
  /\ IF client = "running"
     THEN client' = "exited" /\ exitCode' = 125 /\ errorLine' = TRUE
     ELSE UNCHANGED <<client, exitCode, errorLine>>
  /\ UNCHANGED <<box, helper, output, verdict, ended, lost>>

(* The program ends, by exiting or by a fault of its own; the client, if   *)
(* it is still there, exits with its code and --rm removes the container.  *)
ProgramEnds(code) ==
  /\ container = "running"
  /\ container' = "gone"
  /\ IF client = "running"
     THEN client' = "exited" /\ exitCode' = code /\ ended' = code
     ELSE UNCHANGED <<client, exitCode, ended>>
  /\ UNCHANGED <<box, helper, output, errorLine, verdict, lost>>

(* The client is killed from outside, or crashes.                          *)
ClientLost ==
  /\ client = "running"
  /\ client' = "exited" /\ lost' = TRUE
  /\ UNCHANGED <<box, exitCode, container, helper, output, errorLine, verdict, ended>>

(* podman kill: nothing comes of it when it fails, or when the container   *)
(* is not running yet.                                                     *)
HelperEnds(works) ==
  /\ helper = "sent"
  /\ helper' = "done"
  /\ container' = IF works /\ container = "running" THEN "gone" ELSE container
  /\ UNCHANGED <<box, client, exitCode, output, errorLine, verdict, ended, lost>>

Runtime ==
  \/ Create
  \/ ContainerStarts
  \/ RuntimeRefuses
  \/ \E code \in ExitCodes : ProgramEnds(code)
  \/ ClientLost
  \/ \E works \in BOOLEAN : HelperEnds(works)

SandboxNext ==
  \/ Spawn
  \/ \E enoent \in BOOLEAN : SpawnError(enoent)
  \/ \E s \in Streams, n \in 1..MaxOutput, line \in BOOLEAN : Data(s, n, line)
  \/ Close
  \/ Timeout
  \/ GraceEnds
  \/ Runtime

SandboxSpec == SandboxInit /\ [][SandboxNext]_sandboxVars

-----------------------------------------------------------------------------
(* Whichever of the close, the two timers and the kills comes first, the   *)
(* result says what happened: success only of a program that exited with 0 *)
(* before the timeout, timed out only with the timeout category, an exit   *)
(* code only of a program that exited by itself or of a refusal, and for   *)
(* each stream the first OutputLimit bytes, called truncated just when     *)
(* there were more (runPython, newCappedBuffer).                           *)
SandboxHonest ==
  box = "done" =>
    /\ verdict.category = "success" => ended = 0 /\ ~verdict.timedOut
    /\ verdict.category = "timeout" <=> verdict.timedOut
    /\ verdict.code \in ExitCodes =>
         verdict.code = ended \/ (container = "refused" /\ verdict.code = 125)
    /\ verdict.truncated <=> \E s \in Streams : output[s].read > OutputLimit
    /\ \A s \in Streams :
         output[s].kept = IF output[s].read > OutputLimit THEN OutputLimit ELSE output[s].read

(* A container that is there when its result is returned is one whose kill *)
(* has been sent after the timeout, or whose client was killed by somebody *)
(* else (runPython: child.kill and the kill helper).                       *)
ContainerAccounted ==
  box = "done" /\ container \in {"creating", "running"} =>
    \/ verdict.timedOut /\ helper # "none"
    \/ lost

=============================================================================
