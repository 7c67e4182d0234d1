----------------------------- MODULE WorkerSlots -----------------------------
(***************************************************************************)
(* What the worker scheduler promises, whatever its timers, promises and   *)
(* handlers do: each worker has one run slot; a run enters a free slot     *)
(* while the scheduler is open, leaves it once, and is accounted for when  *)
(* it leaves; a closed scheduler admits nothing.                           *)
(***************************************************************************)
EXTENDS Naturals

CONSTANT Workers

VARIABLES busy,      \* workers whose slot is taken
          admitted,  \* runs admitted per worker
          accounted, \* runs accounted for per worker
          closed     \* no further admission

slots == <<busy, admitted, accounted, closed>>

Init ==
  /\ busy = {}
  /\ admitted = [w \in Workers |-> 0]
  /\ accounted = [w \in Workers |-> 0]
  /\ closed = FALSE

(* A set of workers is admitted together when the scheduler starts them    *)
(* in one turn of the event loop.                                          *)
Admit(W) ==
  /\ ~closed
  /\ W \subseteq Workers \ busy
  /\ busy' = busy \union W
  /\ admitted' = [w \in Workers |-> IF w \in W THEN admitted[w] + 1 ELSE admitted[w]]
  /\ UNCHANGED <<accounted, closed>>

Account(w) ==
  /\ w \in busy
  /\ busy' = busy \ {w}
  /\ accounted' = [accounted EXCEPT ![w] = @ + 1]
  /\ UNCHANGED <<admitted, closed>>

Close ==
  /\ ~closed
  /\ closed' = TRUE
  /\ UNCHANGED <<busy, admitted, accounted>>

Next ==
  \/ \E W \in SUBSET Workers : Admit(W)
  \/ \E w \in Workers : Account(w)
  \/ Close

Spec == Init /\ [][Next]_slots

=============================================================================
