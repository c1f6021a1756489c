--------------------------- MODULE SerializedBuilder ---------------------------
(***************************************************************************)
(* What signAndBroadcast promises its callers (spec 4.4 and 5), with no    *)
(* wallet, lock or node in it: each invocation waits, then runs its        *)
(* sync+build+sign span while no other invocation is inside its own, then  *)
(* broadcasts, and returns Ok or Err.  An invocation that returned Err may *)
(* be re-invoked.  Every invocation that has started returns.              *)
(***************************************************************************)
CONSTANTS Callers

VARIABLE stage   \* per caller: where its current invocation is

Stages == {"idle", "waiting", "critical", "broadcasting", "done", "failed"}

TypeOK == stage \in [Callers -> Stages]

Init == stage = [c \in Callers |-> "idle"]

Move(c, from, to) ==
  /\ stage[c] \in from
  /\ stage' = [stage EXCEPT ![c] = to]

Call(c) == Move(c, {"idle", "failed"}, "waiting")

\* The span starts only when no other invocation is inside its span.
Enter(c) ==
  /\ \A d \in Callers : stage[d] # "critical"
  /\ Move(c, {"waiting"}, "critical")

\* The span ends with a signed transaction, or with an error.
Leave(c) == \E to \in {"broadcasting", "failed"} : Move(c, {"critical"}, to)

Return(c) == \E to \in {"done", "failed"} : Move(c, {"broadcasting"}, to)

Next == \E c \in Callers : Call(c) \/ Enter(c) \/ Leave(c) \/ Return(c)

Spec ==
  /\ Init /\ [][Next]_stage
  /\ \A c \in Callers : WF_stage(Enter(c)) /\ WF_stage(Leave(c)) /\ WF_stage(Return(c))

=============================================================================
