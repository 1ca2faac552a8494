--------------------------- MODULE ReplicatedLog ---------------------------
(***************************************************************************)
(* What a replicated state machine promises its users: one log of chosen   *)
(* entries that only grows, and replicas that apply it in order.  Nothing  *)
(* is promised from when a replica starts to compact its log.              *)
(***************************************************************************)
EXTENDS Integers, Sequences, SequencesExt

VARIABLES
  chosen,   \* the entries decided so far, in order
  applied,  \* applied[r]: what replica r has applied
  whole     \* whether every replica has kept its log

Replica == DOMAIN applied

Init ==
  /\ whole = TRUE
  /\ \A r \in Replica : IsPrefix(applied[r], chosen)

\* A replica compacts its log.
Compact == ~whole'

\* One or more entries are decided after those already there.
Choose ==
  /\ IsStrictPrefix(chosen, chosen')
  /\ UNCHANGED <<applied, whole>>

\* A replica applies more of the chosen entries.
Apply(r) ==
  /\ IsStrictPrefix(applied[r], applied'[r])
  /\ IsPrefix(applied'[r], chosen)
  /\ \A q \in Replica \ {r} : applied'[q] = applied[q]
  /\ DOMAIN applied' = Replica
  /\ UNCHANGED <<chosen, whole>>

Next == Compact \/ Choose \/ \E r \in Replica : Apply(r)

Spec == Init /\ [][Next]_<<chosen, applied, whole>>

=============================================================================
