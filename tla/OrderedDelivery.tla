-------------------------- MODULE OrderedDelivery --------------------------
(***************************************************************************)
(* What the sample path promises the training runtime, free of threads,    *)
(* RPCs and retries: envelopes are handed over in sets and numbered in     *)
(* that order; the SamplePool takes them in as a growing prefix, each one  *)
(* once; an envelope is settled only after the pool has it, and in order;  *)
(* and when the path closes, whatever was not settled is reported as lost. *)
(***************************************************************************)
EXTENDS Naturals

VARIABLES
  submitted,   \* number of envelopes handed over
  delivered,   \* envelopes the SamplePool holds
  settled,     \* envelopes the producer side regards as delivered
  closed,      \* the path has been closed
  lost         \* envelopes reported as lost when the path closed

vars == <<submitted, delivered, settled, closed, lost>>

Init ==
  /\ submitted = 0
  /\ delivered = {}
  /\ settled = {}
  /\ closed = FALSE
  /\ lost = {}

\* e is the next number after those of S.
NextOf(e, S) == e \notin S /\ \A d \in 1 .. (e - 1) : d \in S

Submit ==
  /\ ~closed
  /\ submitted' \in Nat
  /\ submitted' > submitted
  /\ UNCHANGED <<delivered, settled, closed, lost>>

Deliver ==
  /\ \E e \in 1 .. submitted :
        /\ NextOf(e, delivered)
        /\ delivered' = delivered \cup {e}
  /\ UNCHANGED <<submitted, settled, closed, lost>>

Settle ==
  /\ ~closed
  /\ \E e \in delivered :
        /\ NextOf(e, settled)
        /\ settled' = settled \cup {e}
  /\ UNCHANGED <<submitted, delivered, closed, lost>>

Close ==
  /\ ~closed
  /\ closed' = TRUE
  /\ lost' = (1 .. submitted) \ settled
  /\ UNCHANGED <<submitted, delivered, settled>>

Next == Submit \/ Deliver \/ Settle \/ Close

Spec == Init /\ [][Next]_vars
=============================================================================
