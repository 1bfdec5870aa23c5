--------------------------- MODULE RolloutSegment ---------------------------
(***************************************************************************)
(* What a closed segment is turned into: EstimateRolloutSegment and        *)
(* ProjectProcessedSegment (src/task/sample/training_transition_builder.cpp)*)
(* and the envelopes of PrepareAgentSegmentClose                           *)
(* (src/task/runtime/training_runtime.tpp).                                *)
(*                                                                         *)
(* A segment is a sequence of transitions; of a transition the reward, the *)
(* value of the observation it started from, both observations and the     *)
(* action step matter here.  The discount gamma and gae_lambda are both    *)
(* one half, and advantages and value targets are multiplied by Scale, so  *)
(* that every division is exact.                                           *)
(***************************************************************************)
EXTENDS Integers, Sequences

CONSTANTS
  TMax,                   \* rollout.tmax
  EnvelopeMaxTransitions, \* sample_distributor.envelope_max_transitions
  EnvelopeMaxBytes        \* sample_distributor.envelope_max_bytes

ASSUME SegmentConstantsAssumption ==
  /\ TMax \in Nat \ {0}
  /\ EnvelopeMaxTransitions \in Nat \ {0} /\ EnvelopeMaxBytes \in Nat \ {0}

\* f[1] + ... + f[n].
SumTo(f, n) ==
  LET Sum[k \in 0 .. n] == IF k = 0 THEN 0 ELSE Sum[k - 1] + f[k]
  IN  Sum[n]

\* Two to the power of n.
Power(n) ==
  LET Doubled[k \in 0 .. n] == IF k = 0 THEN 1 ELSE 2 * Doubled[k - 1]
  IN  Doubled[n]

Scale == Power(2 * TMax)

EstimateKeepsNextValue(segment, bootstrap) ==
  LET n == Len(segment)
      Back[k \in 0 .. n] ==
        IF k = 0 THEN 0
        ELSE LET t == segment[n - k + 1]
             IN  Scale * (t.reward - t.value) + (Scale * bootstrap) \div 2
                   + Back[k - 1] \div 4
  IN  [i \in 1 .. n |->
         [advantage |-> Back[n - i + 1],
          target |-> Back[n - i + 1] + Scale * segment[i].value]]

\* EstimateRolloutSegment: from the last transition back, with the advantage
\* and the value of the transition behind.
EstimateRolloutSegment(segment, bootstrap) ==
  LET n == Len(segment)
      Back[k \in 0 .. n] ==
        IF k = 0 THEN [advantage |-> 0, value |-> bootstrap]
        ELSE LET behind == Back[k - 1]
                 t == segment[n - k + 1]
             IN  [advantage |-> Scale * (t.reward - t.value)
                                  + (Scale * behind.value) \div 2
                                  + behind.advantage \div 4,
                  value |-> t.value]
  IN  [i \in 1 .. n |->
         [advantage |-> Back[n - i + 1].advantage,
          target |-> Back[n - i + 1].advantage + Scale * segment[i].value]]

\* The checks of ProjectProcessedSegment that relate transitions.
Chained(segment) ==
  \A i \in 1 .. Len(segment) - 1 :
    /\ segment[i].next = segment[i + 1].observation
    /\ segment[i + 1].step = segment[i].step + 1

\* ProjectProcessedSegment: the transitions with their estimates.
ProjectProcessedSegment(segment, bootstrap) ==
  LET estimate == EstimateRolloutSegment(segment, bootstrap)
  IN  [i \in 1 .. Len(segment) |->
         [observation |-> segment[i].observation, value |-> segment[i].value,
          advantage |-> estimate[i].advantage, target |-> estimate[i].target]]

\* An encoded sample: a scalar that is zero takes no bytes.
SampleBytes(sample) == IF sample.value = 0 THEN 2 ELSE 3

Bytes(samples) ==
  SumTo([i \in 1 .. Len(samples) |-> SampleBytes(samples[i])], Len(samples))

Fits(samples) ==
  /\ Len(samples) <= EnvelopeMaxTransitions
  /\ Bytes(samples) <= EnvelopeMaxBytes

\* "one processed sample exceeds envelope_max_bytes" is an error.
Divisible(processed) ==
  \A i \in 1 .. Len(processed) : Fits(<<processed[i]>>)

\* The end of the envelope that begins behind offset: as many samples as fit.
EnvelopeEnd(processed, offset) ==
  CHOOSE end \in offset + 1 .. Len(processed) :
    /\ Fits(SubSeq(processed, offset + 1, end))
    /\ end < Len(processed) => ~Fits(SubSeq(processed, offset + 1, end + 1))

\* The loop that fills one envelope after the other.
FillEnvelopes(processed) ==
  LET size == Len(processed)
      From[left \in 0 .. size] ==
        IF left = 0 THEN <<>>
        ELSE LET end == EnvelopeEnd(processed, size - left)
             IN  <<SubSeq(processed, size - left + 1, end)>>
                   \o From[size - end]
  IN  From[size]

-----------------------------------------------------------------------------
\* What the estimate and the envelopes should be.

\* Scale, halved k times.
Halved(k) == Power(2 * TMax - k)

\* The value of where transition i starts, or of where the segment ends.
ValueAt(segment, bootstrap, i) ==
  IF i > Len(segment) THEN bootstrap ELSE segment[i].value

\* The n-step return from transition i, halved h times: n discounted rewards,
\* then the value of where they end.
NStepReturn(segment, bootstrap, i, n, h) ==
  SumTo([j \in 1 .. n |-> Halved(h + j - 1) * segment[i + j - 1].reward], n)
    + Halved(h + n) * ValueAt(segment, bootstrap, i + n)

\* The lambda return: the average of the n-step returns, each weighing half of
\* the one before, the longest taking what is left.
LambdaReturn(segment, bootstrap, i) ==
  LET longest == Len(segment) - i + 1
  IN  SumTo([n \in 1 .. longest - 1 |-> NStepReturn(segment, bootstrap, i, n, n)],
            longest - 1)
        + NStepReturn(segment, bootstrap, i, longest, longest - 1)

\* The samples in front of envelope k.
Before(envelopes, k) == SumTo([j \in 1 .. k - 1 |-> Len(envelopes[j])], k - 1)

\* The envelopes hold every transition of the segment once and in order, with
\* the advantage and target of the lambda return, and none is empty or over a
\* limit.
HoldExactly(envelopes, segment, bootstrap) ==
  /\ Before(envelopes, Len(envelopes) + 1) = Len(segment)
  /\ \A k \in 1 .. Len(envelopes) :
       /\ envelopes[k] # <<>>
       /\ Len(envelopes[k]) <= EnvelopeMaxTransitions
       /\ Bytes(envelopes[k]) <= EnvelopeMaxBytes
       /\ \A j \in 1 .. Len(envelopes[k]) :
            LET i == Before(envelopes, k) + j
                return == LambdaReturn(segment, bootstrap, i)
            IN  /\ envelopes[k][j].observation = segment[i].observation
                /\ envelopes[k][j].target = return
                /\ envelopes[k][j].advantage = return - Scale * segment[i].value
=============================================================================
