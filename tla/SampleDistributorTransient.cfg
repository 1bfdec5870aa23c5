CONSTANTS
  MaxEnvelopes = 1
  MaxSet = 1
  MaxQueue = 1
  MaxAttempts = 1
  MaxFaults = 1
SPECIFICATION Spec
PROPERTY TransientIsRetryable
