CONSTANTS
  MaxEnvelopes = 3
  MaxSet = 2
  MaxQueue = 2
  MaxAttempts = 2
  MaxFaults = 3
SPECIFICATION FairSpec
INVARIANTS QueueBound Accounting PoolAccounted CleanStop
PROPERTIES SealIsSound DeliveryNeverRevives ImplementsOrderedDelivery StopReturns EnvelopeSettles
