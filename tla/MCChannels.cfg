\* Three sends of one key, three deliveries of two messages of which one record
\* is kept, a restart anywhere; a gateway with two messages, against two faults.
SPECIFICATION Spec
CONSTANTS
  Key = {k1}
  Message = {1, 2}
  Stamp <- MCStamp
  Send = {1, 2, 3}
  Delivery = {4, 5, 6}
  DedupCapacity = 1
  MaxRegistrations = 2
  MaxRevision = 1
  MaxRestarts = 1
  CallMixes <- MCCallMixes
  Connection = {1, 2, 3, 4, 5, 6}
  MaxQueued = 2
  MaxSockets = 1
  Closing = {"fatal", "resumable", "fresh", "abnormal"}
  MaxFaults = 2
  MaxMessages = 2
CHECK_DEADLOCK FALSE
INVARIANTS SentAtMostOnce EmittedOnce OneSocket NothingIsSkipped
PROPERTIES Recovers
