\* Three attempts, one after the other, with restarts anywhere.
SPECIFICATION Spec
CONSTANTS
  c1 = c1  c2 = c2  c3 = c3  first = first  changed = changed
  r1 = r1  r2 = r2  r3 = r3
  Call = {c1, c2, c3}
  Request = {first, changed}
  Registration = {r1, r2, r3}
  Egress <- MCEgress
  MaxRevision = 2
  Overlapping = FALSE
  NoCall = NoCall
  NoRegistration = NoRegistration
  NoRequest = NoRequest
  NoRecord = NoRecord
SYMMETRY Symmetric
INVARIANTS AtMostOneSend
PROPERTIES ImplementsOperation
