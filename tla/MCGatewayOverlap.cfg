\* Two calls of the same operation key at once.
SPECIFICATION FairSpec
CONSTANTS
  c1 = c1  c2 = c2  c3 = c3  first = first  changed = changed
  r1 = r1  r2 = r2  r3 = r3
  Call = {c1, c2}
  Request = {first}
  Registration = {r1}
  Egress <- MCEgress
  MaxRevision = 3
  Overlapping = TRUE
  NoCall = NoCall
  NoRegistration = NoRegistration
  NoRequest = NoRequest
  NoRecord = NoRecord
PROPERTIES PassesAsAuthorized EveryCallSettles
