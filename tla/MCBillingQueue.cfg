SPECIFICATION FairSpec
CONSTANTS
  s1 = s1  s2 = s2  r1 = r1  r2 = r2  p1 = p1  p2 = p2
  Senders = {s1, s2}
  Receivers = {r1, r2}
  Payloads = {p1, p2}
  NoPayload = NoPayload
  NoThread = NoThread
  MaxSends = 4
INVARIANTS QueuedHaveIds FrontStable GaugeLag
PROPERTIES ImplementsFifo MutexReleased
