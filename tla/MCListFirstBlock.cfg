SPECIFICATION Spec
CONSTANTS
  Senders = {s1, s2}
  Receivers = {r1}
  Timed = {}
  Trying = {}
  None = None
  MaxSends = 1
  MaxRecvs = 2
  LAP = 3
INVARIANT BlocksFreedOnce
