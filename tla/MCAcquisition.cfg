\* Two overlapping requests of one source; the thresholds of the code (three failures open
\* the breaker, three attempts a call), the times and the limit scaled down.
SPECIFICATION Spec
CONSTANTS
  rera = rera  q1 = q1  q2 = q2
  Sources = {rera}
  Requests = {q1, q2}
  Threshold = 3
  Cooldown = 2
  MaxCalls = 2
  MaxAttempts = 3
  Never = Never
  NoSource = NoSource
INVARIANTS
  TypeOK
  LeftAlone
  KeysAgree
PROPERTIES
  RequestsEnd
  TriedAgain
