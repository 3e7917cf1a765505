------------------------------ MODULE SourceGuard ------------------------------
(***************************************************************************)
(* What all requests share about the outside sources: the keys of the      *)
(* circuit breaker and of the rate limiter in Redis                        *)
(* (app/acquisition/circuit_breaker.py, rate_limiter.py).  One operator is *)
(* one Redis command; commands of different requests interleave.           *)
(***************************************************************************)
EXTENDS Integers

CONSTANTS
  Sources,      \* data_sources an acquisition may ask
  Threshold,    \* CircuitBreakerConfig.failure_threshold
  Cooldown,     \* CircuitBreakerConfig.cooldown_seconds, in ticks of the clock
  MaxCalls,     \* RateLimiter.max_calls of a window
  Never         \* no opened_at key

ASSUME GuardAssumption ==
  /\ Threshold \in Nat \ {0}
  /\ Cooldown \in Nat \ {0}
  /\ MaxCalls \in Nat \ {0}
  /\ Never \notin Int

VARIABLES
  open,       \* sources whose circuit:{source}:state is "open"
  failures,   \* circuit:{source}:failures, counted up to Threshold
  opened,     \* age of circuit:{source}:opened_at, counted up to Cooldown
  used        \* ratelimit:{source}:{window} of this window, counted up to MaxCalls + 1

guardVars == <<open, failures, opened, used>>

Upto(bound, n) == IF n < bound THEN n ELSE bound

GuardTypeOK ==
  /\ open \subseteq Sources
  /\ failures \in [Sources -> 0 .. Threshold]
  /\ opened \in [Sources -> 0 .. Cooldown \cup {Never}]
  /\ used \in [Sources -> 0 .. MaxCalls + 1]

GuardInit ==
  /\ open = {}
  /\ failures = [s \in Sources |-> 0]
  /\ opened = [s \in Sources |-> Never]
  /\ used = [s \in Sources |-> 0]

\* Fault: once open, always open.
CoolingForever(s) == opened[s] # Never

\* is_open, from the moment the state was found to be "open".
Cooling(s) == opened[s] # Never /\ opened[s] < Cooldown

\* What is_open would answer now.
Blocked(s) == s \in open /\ Cooling(s)

WithinLimit(s) == used[s] < MaxCalls

\* The commands of try_acquire, record_failure and record_success.
IncrUsed(s) == used' = [used EXCEPT ![s] = Upto(MaxCalls + 1, @ + 1)]

IncrFailures(s) == failures' = [failures EXCEPT ![s] = Upto(Threshold, @ + 1)]

SetOpen(s) == open' = open \cup {s}

SetOpenedAt(s) == opened' = [opened EXCEPT ![s] = 0]

DeleteKeys(s) ==
  /\ open' = open \ {s}
  /\ failures' = [failures EXCEPT ![s] = 0]
  /\ opened' = [opened EXCEPT ![s] = Never]

\* Time: the stamps age, and a new window begins with a key of its own.
Tick ==
  /\ opened' = [s \in Sources |-> IF opened[s] = Never THEN Never
                                  ELSE Upto(Cooldown, opened[s] + 1)]
  /\ UNCHANGED <<open, failures, used>>

NewWindow ==
  /\ used' = [s \in Sources |-> 0]
  /\ UNCHANGED <<open, failures, opened>>
=============================================================================
