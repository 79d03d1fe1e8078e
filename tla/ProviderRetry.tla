---------------------------- MODULE ProviderRetry ----------------------------
(***************************************************************************)
(* The bounded retry policy every provider operation of Rootwell keeps in  *)
(* its saved state (internal/providerretry).  An attempt is reserved       *)
(* before it is made, each one waits twice as long as the one before, and  *)
(* a provider can only lengthen the wait.  Stamps are seconds; 0 stands    *)
(* for an empty stamp.  attempts = 0 is the empty state.                   *)
(***************************************************************************)
EXTENDS Naturals

CONSTANTS
    MaxAttempts,      \* attempts a policy ever grants (6)
    MaxProviderWait,  \* the longest wait that is honoured (7 days)
    Unit,             \* the first back-off (30 seconds)
    MaxJitter         \* random extra seconds (30), and one for rounding up

ASSUME RetryAssumption ==
    /\ MaxAttempts \in Nat \ {0}
    /\ MaxProviderWait \in Nat \ {0}
    /\ Unit \in Nat \ {0}
    /\ MaxJitter \in Nat

NoRetry == [attempts |-> 0, last |-> 0, wait |-> 0]

\* A hint is what a refused call said of the next one: nothing (at = 0), a
\* moment to wait for, or something unusable, which blocks the policy.
NoHint == [at |-> 0, blocked |-> FALSE]
BadHint == [at |-> 0, blocked |-> TRUE]

ValidRetry(s) ==
    \/ s = NoRetry
    \/ /\ s.attempts \in 1 .. MaxAttempts
       /\ s.last < s.wait
       /\ s.wait <= s.last + MaxProviderWait

Ready(s, now) ==
    /\ s.attempts < MaxAttempts
    /\ s.attempts > 0 => now >= s.last /\ now >= s.wait

\* The state that reserves one more attempt at now.
Reserve(s, now, jitter) ==
    [attempts |-> s.attempts + 1,
     last |-> now,
     wait |-> now + Unit * 2 ^ s.attempts + jitter]

Reservable(s, now, jitter) ==
    Ready(s, now) /\ ValidRetry(Reserve(s, now, jitter))

\* The hint of an HTTP Retry-After of the given seconds, or of an unusable one.
RetryAfter(seconds, now) ==
    IF seconds > MaxProviderWait THEN BadHint
    ELSE [at |-> now + seconds, blocked |-> FALSE]

Refused(s, h) ==
    \/ s.attempts = 0
    \/ h.blocked
    \/ h.at # 0 /\ h.at > s.last + MaxProviderWait

\* A hint is only honoured when it is unusable.
HintIgnored(s, h) == s

\* The state after a failed call with hint h, unless the hint is Refused.
Lengthen(s, h) ==
    IF h.at > s.wait THEN [s EXCEPT !.wait = h.at] ELSE s
===============================================================================
