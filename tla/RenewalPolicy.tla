---------------------------- MODULE RenewalPolicy ----------------------------
(***************************************************************************)
(* When to renew and when to ask again (internal/renewalpolicy): pure      *)
(* rules over a certificate's lifetime, the CA's renewal information and   *)
(* the clock.  A window is [start, end); a set of results stands for the   *)
(* random draw inside it, and the empty set for an error.                  *)
(***************************************************************************)
EXTENDS Integers

CONSTANTS
    Minute,       \* the shortest delay of any check
    CheckDay,     \* the longest delay the CA's Retry-After may ask for
    ErrorDelay,   \* the delay after an error (6 h)
    Short,        \* lifetimes below this renew half way (10 days)
    Spread,       \* the share of a lifetime the draw spreads over (1/24)
    MaxFailures   \* failures that are told apart (6)

ASSUME PolicyAssumption ==
    /\ Minute \in Nat \ {0} /\ CheckDay \in Nat /\ Minute <= CheckDay
    /\ ErrorDelay \in Nat \ {0} /\ Short \in Nat /\ Spread \in Nat \ {0}
    /\ MaxFailures \in Nat \ {0}

\* What the delays of the code satisfy: none is shorter than the shortest, and
\* the doubled ones (1 min to 16 min) stay below that after an error (6 h).
ASSUME DelaysAssumption ==
    /\ Minute <= ErrorDelay
    /\ \A f \in 1 .. MaxFailures - 1 : Minute * 2 ^ (f - 1) \in Minute .. ErrorDelay

Latest(a, b) == IF a >= b THEN a ELSE b
Earliest(a, b) == IF a <= b THEN a ELSE b

FallbackWindow(life) ==
    LET span == life.end - life.start
        end == life.start + (IF span < Short THEN span \div 2
                                             ELSE 2 * (span \div 3))
    IN  [start |-> end - span \div Spread, end |-> end]

\* Renewal information that may be used at now.
Usable(life, i, now) ==
    /\ i.start < i.end /\ i.end <= life.end
    /\ i.checked <= now /\ i.checked < life.end
    /\ now < i.after /\ i.after - i.checked \in Minute .. CheckDay

\* A window that has begun is drawn from as if it had not.
Unclipped(life, w, now) ==
    {t \in w.start .. w.end - 1 : life.start <= now /\ t < life.end}

\* The moments Select may draw from window w.
Selections(life, w, now) ==
    {at \in {Latest(t, now) : t \in w.start .. w.end - 1} :
        life.start <= now /\ at < life.end}

\* NextCheck: the CA's Retry-After, clamped.
NextCheck(delay, now) == now + Latest(Minute, Earliest(CheckDay, delay))

ErrorCheckAt(now, temporary, failures) ==
    now + (IF temporary /\ failures < MaxFailures
           THEN Minute * 2 ^ (failures - 1) ELSE ErrorDelay)
===============================================================================
