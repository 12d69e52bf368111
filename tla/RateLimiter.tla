------------------------------ MODULE RateLimiter ------------------------------
(***************************************************************************)
(* The fixed-window limiter of GET /ping (security/rate_limit.py,          *)
(* api/routes_ping.py).  All clients share one key.  The handler is a      *)
(* coroutine that awaits nothing, so on the event loop reading the clock   *)
(* and counting are one step.  Times are in ticks of the monotonic clock.  *)
(***************************************************************************)
EXTENDS Integers, Sequences

CONSTANTS
  MaxRequests, \* ping_rate_limit_per_minute
  Window,      \* window_seconds
  MaxTime      \* bound of the clock

ASSUME LimitAssumption == MaxRequests \in Nat \ {0} /\ Window \in Nat \ {0} /\ MaxTime \in Nat

VARIABLES
  now,     \* the time
  count,   \* requests counted in the window
  start,   \* window_start
  pongs    \* history: when pings were answered

limiterVars == <<now, count, start, pongs>>

LimiterTypeOK ==
  /\ now \in 0..MaxTime
  /\ count \in 0..MaxRequests
  /\ start \in 0..MaxTime
  /\ pongs \in Seq(0..MaxTime)

\* A key that is not known yet has count 0 and the window begins with its first request.
LimiterInit ==
  /\ now = 0
  /\ count = 0
  /\ start = 0
  /\ pongs = <<>>

Elapsed == now - start >= Window

\* What the request finds: the count, and the start of the window.
CountNow == IF count = 0 \/ Elapsed THEN 0 ELSE count

StartNow == IF count = 0 \/ Elapsed THEN now ELSE start

\* Mutant: the new window keeps the start of the old one.
CountedFromTheFirst ==
  /\ CountNow < MaxRequests
  /\ count' = CountNow + 1
  /\ start' = IF count = 0 THEN now ELSE start
  /\ pongs' = Append(pongs, now)
  /\ UNCHANGED now

\* Mutant: one request more is let through.
CountedOnceMore ==
  /\ CountNow <= MaxRequests
  /\ count' = CountNow + 1
  /\ start' = StartNow
  /\ pongs' = Append(pongs, now)
  /\ UNCHANGED now

\* allow returns True,
Counted ==
  /\ CountNow < MaxRequests
  /\ count' = CountNow + 1
  /\ start' = StartNow
  /\ pongs' = Append(pongs, now)
  /\ UNCHANGED now

\* or False: nothing is written.
Exhausted ==
  /\ CountNow >= MaxRequests
  /\ UNCHANGED limiterVars

TimePasses ==
  /\ now < MaxTime
  /\ now' = now + 1
  /\ UNCHANGED <<count, start, pongs>>

-----------------------------------------------------------------------------
(* What the limiter is for *)

\* Any 2 * MaxRequests answered pings in a row take a Window: around a boundary there may be
\* twice the limit less one within less, since a window begins with a ping, but no more.
PongsBounded ==
  \A i \in DOMAIN pongs :
    i + 2 * MaxRequests - 1 \in DOMAIN pongs =>
      pongs[i + 2 * MaxRequests - 1] - pongs[i] >= Window

\* At time n a refusal is justified: MaxRequests pings were answered less than a Window
\* before.  So a client that waits for Retry-After, a Window, is refused again only if so
\* many others were answered since.
Justified(n) ==
  \E i \in DOMAIN pongs :
    /\ i >= MaxRequests
    /\ pongs[i] <= n
    /\ n - pongs[i - MaxRequests + 1] < Window

\* The inductive invariant behind them: the last count pongs are of the window, the first
\* of them began it, and the MaxRequests-th before it, which began the window before or is
\* older, came a Window earlier.
LimiterInv ==
  /\ start <= now
  /\ count <= Len(pongs)
  /\ count = 0 => pongs = <<>>
  /\ \A i \in DOMAIN pongs :
       /\ pongs[i] <= now
       /\ i = Len(pongs) - count + 1 => pongs[i] = start
       /\ i > Len(pongs) - count => start <= pongs[i]
       /\ i <= Len(pongs) - count => pongs[i] <= start
       /\ i <= Len(pongs) - count - MaxRequests + 1 => pongs[i] + Window <= start
  /\ PongsBounded
===============================================================================
