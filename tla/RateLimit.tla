------------------------------ MODULE RateLimit ------------------------------
(***************************************************************************)
(* The sliding-window rate limiter of apps/server (signaling/rateLimit.ts), *)
(* one key at a time.  The code keeps the timestamps of the recorded events *)
(* and, on every use, drops those with timestamp <= now - windowMs.  Here a *)
(* log counts the events of each age, the age being the number of clock     *)
(* ticks since the event: an event of age a is inside a window of w ticks   *)
(* iff a < w, so a log only needs the ages 0 .. w-1.  A window of 0 ticks   *)
(* is shorter than a tick: such a limiter has forgotten everything by the   *)
(* time it is asked again.                                                  *)
(***************************************************************************)
EXTENDS Naturals, FiniteSets

Log(window) == [0 .. window - 1 -> Nat]

EmptyLog(window) == [age \in 0 .. window - 1 |-> 0]

\* How many events are younger than n ticks.
Younger(log, n) ==
  LET sum[m \in 0 .. n] == IF m = 0 THEN 0 ELSE sum[m - 1] + log[m - 1]
  IN  sum[n]

\* How many events are inside the window.
ActiveEvents(log) == Younger(log, Cardinality(DOMAIN log))

IsAllowed(log, maxEvents) == ActiveEvents(log) < maxEvents

\* An event recorded now has age 0.
Record(log) == [age \in DOMAIN log |-> IF age = 0 THEN log[age] + 1 ELSE log[age]]

Reset(log) == [age \in DOMAIN log |-> 0]

\* One tick later: every event is one tick older, those of the last age are
\* outside the window.
Older(log) == [age \in DOMAIN log |-> IF age = 0 THEN 0 ELSE log[age - 1]]

==============================================================================
