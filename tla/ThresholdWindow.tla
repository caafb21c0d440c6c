-------------------------- MODULE ThresholdWindow --------------------------
(***************************************************************************)
(* What a threshold "Capacity / AgeTime" promises the code that uses it:   *)
(* errors are counted in windows.  A window begins at the first error that *)
(* comes AgeTime or more after the beginning of the previous one, and it   *)
(* starts from nothing.  Within a window the threshold fires each time     *)
(* Capacity errors have been counted since it last fired.                  *)
(*                                                                         *)
(* LeakyBucketMonitor, the arithmetic of leaky-bucket.c, implements it.    *)
(***************************************************************************)
EXTENDS Integers

CONSTANTS
  Capacity,   \* errors of the threshold, a positive number
  AgeTime,    \* length of a window in seconds, a positive number
  Incs,       \* how many errors are counted at once, positive numbers
  Times       \* the times at which errors may happen, integers

VARIABLES
  start,     \* time the current window began
  seen,      \* errors counted in the current window
  since,     \* errors of the current window counted since the threshold fired
  fired      \* did the last error make the threshold fire?

wvars == <<start, seen, since, fired>>

WInit ==
  /\ start \in Times
  /\ seen = 0
  /\ since = 0
  /\ fired = FALSE

\* inc errors at time t.
WAccount(inc, t) ==
  LET fresh == t - start >= AgeTime
      total == IF fresh THEN inc ELSE since + inc
  IN  /\ start' = IF fresh THEN t ELSE start
      /\ seen' = IF fresh THEN inc ELSE seen + inc
      /\ fired' = (total >= Capacity)
      /\ since' = IF total >= Capacity THEN 0 ELSE total

WNext == \E inc \in Incs, t \in Times : WAccount(inc, t)

WSpec == WInit /\ [][WNext]_wvars
=============================================================================
