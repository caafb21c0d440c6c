------------------------ MODULE LeakyBucketMonitor ------------------------
(***************************************************************************)
(* One leaky bucket and the errors accounted to it over time: the calls of *)
(* __bucket_account that account_memdb, account_over and                   *)
(* account_page_error make while the clock runs.                           *)
(***************************************************************************)
EXTENDS LeakyBucket, Sequences, FiniteSets

CONSTANTS
  Capacity,    \* errors of the threshold, "Capacity / AgeTime"
  AgeTime,     \* seconds of the threshold
  Incs,        \* how many errors one record may carry (1, or a CMCI count)
  MaxTime,     \* bound: the clock stops here
  MaxErrors,   \* bound: records are accounted while fewer errors were seen
  MaxLag       \* a record may be this many seconds older than the clock

ASSUME MonitorAssumption ==
  /\ Capacity \in Nat \ {0}
  /\ AgeTime \in Nat \ {0}
  /\ Incs \subseteq Nat \ {0}
  /\ MaxTime \in Nat
  /\ MaxErrors \in Nat
  /\ MaxLag \in Nat

VARIABLES
  now,       \* bucket_time()
  b,         \* the bucket
  fired,     \* what the last __bucket_account returned
  last,      \* m->time of the last record
  hist       \* history: the time of every error, in the order accounted

bvars == <<now, b, fired, last, hist>>

conf == [capacity |-> Capacity, agetime |-> AgeTime]

BInit ==
  /\ now = 0
  /\ b = bucket_init(0)
  /\ fired = FALSE
  /\ last = 0
  /\ hist = << >>

Tick ==
  /\ now < MaxTime
  /\ now' = now + 1
  /\ UNCHANGED <<b, fired, last, hist>>

\* __bucket_account(conf, b, inc, t, 1), with t the time of the record.
Account(inc, t) ==
  /\ Len(hist) < MaxErrors
  /\ b' = bucket_account(conf, b, inc, t, 1)
  /\ fired' = Overflows(conf, b, inc, t, 1)
  /\ last' = t
  /\ hist' = hist \o [i \in 1 .. inc |-> t]
  /\ UNCHANGED now

BNext ==
  \/ Tick
  \/ \E inc \in Incs, lag \in 0 .. MaxLag : Account(inc, now - lag)

BSpec == BInit /\ [][BNext]_bvars

-----------------------------------------------------------------------------
BTypeOK ==
  /\ now \in Nat
  /\ b \in Bucket
  /\ fired \in BOOLEAN
  /\ last \in Int
  /\ hist \in Seq(Int)

(* The bucket never holds a full threshold: what __bucket_account leaves in
   count is below capacity, so that the next bucket_age, which leaks at
   least a whole capacity, always empties it.                              *)
BelowCapacity == b.count < Capacity

(* The arithmetic of leaky-bucket.c implements the window the threshold
   promises: bucket_age with its fractional leak always empties the bucket,
   and __bucket_account overflows exactly on every Capacity-th error of the
   window.                                                                 *)
Window == INSTANCE ThresholdWindow
            WITH start <- b.tstamp, seen <- bucket_output(b), since <- b.count,
                 Times <- (0 - MaxLag) .. MaxTime

ImplementsWindow == Window!WSpec

\* Errors less than AgeTime before the last record.
RecentErrors ==
  Cardinality({k \in 1 .. Len(hist) : hist[k] > last - AgeTime})

\* The records came in the order of their times, none from before the start.
InOrder ==
  \A i \in 1 .. Len(hist) : hist[i] >= 0 /\ (i > 1 => hist[i - 1] <= hist[i])

(* __bucket_account returns 1 only when Capacity errors really happened
   within AgeTime (records in time order): no trigger, and no page
   offlining, for errors that are further apart than the threshold.        *)
NoFalseTrigger == InOrder /\ fired => RecentErrors >= Capacity

(* THRESHOLD_COUNT, count + excess, is the number of errors of the current
   threshold period (mcelog.triggers.5): neither an overflow, which moves
   count into excess, nor bucket_age loses or repeats one.                 *)
ReportedCountIsExact ==
  InOrder => bucket_output(b) = Cardinality({k \in 1 .. Len(hist) : hist[k] >= b.tstamp})
=============================================================================
