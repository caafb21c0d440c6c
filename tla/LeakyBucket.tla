---------------------------- MODULE LeakyBucket ----------------------------
(***************************************************************************)
(* The leaky bucket of leaky-bucket.c, the arithmetic behind every error   *)
(* threshold of mcelog (DIMM, socket, page and counter replacement).       *)
(*                                                                         *)
(* A bucket is the struct leaky_bucket: count, excess and tstamp.  A       *)
(* configuration is the part of struct bucket_conf the arithmetic reads:   *)
(* capacity (0: threshold not configured) and agetime, in seconds.         *)
(***************************************************************************)
EXTENDS Integers

Bucket == [count: Nat, excess: Nat, tstamp: Int]

\* parse_rate refuses a zero count and a zero time, so an enabled threshold
\* has both; a bucket_conf nobody configured is all zero.
BucketConf == [capacity: Nat \ {0}, agetime: Nat \ {0}]
                 \cup [capacity: {0}, agetime: {0}]

bucket_init(now) == [count |-> 0, excess |-> 0, tstamp |-> now]

\* Mutant: only the time beyond one age time leaks.
Leak_Late(c, diff, mult) == ((diff - c.agetime) * (c.capacity * mult)) \div c.agetime

\* What leaks out of the bucket in diff seconds: the floating point product
\* (diff / agetime) * capacity * multiplier, truncated to an unsigned.
Leak(c, diff, mult) == (diff * (c.capacity * mult)) \div c.agetime

\* Mutant: count is not kept from going below zero.
Drain_Unclamped(b, now, age) == [count |-> b.count - age, excess |-> 0, tstamp |-> now]

\* bucket_age with the amount to leak already computed.
Drain(b, now, age) ==
  [count  |-> IF age > b.count THEN 0 ELSE b.count - age,
   excess |-> 0,
   tstamp |-> now]

\* Mutant: the bucket never ages.
bucket_age_Never(c, b, now, mult) == b

\* bucket_age of a configured threshold (agetime > 0).
bucket_age(c, b, now, mult) ==
  IF now - b.tstamp >= c.agetime
    THEN Drain(b, now, Leak(c, now - b.tstamp, mult))
    ELSE b

\* The bucket after bucket_age and b->count += inc.
Filled(c, b, inc, t, mult) ==
  LET aged == bucket_age(c, b, t, mult)
  IN  [aged EXCEPT !.count = @ + inc]

\* Mutant: > for >=.
Overflows_Late(c, b, inc, t, mult) ==
  /\ c.capacity # 0
  /\ Filled(c, b, inc, t, mult).count > c.capacity * mult

\* __bucket_account returns 1: the threshold is crossed.
Overflows(c, b, inc, t, mult) ==
  /\ c.capacity # 0
  /\ Filled(c, b, inc, t, mult).count >= c.capacity * mult

\* Mutant: an overflow forgets the errors that were reported before.
bucket_account_Forgets(c, b, inc, t, mult) ==
  LET f == Filled(c, b, inc, t, mult)
  IN  IF c.capacity = 0 THEN b
      ELSE IF Overflows(c, b, inc, t, mult)
             THEN [count |-> 0, excess |-> f.count, tstamp |-> f.tstamp]
             ELSE f

\* The bucket __bucket_account leaves behind.
bucket_account(c, b, inc, t, mult) ==
  LET f == Filled(c, b, inc, t, mult)
  IN  IF c.capacity = 0 THEN b
      ELSE IF Overflows(c, b, inc, t, mult)
             THEN [count |-> 0, excess |-> f.excess + f.count, tstamp |-> f.tstamp]
             ELSE f

\* The number bucket_output prints and the triggers get as THRESHOLD_COUNT.
bucket_output(b) == b.count + b.excess
=============================================================================
