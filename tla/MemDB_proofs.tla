---------------------------- MODULE MemDB_proofs ----------------------------
(***************************************************************************)
(* Proofs about the database of memory errors of memdb.c, for every number *)
(* of sockets, DIMMs, ranks and records and every pair of thresholds.      *)
(***************************************************************************)
EXTENDS MemDB, FiniteSetTheorems, SequenceTheorems, TLAPS

USE DEF Bucket, BucketConf

-----------------------------------------------------------------------------
(* The errors of a history that belong to a set of errors P.               *)
In(es, P) == {i \in 1 .. Len(es) : es[i] \in P}

OfEntry(key, kind) == {e \in Error : e.key = key /\ e.kind = kind}
Since(key, kind, t) == {e \in Error : e.key = key /\ e.kind = kind /\ e.time >= t}
DimmErrors(s) == {e \in Error : e.key[1] = s /\ e.key[2] # AnyDimm}

\* The threshold memory_error accounts an entry with, and whether nothing else
\* ages its bucket.
ConfOf(key, kind) == IF key[2] = AnyDimm THEN sockets[kind] ELSE dimms[kind]
Undisturbed(key) == key[2] # AnyDimm \/ ~ dumped
CountIn(m, key, kind) == IF key \in DOMAIN m THEN m[key][kind].count ELSE 0

\* A record is processed within MaxLag of its time.
RecordTime(tm) == tm \in Int /\ now - MaxLag <= tm /\ tm <= now

(* A bucket is below its capacity, and what it counts happened since its time
   stamp, or before it and was processed after it.                         *)
BucketInv(b, es, key, kind) ==
  /\ b.tstamp <= now
  /\ ConfOf(key, kind).capacity # 0 =>
       /\ b.count < ConfOf(key, kind).capacity
       /\ Undisturbed(key) => b.count <= Cardinality(In(es, Since(key, kind, b.tstamp - MaxLag)))

(* The table, and the counts of its entries.                               *)
TableInv(m, es) ==
  /\ m \in [DOMAIN m -> [Kinds -> ErrType]]
  /\ DOMAIN m \subseteq Keys
  /\ \A key \in DOMAIN m, kind \in Kinds : BucketInv(m[key][kind].bucket, es, key, kind)
  /\ \A key \in Keys, kind \in Kinds :
       CountIn(m, key, kind) = Cardinality(In(es, OfEntry(key, kind)))

ErrsInv(es) == es \in Seq(Error) /\ \A i \in 1 .. Len(es) : es[i].time <= now

\* The earliest time of an error behind a trigger of a record of time tm.
First(c, tm) == (tm - (c.agetime + MaxLag)) + 1

(* The errors behind each trigger.                                         *)
FiredInv(f, es) ==
  /\ f \in Seq(Keys \X Kinds \X Int)
  /\ \A i \in 1 .. Len(f) :
       LET key == f[i][1]
           kind == f[i][2]
       IN  Undisturbed(key) =>
             Cardinality(In(es, Since(key, kind, First(ConfOf(key, kind), f[i][3]))))
               >= ConfOf(key, kind).capacity

(* What holds between any two calls of memory_error.                       *)
DbInv(db) ==
  /\ db = [md |-> db.md, fired |-> db.fired, errs |-> db.errs]
  /\ TableInv(db.md, db.errs)
  /\ ErrsInv(db.errs)
  /\ FiredInv(db.fired, db.errs)

(* DIMM 2 is in the table for good or never: what a rank was taken for once
   is what failrank2dimm says now.                                         *)
RankInv ==
  /\ ranks \in [Sockets \X Ranks -> SUBSET (Places \ {AnyDimm})]
  /\ \A s \in Sockets, r \in Ranks : ranks[<<s, r>>] \subseteq {failrank2dimm(r, s)}

DimmsCovered ==
  (memdb_enabled /\ sockdb_enabled) =>
    \A s \in Sockets :
      Cardinality(In(errs, DimmErrors(s))) <= Total(<<s, AnyDimm>>)

IInv ==
  /\ now \in 0 .. MaxTime
  /\ memdb_enabled \in BOOLEAN /\ sockdb_enabled \in BOOLEAN /\ dumped \in BOOLEAN
  /\ records \in Nat
  /\ hardware \in [Sockets -> Nat]
  /\ DbInv([md |-> md, fired |-> fired, errs |-> errs])
  /\ RankInv
  /\ SocketTotalExact
  /\ DimmsCovered

-----------------------------------------------------------------------------
(* Integer multiplication by a natural number is monotonic.                *)
LEMMA MulMono ==
  ASSUME NEW x \in Int, NEW y \in Int, NEW z \in Nat, x <= y
  PROVE  x * z <= y * z
OBVIOUS

(* A positive factor can be cancelled.                                     *)
LEMMA MulCancel ==
  ASSUME NEW x \in Int, NEW y \in Int, NEW z \in Nat \ {0}, x * z < y * z
  PROVE  x < y
OBVIOUS

(* What leaks in diff >= agetime seconds is at least the whole capacity.   *)
LEMMA LeakAtLeastCapacity ==
  ASSUME NEW c \in BucketConf, c.agetime > 0, NEW diff \in Int, diff >= c.agetime
  PROVE  Leak(c, diff, 1) \in Nat /\ Leak(c, diff, 1) >= c.capacity
<1> DEFINE k == c.capacity * 1
           a == c.agetime
           q == (diff * k) \div a
<1>1. k \in Nat /\ k = c.capacity /\ a \in Nat \ {0} /\ diff \in Nat
  OBVIOUS
<1>2. diff * k \in Nat
  BY <1>1
<1> HIDE DEF k
<1>3. q \in Nat
  BY <1>1, <1>2
<1>4. diff * k < (q + 1) * a
  BY <1>1, <1>2, <1>3
<1>5. k * a <= diff * k
  BY <1>1, MulMono
<1>6. k * a < (q + 1) * a
  BY <1>1, <1>2, <1>3, <1>4, <1>5
<1>7. k < q + 1
  BY <1>1, <1>3, <1>6, MulCancel
<1>8. Leak(c, diff, 1) = q
  BY DEF Leak, k
<1> HIDE DEF q
<1> QED
  BY <1>1, <1>3, <1>7, <1>8

(* bucket_age empties a bucket below its capacity, or leaves it alone.     *)
LEMMA AgeEmptiesOrKeeps ==
  ASSUME NEW c \in BucketConf, c.agetime > 0, NEW bk \in Bucket, bk.count < c.capacity,
         NEW t \in Int
  PROVE  bucket_age(c, bk, t, 1) =
           IF t - bk.tstamp >= c.agetime THEN [count |-> 0, excess |-> 0, tstamp |-> t] ELSE bk
<1>1. CASE t - bk.tstamp >= c.agetime
  <2>1. Leak(c, t - bk.tstamp, 1) \in Nat /\ Leak(c, t - bk.tstamp, 1) >= c.capacity
    BY <1>1, LeakAtLeastCapacity
  <2>2. Leak(c, t - bk.tstamp, 1) > bk.count
    BY <2>1
  <2> QED
    BY <1>1, <2>2 DEF bucket_age, Drain
<1>2. CASE ~ (t - bk.tstamp >= c.agetime)
  BY <1>2 DEF bucket_age
<1> QED
  BY <1>1, <1>2

(* __bucket_account with a threshold: what it leaves, and when it says so.  *)
LEMMA AccountBucket ==
  ASSUME NEW c \in BucketConf, c.capacity # 0, NEW bk \in Bucket, bk.count < c.capacity,
         NEW inc \in Nat \ {0}, NEW t \in Int,
         NEW total, total = IF t - bk.tstamp >= c.agetime THEN inc ELSE bk.count + inc
  PROVE  /\ bucket_account(c, bk, inc, t, 1) \in Bucket
         /\ bucket_account(c, bk, inc, t, 1).count < c.capacity
         /\ bucket_account(c, bk, inc, t, 1).count <= total
         /\ bucket_account(c, bk, inc, t, 1).tstamp =
              IF t - bk.tstamp >= c.agetime THEN t ELSE bk.tstamp
         /\ Overflows(c, bk, inc, t, 1) <=> total >= c.capacity
<1> DEFINE aged == IF t - bk.tstamp >= c.agetime
                     THEN [count |-> 0, excess |-> 0, tstamp |-> t] ELSE bk
<1>1. /\ aged \in Bucket /\ total \in Nat /\ total = aged.count + inc
      /\ c.agetime > 0 /\ c.capacity \in Nat \ {0}
      /\ aged.tstamp = IF t - bk.tstamp >= c.agetime THEN t ELSE bk.tstamp
  OBVIOUS
<1>2. bucket_age(c, bk, t, 1) = aged
  BY <1>1, AgeEmptiesOrKeeps
<1> HIDE DEF aged
<1>3. Filled(c, bk, inc, t, 1) = [count |-> total, excess |-> aged.excess, tstamp |-> aged.tstamp]
  BY <1>1, <1>2 DEF Filled
<1>4. Overflows(c, bk, inc, t, 1) <=> total >= c.capacity
  <2>1. Filled(c, bk, inc, t, 1).count = total /\ c.capacity * 1 = c.capacity
    BY <1>1, <1>3
  <2> QED
    BY <2>1 DEF Overflows
<1>5. bucket_account(c, bk, inc, t, 1) =
        IF total >= c.capacity
          THEN [count |-> 0, excess |-> aged.excess + total, tstamp |-> aged.tstamp]
          ELSE [count |-> total, excess |-> aged.excess, tstamp |-> aged.tstamp]
  BY <1>3, <1>4 DEF bucket_account
<1>6. aged.excess \in Nat /\ aged.tstamp \in Int
  BY <1>1
<1>7. CASE total >= c.capacity
  BY <1>1, <1>4, <1>5, <1>6, <1>7
<1>8. CASE ~ (total >= c.capacity)
  BY <1>1, <1>4, <1>5, <1>6, <1>8
<1> QED
  BY <1>7, <1>8

(* The dump never adds to a bucket, and leaves nothing of one that it ages
   with its own threshold.                                                 *)
LEMMA AgedBucket ==
  ASSUME NEW c \in BucketConf, NEW bk \in Bucket, now \in Nat, bk.tstamp <= now,
         NEW g \in Int, g >= 0
  PROVE  /\ Aged(c, bk, g) \in Bucket
         /\ Aged(c, bk, g).count <= bk.count
         /\ Aged(c, bk, g).tstamp <= now
         /\ c.capacity # 0 /\ bk.count < c.capacity =>
              Aged(c, bk, g) = bk \/ Aged(c, bk, g).count = 0
<1>1. ASSUME NEW age \in Nat
      PROVE  /\ Drain(bk, now, age) \in Bucket /\ Drain(bk, now, age).count <= bk.count
             /\ Drain(bk, now, age).tstamp = now
  BY DEF Drain
<1>2. g \in Nat
  OBVIOUS
<1>3. CASE c.agetime = 0
  <2>1. c.capacity = 0 /\ Aged(c, bk, g) = Drain(bk, now, g)
    BY <1>3 DEF Aged
  <2> QED
    BY <1>1, <1>2, <2>1
<1>4. CASE c.agetime # 0
  <2>1. c.agetime > 0 /\ Aged(c, bk, g) = bucket_age(c, bk, now, 1)
    BY <1>4 DEF Aged
  <2>2. CASE now - bk.tstamp >= c.agetime
    <3>1. Leak(c, now - bk.tstamp, 1) \in Nat
      BY <2>1, <2>2, LeakAtLeastCapacity
    <3>2. Aged(c, bk, g) = Drain(bk, now, Leak(c, now - bk.tstamp, 1))
      BY <2>1, <2>2 DEF bucket_age
    <3>3. bk.count < c.capacity => Aged(c, bk, g).count = 0
      <4> SUFFICES ASSUME bk.count < c.capacity PROVE Aged(c, bk, g).count = 0
        OBVIOUS
      <4>1. Aged(c, bk, g) = [count |-> 0, excess |-> 0, tstamp |-> now]
        BY <2>1, <2>2, AgeEmptiesOrKeeps
      <4> QED
        BY <4>1
    <3> QED
      BY <1>1, <3>1, <3>2, <3>3
  <2>3. CASE ~ (now - bk.tstamp >= c.agetime)
    BY <2>1, <2>3 DEF bucket_age
  <2> QED
    BY <2>2, <2>3
<1> QED
  BY <1>3, <1>4

-----------------------------------------------------------------------------
(* The history es2 is es and then k times the error e.                     *)
Grows(es, e, k, es2) == es2 = es \o [i \in 1 .. k |-> e]

LEMMA GrowsIs ==
  ASSUME NEW es \in Seq(Error), NEW e \in Error, NEW k \in Nat \ {0},
         NEW es2, Grows(es, e, k, es2)
  PROVE  /\ es2 \in Seq(Error) /\ Len(es) \in Nat /\ Len(es2) = Len(es) + k
         /\ \A i \in 1 .. Len(es2) : es2[i] = IF i <= Len(es) THEN es[i] ELSE e
<1> DEFINE u == [i \in 1 .. k |-> e]
           n == Len(es)
<1>1. u \in Seq(Error) /\ Len(u) = k /\ \A i \in 1 .. k : u[i] = e
  OBVIOUS
<1> HIDE DEF u
<1>2. es2 = es \o u
  BY DEF u, Grows
<1>3. /\ es2 \in Seq(Error) /\ n \in Nat /\ Len(es2) = n + k
      /\ \A i \in 1 .. Len(es2) : es2[i] = IF i <= n THEN es[i] ELSE u[i - n]
  <2>1. /\ es \o u \in Seq(Error) /\ Len(es \o u) = n + Len(u)
        /\ \A i \in 1 .. n + Len(u) : (es \o u)[i] = IF i <= n THEN es[i] ELSE u[i - n]
    BY <1>1, ConcatProperties, Zenon
  <2>2. n \in Nat
    BY LenProperties
  <2> QED
    BY <1>1, <1>2, <2>1, <2>2
<1>4. ASSUME NEW i \in 1 .. Len(es2), ~ (i <= n) PROVE es2[i] = e
  <2>1. i - n \in 1 .. k
    BY <1>3, <1>4
  <2> QED
    BY <1>1, <1>3, <1>4, <2>1
<1> QED
  BY <1>3, <1>4

(* Counting in a history that grows.                                       *)
LEMMA Appended ==
  ASSUME NEW es \in Seq(Error), NEW e \in Error, NEW k \in Nat \ {0}, NEW P,
         NEW es2, Grows(es, e, k, es2)
  PROVE  /\ Cardinality(In(es, P)) \in Nat
         /\ Cardinality(In(es2, P)) =
              IF e \in P THEN Cardinality(In(es, P)) + k ELSE Cardinality(In(es, P))
<1> DEFINE n == Len(es)
           new == (n + 1) .. (n + k)
<1>1. /\ n \in Nat /\ Len(es2) = n + k
      /\ \A i \in 1 .. Len(es2) : es2[i] = IF i <= n THEN es[i] ELSE e
  BY GrowsIs
<1> HIDE DEF n
<1>2. /\ IsFiniteSet(In(es, P)) /\ Cardinality(In(es, P)) \in Nat
      /\ IsFiniteSet(new) /\ Cardinality(new) = k /\ In(es, P) \cap new = {}
  <2>1. IsFiniteSet(1 .. n) /\ In(es, P) \in SUBSET (1 .. n)
    BY <1>1, FS_Interval DEF In, n
  <2>2. IsFiniteSet(new) /\ Cardinality(new) = k
    BY <1>1, FS_Interval
  <2>3. (1 .. n) \cap new = {}
    BY <1>1
  <2>4. IsFiniteSet(In(es, P))
    BY <2>1, FS_Subset
  <2> QED
    BY <2>1, <2>2, <2>3, <2>4, FS_CardinalityType
<1>3. 1 .. Len(es2) = (1 .. n) \cup new
  BY <1>1
<1>4. \A i \in 1 .. n : es2[i] = es[i]
  BY <1>1
<1>5. \A i \in new : es2[i] = e
  BY <1>1
<1> HIDE DEF new
<1>6. In(es2, P) = IF e \in P THEN In(es, P) \cup new ELSE In(es, P)
  <2>1. In(es, P) = {i \in 1 .. n : es[i] \in P}
    BY DEF In, n
  <2>2. In(es2, P) = {i \in (1 .. n) \cup new : es2[i] \in P}
    BY <1>3 DEF In
  <2> QED
    BY <1>4, <1>5, <2>1, <2>2
<1>7. CASE e \in P
  <2>1. Cardinality(In(es, P) \cup new) =
          Cardinality(In(es, P)) + Cardinality(new) - Cardinality(In(es, P) \cap new)
    BY <1>2, FS_Union
  <2>2. Cardinality(In(es, P) \cap new) = 0
    BY <1>2, FS_EmptySet
  <2>3. Cardinality(In(es, P) \cup new) = Cardinality(In(es, P)) + k
    BY <1>2, <2>1, <2>2
  <2>4. Cardinality(In(es2, P)) = Cardinality(In(es, P)) + k
    BY <1>6, <1>7, <2>3
  <2> QED
    BY <1>2, <1>7, <2>4
<1>8. CASE e \notin P
  BY <1>2, <1>6, <1>8
<1> QED
  BY <1>7, <1>8

LEMMA ErrorTimes ==
  ASSUME NEW es \in Seq(Error)
  PROVE  \A i \in 1 .. Len(es) : es[i] \in Error /\ es[i].time \in Int
<1>1. \A e \in Error : e.time \in Int
  BY MemDBAssumption DEF Error
<1>2. \A i \in 1 .. Len(es) : es[i] \in Error
  BY ElementOfSeq
<1> QED
  BY <1>1, <1>2

(* Fewer errors are not more.                                              *)
LEMMA FewerErrors ==
  ASSUME NEW es \in Seq(Error), NEW P, NEW Q, P \subseteq Q
  PROVE  /\ Cardinality(In(es, P)) \in Nat /\ Cardinality(In(es, Q)) \in Nat
         /\ Cardinality(In(es, P)) <= Cardinality(In(es, Q))
<1>1. IsFiniteSet(1 .. Len(es)) /\ In(es, Q) \in SUBSET (1 .. Len(es))
  BY FS_Interval, LenProperties DEF In
<1>2. IsFiniteSet(In(es, Q))
  BY <1>1, FS_Subset
<1>3. In(es, P) \in SUBSET In(es, Q)
  BY DEF In
<1> QED
  BY <1>2, <1>3, FS_Subset, FS_CardinalityType

-----------------------------------------------------------------------------
(* An entry is accounted with a threshold the configuration can give.      *)
LEMMA ConfType == \A key, kind : kind \in Kinds => ConfOf(key, kind) \in BucketConf
<1>1. \A kind \in Kinds : dimms[kind] \in BucketConf /\ sockets[kind] \in BucketConf
  BY MemDBAssumption DEF Kinds
<1> QED
  BY <1>1 DEF ConfOf

LEMMA NewEntry ==
  ASSUME now \in Nat
  PROVE  /\ NewMemdimm \in [Kinds -> ErrType]
         /\ \A kind \in Kinds : /\ NewMemdimm[kind].count = 0
                                /\ NewMemdimm[kind].bucket.count = 0
                                /\ NewMemdimm[kind].bucket.tstamp = now
BY DEF NewMemdimm, ErrType, bucket_init

(* A bucket that counts nothing needs no errors.                           *)
LEMMA EmptyBucket ==
  ASSUME now \in Nat, NEW bk \in Bucket, bk.count = 0, bk.tstamp <= now,
         NEW es \in Seq(Error), NEW key \in Keys, NEW kind \in Kinds
  PROVE  BucketInv(bk, es, key, kind)
<1>1. ConfOf(key, kind) \in BucketConf
  BY ConfType
<1>2. Cardinality(In(es, Since(key, kind, bk.tstamp - MaxLag))) \in Nat
  BY FewerErrors
<1>3. bk.count <= Cardinality(In(es, Since(key, kind, bk.tstamp - MaxLag)))
  BY <1>2
<1>4. ConfOf(key, kind).capacity # 0 => bk.count < ConfOf(key, kind).capacity
  BY <1>1
<1> QED
  BY <1>3, <1>4 DEF BucketInv

(* get_memdimm may insert an entry, and changes no count.                  *)
LEMMA GetMemdimm ==
  ASSUME now \in Nat, NEW db, DbInv(db), NEW key \in Keys, NEW g, g = get_memdimm(db, key)
  PROVE  /\ DbInv(g)
         /\ DOMAIN g.md = DOMAIN db.md \cup {key}
         /\ g.errs = db.errs
         /\ \A k \in Keys, kd \in Kinds : CountIn(g.md, k, kd) = CountIn(db.md, k, kd)
<1>1. CASE key \in DOMAIN db.md
  <2>1. g = db
    BY <1>1 DEF get_memdimm
  <2> QED
    BY <1>1, <2>1
<1>2. CASE key \notin DOMAIN db.md
  <2> DEFINE D == DOMAIN db.md
             m == [k \in D \cup {key} |-> IF k = key THEN NewMemdimm ELSE db.md[k]]
  <2>1. g = [md |-> m, fired |-> db.fired, errs |-> db.errs]
    BY <1>2 DEF get_memdimm, DbInv
  <2>2. DOMAIN m = D \cup {key} /\ m[key] = NewMemdimm /\ \A k \in D : m[k] = db.md[k]
    BY <1>2
  <2>3. /\ db.md \in [D -> [Kinds -> ErrType]] /\ D \subseteq Keys /\ db.errs \in Seq(Error)
        /\ \A k \in D, kd \in Kinds : BucketInv(db.md[k][kd].bucket, db.errs, k, kd)
        /\ \A k \in Keys, kd \in Kinds :
             CountIn(db.md, k, kd) = Cardinality(In(db.errs, OfEntry(k, kd)))
    BY DEF DbInv, TableInv, ErrsInv
  <2>4. m \in [DOMAIN m -> [Kinds -> ErrType]] /\ DOMAIN m \subseteq Keys
    BY <2>2, <2>3, NewEntry
  <2> HIDE DEF m
  <2>5. \A k \in Keys, kd \in Kinds : CountIn(m, k, kd) = CountIn(db.md, k, kd)
    <3> SUFFICES ASSUME NEW k \in Keys, NEW kd \in Kinds
                 PROVE  CountIn(m, k, kd) = CountIn(db.md, k, kd)
      OBVIOUS
    <3>1. CASE k = key
      BY <1>2, <2>2, <3>1, NewEntry DEF CountIn
    <3>2. CASE k # key
      BY <2>2, <3>2 DEF CountIn
    <3> QED
      BY <3>1, <3>2
  <2>6. ASSUME NEW k \in DOMAIN m, NEW kd \in Kinds
        PROVE  BucketInv(m[k][kd].bucket, db.errs, k, kd)
    <3>1. CASE k = key
      <4>1. /\ m[k][kd].bucket \in Bucket /\ m[k][kd].bucket.count = 0
            /\ m[k][kd].bucket.tstamp = now
        BY <2>2, <3>1, NewEntry DEF ErrType
      <4> QED
        BY <2>3, <3>1, <4>1, EmptyBucket
    <3>2. CASE k # key
      BY <2>2, <2>3, <2>6, <3>2
    <3> QED
      BY <3>1, <3>2
  <2>7. TableInv(m, db.errs)
    BY <2>3, <2>4, <2>5, <2>6 DEF TableInv
  <2>8. g.md = m /\ g.fired = db.fired /\ g.errs = db.errs
        /\ g = [md |-> g.md, fired |-> g.fired, errs |-> g.errs]
    BY <2>1
  <2>9. DbInv(g)
    BY <2>7, <2>8 DEF DbInv
  <2> QED
    BY <2>2, <2>5, <2>8, <2>9
<1> QED
  BY <1>1, <1>2

(* A bucket keeps its invariant when other errors are appended.            *)
LEMMA OtherErrors ==
  ASSUME NEW es \in Seq(Error), NEW e \in Error, NEW inc \in Nat \ {0},
         NEW es2, Grows(es, e, inc, es2),
         NEW bk \in Bucket, NEW key \in Keys, NEW kind \in Kinds, BucketInv(bk, es, key, kind)
  PROVE  BucketInv(bk, es2, key, kind)
<1> DEFINE P == Since(key, kind, bk.tstamp - MaxLag)
           n == Cardinality(In(es, P))
           n2 == Cardinality(In(es2, P))
<1>1. n \in Nat /\ n2 = IF e \in P THEN n + inc ELSE n
  BY Appended
<1>2. n2 \in Nat /\ n2 >= n
  BY <1>1
<1>3. BucketInv(bk, es, key, kind) =
        (/\ bk.tstamp <= now
         /\ ConfOf(key, kind).capacity # 0 =>
              /\ bk.count < ConfOf(key, kind).capacity
              /\ Undisturbed(key) => bk.count <= n)
  BY Zenon DEF BucketInv
<1> HIDE DEF n, n2
<1>4. bk.count <= n => bk.count <= n2
  BY <1>1, <1>2
<1>5. BucketInv(bk, es2, key, kind) =
        (/\ bk.tstamp <= now
         /\ ConfOf(key, kind).capacity # 0 =>
              /\ bk.count < ConfOf(key, kind).capacity
              /\ Undisturbed(key) => bk.count <= n2)
  BY Zenon DEF BucketInv, n2
<1> QED
  BY <1>3, <1>4, <1>5, Zenon

(* The bucket of the entry the errors are accounted to.                    *)
LEMMA OwnErrors ==
  ASSUME now \in 0 .. MaxTime, NEW tm, RecordTime(tm),
         NEW es \in Seq(Error), NEW key \in Keys, NEW kind \in Kinds,
         NEW e, e = [key |-> key, kind |-> kind, time |-> tm], NEW inc \in Nat \ {0},
         NEW es2, Grows(es, e, inc, es2),
         NEW c, c = ConfOf(key, kind), NEW bk \in Bucket, BucketInv(bk, es, key, kind)
  PROVE  /\ bucket_account(c, bk, inc, tm, 1) \in Bucket
         /\ BucketInv(bucket_account(c, bk, inc, tm, 1), es2, key, kind)
         /\ Overflows(c, bk, inc, tm, 1) /\ Undisturbed(key) =>
              Cardinality(In(es2, Since(key, kind, First(c, tm)))) >= c.capacity
<1> DEFINE fresh == tm - bk.tstamp >= c.agetime
           total == IF fresh THEN inc ELSE bk.count + inc
           b2 == bucket_account(c, bk, inc, tm, 1)
           Seen(t) == Cardinality(In(es, Since(key, kind, t)))
           Seen2(t) == Cardinality(In(es2, Since(key, kind, t)))
<1>1. /\ c \in BucketConf /\ e \in Error /\ now \in Int /\ bk.tstamp <= now /\ bk.tstamp \in Int
      /\ tm \in Int /\ tm <= now /\ now - MaxLag <= tm /\ MaxLag \in Nat
  BY ConfType, MemDBAssumption DEF Error, BucketInv, RecordTime
<1>2. ASSUME NEW t \in Int, t <= tm
      PROVE  Seen(t) \in Nat /\ Seen2(t) = Seen(t) + inc
  <2>1. e \in Since(key, kind, t)
    BY <1>1, <1>2 DEF Since, Error
  <2> QED
    BY <1>1, <2>1, Appended
<1>3. CASE c.capacity = 0
  <2>1. b2 = bk /\ ~ Overflows(c, bk, inc, tm, 1)
    BY <1>3 DEF bucket_account, Overflows
  <2> QED
    BY <1>1, <2>1, OtherErrors
<1>4. CASE c.capacity # 0
  <2>21. total = IF tm - bk.tstamp >= c.agetime THEN inc ELSE bk.count + inc
    OBVIOUS
  <2>1. /\ bk.count < c.capacity
        /\ Undisturbed(key) => bk.count <= Seen(bk.tstamp - MaxLag)
    BY <1>4 DEF BucketInv
  <2> HIDE DEF total
  <2>2. /\ b2 \in Bucket /\ b2.count < c.capacity /\ b2.count <= total
        /\ b2.tstamp = IF fresh THEN tm ELSE bk.tstamp
        /\ Overflows(c, bk, inc, tm, 1) <=> total >= c.capacity
    <3>1. c \in BucketConf /\ c.capacity # 0 /\ bk \in Bucket /\ bk.count < c.capacity
          /\ inc \in Nat \ {0} /\ tm \in Int
      BY <1>1, <1>4, <2>1
    <3> HIDE DEF b2, fresh
    <3>2. /\ bucket_account(c, bk, inc, tm, 1) \in Bucket
          /\ bucket_account(c, bk, inc, tm, 1).count < c.capacity
          /\ bucket_account(c, bk, inc, tm, 1).count <= total
          /\ bucket_account(c, bk, inc, tm, 1).tstamp =
               IF tm - bk.tstamp >= c.agetime THEN tm ELSE bk.tstamp
          /\ Overflows(c, bk, inc, tm, 1) <=> total >= c.capacity
      BY ONLY <3>1, <2>21, AccountBucket
    <3> QED
      BY ONLY <3>2 DEF b2, fresh
  <2> DEFINE from == b2.tstamp - MaxLag
             first == First(c, tm)
  <2> HIDE DEF b2, Seen, Seen2
  <2>3. /\ total \in Nat /\ b2.tstamp \in Int /\ b2.tstamp <= now /\ c.agetime \in Nat \ {0}
        /\ from \in Int /\ from <= tm
    <3>1. total \in Nat /\ c.agetime \in Nat \ {0}
      BY <1>1, <1>4 DEF total
    <3>2. b2.tstamp \in Int /\ b2.tstamp <= now
      BY <1>1, <2>2
    <3> QED
      BY <1>1, <3>1, <3>2
  <2>4. Undisturbed(key) => total <= Seen2(from)
    <3>1. Seen(from) \in Nat /\ Seen2(from) = Seen(from) + inc
      BY <1>2, <2>3, SMTT(40)
    <3> HIDE DEF from
    <3>2. CASE fresh
      BY <3>1, <3>2 DEF total
    <3>3. CASE ~ fresh
      <4>1. from = bk.tstamp - MaxLag
        BY <2>2, <3>3 DEF from
      <4> QED
        BY <2>1, <3>1, <3>3, <4>1 DEF total
    <3> QED
      BY <3>2, <3>3
  <2>5. Seen2(from) \in Nat
    BY <1>2, <2>3, SMTT(40)
  <2>6. b2.count \in Nat
    BY <2>2
  <2>7. Undisturbed(key) => b2.count <= Seen2(from)
    BY <2>2, <2>3, <2>4, <2>5, <2>6
  <2>8. BucketInv(b2, es2, key, kind)
    BY <2>2, <2>3, <2>7 DEF BucketInv, Seen2
  <2>9. first <= from /\ first \in Int
    <3>1. tm - b2.tstamp < c.agetime
      <4>1. CASE fresh
        BY ONLY <1>1, <2>2, <2>3, <4>1
      <4>2. CASE ~ fresh
        BY ONLY <1>1, <2>2, <2>3, <4>2 DEF fresh
      <4> QED
        BY <4>1, <4>2
    <3>2. b2.tstamp \in Int /\ tm \in Int /\ c.agetime \in Int /\ MaxLag \in Int
      BY <1>1, <2>3
    <3>3. \A a, b, g, l \in Int : a - b < g => (a - (g + l)) + 1 <= b - l /\ (a - (g + l)) + 1 \in Int
      OBVIOUS
    <3>4. (tm - (c.agetime + MaxLag)) + 1 <= b2.tstamp - MaxLag
          /\ (tm - (c.agetime + MaxLag)) + 1 \in Int
      BY ONLY <3>1, <3>2, <3>3
    <3> QED
      BY <3>4 DEF First
  <2> HIDE DEF from, first
  <2>10. Seen2(first) \in Nat /\ Seen2(from) <= Seen2(first)
    <3>1. Since(key, kind, from) \subseteq Since(key, kind, first)
      BY <2>3, <2>9, SMTT(40) DEF Since, Error
    <3>2. es2 \in Seq(Error)
      BY <1>1, GrowsIs
    <3> QED
      BY <3>1, <3>2, FewerErrors DEF Seen2
  <2>11. total >= c.capacity /\ Undisturbed(key) => Seen2(first) >= c.capacity
    BY <1>1, <2>3, <2>4, <2>5, <2>10
  <2> QED
    BY <2>2, <2>8, <2>11 DEF Seen2, b2, first
<1> QED
  BY <1>3, <1>4

(* One trigger is backed by its errors.                                    *)
Backed(es, key, kind, tm) ==
  Undisturbed(key) =>
    Cardinality(In(es, Since(key, kind, First(ConfOf(key, kind), tm))))
      >= ConfOf(key, kind).capacity

LEMMA FiredIs ==
  ASSUME NEW f, NEW es
  PROVE  FiredInv(f, es) <=> /\ f \in Seq(Keys \X Kinds \X Int)
                             /\ \A i \in 1 .. Len(f) : Backed(es, f[i][1], f[i][2], f[i][3])
BY Zenon DEF FiredInv, Backed

(* More errors take nothing from a trigger.                                *)
LEMMA FiredGrows ==
  ASSUME NEW es \in Seq(Error), NEW e \in Error, NEW inc \in Nat \ {0},
         NEW es2, Grows(es, e, inc, es2), NEW f, FiredInv(f, es)
  PROVE  FiredInv(f, es2)
<1>1. ASSUME NEW i \in 1 .. Len(f) PROVE Backed(es2, f[i][1], f[i][2], f[i][3])
  <2> DEFINE key == f[i][1]
             kind == f[i][2]
             tm == f[i][3]
             P == Since(key, kind, First(ConfOf(key, kind), tm))
             n == Cardinality(In(es, P))
             n2 == Cardinality(In(es2, P))
             cap == ConfOf(key, kind).capacity
  <2>1. f[i] \in Keys \X Kinds \X Int /\ Backed(es, key, kind, tm)
    BY <1>1, FiredIs, ElementOfSeq, Zenon
  <2>2. kind \in Kinds
    BY <2>1
  <2>3. cap \in Nat
    <3>1. ConfOf(key, kind) \in BucketConf
      BY <2>2, ConfType, Zenon
    <3> QED
      BY <3>1
  <2>4. n \in Nat /\ n2 = IF e \in P THEN n + inc ELSE n
    BY Appended
  <2>5. Backed(es, key, kind, tm) <=> (Undisturbed(key) => n >= cap)
    BY Zenon DEF Backed
  <2>6. Backed(es2, key, kind, tm) <=> (Undisturbed(key) => n2 >= cap)
    BY Zenon DEF Backed
  <2> HIDE DEF n, n2, cap, key, kind, tm, P
  <2>7. n >= cap => n2 >= cap
    BY <2>3, <2>4
  <2>8. Backed(es2, key, kind, tm)
    BY <2>1, <2>5, <2>6, <2>7, Zenon
  <2> QED
    BY <2>8 DEF key, kind, tm
<1> QED
  BY <1>1, FiredIs

LEMMA FiredAppend ==
  ASSUME NEW es, NEW f, FiredInv(f, es), NEW key \in Keys, NEW kind \in Kinds,
         NEW tm \in Int, Backed(es, key, kind, tm)
  PROVE  FiredInv(Append(f, <<key, kind, tm>>), es)
<1> DEFINE x == <<key, kind, tm>>
           g == Append(f, x)
<1>1. f \in Seq(Keys \X Kinds \X Int) /\ \A i \in 1 .. Len(f) : Backed(es, f[i][1], f[i][2], f[i][3])
  BY FiredIs
<1>2. x \in Keys \X Kinds \X Int /\ x[1] = key /\ x[2] = kind /\ x[3] = tm
  OBVIOUS
<1> HIDE DEF x
<1>3. /\ g \in Seq(Keys \X Kinds \X Int) /\ Len(g) = Len(f) + 1 /\ Len(f) \in Nat
      /\ \A i \in 1 .. Len(f) : g[i] = f[i]
      /\ g[Len(f) + 1] = x
  BY <1>1, <1>2, AppendProperties, LenProperties
<1> HIDE DEF g
<1>4. ASSUME NEW i \in 1 .. Len(g) PROVE Backed(es, g[i][1], g[i][2], g[i][3])
  <2>1. CASE i \in 1 .. Len(f)
    BY <1>1, <1>3, <2>1
  <2>2. CASE i = Len(f) + 1
    BY <1>2, <1>3, <2>2
  <2> QED
    BY <1>3, <1>4, <2>1, <2>2
<1>5. FiredInv(g, es)
  BY <1>3, <1>4, FiredIs
<1> QED
  BY <1>5 DEF g, x

(* count += inc and __bucket_account of an entry with its own threshold.   *)
LEMMA AccountEntry ==
  ASSUME now \in 0 .. MaxTime, NEW tm, RecordTime(tm), NEW db, DbInv(db), NEW key \in DOMAIN db.md, NEW kind \in Kinds,
         NEW inc \in Nat \ {0}, NEW a, a = Account(db, key, kind, inc, ConfOf(key, kind), tm)
  PROVE  /\ DbInv(a)
         /\ DOMAIN a.md = DOMAIN db.md
         /\ Grows(db.errs, [key |-> key, kind |-> kind, time |-> tm], inc, a.errs)
         /\ \A k \in Keys, kd \in Kinds :
              CountIn(a.md, k, kd) = IF k = key /\ kd = kind THEN CountIn(db.md, k, kd) + inc
                                     ELSE CountIn(db.md, k, kd)
<1> DEFINE D == DOMAIN db.md
           c == ConfOf(key, kind)
           e == [key |-> key, kind |-> kind, time |-> tm]
           old == db.md[key][kind]
           b2 == bucket_account(c, old.bucket, inc, tm, 1)
           new == [count |-> old.count + inc, bucket |-> b2]
           over == Overflows(c, old.bucket, inc, tm, 1)
           m == [db.md EXCEPT ![key][kind] = new]
           es2 == db.errs \o [i \in 1 .. inc |-> e]
           f == IF over THEN Append(db.fired, <<key, kind, tm>>) ELSE db.fired
<1>1. /\ db.md \in [D -> [Kinds -> ErrType]] /\ D \subseteq Keys
      /\ \A k \in D, kd \in Kinds : BucketInv(db.md[k][kd].bucket, db.errs, k, kd)
      /\ \A k \in Keys, kd \in Kinds :
           CountIn(db.md, k, kd) = Cardinality(In(db.errs, OfEntry(k, kd)))
      /\ db.errs \in Seq(Error) /\ \A i \in 1 .. Len(db.errs) : db.errs[i].time <= now
      /\ FiredInv(db.fired, db.errs)
  BY DEF DbInv, TableInv, ErrsInv
<1>2. a = [md |-> m, fired |-> f, errs |-> es2]
  BY Zenon DEF Account
<1>3. key \in Keys /\ e \in Error /\ now \in Nat /\ tm \in Int /\ tm <= now
  BY <1>1, MemDBAssumption DEF Error, RecordTime
<1>4. Grows(db.errs, e, inc, es2)
  BY DEF Grows
<1>5. old \in ErrType /\ old.count \in Nat /\ old.bucket \in Bucket
  BY <1>1 DEF ErrType
<1> HIDE DEF f, es2, b2, over, c, e
<1>6. /\ b2 \in Bucket /\ BucketInv(b2, es2, key, kind)
      /\ over => Backed(es2, key, kind, tm)
  <2>1. BucketInv(old.bucket, db.errs, key, kind)
    BY <1>1
  <2> HIDE DEF old
  <2>2. /\ b2 \in Bucket /\ BucketInv(b2, es2, key, kind)
        /\ over /\ Undisturbed(key) =>
              Cardinality(In(es2, Since(key, kind, First(c, tm)))) >= c.capacity
    BY <1>1, <1>3, <1>4, <1>5, <2>1, OwnErrors DEF b2, over, c, e
  <2> QED
    BY <2>2, Zenon DEF Backed, c
<1>7. new \in ErrType
  BY <1>5, <1>6 DEF ErrType
<1>8. new.count = old.count + inc /\ new.bucket = b2
  OBVIOUS
<1> HIDE DEF new
<1>9. /\ m \in [D -> [Kinds -> ErrType]] /\ DOMAIN m = D
      /\ m[key][kind] = new
      /\ \A k \in D, kd \in Kinds : ~ (k = key /\ kd = kind) => m[k][kd] = db.md[k][kd]
  BY <1>1, <1>7
<1> HIDE DEF m
<1>10. ASSUME NEW k \in D, NEW kd \in Kinds PROVE BucketInv(m[k][kd].bucket, es2, k, kd)
  <2>1. CASE k = key /\ kd = kind
    BY <1>6, <1>8, <1>9, <2>1
  <2>2. CASE ~ (k = key /\ kd = kind)
    <3>1. /\ m[k][kd] = db.md[k][kd] /\ k \in Keys
          /\ BucketInv(db.md[k][kd].bucket, db.errs, k, kd)
      BY <1>1, <1>9, <1>10, <2>2
    <3>2. db.md[k][kd].bucket \in Bucket
      BY <1>1, <1>10 DEF ErrType
    <3> QED
      BY <1>1, <1>3, <1>4, <1>10, <3>1, <3>2, OtherErrors
  <2> QED
    BY <2>1, <2>2
<1>11. \A k \in Keys, kd \in Kinds :
         CountIn(m, k, kd) = IF k = key /\ kd = kind THEN CountIn(db.md, k, kd) + inc
                             ELSE CountIn(db.md, k, kd)
  <2> SUFFICES ASSUME NEW k \in Keys, NEW kd \in Kinds
               PROVE  CountIn(m, k, kd) = IF k = key /\ kd = kind THEN CountIn(db.md, k, kd) + inc
                                          ELSE CountIn(db.md, k, kd)
    OBVIOUS
  <2>1. CASE k = key /\ kd = kind
    BY <1>8, <1>9, <2>1 DEF CountIn
  <2>2. CASE ~ (k = key /\ kd = kind)
    BY <1>9, <2>2 DEF CountIn
  <2> QED
    BY <2>1, <2>2
<1>12. \A k \in Keys, kd \in Kinds : CountIn(m, k, kd) = Cardinality(In(es2, OfEntry(k, kd)))
  <2> SUFFICES ASSUME NEW k \in Keys, NEW kd \in Kinds
               PROVE  CountIn(m, k, kd) = Cardinality(In(es2, OfEntry(k, kd)))
    OBVIOUS
  <2>1. Cardinality(In(es2, OfEntry(k, kd))) =
          IF e \in OfEntry(k, kd) THEN Cardinality(In(db.errs, OfEntry(k, kd))) + inc
          ELSE Cardinality(In(db.errs, OfEntry(k, kd)))
    BY <1>1, <1>3, <1>4, Appended
  <2>2. e \in OfEntry(k, kd) <=> (k = key /\ kd = kind)
    BY <1>3 DEF OfEntry, e
  <2>3. CountIn(db.md, k, kd) = Cardinality(In(db.errs, OfEntry(k, kd)))
    BY <1>1
  <2> QED
    BY <1>11, <2>1, <2>2, <2>3
<1>13. TableInv(m, es2)
  BY <1>1, <1>9, <1>10, <1>12 DEF TableInv
<1>14. ErrsInv(es2)
  <2>1. /\ es2 \in Seq(Error) /\ Len(db.errs) \in Nat /\ Len(es2) = Len(db.errs) + inc
        /\ \A i \in 1 .. Len(es2) : es2[i] = IF i <= Len(db.errs) THEN db.errs[i] ELSE e
    BY <1>1, <1>3, <1>4, GrowsIs
  <2>2. e.time <= now
    BY <1>3 DEF e
  <2> QED
    BY <1>1, <2>1, <2>2 DEF ErrsInv
<1>15. FiredInv(f, es2)
  <2>1. FiredInv(db.fired, es2)
    BY <1>1, <1>3, <1>4, FiredGrows
  <2>2. over => FiredInv(Append(db.fired, <<key, kind, tm>>), es2)
    BY <1>3, <1>6, <2>1, FiredAppend
  <2> QED
    BY <2>1, <2>2 DEF f
<1>16. /\ a.md = m /\ a.fired = f /\ a.errs = es2
       /\ a = [md |-> a.md, fired |-> a.fired, errs |-> a.errs]
  BY <1>2
<1>17. DbInv(a)
  BY <1>13, <1>14, <1>15, <1>16 DEF DbInv
<1> QED
  BY <1>4, <1>9, <1>11, <1>16, <1>17 DEF e

-----------------------------------------------------------------------------
(* memory_error, and the lookup for the page *)

TotalIn(m, key) == CountIn(m, key, "ce") + CountIn(m, key, "uc")

LEMMA CountTypes ==
  ASSUME NEW m, NEW es, TableInv(m, es), NEW k \in Keys
  PROVE  /\ CountIn(m, k, "ce") \in Nat /\ CountIn(m, k, "uc") \in Nat
         /\ TotalIn(m, k) \in Nat
<1>1. \A kd \in Kinds : CountIn(m, k, kd) \in Nat
  BY DEF TableInv, CountIn, ErrType
<1> QED
  BY <1>1 DEF TotalIn, Kinds

(* One error of a DIMM or channel.                                         *)
LEMMA DimmStep ==
  ASSUME now \in 0 .. MaxTime, NEW tm, RecordTime(tm), NEW db, DbInv(db), NEW socket \in Sockets, NEW place \in Places,
         NEW uc \in BOOLEAN, NEW g, g = AccountDimm(db, socket, place, uc, tm)
  PROVE  /\ DbInv(g)
         /\ DOMAIN db.md \subseteq DOMAIN g.md
         /\ DOMAIN g.md \subseteq DOMAIN db.md \cup {<<socket, place>>}
         /\ \A s \in Sockets : TotalIn(g.md, <<s, AnyDimm>>) = TotalIn(db.md, <<s, AnyDimm>>)
         /\ \A s \in Sockets :
              Cardinality(In(g.errs, DimmErrors(s))) <=
                Cardinality(In(db.errs, DimmErrors(s))) + (IF s = socket THEN 1 ELSE 0)
<1>1. ASSUME NEW s \in Sockets PROVE Cardinality(In(db.errs, DimmErrors(s))) \in Nat
  BY FewerErrors DEF DbInv, ErrsInv
<1>2. CASE ~ (memdb_enabled /\ place # AnyDimm)
  <2>1. g = db
    BY <1>2 DEF AccountDimm
  <2> QED
    BY <1>1, <2>1
<1>3. CASE memdb_enabled /\ place # AnyDimm
  <2> DEFINE key == <<socket, place>>
             kind == IF uc THEN "uc" ELSE "ce"
             h == get_memdimm(db, key)
             e == [key |-> key, kind |-> kind, time |-> tm]
  <2>1. key \in Keys /\ kind \in Kinds /\ now \in Nat /\ key[1] = socket /\ key[2] = place
    BY MemDBAssumption DEF Keys, Kinds
  <2>2. g = Account(h, key, kind, 1, dimms[kind], tm)
    BY <1>3, Zenon DEF AccountDimm, account_memdb
  <2>3. dimms[kind] = ConfOf(key, kind)
    BY <1>3, <2>1 DEF ConfOf
  <2> HIDE DEF key, kind, h
  <2>4. /\ DbInv(h) /\ DOMAIN h.md = DOMAIN db.md \cup {key} /\ h.errs = db.errs
        /\ \A k \in Keys, kd \in Kinds : CountIn(h.md, k, kd) = CountIn(db.md, k, kd)
    BY <2>1, GetMemdimm DEF h
  <2>5. g = Account(h, key, kind, 1, ConfOf(key, kind), tm) /\ key \in DOMAIN h.md /\ 1 \in Nat \ {0}
    BY <2>2, <2>3, <2>4
  <2>6. /\ DbInv(g) /\ DOMAIN g.md = DOMAIN h.md
        /\ Grows(h.errs, e, 1, g.errs)
        /\ \A k \in Keys, kd \in Kinds :
             CountIn(g.md, k, kd) = IF k = key /\ kd = kind THEN CountIn(h.md, k, kd) + 1
                                    ELSE CountIn(h.md, k, kd)
    BY <2>1, <2>4, <2>5, AccountEntry
  <2>7. ASSUME NEW s \in Sockets
        PROVE  TotalIn(g.md, <<s, AnyDimm>>) = TotalIn(db.md, <<s, AnyDimm>>)
    <3>1. <<s, AnyDimm>> \in Keys /\ <<s, AnyDimm>> # key
      BY <1>3, <2>1 DEF Keys, Places
    <3> QED
      BY <2>4, <2>6, <3>1 DEF TotalIn, Kinds
  <2>8. ASSUME NEW s \in Sockets
        PROVE  Cardinality(In(g.errs, DimmErrors(s))) <=
                 Cardinality(In(db.errs, DimmErrors(s))) + (IF s = socket THEN 1 ELSE 0)
    <3>1. e \in Error /\ h.errs \in Seq(Error)
      BY <2>1, <2>4, MemDBAssumption DEF Error, DbInv, ErrsInv, RecordTime
    <3>2. e \in DimmErrors(s) => s = socket
      BY <2>1 DEF DimmErrors
    <3>3. Grows(h.errs, e, 1, g.errs) /\ 1 \in Nat \ {0}
      BY <2>5, <2>6, Zenon
    <3> DEFINE P == DimmErrors(s)
               es == h.errs
               es2 == g.errs
    <3>4. es \in Seq(Error) /\ e \in Error /\ Grows(es, e, 1, es2) /\ 1 \in Nat \ {0}
      BY <3>1, <3>3
    <3> HIDE DEF e, P, es, es2
    <3>5. Cardinality(In(es2, P)) =
            IF e \in P THEN Cardinality(In(es, P)) + 1 ELSE Cardinality(In(es, P))
      BY <3>4, Appended
    <3>6. Cardinality(In(g.errs, DimmErrors(s))) =
            IF e \in DimmErrors(s) THEN Cardinality(In(h.errs, DimmErrors(s))) + 1
            ELSE Cardinality(In(h.errs, DimmErrors(s)))
      BY <3>5 DEF P, es, es2
    <3> QED
      BY <1>1, <2>4, <2>8, <3>2, <3>6
  <2> QED
    BY <2>4, <2>6, <2>7, <2>8 DEF key
<1> QED
  BY <1>2, <1>3

(* What the socket counts of a record is what the hardware reported.       *)
LEMMA MaxIs ==
  ASSUME NEW cnt \in Nat
  PROVE  Max({1, cnt}) = IF cnt > 1 THEN cnt ELSE 1
<1> DEFINE x == IF cnt > 1 THEN cnt ELSE 1
<1>1. x \in {1, cnt} /\ \A y \in {1, cnt} : x >= y
  OBVIOUS
<1>2. \A z \in {1, cnt} : (\A y \in {1, cnt} : z >= y) => z = x
  OBVIOUS
<1> QED
  BY <1>1, <1>2 DEF Max

(* The errors of a record accounted to its socket.                         *)
LEMMA SocketStep ==
  ASSUME now \in 0 .. MaxTime, NEW tm, RecordTime(tm), NEW db, DbInv(db), NEW socket \in Sockets, NEW place \in Places,
         NEW uc \in BOOLEAN, NEW cnt \in Nat, NEW M, M = Max({1, cnt}),
         NEW g, g = AccountSocket(db, socket, place, uc, cnt, tm)
  PROVE  /\ DbInv(g)
         /\ DOMAIN db.md \subseteq DOMAIN g.md
         /\ DOMAIN g.md \subseteq DOMAIN db.md \cup {<<socket, AnyDimm>>}
         /\ sockdb_enabled =>
              \A s \in Sockets :
                TotalIn(g.md, <<s, AnyDimm>>) =
                  TotalIn(db.md, <<s, AnyDimm>>) + (IF s = socket THEN M ELSE 0)
         /\ \A s \in Sockets :
              Cardinality(In(g.errs, DimmErrors(s))) = Cardinality(In(db.errs, DimmErrors(s)))
<1>1. CASE ~ sockdb_enabled
  <2>1. g = db
    BY <1>1 DEF AccountSocket
  <2> QED
    BY <1>1, <2>1
<1>2. CASE sockdb_enabled
  <2> DEFINE key == <<socket, AnyDimm>>
             kind == IF uc THEN "uc" ELSE "ce"
             h == get_memdimm(db, key)
             o == account_over(h, sockets, key, cnt, tm)
             Of(d, s) == Cardinality(In(d.errs, DimmErrors(s)))
  <2>1. /\ key \in Keys /\ kind \in Kinds /\ "ce" \in Kinds /\ now \in Nat
        /\ key[1] = socket /\ key[2] = AnyDimm
    BY MemDBAssumption DEF Keys, Kinds, Places
  <2>2. g = Account(o, key, kind, 1, sockets[kind], tm)
    BY <1>2, Zenon DEF AccountSocket, account_memdb
  <2>3. sockets[kind] = ConfOf(key, kind) /\ sockets["ce"] = ConfOf(key, "ce")
    BY <2>1 DEF ConfOf
  <2> HIDE DEF key, kind, h
  <2>4. /\ DbInv(h) /\ DOMAIN h.md = DOMAIN db.md \cup {key} /\ h.errs = db.errs
        /\ \A k \in Keys, kd \in Kinds : CountIn(h.md, k, kd) = CountIn(db.md, k, kd)
    BY <2>1, GetMemdimm DEF h
  <2>5. ASSUME NEW d, DbInv(d), key \in DOMAIN d.md, NEW kd \in Kinds, NEW inc \in Nat \ {0},
               NEW a, a = Account(d, key, kd, inc, ConfOf(key, kd), tm)
        PROVE  /\ DbInv(a) /\ DOMAIN a.md = DOMAIN d.md
               /\ \A s \in Sockets :
                    TotalIn(a.md, <<s, AnyDimm>>) =
                      TotalIn(d.md, <<s, AnyDimm>>) + (IF s = socket THEN inc ELSE 0)
               /\ \A s \in Sockets : Of(a, s) = Of(d, s)
    <3> DEFINE e == [key |-> key, kind |-> kd, time |-> tm]
    <3>1. /\ DbInv(a) /\ DOMAIN a.md = DOMAIN d.md
          /\ Grows(d.errs, e, inc, a.errs)
          /\ \A k \in Keys, q \in Kinds :
               CountIn(a.md, k, q) = IF k = key /\ q = kd THEN CountIn(d.md, k, q) + inc
                                     ELSE CountIn(d.md, k, q)
      BY <2>5, AccountEntry
    <3>2. ASSUME NEW s \in Sockets
          PROVE  TotalIn(a.md, <<s, AnyDimm>>) =
                   TotalIn(d.md, <<s, AnyDimm>>) + (IF s = socket THEN inc ELSE 0)
      <4>1. <<s, AnyDimm>> \in Keys /\ (<<s, AnyDimm>> = key <=> s = socket)
        BY <2>1 DEF Keys, Places, key
      <4>2. CountIn(d.md, <<s, AnyDimm>>, "ce") \in Nat /\ CountIn(d.md, <<s, AnyDimm>>, "uc") \in Nat
        BY <2>5, <4>1, CountTypes DEF DbInv
      <4>3. kd = "ce" \/ kd = "uc"
        BY DEF Kinds
      <4> DEFINE x == <<s, AnyDimm>>
      <4> HIDE DEF x
      <4>4. x \in Keys /\ (x = key <=> s = socket)
            /\ CountIn(d.md, x, "ce") \in Nat /\ CountIn(d.md, x, "uc") \in Nat
        BY <4>1, <4>2 DEF x
      <4>5. /\ CountIn(a.md, x, "ce") = IF s = socket /\ kd = "ce" THEN CountIn(d.md, x, "ce") + inc
                                        ELSE CountIn(d.md, x, "ce")
            /\ CountIn(a.md, x, "uc") = IF s = socket /\ kd = "uc" THEN CountIn(d.md, x, "uc") + inc
                                        ELSE CountIn(d.md, x, "uc")
        BY <3>1, <4>4 DEF Kinds
      <4>6. TotalIn(a.md, x) = TotalIn(d.md, x) + (IF s = socket THEN inc ELSE 0)
        BY <4>3, <4>4, <4>5 DEF TotalIn
      <4> QED
        BY <4>6 DEF x
    <3>3. ASSUME NEW s \in Sockets PROVE Of(a, s) = Of(d, s)
      <4>1. e \in Error /\ d.errs \in Seq(Error)
        BY <2>1, <2>5, MemDBAssumption DEF Error, DbInv, ErrsInv, RecordTime
      <4>2. e \notin DimmErrors(s)
        BY <2>1 DEF DimmErrors
      <4> QED
        BY <3>1, <4>1, <4>2, Appended
    <3> QED
      BY <3>1, <3>2, <3>3
  <2>6. /\ DbInv(o) /\ DOMAIN o.md = DOMAIN h.md
        /\ \A s \in Sockets :
             TotalIn(o.md, <<s, AnyDimm>>) =
               TotalIn(h.md, <<s, AnyDimm>>) + (IF s = socket /\ cnt > 1 THEN cnt - 1 ELSE 0)
        /\ \A s \in Sockets : Of(o, s) = Of(h, s)
    <3> HIDE DEF Of
    <3>1. CASE cnt > 1
      <4>1. o = Account(h, key, "ce", cnt - 1, ConfOf(key, "ce"), tm) /\ cnt - 1 \in Nat \ {0}
        BY <2>3, <3>1 DEF account_over
      <4>2. key \in DOMAIN h.md
        BY <2>4
      <4> HIDE DEF o
      <4> QED
        BY <2>1, <2>4, <2>5, <3>1, <4>1, <4>2
    <3>2. CASE ~ (cnt > 1)
      <4>1. o = h
        BY <3>2 DEF account_over
      <4>2. ASSUME NEW s \in Sockets PROVE TotalIn(h.md, <<s, AnyDimm>>) \in Nat
        <5>1. <<s, AnyDimm>> \in Keys
          BY DEF Keys, Places
        <5> QED
          BY <2>4, <5>1, CountTypes DEF DbInv
      <4> QED
        BY <2>4, <3>2, <4>1, <4>2
    <3> QED
      BY <3>1, <3>2
  <2> HIDE DEF o
  <2>7. g = Account(o, key, kind, 1, ConfOf(key, kind), tm) /\ key \in DOMAIN o.md /\ 1 \in Nat \ {0}
    BY <2>2, <2>3, <2>4, <2>6
  <2>8. /\ DbInv(g) /\ DOMAIN g.md = DOMAIN o.md
        /\ \A s \in Sockets :
             TotalIn(g.md, <<s, AnyDimm>>) =
               TotalIn(o.md, <<s, AnyDimm>>) + (IF s = socket THEN 1 ELSE 0)
        /\ \A s \in Sockets : Of(g, s) = Of(o, s)
    <3> HIDE DEF Of
    <3> QED
      BY <2>1, <2>5, <2>6, <2>7
  <2>9. ASSUME NEW s \in Sockets
        PROVE  TotalIn(g.md, <<s, AnyDimm>>) =
                 TotalIn(db.md, <<s, AnyDimm>>) + (IF s = socket THEN M ELSE 0)
    <3>1. <<s, AnyDimm>> \in Keys
      BY DEF Keys, Places
    <3>2. TotalIn(h.md, <<s, AnyDimm>>) = TotalIn(db.md, <<s, AnyDimm>>)
      BY <2>4, <3>1 DEF TotalIn, Kinds
    <3>3. TotalIn(db.md, <<s, AnyDimm>>) \in Nat
      BY <3>1, CountTypes DEF DbInv
    <3> DEFINE T == TotalIn(db.md, <<s, AnyDimm>>)
    <3>4. TotalIn(g.md, <<s, AnyDimm>>) =
            (T + (IF s = socket /\ cnt > 1 THEN cnt - 1 ELSE 0)) + (IF s = socket THEN 1 ELSE 0)
      BY <2>6, <2>8, <2>9, <3>2
    <3>5. T \in Nat /\ M = IF cnt > 1 THEN cnt ELSE 1
      BY <3>3, MaxIs
    <3> HIDE DEF T
    <3>6. CASE s = socket
      BY <3>4, <3>5, <3>6 DEF T
    <3>7. CASE s # socket
      BY <3>4, <3>5, <3>7 DEF T
    <3> QED
      BY <3>6, <3>7
  <2>10. \A s \in Sockets : Of(g, s) = Of(db, s)
    BY <2>4, <2>6, <2>8
  <2> QED
    BY <2>4, <2>6, <2>8, <2>9, <2>10 DEF key
<1> QED
  BY <1>1, <1>2

(* What a record may do to the table: entries are only added, DIMM 2 never is,
   the socket gets n errors and its DIMMs at most d of them.               *)
Advance(db, g, socket, n, d) ==
  /\ DOMAIN db.md \subseteq DOMAIN g.md
  /\ \A s \in Sockets : <<s, 2>> \in DOMAIN g.md => <<s, 2>> \in DOMAIN db.md
  /\ sockdb_enabled =>
       \A s \in Sockets :
         TotalIn(g.md, <<s, AnyDimm>>) =
           TotalIn(db.md, <<s, AnyDimm>>) + (IF s = socket THEN n ELSE 0)
  /\ \A s \in Sockets :
       Cardinality(In(g.errs, DimmErrors(s))) <=
         Cardinality(In(db.errs, DimmErrors(s))) + (IF s = socket THEN d ELSE 0)

(* One device of a record.                                                 *)
DeviceStep(db, socket, place, uc, cnt, crosses, tm) ==
  PageThreshold(memory_error(db, socket, place, uc, cnt, tm), socket, place, crosses)

LEMMA DeviceAdvances ==
  ASSUME now \in 0 .. MaxTime, NEW tm, RecordTime(tm), NEW db, DbInv(db), NEW socket \in Sockets, NEW place \in Places,
         NEW uc \in BOOLEAN, NEW cnt \in Nat, NEW crosses \in BOOLEAN, NEW M, M = Max({1, cnt}),
         place = 2 => <<socket, 2>> \in DOMAIN db.md,
         NEW g, g = DeviceStep(db, socket, place, uc, cnt, crosses, tm)
  PROVE  DbInv(g) /\ Advance(db, g, socket, M, 1)
<1> DEFINE a == AccountDimm(db, socket, place, uc, tm)
           b == AccountSocket(a, socket, place, uc, cnt, tm)
           Of(d, s) == Cardinality(In(d.errs, DimmErrors(s)))
           T(d, s) == TotalIn(d.md, <<s, AnyDimm>>)
<1>1. /\ DbInv(a) /\ DOMAIN db.md \subseteq DOMAIN a.md
      /\ DOMAIN a.md \subseteq DOMAIN db.md \cup {<<socket, place>>}
      /\ \A s \in Sockets : T(a, s) = T(db, s)
      /\ \A s \in Sockets : Of(a, s) <= Of(db, s) + (IF s = socket THEN 1 ELSE 0)
  BY DimmStep
<1> HIDE DEF a
<1>2. /\ DbInv(b) /\ DOMAIN a.md \subseteq DOMAIN b.md
      /\ DOMAIN b.md \subseteq DOMAIN a.md \cup {<<socket, AnyDimm>>}
      /\ sockdb_enabled =>
           \A s \in Sockets : T(b, s) = T(a, s) + (IF s = socket THEN M ELSE 0)
      /\ \A s \in Sockets : Of(b, s) = Of(a, s)
  <2>1. b = AccountSocket(a, socket, place, uc, cnt, tm)
    OBVIOUS
  <2> HIDE DEF b
  <2> QED
    BY <1>1, <2>1, SocketStep
<1> HIDE DEF b
<1>3. /\ DbInv(g) /\ DOMAIN b.md \subseteq DOMAIN g.md
      /\ DOMAIN g.md \subseteq DOMAIN b.md \cup {<<socket, place>>}
      /\ \A s \in Sockets : T(g, s) = T(b, s)
      /\ g.errs = b.errs
  <2>1. g = IF crosses THEN get_memdimm(b, <<socket, place>>) ELSE b
    BY Zenon DEF DeviceStep, PageThreshold, memory_error, a, b
  <2>2. CASE ~ crosses
    BY <1>2, <2>1, <2>2
  <2>3. CASE crosses
    <3>1. <<socket, place>> \in Keys /\ now \in Nat
      BY MemDBAssumption DEF Keys
    <3>2. g = get_memdimm(b, <<socket, place>>)
      BY <2>1, <2>3
    <3>3. /\ DbInv(g) /\ DOMAIN g.md = DOMAIN b.md \cup {<<socket, place>>} /\ g.errs = b.errs
          /\ \A k \in Keys, kd \in Kinds : CountIn(g.md, k, kd) = CountIn(b.md, k, kd)
      BY <1>2, <3>1, <3>2, GetMemdimm
    <3>4. ASSUME NEW s \in Sockets PROVE T(g, s) = T(b, s)
      <4>1. <<s, AnyDimm>> \in Keys
        BY DEF Keys, Places
      <4> QED
        BY <3>3, <4>1 DEF TotalIn, Kinds
    <3> QED
      BY <3>3, <3>4
  <2> QED
    BY <2>2, <2>3
<1>4. ASSUME NEW s \in Sockets, <<s, 2>> \in DOMAIN g.md PROVE <<s, 2>> \in DOMAIN db.md
  <2>1. <<s, 2>> \in DOMAIN db.md \cup {<<socket, place>>, <<socket, AnyDimm>>}
    BY <1>1, <1>2, <1>3, <1>4
  <2>2. <<s, 2>> = <<socket, place>> => s = socket /\ place = 2
    OBVIOUS
  <2>3. <<s, 2>> # <<socket, AnyDimm>>
    BY MemDBAssumption
  <2> QED
    BY <2>1, <2>2, <2>3
<1>5. \A s \in Sockets : Of(g, s) = Of(b, s)
  BY <1>3
<1> HIDE DEF Of, T
<1>6. /\ sockdb_enabled =>
           \A s \in Sockets : T(g, s) = T(db, s) + (IF s = socket THEN M ELSE 0)
      /\ \A s \in Sockets : Of(g, s) <= Of(db, s) + (IF s = socket THEN 1 ELSE 0)
  BY <1>1, <1>2, <1>3, <1>5
<1> QED
  BY <1>1, <1>2, <1>3, <1>4, <1>6 DEF Advance, Of, T

(* The DIMM of a rank; DIMM 2 only if it is in the table.                  *)
LEMMA RankDimm ==
  ASSUME NEW socket \in Sockets, NEW r \in Ranks, DOMAIN md \subseteq Keys
  PROVE  /\ failrank2dimm(r, socket) \in Places \ {AnyDimm}
         /\ failrank2dimm(r, socket) = 2 => <<socket, 2>> \in DOMAIN md
         /\ Place(r, socket) = failrank2dimm(r, socket)
<1>1. r \in Nat /\ r # NoDimm /\ r # AnyDimm
  BY MemDBAssumption
<1>2. /\ 0 # AnyDimm /\ 1 # AnyDimm /\ 2 # AnyDimm /\ NoDimm # AnyDimm /\ NoDimm # 2
      /\ NoDimm \in Places /\ (r \in 0 .. 3 => 0 \in Places) /\ (r \in 4 .. 7 => 1 \in Places)
  BY MemDBAssumption DEF Places
<1>3. <<socket, 2>> \in DOMAIN md => 2 \in Places
  BY DEF Keys
<1>4. CASE r \in 0 .. 3
  BY <1>1, <1>2, <1>4 DEF failrank2dimm, Place
<1>5. CASE r \in 4 .. 5
  <2>1. failrank2dimm(r, socket) = 1 /\ r \in 4 .. 7
    BY <1>5 DEF failrank2dimm
  <2> QED
    BY <1>1, <1>2, <2>1 DEF Place
<1>6. CASE r \in 6 .. 7
  <2>1. /\ failrank2dimm(r, socket) = IF <<socket, 2>> \in DOMAIN md THEN 2 ELSE 1
        /\ r \in 4 .. 7
    BY <1>6 DEF failrank2dimm
  <2> QED
    BY <1>1, <1>2, <1>3, <2>1 DEF Place
<1>7. CASE r \notin 0 .. 7
  <2>1. failrank2dimm(r, socket) = NoDimm
    BY <1>1, <1>7 DEF failrank2dimm
  <2> QED
    BY <1>1, <1>2, <2>1 DEF Place
<1> QED
  BY <1>1, <1>4, <1>5, <1>6, <1>7

LEMMA DevicePlace ==
  ASSUME NEW socket \in Sockets, NEW d \in Ranks \cup {NoDimm, AnyDimm}, DOMAIN md \subseteq Keys
  PROVE  Place(d, socket) \in Places /\ (Place(d, socket) = 2 => <<socket, 2>> \in DOMAIN md)
<1>1. CASE d \in Ranks
  BY <1>1, RankDimm
<1>2. CASE d \in {NoDimm, AnyDimm}
  BY <1>2, MemDBAssumption DEF Place, Places
<1> QED
  BY <1>1, <1>2

-----------------------------------------------------------------------------
(* The inductive invariant *)

LEMMA NoTriggers ==
  ASSUME NEW es
  PROVE  FiredInv(<< >>, es)
<1>1. << >> \in Seq(Keys \X Kinds \X Int) /\ Len(<< >>) = 0
  OBVIOUS
<1>2. 1 .. 0 = {}
  OBVIOUS
<1> QED
  BY <1>1, <1>2, FiredIs

LEMMA InitIInv == ASSUME Init PROVE IInv
<1>1. /\ now = 0 /\ fired = << >> /\ errs = << >> /\ hardware = [s \in Sockets |-> 0]
      /\ dumped = FALSE /\ ranks = [x \in Sockets \X Ranks |-> {}] /\ records = 0
      /\ memdb_enabled \in BOOLEAN /\ sockdb_enabled \in BOOLEAN
  BY DEF Init
<1>2. PICK known : known \subseteq Sockets \X Dimms /\ md \in [known -> {NewMemdimm}]
  BY DEF Init, Prefilled
<1>3. DOMAIN md = known /\ known \subseteq Keys /\ \A key \in known : md[key] = NewMemdimm
  BY <1>2 DEF Keys, Places
<1>4. errs \in Seq(Error) /\ Len(errs) = 0
  BY <1>1
<1>5. \A P : Cardinality(In(errs, P)) = 0
  <2>1. \A P : In(errs, P) = {}
    BY <1>4 DEF In
  <2> QED
    BY <2>1, FS_EmptySet
<1>6. /\ NewMemdimm \in [Kinds -> ErrType]
      /\ \A kind \in Kinds : /\ NewMemdimm[kind].count = 0
                             /\ NewMemdimm[kind].bucket.count = 0
                             /\ NewMemdimm[kind].bucket.tstamp = now
  BY <1>1, NewEntry
<1>7. \A key, kind : kind \in Kinds => CountIn(md, key, kind) = 0
  BY <1>3, <1>6 DEF CountIn
<1>8. ASSUME NEW key \in DOMAIN md, NEW kind \in Kinds
      PROVE  BucketInv(md[key][kind].bucket, errs, key, kind)
  <2>1. /\ md[key][kind].bucket \in Bucket /\ md[key][kind].bucket.count = 0
        /\ md[key][kind].bucket.tstamp = now
    BY <1>3, <1>6, <1>8 DEF ErrType
  <2>2. key \in Keys /\ now \in Nat /\ md[key][kind].bucket.tstamp <= now
    BY <1>1, <1>3, <1>8, <2>1
  <2> QED
    BY <1>4, <2>1, <2>2, EmptyBucket
<1>9. TableInv(md, errs)
  <2>1. md \in [DOMAIN md -> [Kinds -> ErrType]]
    BY <1>2, <1>3, <1>6
  <2> QED
    BY <1>3, <1>5, <1>7, <1>8, <2>1 DEF TableInv
<1>10. DbInv([md |-> md, fired |-> fired, errs |-> errs])
  BY <1>1, <1>4, <1>9, NoTriggers DEF DbInv, ErrsInv
<1>11. \A s \in Sockets : Total(<<s, AnyDimm>>) = 0
  BY <1>7 DEF Total, Count, CountIn, Kinds
<1>12. SocketTotalExact /\ DimmsCovered
  BY <1>1, <1>5, <1>11 DEF SocketTotalExact, DimmsCovered
<1>13. RankInv
  BY <1>1 DEF RankInv
<1>14. now \in 0 .. MaxTime /\ records \in Nat /\ hardware \in [Sockets -> Nat]
  BY <1>1, MemDBAssumption
<1>15. dumped \in BOOLEAN
  BY <1>1
<1> QED
  BY <1>1, <1>10, <1>12, <1>13, <1>14, <1>15 DEF IInv

(* A state with the counts after the devices of a record.                  *)
LEMMA RecordKeeps ==
  ASSUME IInv, NEW socket \in Sockets, NEW devices \in Devices, NEW uc \in BOOLEAN,
         NEW cnt \in Counts, NEW crosses \in BOOLEAN, NEW tm, RecordTime(tm),
         intel_memory_error(socket, devices, uc, cnt, crosses, tm)
  PROVE  IInv'
<1> DEFINE db0 == [md |-> md, fired |-> << >>, errs |-> errs]
           Step(db, i) == DeviceStep(db, socket, Place(devices[i], socket), uc, cnt, crosses, tm)
           M == Max({1, cnt})
           db1 == Step(db0, 1)
           db2 == IF Len(devices) = 1 THEN db1 ELSE Step(db1, 2)
           k == Len(devices)
<1>1. /\ md' = db2.md /\ fired' = db2.fired /\ errs' = db2.errs
      /\ hardware' = [hardware EXCEPT ![socket] = @ + k * M]
      /\ ranks' = [x \in Sockets \X Ranks |->
                     IF x[1] = socket /\ \E i \in DOMAIN devices : devices[i] = x[2]
                       THEN ranks[x] \cup {Place(x[2], socket)} ELSE ranks[x]]
      /\ records' = records + 1
      /\ UNCHANGED <<switches, now, dumped>>
  BY DEF intel_memory_error, DeviceStep
<1>2. /\ now \in 0 .. MaxTime /\ cnt \in Nat /\ M \in Nat \ {0}
      /\ UNCHANGED <<memdb_enabled, sockdb_enabled>>
  <2>1. now \in 0 .. MaxTime
    BY DEF IInv
  <2>2. cnt \in Nat
    BY MemDBAssumption
  <2>3. M \in Nat \ {0}
    BY <2>2, MaxIs
  <2>4. UNCHANGED <<memdb_enabled, sockdb_enabled>>
    BY <1>1 DEF switches
  <2> QED
    BY <2>1, <2>2, <2>3, <2>4
<1>3. DbInv(db0) /\ DOMAIN md \subseteq Keys /\ md = db0.md /\ errs = db0.errs
  <2>1. TableInv(md, errs) /\ ErrsInv(errs)
    BY DEF IInv, DbInv
  <2> QED
    BY <2>1, NoTriggers DEF DbInv, TableInv
<1>4. /\ k = 1 \/ k = 2
      /\ \A i \in 1 .. k : devices[i] \in Ranks \cup {NoDimm, AnyDimm}
  BY DEF Devices
<1>5. \A i \in 1 .. k : /\ Place(devices[i], socket) \in Places
                        /\ Place(devices[i], socket) = 2 => <<socket, 2>> \in DOMAIN md
  BY <1>3, <1>4, DevicePlace
<1> HIDE DEF M, db0, k
<1>6. DbInv(db1) /\ Advance(db0, db1, socket, M, 1)
  <2> DEFINE p == Place(devices[1], socket)
  <2>1. p \in Places /\ (p = 2 => <<socket, 2>> \in DOMAIN db0.md)
    BY <1>3, <1>4, <1>5
  <2>2. db1 = DeviceStep(db0, socket, p, uc, cnt, crosses, tm)
    OBVIOUS
  <2> HIDE DEF db1, p
  <2> QED
    BY <1>2, <1>3, <2>1, <2>2, DeviceAdvances DEF M
<1>7. /\ DbInv(db2)
      /\ DOMAIN db0.md \subseteq DOMAIN db2.md
      /\ \A s \in Sockets : <<s, 2>> \in DOMAIN db2.md => <<s, 2>> \in DOMAIN db0.md
      /\ sockdb_enabled =>
           \A s \in Sockets :
             TotalIn(db2.md, <<s, AnyDimm>>) =
               TotalIn(db0.md, <<s, AnyDimm>>) + (IF s = socket THEN k * M ELSE 0)
      /\ \A s \in Sockets :
           Cardinality(In(db2.errs, DimmErrors(s))) <=
             Cardinality(In(db0.errs, DimmErrors(s))) + (IF s = socket THEN k ELSE 0)
  <2>1. CASE k = 1
    <3>1. db2 = db1 /\ k * M = M
      BY <1>2, <2>1 DEF k
    <3> HIDE DEF db1, db2
    <3> QED
      BY <1>6, <2>1, <3>1 DEF Advance
  <2>2. CASE k = 2
    <3> DEFINE p == Place(devices[2], socket)
               T(d, s) == TotalIn(d.md, <<s, AnyDimm>>)
               Of(d, s) == Cardinality(In(d.errs, DimmErrors(s)))
    <3>1. db2 = DeviceStep(db1, socket, p, uc, cnt, crosses, tm) /\ k * M = M + M
      BY <1>2, <2>2 DEF k
    <3> HIDE DEF db1, db2, p
    <3>2. /\ DOMAIN db0.md \subseteq DOMAIN db1.md
          /\ \A s \in Sockets : <<s, 2>> \in DOMAIN db1.md => <<s, 2>> \in DOMAIN db0.md
          /\ sockdb_enabled => \A s \in Sockets : T(db1, s) = T(db0, s) + (IF s = socket THEN M ELSE 0)
          /\ \A s \in Sockets : Of(db1, s) <= Of(db0, s) + (IF s = socket THEN 1 ELSE 0)
      BY <1>6 DEF Advance
    <3>3. p \in Places /\ (p = 2 => <<socket, 2>> \in DOMAIN db1.md)
      BY <1>3, <1>5, <2>2, <3>2 DEF p
    <3>4. DbInv(db2) /\ Advance(db1, db2, socket, M, 1)
      BY <1>2, <1>6, <3>1, <3>3, DeviceAdvances DEF M
    <3>5. /\ DOMAIN db1.md \subseteq DOMAIN db2.md
          /\ \A s \in Sockets : <<s, 2>> \in DOMAIN db2.md => <<s, 2>> \in DOMAIN db1.md
          /\ sockdb_enabled => \A s \in Sockets : T(db2, s) = T(db1, s) + (IF s = socket THEN M ELSE 0)
          /\ \A s \in Sockets : Of(db2, s) <= Of(db1, s) + (IF s = socket THEN 1 ELSE 0)
      BY <3>4 DEF Advance
    <3>6. \A s \in Sockets : T(db0, s) \in Nat /\ Of(db0, s) \in Nat /\ Of(db1, s) \in Nat
                             /\ Of(db2, s) \in Nat
      <4> SUFFICES ASSUME NEW s \in Sockets
                   PROVE  T(db0, s) \in Nat /\ Of(db0, s) \in Nat /\ Of(db1, s) \in Nat
                          /\ Of(db2, s) \in Nat
        OBVIOUS
      <4>1. <<s, AnyDimm>> \in Keys
        BY DEF Keys, Places
      <4>2. TableInv(db0.md, db0.errs)
        BY <1>3 DEF DbInv
      <4>3. T(db0, s) \in Nat
        BY <4>1, <4>2, CountTypes
      <4>4. db0.errs \in Seq(Error) /\ db1.errs \in Seq(Error) /\ db2.errs \in Seq(Error)
        BY <1>3, <1>6, <3>4 DEF DbInv, ErrsInv
      <4> QED
        BY <4>3, <4>4, FewerErrors
    <3> HIDE DEF T, Of
    <3>7. sockdb_enabled =>
            \A s \in Sockets : T(db2, s) = T(db0, s) + (IF s = socket THEN k * M ELSE 0)
      BY <1>2, <3>1, <3>2, <3>5, <3>6
    <3>8. \A s \in Sockets : Of(db2, s) <= Of(db0, s) + (IF s = socket THEN k ELSE 0)
      BY <2>2, <3>2, <3>5, <3>6
    <3> QED
      BY <3>2, <3>4, <3>5, <3>7, <3>8 DEF T, Of
  <2> QED
    BY <1>4, <2>1, <2>2
<1> HIDE DEF db1, db2
<1>8. DbInv([md |-> md, fired |-> fired, errs |-> errs])'
  <2>1. db2 = [md |-> md', fired |-> fired', errs |-> errs']
    BY <1>1, <1>7 DEF DbInv
  <2>2. TableInv(md', errs') /\ ErrsInv(errs') /\ FiredInv(fired', errs')
    BY <1>1, <1>7 DEF DbInv
  <2>3. TableInv(md, errs)' /\ ErrsInv(errs)' /\ FiredInv(fired, errs)'
    BY <1>1, <2>2 DEF TableInv, BucketInv, ErrsInv, FiredInv, Undisturbed
  <2> QED
    BY <2>3 DEF DbInv
<1>9. \A s \in Sockets :
        /\ Total(<<s, AnyDimm>>) = TotalIn(db0.md, <<s, AnyDimm>>)
        /\ Total(<<s, AnyDimm>>)' = TotalIn(db2.md, <<s, AnyDimm>>)
        /\ Total(<<s, AnyDimm>>) \in Nat
  <2> SUFFICES ASSUME NEW s \in Sockets
               PROVE  /\ Total(<<s, AnyDimm>>) = TotalIn(db0.md, <<s, AnyDimm>>)
                      /\ Total(<<s, AnyDimm>>)' = TotalIn(db2.md, <<s, AnyDimm>>)
                      /\ Total(<<s, AnyDimm>>) \in Nat
    OBVIOUS
  <2>1. <<s, AnyDimm>> \in Keys
    BY DEF Keys, Places
  <2>2. Total(<<s, AnyDimm>>) = TotalIn(db0.md, <<s, AnyDimm>>)
    BY <1>3 DEF Total, TotalIn, Count, CountIn
  <2>3. Total(<<s, AnyDimm>>)' = TotalIn(db2.md, <<s, AnyDimm>>)
    BY <1>1 DEF Total, TotalIn, Count, CountIn
  <2>4. TotalIn(db0.md, <<s, AnyDimm>>) \in Nat
    BY <1>3, <2>1, CountTypes DEF DbInv
  <2> QED
    BY <2>2, <2>3, <2>4
<1>10. hardware' \in [Sockets -> Nat] /\ SocketTotalExact'
  <2>1. k * M \in Nat /\ hardware \in [Sockets -> Nat]
    BY <1>2, <1>4 DEF IInv
  <2>2. \A s \in Sockets : hardware'[s] = hardware[s] + (IF s = socket THEN k * M ELSE 0)
    BY <1>1, <2>1
  <2>3. hardware' \in [Sockets -> Nat]
    BY <1>1, <2>1
  <2>4. SocketTotalExact'
    <3> SUFFICES ASSUME sockdb_enabled', NEW s \in Sockets
                 PROVE  Total(<<s, AnyDimm>>)' = hardware'[s]
      BY DEF SocketTotalExact
    <3>1. Total(<<s, AnyDimm>>) = hardware[s]
      BY <1>2 DEF IInv, SocketTotalExact
    <3>2. Total(<<s, AnyDimm>>)' = Total(<<s, AnyDimm>>) + (IF s = socket THEN k * M ELSE 0)
      BY <1>2, <1>7, <1>9
    <3> QED
      BY <2>2, <3>1, <3>2
  <2> QED
    BY <2>3, <2>4
<1>11. DimmsCovered'
  <2> SUFFICES ASSUME memdb_enabled', sockdb_enabled', NEW s \in Sockets
               PROVE  Cardinality(In(errs', DimmErrors(s))) <= Total(<<s, AnyDimm>>)'
    BY DEF DimmsCovered, In, DimmErrors
  <2> DEFINE n == Cardinality(In(errs, DimmErrors(s)))
             n2 == Cardinality(In(errs', DimmErrors(s)))
             t == Total(<<s, AnyDimm>>)
             t2 == Total(<<s, AnyDimm>>)'
  <2>1. n <= t
    BY <1>2 DEF IInv, DimmsCovered
  <2>2. n2 <= n + (IF s = socket THEN k ELSE 0)
    BY <1>1, <1>3, <1>7
  <2>3. t \in Nat /\ t2 = t + (IF s = socket THEN k * M ELSE 0)
    BY <1>2, <1>7, <1>9
  <2>4. k * M >= k /\ k * M \in Nat /\ k \in Nat
    BY <1>2, <1>4
  <2>5. n \in Nat /\ n2 \in Nat
    <3>1. errs \in Seq(Error) /\ errs' \in Seq(Error)
      BY <1>1, <1>3, <1>7 DEF DbInv, ErrsInv
    <3> QED
      BY <3>1, FewerErrors
  <2> HIDE DEF n, n2, t, t2
  <2>6. n2 <= t2
    BY <2>1, <2>2, <2>3, <2>4, <2>5
  <2> QED
    BY <2>6 DEF n2, t2
<1>12. RankInv'
  <2>1. ASSUME NEW s \in Sockets, NEW r \in Ranks
        PROVE  failrank2dimm(r, s)' = failrank2dimm(r, s)
    <3>1. <<s, 2>> \in DOMAIN md' <=> <<s, 2>> \in DOMAIN md
      BY <1>1, <1>3, <1>7
    <3> QED
      BY <3>1 DEF failrank2dimm
  <2>2. ASSUME NEW s \in Sockets, NEW r \in Ranks
        PROVE  /\ ranks'[<<s, r>>] \subseteq {failrank2dimm(r, s)'}
               /\ ranks'[<<s, r>>] \subseteq Places \ {AnyDimm}
    <3>1. ranks[<<s, r>>] \subseteq {failrank2dimm(r, s)} /\ <<s, r>> \in Sockets \X Ranks
      BY DEF IInv, RankInv
    <3>2. ranks'[<<s, r>>] \in {ranks[<<s, r>>], ranks[<<s, r>>] \cup {Place(r, socket)}}
          /\ (s # socket => ranks'[<<s, r>>] = ranks[<<s, r>>])
      BY <1>1, <3>1
    <3>3. Place(r, socket) = failrank2dimm(r, socket)
          /\ failrank2dimm(r, s) \in Places \ {AnyDimm}
      BY <1>3, RankDimm
    <3> QED
      BY <2>1, <3>1, <3>2, <3>3
  <2>3. ranks' \in [Sockets \X Ranks -> SUBSET (Places \ {AnyDimm})]
    <3>1. ASSUME NEW x \in Sockets \X Ranks PROVE ranks'[x] \subseteq Places \ {AnyDimm}
      <4>1. x = <<x[1], x[2]>> /\ x[1] \in Sockets /\ x[2] \in Ranks
        OBVIOUS
      <4> QED
        BY <2>2, <4>1
    <3> QED
      BY <1>1, <3>1
  <2> QED
    BY <2>2, <2>3 DEF RankInv
<1> QED
  BY <1>1, <1>2, <1>8, <1>10, <1>11, <1>12 DEF IInv

(* A client's dump ages buckets and changes no count.                      *)
LEMMA DumpKeeps ==
  ASSUME IInv, NEW all \in BOOLEAN, dump_memory_errors(all)
  PROVE  IInv'
<1>1. PICK g \in {0, 2 ^ 30} : md' = [key \in DOMAIN md |-> dump_dimm(md[key], all, g)]
  BY DEF dump_memory_errors
<1>2. /\ fired' = << >> /\ dumped' = TRUE
      /\ UNCHANGED <<memdb_enabled, sockdb_enabled, now, errs, hardware, ranks, records>>
  BY DEF dump_memory_errors, switches
<1>3. g \in Int /\ g >= 0
  BY <1>1
<1>4. /\ md \in [DOMAIN md -> [Kinds -> ErrType]] /\ DOMAIN md \subseteq Keys
      /\ \A key \in DOMAIN md, kind \in Kinds : BucketInv(md[key][kind].bucket, errs, key, kind)
      /\ \A key \in Keys, kind \in Kinds :
           CountIn(md, key, kind) = Cardinality(In(errs, OfEntry(key, kind)))
      /\ ErrsInv(errs) /\ errs \in Seq(Error) /\ now \in Nat
  BY MemDBAssumption DEF IInv, DbInv, TableInv, ErrsInv
<1>5. DOMAIN md' = DOMAIN md
  BY <1>1
<1>6. ASSUME NEW key \in DOMAIN md, NEW kind \in Kinds
      PROVE  /\ md'[key] \in [Kinds -> ErrType]
             /\ md'[key][kind].count = md[key][kind].count
             /\ \/ md'[key][kind].bucket = md[key][kind].bucket
                \/ md'[key][kind].bucket = Aged(dimms[kind], md[key][kind].bucket, g)
  <2> DEFINE m == md[key]
             G(kd) == [m[kd] EXCEPT !.bucket = Aged(dimms[kd], @, g)]
             n == [kd \in Kinds |-> G(kd)]
  <2>1. m \in [Kinds -> ErrType] /\ (md'[key] = n \/ md'[key] = m)
    BY <1>1, <1>4, <1>6 DEF dump_dimm
  <2> HIDE DEF m
  <2>2. ASSUME NEW kd \in Kinds
        PROVE  /\ G(kd) \in ErrType /\ G(kd).count = m[kd].count
               /\ G(kd).bucket = Aged(dimms[kd], m[kd].bucket, g)
    <3> DEFINE x == m[kd].bucket
    <3>1. m[kd] \in ErrType /\ x \in Bucket
      BY <2>1, <2>2 DEF ErrType
    <3>2. x.tstamp <= now
      BY <1>4, <1>6, <2>2 DEF BucketInv, m
    <3>3. dimms[kd] \in BucketConf
      BY <2>2, MemDBAssumption DEF Kinds
    <3> HIDE DEF x
    <3>4. Aged(dimms[kd], x, g) \in Bucket
      BY <1>3, <1>4, <3>1, <3>2, <3>3, AgedBucket
    <3> QED
      BY <3>1, <3>4 DEF ErrType, x
  <2> HIDE DEF G
  <2>3. n \in [Kinds -> ErrType] /\ n[kind] = G(kind)
    BY <1>6, <2>2
  <2> HIDE DEF n
  <2>4. CASE md'[key] = n
    BY <1>6, <2>2, <2>3, <2>4 DEF m
  <2>5. CASE md'[key] = m
    BY <1>6, <2>1, <2>5 DEF m
  <2> QED
    BY <2>1, <2>4, <2>5
<1>7. ASSUME NEW key \in DOMAIN md, NEW kind \in Kinds
      PROVE  BucketInv(md[key][kind].bucket, errs, key, kind)'
  <2> DEFINE bk == md[key][kind].bucket
             nb == md'[key][kind].bucket
             c == ConfOf(key, kind)
             n == Cardinality(In(errs, Since(key, kind, bk.tstamp - MaxLag)))
             n2 == Cardinality(In(errs, Since(key, kind, nb.tstamp - MaxLag)))
  <2>1. /\ bk \in Bucket /\ nb \in Bucket /\ key \in Keys
    BY <1>4, <1>6, <1>7 DEF ErrType
  <2>2. /\ bk.tstamp <= now
        /\ c.capacity # 0 => bk.count < c.capacity /\ (Undisturbed(key) => bk.count <= n)
    BY <1>4, <1>7 DEF BucketInv
  <2>3. c \in BucketConf /\ dimms[kind] \in BucketConf /\ (key[2] # AnyDimm => c = dimms[kind])
    BY <1>7, ConfType, MemDBAssumption DEF ConfOf, Kinds
  <2>4. nb = bk \/ nb = Aged(dimms[kind], bk, g)
    BY <1>6, <1>7
  <2>5. n2 \in Nat
    BY <1>4, FewerErrors
  <2>6. SUFFICES /\ nb.tstamp <= now
                 /\ c.capacity # 0 =>
                      nb.count < c.capacity /\ (key[2] # AnyDimm => nb.count <= n2)
    BY <1>2 DEF BucketInv, Undisturbed
  <2>7. CASE nb = bk
    BY <2>2, <2>7 DEF Undisturbed
  <2>8. CASE nb = Aged(dimms[kind], bk, g)
    <3> HIDE DEF bk, nb, c, n, n2
    <3>1. /\ nb.count <= bk.count /\ nb.tstamp <= now
          /\ dimms[kind].capacity # 0 /\ bk.count < dimms[kind].capacity =>
               nb = bk \/ nb.count = 0
      BY <1>3, <1>4, <2>1, <2>2, <2>3, <2>8, AgedBucket
    <3>2. c.capacity # 0 => nb.count < c.capacity
      BY <2>1, <2>2, <2>3, <3>1
    <3>3. c.capacity # 0 /\ key[2] # AnyDimm => nb = bk \/ nb.count = 0
      BY <2>2, <2>3, <3>1
    <3>4. c.capacity # 0 /\ key[2] # AnyDimm => nb.count <= n2
      <4>1. nb = bk => n2 = n
        BY DEF n, n2, bk, nb
      <4>2. nb.count = 0 => nb.count <= n2
        BY <2>5
      <4>3. c.capacity # 0 /\ key[2] # AnyDimm => bk.count <= n
        BY <2>2 DEF Undisturbed
      <4> QED
        BY <3>3, <4>1, <4>2, <4>3
    <3> QED
      BY <3>1, <3>2, <3>4
  <2> QED
    BY <2>4, <2>7, <2>8
<1>8. \A key, kind : kind \in Kinds => CountIn(md', key, kind) = CountIn(md, key, kind)
  BY <1>5, <1>6 DEF CountIn
<1>9. md' \in [DOMAIN md' -> [Kinds -> ErrType]]
  <2>1. \A key \in DOMAIN md : md'[key] \in [Kinds -> ErrType]
    BY <1>6 DEF Kinds
  <2> QED
    BY <1>1, <1>5, <2>1
<1>10. TableInv(md, errs)'
  <2>1. \A key \in DOMAIN md', kind \in Kinds : BucketInv(md[key][kind].bucket, errs, key, kind)'
    BY <1>5, <1>7
  <2>2. \A key \in Keys, kind \in Kinds :
          CountIn(md', key, kind) = Cardinality(In(errs', OfEntry(key, kind)))
    BY <1>2, <1>4, <1>8
  <2> QED
    BY <1>4, <1>5, <1>9, <2>1, <2>2 DEF TableInv
<1>11. DbInv([md |-> md, fired |-> fired, errs |-> errs])'
  <2>1. FiredInv(fired, errs)'
    BY <1>2, NoTriggers DEF FiredInv
  <2>2. ErrsInv(errs)'
    BY <1>2, <1>4 DEF ErrsInv
  <2> QED
    BY <1>10, <2>1, <2>2 DEF DbInv
<1>12. \A s \in Sockets : Total(<<s, AnyDimm>>)' = Total(<<s, AnyDimm>>)
  <2>1. \A key : Total(key) = CountIn(md, key, "ce") + CountIn(md, key, "uc")
    BY DEF Total, Count, CountIn
  <2>2. \A s \in Sockets : Total(<<s, AnyDimm>>)' =
          CountIn(md', <<s, AnyDimm>>, "ce") + CountIn(md', <<s, AnyDimm>>, "uc")
    BY DEF Total, Count, CountIn
  <2> QED
    BY <1>8, <2>1, <2>2 DEF Kinds
<1>13. SocketTotalExact' /\ DimmsCovered'
  BY <1>2, <1>12 DEF IInv, SocketTotalExact, DimmsCovered
<1>14. RankInv'
  <2>1. \A s \in Sockets, r \in Ranks : failrank2dimm(r, s)' = failrank2dimm(r, s)
    BY <1>5 DEF failrank2dimm
  <2> QED
    BY <1>2, <2>1 DEF IInv, RankInv
<1> QED
  BY <1>2, <1>11, <1>13, <1>14 DEF IInv

LEMMA TickKeeps == ASSUME IInv, Tick PROVE IInv'
<1>1. /\ now < MaxTime /\ now' = now + 1 /\ fired' = << >>
      /\ UNCHANGED <<memdb_enabled, sockdb_enabled, md, errs, hardware, dumped, ranks, records>>
  BY DEF Tick, switches
<1>2. now \in Nat /\ now' \in 0 .. MaxTime
  BY <1>1, MemDBAssumption DEF IInv
<1>3. TableInv(md, errs) /\ ErrsInv(errs)
  BY DEF IInv, DbInv
<1>4. TableInv(md, errs)'
  <2>1. ASSUME NEW key \in DOMAIN md, NEW kind \in Kinds
        PROVE  BucketInv(md[key][kind].bucket, errs, key, kind)'
    <3>1. /\ BucketInv(md[key][kind].bucket, errs, key, kind)
          /\ md[key][kind].bucket.tstamp \in Int
      BY <1>3, <2>1 DEF TableInv, ErrType
    <3>2. md[key][kind].bucket.tstamp <= now'
      BY <1>1, <1>2, <3>1 DEF BucketInv
    <3> QED
      BY <1>1, <3>1, <3>2 DEF BucketInv, Undisturbed
  <2> QED
    BY <1>1, <1>3, <2>1 DEF TableInv
<1>5. ErrsInv(errs)'
  <2>1. \A i \in 1 .. Len(errs) : errs[i].time \in Int
    BY <1>3, ErrorTimes DEF ErrsInv
  <2> QED
    BY <1>1, <1>2, <1>3, <2>1 DEF ErrsInv
<1>6. FiredInv(fired, errs)'
  BY <1>1, NoTriggers DEF FiredInv
<1>7. DbInv([md |-> md, fired |-> fired, errs |-> errs])'
  BY <1>4, <1>5, <1>6 DEF DbInv
<1>8. SocketTotalExact' /\ DimmsCovered' /\ RankInv'
  BY <1>1 DEF IInv, SocketTotalExact, DimmsCovered, RankInv, Total, Count, failrank2dimm
<1> QED
  BY <1>1, <1>2, <1>7, <1>8 DEF IInv

LEMMA NextIInv == IInv /\ [Next]_vars => IInv'
<1> SUFFICES ASSUME IInv, [Next]_vars PROVE IInv'
  OBVIOUS
<1>1. ASSUME NEW s \in Sockets, NEW devices \in Devices, NEW uc \in BOOLEAN, NEW cnt \in Counts,
             NEW crosses \in BOOLEAN, NEW lag \in 0 .. MaxLag,
             intel_memory_error(s, devices, uc, cnt, crosses, now - lag)
      PROVE  IInv'
  <2>1. RecordTime(now - lag)
    BY <1>1, MemDBAssumption DEF IInv, RecordTime
  <2> QED
    BY <1>1, <2>1, RecordKeeps
<1>2. ASSUME NEW all \in BOOLEAN, dump_memory_errors(all) PROVE IInv'
  BY <1>2, DumpKeeps
<1>3. CASE Tick
  BY <1>3, TickKeeps
<1>4. CASE UNCHANGED vars
  BY <1>4 DEF vars, switches, IInv, DbInv, TableInv, BucketInv, ErrsInv, FiredInv, Undisturbed,
              SocketTotalExact, DimmsCovered, RankInv, Total, Count, failrank2dimm
<1> QED
  BY <1>1, <1>2, <1>3, <1>4 DEF Next

LEMMA AlwaysIInv == Spec => []IInv
BY InitIInv, NextIInv, PTL DEF Spec

-----------------------------------------------------------------------------
(* What the counts of the model's properties are in terms of In.           *)
LEMMA CountsAreIn ==
  ASSUME errs \in Seq(Error), now \in Int
  PROVE  /\ \A key, kind : Accounted(key, kind) = Cardinality(In(errs, OfEntry(key, kind)))
         /\ \A s : OfDimms(s) = Cardinality(In(errs, DimmErrors(s)))
         /\ \A key, kind, a, tm :
              a \in Int /\ tm \in Int =>
                Recent(key, kind, a, tm) =
                  Cardinality(In(errs, Since(key, kind, (tm - (a + MaxLag)) + 1)))
<1>1. \A i \in 1 .. Len(errs) : errs[i] \in Error /\ errs[i].time \in Int
  BY ErrorTimes
<1>2. \A key, kind : Accounted(key, kind) = Cardinality(In(errs, OfEntry(key, kind)))
  BY <1>1 DEF Accounted, In, OfEntry
<1>3. \A s : OfDimms(s) = Cardinality(In(errs, DimmErrors(s)))
  BY <1>1 DEF OfDimms, In, DimmErrors
<1>4. ASSUME NEW key, NEW kind, NEW a \in Int, NEW tm \in Int
      PROVE  Recent(key, kind, a, tm) =
               Cardinality(In(errs, Since(key, kind, (tm - (a + MaxLag)) + 1)))
  <2> DEFINE x == tm - (a + MaxLag)
  <2>1. x \in Int
    BY MemDBAssumption
  <2> HIDE DEF x
  <2>2. \A i \in 1 .. Len(errs) : errs[i].time > x <=> errs[i].time >= x + 1
    BY <1>1, <2>1
  <2>3. {i \in 1 .. Len(errs) : errs[i].key = key /\ errs[i].kind = kind /\ errs[i].time > x}
          = In(errs, Since(key, kind, x + 1))
    BY <1>1, <2>2 DEF In, Since
  <2> QED
    BY <2>3 DEF Recent, x
<1> QED
  BY <1>2, <1>3, <1>4

(* The counts of sockets and DIMMs are exact, with any number of records,
   dumps and overflows: no count wraps, is lost or counted twice.          *)
THEOREM TotalsAlwaysExact == Spec => []TotalsExact
<1>1. IInv => TotalsExact
  <2> SUFFICES ASSUME IInv PROVE TotalsExact
    OBVIOUS
  <2>1. TableInv(md, errs) /\ ErrsInv(errs) /\ FiredInv(fired, errs)
    BY DEF IInv, DbInv
  <2>2. errs \in Seq(Error) /\ now \in Int
    BY <2>1, MemDBAssumption DEF ErrsInv, IInv
  <2>3. TypeOK
    BY <2>1, <2>2 DEF TypeOK, IInv, TableInv, FiredInv, RankInv
  <2>4. EntriesExact
    BY <2>1, <2>2, CountsAreIn DEF EntriesExact, TableInv, Count, CountIn
  <2>5. SocketCoversDimms
    BY <2>2, CountsAreIn DEF SocketCoversDimms, IInv, DimmsCovered
  <2> QED
    BY <2>3, <2>4, <2>5 DEF TotalsExact, IInv
<1> QED
  BY <1>1, AlwaysIInv, PTL

(* Every trigger of a DIMM has its errors within the age time and the longest
   lag of a record, whatever dumps come between them and however late each
   record is processed; and every trigger of a socket before the first dump.
   With MaxLag = 0, records processed at once, that is the age time.       *)
THEOREM TriggersAlwaysReal == Spec => []TriggersReal
<1>1. IInv => TriggersReal
  <2> SUFFICES ASSUME IInv PROVE TriggersReal
    OBVIOUS
  <2>1. ErrsInv(errs) /\ FiredInv(fired, errs)
    BY DEF IInv, DbInv
  <2>2. errs \in Seq(Error) /\ now \in Int
    BY <2>1, MemDBAssumption DEF ErrsInv, IInv
  <2>3. ASSUME NEW i \in 1 .. Len(fired), Undisturbed(fired[i][1])
        PROVE  Recent(fired[i][1], fired[i][2], ConfOf(fired[i][1], fired[i][2]).agetime,
                        fired[i][3])
                 >= ConfOf(fired[i][1], fired[i][2]).capacity
    <3> DEFINE key == fired[i][1]
               kind == fired[i][2]
               tm == fired[i][3]
               c == ConfOf(key, kind)
    <3>1. fired[i] \in Keys \X Kinds \X Int /\ Backed(errs, key, kind, tm)
      BY <2>1, <2>3, FiredIs, ElementOfSeq, Zenon
    <3>2. c \in BucketConf
      BY <3>1, ConfType
    <3>3. Cardinality(In(errs, Since(key, kind, First(c, tm)))) >= c.capacity
      BY <2>3, <3>1, Zenon DEF Backed
    <3>4. c.agetime \in Int /\ tm \in Int
      BY <3>1, <3>2
    <3> HIDE DEF c, key, kind, tm
    <3>5. Recent(key, kind, c.agetime, tm) =
            Cardinality(In(errs, Since(key, kind, First(c, tm))))
      BY <2>2, <3>4, CountsAreIn DEF First
    <3>6. Recent(key, kind, c.agetime, tm) >= c.capacity
      BY <3>3, <3>5
    <3> QED
      BY <3>6 DEF c, key, kind, tm
  <2>4. DimmTriggersReal
    <3> SUFFICES ASSUME NEW i \in 1 .. Len(fired), fired[i][1][2] # AnyDimm
                 PROVE  Recent(fired[i][1], fired[i][2], dimms[fired[i][2]].agetime,
                                 fired[i][3])
                          >= dimms[fired[i][2]].capacity
      BY DEF DimmTriggersReal
    <3>1. ConfOf(fired[i][1], fired[i][2]) = dimms[fired[i][2]] /\ Undisturbed(fired[i][1])
      BY DEF ConfOf, Undisturbed
    <3> QED
      BY <2>3, <3>1
  <2>5. SocketTriggersReal
    <3> SUFFICES ASSUME ~ dumped, NEW i \in 1 .. Len(fired), fired[i][1][2] = AnyDimm
                 PROVE  Recent(fired[i][1], fired[i][2], sockets[fired[i][2]].agetime,
                                 fired[i][3])
                          >= sockets[fired[i][2]].capacity
      BY DEF SocketTriggersReal
    <3>1. ConfOf(fired[i][1], fired[i][2]) = sockets[fired[i][2]] /\ Undisturbed(fired[i][1])
      BY DEF ConfOf, Undisturbed
    <3> QED
      BY <2>3, <3>1
  <2> QED
    BY <2>4, <2>5 DEF TriggersReal
<1> QED
  BY <1>1, AlwaysIInv, PTL

(* failrank2dimm gives a rank the same DIMM from the first record to the last,
   although it asks a table that every error may add to.                   *)
THEOREM RankAlwaysStable == Spec => []RankIsStable
<1>1. IInv => RankIsStable
  <2> SUFFICES ASSUME IInv, NEW x \in Sockets \X Ranks PROVE Cardinality(ranks[x]) <= 1
    BY DEF RankIsStable
  <2>1. PICK s \in Sockets, r \in Ranks : x = <<s, r>>
    OBVIOUS
  <2>2. ranks[x] \in SUBSET {failrank2dimm(r, s)}
    BY <2>1 DEF IInv, RankInv
  <2>3. IsFiniteSet({failrank2dimm(r, s)}) /\ Cardinality({failrank2dimm(r, s)}) = 1
    BY FS_Singleton
  <2> QED
    BY <2>2, <2>3, FS_Subset
<1> QED
  BY <1>1, AlwaysIInv, PTL
=============================================================================
