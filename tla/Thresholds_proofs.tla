-------------------------- MODULE Thresholds_proofs --------------------------
(***************************************************************************)
(* Proofs about thresholds and what they set off.  Triggers: the           *)
(* invariants hold for any set of process ids, any children-max and any    *)
(* number of children, as long as the kernel does not give out a pid that  *)
(* a pending SIGCHLD names.  LeakyBucketMonitor: the arithmetic of         *)
(* leaky-bucket.c, for every capacity, age time and stream of records,     *)
(* late ones included.                                                     *)
(***************************************************************************)
EXTENDS Triggers, LeakyBucketMonitor, FiniteSetTheorems, SequenceTheorems, TLAPS

(* The inductive invariant.  childlist, the counter and the processes of the
   kernel agree, the limit holds, and a SIGCHLD, pending or being handled,
   never names a running child: that is what lets finish_child, called with
   si_pid whatever waitpid returned, remove only children that are gone.   *)
IInv ==
  /\ TypeOK
  /\ IsFiniteSet(childlist)
  /\ ChildListExact
  /\ children_max > 0 => num_children <= children_max
  /\ NoAbort
  /\ pending \in Pids => proc[pending] # "running"
  /\ pc = "child_handler" => si_pid \in Pids /\ proc[si_pid] # "running"
  /\ pc = "exited" => Children = {}

(* What finish_child does to the list and its counter, for a child that was
   on the list.                                                            *)
LEMMA FinishKeepsCount ==
  ASSUME NEW S, IsFiniteSet(S), NEW p \in S
  PROVE  /\ IsFiniteSet(S \ {p})
         /\ Cardinality(S \ {p}) = Cardinality(S) - 1
         /\ Cardinality(S) \in Nat \ {0}
<1>1. Cardinality(S) \in Nat /\ Cardinality(S \ {p}) \in Nat
  BY FS_RemoveElement, FS_CardinalityType
<1>2. IsFiniteSet(S \ {p}) /\ Cardinality(S \ {p}) = Cardinality(S) - 1
  BY FS_RemoveElement
<1> QED
  BY <1>1, <1>2

(* The invariant holds before the first fork.                              *)
LEMMA InitIInv == ASSUME Init PROVE IInv
BY FS_EmptySet, TriggersAssumption
   DEF Init, IInv, TypeOK, PCs, ChildListExact, Children, NoAbort

(* A step that collects p, and so takes it off proc and off childlist.     *)
LEMMA CollectKeepsIInv ==
  ASSUME IInv, NEW p \in Pids, proc[p] = "zombie", Reap(p),
         NEW npc \in {"reap_others", "trigger_wait"}, finish_child(p, npc),
         UNCHANGED <<pending, si_pid>>
  PROVE  IInv'
<1> USE DEF IInv, TypeOK, ChildListExact, Children
<1>1. p \in childlist
  OBVIOUS
<1>2. /\ IsFiniteSet(childlist \ {p})
      /\ Cardinality(childlist \ {p}) = Cardinality(childlist) - 1
      /\ Cardinality(childlist) \in Nat \ {0}
  BY <1>1, FinishKeepsCount
<1>3. childlist' = childlist \ {p} /\ num_children' = num_children - 1 /\ pc' = npc
  BY <1>1 DEF finish_child
<1>4. childlist' = Children'
  BY <1>3 DEF Reap
<1>5. TypeOK'
  BY <1>2, <1>3 DEF Reap, PCs
<1>6. (children_max > 0 => num_children <= children_max)'
  BY <1>2, <1>3, TriggersAssumption
<1> QED
  BY <1>2, <1>3, <1>4, <1>5, <1>6 DEF Reap, NoAbort

(* Every step of the daemon, of the process that runs once and of the
   children preserves the invariant.                                       *)
LEMMA NextIInv == ASSUME IInv, [Next]_vars, ~ PidWrap PROVE IInv'
<1> USE DEF IInv, TypeOK, ChildListExact, Children
<1>1. CASE UNCHANGED vars
  BY <1>1 DEF vars, NoAbort
<1>2. ASSUME NEW p \in Pids, ChildExit(p) PROVE IInv'
  <2>1. Children' = Children
    BY <1>2 DEF ChildExit
  <2> QED
    BY <1>2, <2>1, TriggersAssumption DEF ChildExit, NoAbort
<1>3. CASE PpollReady
  BY <1>3 DEF PpollReady, PCs, NoAbort
<1>4. CASE PpollSignal
  BY <1>4, TriggersAssumption DEF PpollSignal, PCs, NoAbort
<1>5. ASSUME NEW p \in Pids, run_trigger(p) PROVE IInv'
  <2>1. p \notin childlist /\ proc[p] = "free" /\ p # pending
    BY <1>5 DEF run_trigger, mcelog_fork, FreshPid
  <2>2. /\ IsFiniteSet(childlist \cup {p})
        /\ Cardinality(childlist \cup {p}) = Cardinality(childlist) + 1
    BY <2>1, FS_AddElement
  <2>3. /\ childlist' = childlist \cup {p} /\ num_children' = num_children + 1
        /\ proc' = [proc EXCEPT ![p] = "running"]
        /\ pc \in {"callbacks", "once"}
        /\ UNCHANGED <<pc, pending, si_pid>>
    BY <1>5 DEF run_trigger, mcelog_fork
  <2>4. childlist' = Children'
    BY <2>3
  <2>5. (children_max > 0 => num_children <= children_max)'
    BY <1>5, <2>3, TriggersAssumption DEF run_trigger
  <2>6. TypeOK'
    BY <2>3 DEF PCs
  <2>7. (pending \in Pids => proc[pending] # "running")'
    BY <2>1, <2>3
  <2> QED
    BY <2>2, <2>3, <2>4, <2>5, <2>6, <2>7 DEF NoAbort
<1>6. CASE CallbacksDone
  BY <1>6 DEF CallbacksDone, PCs, NoAbort
<1>7. CASE HandlerNoChild
  BY <1>7 DEF HandlerNoChild, PCs, NoAbort
<1>8. CASE HandlerFinish
  <2>1. si_pid \in Pids /\ proc[si_pid] = "zombie"
    BY <1>8 DEF HandlerFinish
  <2> QED
    BY <1>8, <2>1, CollectKeepsIInv DEF HandlerFinish
<1>9. ASSUME NEW p \in Pids, HandlerReapOther(p) PROVE IInv'
  BY <1>9, CollectKeepsIInv DEF HandlerReapOther
<1>10. CASE HandlerReturn
  BY <1>10 DEF HandlerReturn, PCs, NoAbort
<1>11. CASE OnceDone
  BY <1>11 DEF OnceDone, PCs, NoAbort
<1>12. ASSUME NEW p \in Pids, trigger_wait(p) PROVE IInv'
  BY <1>12, CollectKeepsIInv DEF trigger_wait
<1>13. CASE WaitReturn
  BY <1>13 DEF WaitReturn, PCs, NoAbort
<1>14. CASE ExitEarly
  BY <1>14 DEF ExitEarly, PCs, NoAbort
<1> QED
  BY <1>1, <1>2, <1>3, <1>4, <1>5, <1>6, <1>7, <1>8, <1>9, <1>10, <1>11,
     <1>12, <1>13, <1>14 DEF Next, MainStep

(* The invariant holds in every behaviour.                                 *)
THEOREM Invariance == ASSUME ~ PidWrap PROVE Spec => []IInv
<1>1. Init => IInv
  BY InitIInv
<1>2. IInv /\ [Next]_vars => IInv'
  BY NextIInv
<1> QED
  BY <1>1, <1>2, PTL DEF Spec

(* abort() in finish_child is unreachable: every child that one of the
   three waitpid calls collects, in whatever order children exit and
   signals are merged, is on childlist.                                    *)
THEOREM AbortUnreachable == ASSUME ~ PidWrap PROVE Spec => []NoAbort
<1>1. IInv => NoAbort
  BY DEF IInv
<1> QED
  BY <1>1, Invariance, PTL

(* childlist and num_children always agree with the processes the kernel
   keeps for the daemon.                                                   *)
THEOREM ChildListIsExact == ASSUME ~ PidWrap PROVE Spec => []ChildListExact
<1>1. IInv => ChildListExact
  BY DEF IInv
<1> QED
  BY <1>1, Invariance, PTL

(* children-max bounds the processes and zombies that exist.               *)
THEOREM LimitHolds == ASSUME ~ PidWrap PROVE Spec => []LimitRespected
<1>1. IInv => LimitRespected
  BY DEF IInv, LimitRespected, ChildListExact
<1> QED
  BY <1>1, Invariance, PTL

(* trigger_wait leaves no child and no zombie behind.                      *)
THEOREM AllCollected == ASSUME ~ PidWrap PROVE Spec => []AllCollectedAtExit
<1>1. IInv => AllCollectedAtExit
  BY FS_EmptySet DEF IInv, AllCollectedAtExit, ChildListExact
<1> QED
  BY <1>1, Invariance, PTL

-----------------------------------------------------------------------------
(* One leaky bucket.                                                       *)

USE DEF Bucket, BucketConf

(* Integer multiplication by a natural number is monotonic.                *)
LEMMA MulMono ==
  ASSUME NEW x \in Int, NEW y \in Int, NEW z \in Nat, x <= y
  PROVE  x * z <= y * z
OBVIOUS

(* A positive factor can be cancelled.                                     *)
LEMMA MulCancel ==
  ASSUME NEW x \in Int, NEW y \in Int, NEW z \in Nat \ {0}, x * z < y * z
  PROVE  x < y
OBVIOUS

(* What bucket_age takes away after diff >= agetime seconds is at least the
   whole capacity, although the quotient is truncated.                     *)
LEMMA LeakAtLeastCapacity ==
  ASSUME NEW c \in BucketConf, c.agetime > 0, NEW diff \in Int,
         diff >= c.agetime, NEW mult \in Nat
  PROVE  /\ Leak(c, diff, mult) \in Nat
         /\ Leak(c, diff, mult) >= c.capacity * mult
<1> DEFINE k == c.capacity * mult
           a == c.agetime
           q == (diff * k) \div a
<1>1. k \in Nat /\ a \in Nat \ {0} /\ diff \in Nat
  OBVIOUS
<1>2. diff * k \in Nat
  BY <1>1
<1> HIDE DEF k
<1>3. q \in Nat
  BY <1>1, <1>2
<1>4. diff * k < (q + 1) * a
  BY <1>1, <1>2, <1>3
<1>5. k * a <= diff * k
  BY <1>1, MulMono
<1>6. k * a < (q + 1) * a
  BY <1>1, <1>2, <1>3, <1>4, <1>5
<1>7. k < q + 1
  BY <1>1, <1>3, <1>6, MulCancel
<1> QED
  BY <1>1, <1>3, <1>7 DEF Leak, k

(* bucket_age of a bucket below its capacity empties it or leaves it alone. *)
LEMMA AgeEmptiesOrKeeps ==
  ASSUME NEW c \in BucketConf, c.agetime > 0, NEW mult \in Nat,
         NEW bk \in Bucket, bk.count < c.capacity * mult, NEW t \in Int
  PROVE  bucket_age(c, bk, t, mult) =
           IF t - bk.tstamp >= c.agetime
             THEN [count |-> 0, excess |-> 0, tstamp |-> t]
             ELSE bk
<1>1. CASE t - bk.tstamp >= c.agetime
  <2>1. /\ Leak(c, t - bk.tstamp, mult) \in Nat
        /\ Leak(c, t - bk.tstamp, mult) >= c.capacity * mult
    BY <1>1, LeakAtLeastCapacity
  <2>2. c.capacity * mult \in Nat
    OBVIOUS
  <2>3. Leak(c, t - bk.tstamp, mult) > bk.count
    BY <2>1, <2>2
  <2> QED
    BY <1>1, <2>3 DEF bucket_age, Drain
<1>2. CASE ~ (t - bk.tstamp >= c.agetime)
  BY <1>2 DEF bucket_age
<1> QED
  BY <1>1, <1>2

-----------------------------------------------------------------------------
(* The inductive invariant: BelowCapacity, the fact AgeEmptiesOrKeeps rests
   on, and the types; the clock stays within its bound.                    *)
BInv ==
  /\ BTypeOK
  /\ BelowCapacity
  /\ now \in 0 .. MaxTime

(* The configuration of the monitor is one parse_rate accepts.             *)
LEMMA ConfType ==
  /\ conf \in BucketConf /\ conf.capacity = Capacity /\ conf.agetime = AgeTime
  /\ conf.agetime > 0 /\ conf.capacity > 0
BY MonitorAssumption DEF conf

(* One call of __bucket_account is one step of the window.                 *)
LEMMA AccountIsWindowStep ==
  ASSUME BInv, NEW inc \in Incs, NEW t \in Int, Account(inc, t)
  PROVE  /\ b' \in Bucket
         /\ fired' \in BOOLEAN
         /\ BelowCapacity'
         /\ Window!WAccount(inc, t)
<1> DEFINE fresh == t - b.tstamp >= AgeTime
           total == IF fresh THEN inc ELSE b.count + inc
           aged == IF fresh THEN [count |-> 0, excess |-> 0, tstamp |-> t] ELSE b
<1>1. /\ b \in Bucket /\ b.count < Capacity /\ inc \in Nat \ {0}
      /\ Capacity \in Nat \ {0} /\ AgeTime \in Nat \ {0}
  BY MonitorAssumption DEF BInv, BTypeOK, BelowCapacity
<1>2. aged \in Bucket /\ total \in Nat /\ total = aged.count + inc
  BY <1>1
<1>3. bucket_age(conf, b, t, 1) = aged
  BY <1>1, ConfType, AgeEmptiesOrKeeps
<1>4. Filled(conf, b, inc, t, 1) = [aged EXCEPT !.count = total]
  BY <1>2, <1>3 DEF Filled
<1>5. Filled(conf, b, inc, t, 1).count = total
  BY <1>2, <1>4
<1>6. Overflows(conf, b, inc, t, 1) <=> total >= Capacity
  <2>1. conf.capacity # 0 /\ conf.capacity * 1 = Capacity
    BY <1>1, ConfType
  <2> QED
    BY <1>5, <2>1 DEF Overflows
<1>7. b' = IF total >= Capacity
             THEN [count |-> 0, excess |-> aged.excess + total, tstamp |-> aged.tstamp]
             ELSE [count |-> total, excess |-> aged.excess, tstamp |-> aged.tstamp]
  <2>1. b' = bucket_account(conf, b, inc, t, 1) /\ conf.capacity # 0
    BY ConfType DEF Account
  <2>2. Filled(conf, b, inc, t, 1) =
          [count |-> total, excess |-> aged.excess, tstamp |-> aged.tstamp]
    BY <1>2, <1>4
  <2>3. CASE total >= Capacity
    <3>1. Overflows(conf, b, inc, t, 1)
      BY <1>6, <2>3
    <3> HIDE DEF total, aged
    <3> QED
      BY <2>1, <2>2, <2>3, <3>1 DEF bucket_account
  <2>4. CASE ~ (total >= Capacity)
    <3>1. ~ Overflows(conf, b, inc, t, 1)
      BY <1>6, <2>4
    <3> HIDE DEF total, aged
    <3> QED
      BY <2>1, <2>2, <2>4, <3>1 DEF bucket_account
  <2> QED
    BY <2>3, <2>4
<1>8. fired' = (total >= Capacity)
  <2>1. fired' = Overflows(conf, b, inc, t, 1)
    BY DEF Account
  <2>2. Overflows(conf, b, inc, t, 1) \in BOOLEAN /\ (total >= Capacity) \in BOOLEAN
    BY DEF Overflows
  <2> HIDE DEF total
  <2>3. CASE total >= Capacity
    <3>1. Overflows(conf, b, inc, t, 1) = TRUE
      BY <1>6, <2>2, <2>3
    <3>2. (total >= Capacity) = TRUE
      BY <2>3
    <3> QED
      BY <2>1, <3>1, <3>2, Zenon
  <2>4. CASE ~ (total >= Capacity)
    <3>1. Overflows(conf, b, inc, t, 1) = FALSE
      BY <1>6, <2>2, <2>4
    <3>2. (total >= Capacity) = FALSE
      BY <2>4
    <3> QED
      BY <2>1, <3>1, <3>2, Zenon
  <2> QED
    BY <2>3, <2>4
<1> HIDE DEF total, aged
<1>9. b' \in Bucket /\ b'.count < Capacity
  <2>1. CASE total >= Capacity
    BY <1>1, <1>2, <1>7, <2>1
  <2>2. CASE ~ (total >= Capacity)
    BY <1>1, <1>2, <1>7, <2>2
  <2> QED
    BY <2>1, <2>2
<1>10. b'.count + b'.excess = aged.excess + total /\ b'.tstamp = aged.tstamp
  BY <1>1, <1>2, <1>7
<1>11. /\ b'.tstamp = (IF fresh THEN t ELSE b.tstamp)
       /\ b'.count = (IF total >= Capacity THEN 0 ELSE total)
       /\ b'.count + b'.excess = (IF fresh THEN inc ELSE b.count + b.excess + inc)
  BY <1>1, <1>2, <1>7, <1>10 DEF total, aged
<1> QED
  BY <1>8, <1>9, <1>11 DEF Window!WAccount, bucket_output, BelowCapacity, total

(* The invariant holds after bucket_init.                                  *)
LEMMA InitBInv == ASSUME BInit PROVE BInv
<1>1. b = [count |-> 0, excess |-> 0, tstamp |-> 0]
  BY DEF BInit, bucket_init
<1>2. b \in Bucket /\ BelowCapacity
  BY <1>1, MonitorAssumption DEF BelowCapacity
<1>3. hist \in Seq(Int) /\ fired \in BOOLEAN
  BY Zenon, EmptySeq DEF BInit
<1> QED
  BY <1>2, <1>3, MonitorAssumption DEF BInit, BInv, BTypeOK

(* The history of errors stays a sequence of times.                       *)
LEMMA HistoryGrows ==
  ASSUME NEW h \in Seq(Int), NEW k \in Nat, NEW t \in Int
  PROVE  h \o [i \in 1 .. k |-> t] \in Seq(Int)
<1> DEFINE u == [i \in 1 .. k |-> t]
<1>1. u \in Seq(Int)
  OBVIOUS
<1> HIDE DEF u
<1>2. h \o u \in Seq(Int)
  BY <1>1, ConcatProperties
<1> QED
  BY <1>2 DEF u

(* The clock and every call of __bucket_account preserve the invariant.    *)
LEMMA NextBInv == ASSUME BInv, [BNext]_bvars PROVE BInv'
<1>1. CASE UNCHANGED bvars
  BY <1>1 DEF bvars, BInv, BTypeOK, BelowCapacity
<1>2. CASE Tick
  BY <1>2, MonitorAssumption DEF Tick, BInv, BTypeOK, BelowCapacity
<1>3. ASSUME NEW inc \in Incs, NEW lag \in 0 .. MaxLag, Account(inc, now - lag)
      PROVE  BInv'
  <2>1. now - lag \in Int /\ inc \in Nat
    BY MonitorAssumption DEF BInv, BTypeOK
  <2>2. b' \in Bucket /\ fired' \in BOOLEAN /\ BelowCapacity'
    BY <1>3, <2>1, AccountIsWindowStep
  <2>3. hist' \in Seq(Int) /\ Len(hist') \in Nat
    <3>1. hist \in Seq(Int) /\ hist' = hist \o [i \in 1 .. inc |-> now - lag]
      BY <1>3 DEF Account, BInv, BTypeOK
    <3>2. hist' \in Seq(Int)
      BY <2>1, <3>1, HistoryGrows
    <3> QED
      BY <3>2, LenProperties
  <2> QED
    BY <1>3, <2>1, <2>2, <2>3 DEF Account, BInv, BTypeOK
<1> QED
  BY <1>1, <1>2, <1>3 DEF BNext

(* The types of the state, for every capacity, age time and lag.           *)
THEOREM BucketTyping == BSpec => []BTypeOK
<1>1. BInv => BTypeOK
  BY DEF BInv
<1> QED
  BY <1>1, InitBInv, NextBInv, PTL DEF BSpec

(* __bucket_account never leaves a full threshold in the bucket.           *)
THEOREM StaysBelowCapacity == BSpec => []BelowCapacity
<1>1. BInv => BelowCapacity
  BY DEF BInv
<1> QED
  BY <1>1, InitBInv, NextBInv, PTL DEF BSpec

(* leaky-bucket.c implements the window: the fractional leak is never
   visible, whatever the lag of the records.                               *)
THEOREM Refinement == BSpec => ImplementsWindow
<1>1. BInit => Window!WInit
  BY MonitorAssumption DEF BInit, Window!WInit, bucket_init, bucket_output
<1>2. BInv /\ [BNext]_bvars => [Window!WNext]_(Window!wvars)
  <2> SUFFICES ASSUME BInv, [BNext]_bvars PROVE [Window!WNext]_(Window!wvars)
    OBVIOUS
  <2>1. CASE UNCHANGED bvars
    BY <2>1 DEF bvars, Window!wvars
  <2>2. CASE Tick
    BY <2>2 DEF Tick, Window!wvars
  <2>3. ASSUME NEW inc \in Incs, NEW lag \in 0 .. MaxLag, Account(inc, now - lag)
        PROVE  Window!WNext
    <3>1. now - lag \in (0 - MaxLag) .. MaxTime
      BY MonitorAssumption DEF BInv
    <3>2. Window!WAccount(inc, now - lag)
      BY <2>3, <3>1, AccountIsWindowStep
    <3> QED
      BY <3>1, <3>2 DEF Window!WNext
  <2> QED
    BY <2>1, <2>2, <2>3 DEF BNext
<1> QED
  BY <1>1, <1>2, InitBInv, NextBInv, PTL
     DEF BSpec, ImplementsWindow, Window!WSpec

-----------------------------------------------------------------------------
(* The errors of the current window, and all that are counted.             *)
InWindow == {k \in 1 .. Len(hist) : hist[k] >= b.tstamp}

(* What the bucket knows of the history.  The window began less than AgeTime
   before the last record; with records in the order of their times it began
   at one of them, all others are older or within AgeTime of it, and those
   within it are what the bucket counts.                                   *)
CountInv ==
  /\ last - b.tstamp < AgeTime
  /\ fired => bucket_output(b) >= Capacity
  /\ InOrder =>
       /\ \A k \in 1 .. Len(hist) : hist[k] - b.tstamp < AgeTime
       /\ b.tstamp = 0 \/ (Len(hist) > 0 /\ b.tstamp <= hist[Len(hist)])
       /\ bucket_output(b) = Cardinality(InWindow)

(* The history after a record of k errors.                                 *)
LEMMA HistoryIs ==
  ASSUME NEW h \in Seq(Int), NEW k \in Nat \ {0}, NEW t \in Int, NEW h2,
         h2 = h \o [i \in 1 .. k |-> t]
  PROVE  /\ Len(h) \in Nat /\ Len(h2) = Len(h) + k
         /\ \A i \in 1 .. Len(h) : h2[i] = h[i] /\ h[i] \in Int
         /\ \A i \in (Len(h) + 1) .. (Len(h) + k) : h2[i] = t
<1> DEFINE u == [i \in 1 .. k |-> t]
<1>1. u \in Seq(Int) /\ Len(u) = k /\ \A i \in 1 .. k : u[i] = t
  OBVIOUS
<1> HIDE DEF u
<1>2. h2 = h \o u
  BY DEF u
<1>3. /\ Len(h) \in Nat /\ Len(h2) = Len(h) + k
      /\ \A i \in 1 .. Len(h2) : h2[i] = IF i <= Len(h) THEN h[i] ELSE u[i - Len(h)]
  BY <1>1, <1>2, ConcatProperties
<1>4. \A i \in (Len(h) + 1) .. (Len(h) + k) : h2[i] = t
  <2> SUFFICES ASSUME NEW i \in (Len(h) + 1) .. (Len(h) + k) PROVE h2[i] = t
    OBVIOUS
  <2>1. i \in 1 .. Len(h2) /\ ~ (i <= Len(h)) /\ i - Len(h) \in 1 .. k
    BY <1>3
  <2> QED
    BY <1>1, <1>3, <2>1
<1> QED
  BY <1>3, <1>4

LEMMA InitCount == ASSUME BInit PROVE CountInv
<1>1. b = [count |-> 0, excess |-> 0, tstamp |-> 0] /\ hist = << >> /\ last = 0 /\ ~ fired
  BY DEF BInit, bucket_init
<1>2. InWindow = {}
  BY <1>1 DEF InWindow
<1>3. bucket_output(b) = Cardinality(InWindow)
  BY <1>1, <1>2, FS_EmptySet DEF bucket_output
<1> QED
  BY <1>1, <1>3, MonitorAssumption DEF CountInv

(* A record that is counted.                                               *)
LEMMA AccountCounts ==
  ASSUME BInv, CountInv, NEW inc \in Incs, NEW t \in Int, Account(inc, t)
  PROVE  CountInv'
<1> DEFINE fresh == t - b.tstamp >= AgeTime
           total == IF fresh THEN inc ELSE b.count + inc
           n == Len(hist)
           new == (n + 1) .. (n + inc)
<1>1. /\ b.count \in Nat /\ b.excess \in Nat /\ b.tstamp \in Int
      /\ b'.count \in Nat /\ b'.excess \in Nat
      /\ inc \in Nat \ {0} /\ Capacity \in Nat \ {0} /\ AgeTime \in Nat \ {0}
      /\ hist \in Seq(Int) /\ last \in Int /\ last' = t
  <2>1. b' \in Bucket
    BY AccountIsWindowStep
  <2> QED
    BY <2>1, MonitorAssumption DEF BInv, BTypeOK, Account
<1>2. /\ b'.tstamp = IF fresh THEN t ELSE b.tstamp
      /\ bucket_output(b') = IF fresh THEN inc ELSE bucket_output(b) + inc
      /\ fired' = (total >= Capacity)
  BY AccountIsWindowStep DEF Window!WAccount
<1>3. /\ n \in Nat /\ Len(hist') = n + inc
      /\ \A i \in 1 .. n : hist'[i] = hist[i] /\ hist[i] \in Int
      /\ \A i \in new : hist'[i] = t
  BY <1>1, HistoryIs DEF Account
<1> HIDE DEF n, new
<1>4. last' - b'.tstamp < AgeTime
  BY <1>1, <1>2
<1>5. fired' => bucket_output(b') >= Capacity
  <2>1. total \in Nat /\ bucket_output(b') >= total
    BY <1>1, <1>2 DEF bucket_output
  <2>2. bucket_output(b') \in Nat
    BY <1>1 DEF bucket_output
  <2> HIDE DEF total
  <2>3. fired' => total >= Capacity
    BY <1>2
  <2> QED
    BY <1>1, <2>1, <2>2, <2>3
<1>6. ASSUME InOrder'
      PROVE  /\ \A k \in 1 .. Len(hist') : hist'[k] - b'.tstamp < AgeTime
             /\ b'.tstamp = 0 \/ (Len(hist') > 0 /\ b'.tstamp <= hist'[Len(hist')])
             /\ bucket_output(b') = Cardinality(InWindow')
  <2>1. 1 .. Len(hist') = (1 .. n) \cup new /\ (1 .. n) \cap new = {} /\ n + inc \in new
        /\ n + 1 \in new
    BY <1>1, <1>3 DEF new
  <2>2. InOrder
    <3> SUFFICES ASSUME NEW i \in 1 .. n
                 PROVE  hist[i] >= 0 /\ (i > 1 => hist[i - 1] <= hist[i])
      BY DEF InOrder, n
    <3>1. i \in 1 .. Len(hist') /\ hist'[i] = hist[i]
      BY <1>3, <2>1
    <3>2. hist'[i] >= 0 /\ (i > 1 => hist'[i - 1] <= hist'[i])
      BY <1>6, <3>1 DEF InOrder
    <3>3. i > 1 => hist'[i - 1] = hist[i - 1]
      BY <1>3
    <3> QED
      BY <3>1, <3>2, <3>3
  <2>3. /\ \A k \in 1 .. n : hist[k] - b.tstamp < AgeTime
        /\ b.tstamp = 0 \/ (n > 0 /\ b.tstamp <= hist[n])
        /\ bucket_output(b) = Cardinality(InWindow)
    BY <2>2 DEF CountInv, n
  <2>4. t >= 0 /\ (n > 0 => hist[n] <= t)
    <3>1. n + 1 \in 1 .. Len(hist') /\ hist'[n + 1] = t
      BY <1>3, <2>1
    <3>2. hist'[n + 1] >= 0 /\ (n + 1 > 1 => hist'[(n + 1) - 1] <= hist'[n + 1])
      BY <1>6, <3>1 DEF InOrder
    <3>3. n > 0 => hist'[(n + 1) - 1] = hist[n]
      BY <1>3
    <3> QED
      BY <1>3, <3>1, <3>2, <3>3
  <2>5. t >= b.tstamp
    <3>1. n > 0 => hist[n] \in Int
      BY <1>3
    <3> QED
      BY <1>1, <2>3, <2>4, <3>1
  <2>6. hist'[Len(hist')] = t /\ Len(hist') > 0 /\ b'.tstamp <= t
    BY <1>1, <1>2, <1>3, <2>1, <2>5
  <2>7. \A k \in 1 .. Len(hist') : hist'[k] - b'.tstamp < AgeTime
    <3>1. ASSUME NEW k \in 1 .. n PROVE hist'[k] - b'.tstamp < AgeTime
      <4>1. hist'[k] = hist[k] /\ hist[k] \in Int /\ hist[k] - b.tstamp < AgeTime
        BY <1>3, <2>3
      <4> QED
        BY <1>1, <1>2, <4>1
    <3>2. ASSUME NEW k \in new PROVE hist'[k] - b'.tstamp < AgeTime
      BY <1>1, <1>2, <1>3
    <3> QED
      BY <2>1, <3>1, <3>2
  <2>8. IsFiniteSet(InWindow) /\ IsFiniteSet(new) /\ Cardinality(new) = inc
    <3>1. IsFiniteSet(1 .. n) /\ InWindow \in SUBSET (1 .. n)
      BY <1>3, FS_Interval DEF InWindow, n
    <3>2. IsFiniteSet(new) /\ Cardinality(new) = inc
      BY <1>1, <1>3, FS_Interval DEF new
    <3> QED
      BY <3>1, <3>2, FS_Subset
  <2>9. InWindow' = IF fresh THEN new ELSE InWindow \cup new
    <3>1. ASSUME NEW k \in new PROVE k \in InWindow'
      BY <1>1, <1>3, <2>1, <2>6 DEF InWindow
    <3>2. CASE fresh
      <4>1. ASSUME NEW k \in 1 .. n PROVE k \notin InWindow'
        <5>1. hist'[k] = hist[k] /\ hist[k] \in Int /\ hist[k] - b.tstamp < AgeTime
          BY <1>3, <2>3
        <5>2. b'.tstamp = t
          BY <1>2, <3>2
        <5>3. ~ (hist'[k] >= b'.tstamp)
          BY <1>1, <3>2, <5>1, <5>2
        <5> QED
          BY <5>3 DEF InWindow
      <4>2. InWindow' \subseteq (1 .. n) \cup new
        BY <2>1 DEF InWindow
      <4> QED
        BY <3>1, <3>2, <4>1, <4>2
    <3>3. CASE ~ fresh
      <4>1. \A k \in 1 .. n : k \in InWindow' <=> k \in InWindow
        <5>1. b'.tstamp = b.tstamp
          BY <1>2, <3>3
        <5>2. \A k \in 1 .. n : k \in 1 .. Len(hist') /\ hist'[k] = hist[k]
          BY <1>3, <2>1
        <5> QED
          BY <5>1, <5>2 DEF InWindow, n
      <4>2. InWindow' \subseteq (1 .. n) \cup new /\ InWindow \subseteq 1 .. n
        BY <2>1 DEF InWindow, n
      <4> QED
        BY <3>1, <3>3, <4>1, <4>2
    <3> QED
      BY <3>2, <3>3
  <2>10. bucket_output(b') = Cardinality(InWindow')
    <3>1. CASE fresh
      BY <1>2, <2>8, <2>9, <3>1
    <3>2. CASE ~ fresh
      <4>1. InWindow \cap new = {}
        BY <2>1 DEF InWindow, n
      <4>2. Cardinality(InWindow \cup new) = Cardinality(InWindow) + inc - 0
        BY <2>8, <4>1, FS_Union, FS_EmptySet
      <4>3. Cardinality(InWindow) \in Nat
        BY <2>8, FS_CardinalityType
      <4> QED
        BY <1>1, <1>2, <2>3, <2>9, <3>2, <4>2, <4>3
    <3> QED
      BY <3>1, <3>2
  <2> QED
    BY <2>6, <2>7, <2>10
<1> QED
  BY <1>4, <1>5, <1>6 DEF CountInv

LEMMA NextCount == ASSUME BInv, CountInv, [BNext]_bvars PROVE CountInv'
<1>1. CASE Tick \/ UNCHANGED bvars
  <2>1. UNCHANGED <<b, fired, last, hist>>
    BY <1>1 DEF Tick, bvars
  <2> QED
    BY <2>1 DEF CountInv, InOrder, InWindow
<1>2. ASSUME NEW inc \in Incs, NEW lag \in 0 .. MaxLag, Account(inc, now - lag)
      PROVE  CountInv'
  <2>1. now - lag \in Int
    BY MonitorAssumption DEF BInv, BTypeOK
  <2> QED
    BY <1>2, <2>1, AccountCounts
<1> QED
  BY <1>1, <1>2 DEF BNext

LEMMA AlwaysCounts == BSpec => [](BInv /\ CountInv)
  BY InitBInv, NextBInv, InitCount, NextCount, PTL DEF BSpec

(* THRESHOLD_COUNT is the number of errors of the current window, over any
   number of overflows and windows.                                        *)
THEOREM CountAlwaysExact == BSpec => []ReportedCountIsExact
<1>1. CountInv => ReportedCountIsExact
  BY DEF CountInv, ReportedCountIsExact, InWindow
<1> QED
  BY <1>1, AlwaysCounts, PTL

(* A threshold is only reported when Capacity errors happened within AgeTime:
   those of the window, which began less than AgeTime before the last one. *)
THEOREM NeverFalseTrigger == BSpec => []NoFalseTrigger
<1>1. BInv /\ CountInv => NoFalseTrigger
  <2> SUFFICES ASSUME BInv, CountInv, InOrder, fired PROVE RecentErrors >= Capacity
    BY DEF NoFalseTrigger
  <2> DEFINE recent == {k \in 1 .. Len(hist) : hist[k] > last - AgeTime}
  <2>1. /\ Len(hist) \in Nat /\ \A k \in 1 .. Len(hist) : hist[k] \in Int
        /\ last \in Int /\ b.tstamp \in Int /\ Capacity \in Nat /\ AgeTime \in Nat
    BY MonitorAssumption DEF BInv, BTypeOK
  <2>2. InWindow \in SUBSET recent
    BY <2>1 DEF CountInv, InWindow
  <2>3. IsFiniteSet(recent)
    <3>1. IsFiniteSet(1 .. Len(hist))
      BY <2>1, FS_Interval
    <3> QED
      BY <3>1, FS_Subset
  <2>4. /\ Cardinality(InWindow) <= Cardinality(recent) /\ Cardinality(recent) \in Nat
        /\ Cardinality(InWindow) \in Nat
    BY <2>2, <2>3, FS_Subset, FS_CardinalityType
  <2>5. Cardinality(InWindow) >= Capacity
    BY DEF CountInv
  <2> QED
    BY <2>1, <2>4, <2>5 DEF RecentErrors
<1> QED
  BY <1>1, AlwaysCounts, PTL
=============================================================================
