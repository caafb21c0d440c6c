-------------------------- MODULE PageErrors_proofs --------------------------
(***************************************************************************)
(* Proofs about the page error counters, for any number and size of the    *)
(* clusters, any records and any configuration.                            *)
(***************************************************************************)
EXTENDS PageErrors, FiniteSetTheorems, WellFoundedInduction, TLAPS

(* The counters handed out when the u-th one of cluster k was the last.    *)
Handed(k, u) == {s \in Slots : s[1] < k \/ (s[1] = k /\ s[2] <= u)}

(* mempage_alloc hands out the counters in the order of the slots, until all
   are in the tree and mempage_replace goes round.                         *)
PoolInv ==
  \/ mp_cluster = ListHead /\ corr_err_counters = 0 /\ tree = {}
  \/ /\ mp_cluster \in Clusters /\ mp_used[mp_cluster] \in 1 .. N
     /\ \/ /\ corr_err_counters = (mp_cluster - 1) * N + mp_used[mp_cluster]
           /\ tree = Handed(mp_cluster, mp_used[mp_cluster])
        \/ corr_err_counters = max_corr_err_counters /\ tree = Slots

(* The clusters in use, and the list head.                                 *)
Linked == {ListHead} \cup {c \in Clusters : <<c, 1>> \in tree}

(* What is left of the LRU list, into which a cluster is added again while it
   is on it: no pointer of a cluster in use is poisoned or leads to one that
   is not in use, and the list head has a last entry.                      *)
ListInv ==
  /\ lru.next \in [Clusters \cup {ListHead} -> Int]
  /\ lru.prev \in [Clusters \cup {ListHead} -> Int]
  /\ \A x \in Linked : lru.next[x] \in Linked /\ lru.prev[x] \in Linked
  /\ tree # {} => lru.prev[ListHead] # ListHead

(* The inductive invariant.                                                *)
IInv ==
  /\ PoolConsistent
  /\ CounterIsOwn
  /\ PoolInv
  /\ ListInv
  /\ IsFiniteSet(tree)
  /\ \A s \in tree : mp[s].addr \in Pages

-----------------------------------------------------------------------------
(* Arithmetic.                                                             *)

K == (MaxCounters + N - 1) \div N

LEMMA PoolSize ==
  /\ N \in Nat /\ N > 0 /\ K \in Nat /\ K > 0
  /\ Clusters = 1 .. K /\ max_corr_err_counters = K * N /\ K * N \in Nat
<1>1. N \in Nat /\ N > 0 /\ MaxCounters \in Nat /\ MaxCounters > 0
  BY PageAssumption
<1> DEFINE x == MaxCounters + N - 1
<1>2. x \in Nat /\ x >= N
  BY <1>1
<1>3. Clusters = 1 .. K /\ max_corr_err_counters = K * N
  BY DEF Clusters, max_corr_err_counters, K
<1>4. K = x \div N
  BY DEF K
<1> HIDE DEF x
<1>5. x \div N \in Nat /\ x \div N > 0
  BY <1>1, <1>2
<1>6. K \in Nat /\ K > 0
  BY <1>4, <1>5
<1>7. K * N \in Nat
  BY <1>1, <1>6
<1> QED
  BY <1>1, <1>3, <1>6, <1>7

(* Counting cluster by cluster: the last one is full exactly when all are. *)
LEMMA Rounds ==
  ASSUME NEW n \in Nat, n > 0, NEW k \in Nat, k > 0, NEW j \in 1 .. k, NEW u \in 1 .. n
  PROVE  /\ (j - 1) * n + u \in Nat
         /\ (j - 1) * n + u <= k * n
         /\ (j - 1) * n + u = k * n <=> j = k /\ u = n
<1>1. (j - 1) * n + u <= j * n /\ j * n \in Nat /\ (j - 1) * n \in Nat
  <2>1. (j - 1) * n = j * n - n
    OBVIOUS
  <2>2. j * n \in Nat /\ j * n >= n
    OBVIOUS
  <2> QED
    BY <2>1, <2>2
<1>2. CASE j = k
  <2>1. (j - 1) * n = j * n - n
    OBVIOUS
  <2> QED
    BY <1>1, <1>2, <2>1
<1>3. CASE j # k
  <2>1. j <= k - 1 /\ k - 1 \in Nat
    BY <1>3
  <2>2. j * n <= (k - 1) * n
    BY <2>1
  <2>3. (k - 1) * n = k * n - n /\ k * n \in Nat
    OBVIOUS
  <2> QED
    BY <1>1, <1>3, <2>2, <2>3
<1> QED
  BY <1>2, <1>3

LEMMA PageType == \A m \in Records : PageOf(m.addr) \in Pages /\ PageOf(m.addr) \in Nat
<1> SUFFICES ASSUME NEW m \in Records PROVE PageOf(m.addr) \in Pages /\ PageOf(m.addr) \in Nat
  OBVIOUS
<1>1. m.addr \in Nat /\ PageSize \in Nat \ {0}
  BY PageAssumption
<1>2. \A a \in Nat, p \in Nat \ {0} : a - (a % p) \in Nat
  <2> SUFFICES ASSUME NEW a \in Nat, NEW p \in Nat \ {0} PROVE a - (a % p) \in Nat
    OBVIOUS
  <2>1. a % p \in 0 .. p - 1 /\ a \div p \in Nat
    OBVIOUS
  <2>2. a = p * (a \div p) + (a % p)
    OBVIOUS
  <2>3. p * (a \div p) \in Nat
    BY <2>1
  <2> QED
    BY <2>1, <2>2, <2>3
<1> QED
  BY <1>1, <1>2 DEF Pages, PageOf

(* A bucket stays one over an error.                                       *)
LEMMA AccountType ==
  ASSUME NEW c \in BucketConf, NEW b \in Bucket, NEW t \in Int, NEW mult \in Nat
  PROVE  bucket_account(c, b, 1, t, mult) \in Bucket
<1> USE DEF BucketConf, Bucket
<1>1. CASE c.capacity = 0
  BY <1>1 DEF bucket_account
<1>2. CASE c.capacity # 0
  <2>1. c.capacity \in Nat \ {0} /\ c.agetime \in Nat \ {0}
    BY <1>2
  <2>2. bucket_age(c, b, t, mult) \in Bucket
    <3>1. CASE t - b.tstamp >= c.agetime
      <4> DEFINE age == Leak(c, t - b.tstamp, mult)
      <4>1. age \in Nat
        <5> DEFINE k == c.capacity * mult
                   d == t - b.tstamp
        <5>1. k \in Nat /\ d \in Nat /\ c.agetime \in Nat \ {0}
          BY <2>1, <3>1
        <5> HIDE DEF k, d
        <5>2. d * k \in Nat
          BY <5>1
        <5>3. (d * k) \div c.agetime \in Nat
          BY <5>1, <5>2
        <5> QED
          BY <5>3 DEF Leak, k, d
      <4> HIDE DEF age
      <4>2. Drain(b, t, age) \in Bucket
        BY <4>1 DEF Drain
      <4> QED
        BY <3>1, <4>2 DEF bucket_age, age
    <3>2. CASE ~ (t - b.tstamp >= c.agetime)
      BY <3>2 DEF bucket_age
    <3> QED
      BY <3>1, <3>2
  <2> DEFINE f == Filled(c, b, 1, t, mult)
  <2>3. f \in Bucket
    BY <2>2 DEF Filled
  <2> HIDE DEF f
  <2>4. [count |-> 0, excess |-> f.excess + f.count, tstamp |-> f.tstamp] \in Bucket
    BY <2>3
  <2> QED
    BY <1>2, <2>3, <2>4 DEF bucket_account, f
<1> QED
  BY <1>1, <1>2

-----------------------------------------------------------------------------
(* One counter.                                                            *)

LEMMA ChargedIs ==
  ASSUME now \in Nat, NEW r \in Mempage
  PROVE  /\ Charged(r) \in Mempage /\ Charged(r).addr = r.addr
         /\ Charged(r).count = r.count + 1 /\ Charged(r).offlined = r.offlined
<1> DEFINE q == bucket_account(page_trigger_conf, r.bucket, 1, now, r.offline_threshold_multiplier)
<1>1. q \in Bucket
  <2>1. /\ r.bucket \in Bucket /\ now \in Int /\ page_trigger_conf \in BucketConf
        /\ r.offline_threshold_multiplier \in Nat
    BY PageAssumption DEF Mempage
  <2> QED
    BY <2>1, AccountType
<1>2. Charged(r) = [r EXCEPT !.count = r.count + 1, !.bucket = q]
  BY DEF Charged
<1> HIDE DEF q
<1> DEFINE n == r.count + 1
<1>3. n \in Nat
  BY DEF Mempage
<1> HIDE DEF n
<1>4. [r EXCEPT !.count = n, !.bucket = q] \in Mempage
  BY <1>1, <1>3 DEF Mempage
<1>5. /\ [r EXCEPT !.count = n, !.bucket = q].addr = r.addr
      /\ [r EXCEPT !.count = n, !.bucket = q].count = n
      /\ [r EXCEPT !.count = n, !.bucket = q].offlined = r.offlined
  BY DEF Mempage
<1> QED
  BY <1>2, <1>4, <1>5 DEF n

LEMMA ActedIs ==
  ASSUME NEW r \in Mempage, NEW res \in memory_offline, conf \in Configs
  PROVE  /\ offline_action(r, res) \in Mempage /\ offline_action(r, res).addr = r.addr
         /\ offline_action(r, res).count = r.count
         /\ offline_action(r, res).offlined = "offline" => r.offlined = "offline" \/ res[2]
<1>1. Backoff(r.offline_threshold_multiplier) \in 0 .. CharValues - 1
  <2>1. r.offline_threshold_multiplier \in Nat /\ CharValues \in Nat /\ CharValues > 0
    BY PageAssumption DEF Mempage
  <2>2. r.offline_threshold_multiplier * (IF conf.retry THEN 2 ELSE 1) \in Nat
    BY <2>1
  <2> QED
    BY <2>1, <2>2 DEF Backoff
<1>2. CASE conf.offline \in {"off", "account"}
  BY <1>2 DEF offline_action
<1>3. CASE conf.offline \notin {"off", "account"} /\ res[2]
  BY <1>3 DEF offline_action, Mempage
<1>4. CASE conf.offline \notin {"off", "account"} /\ ~ res[2]
  <2>1. offline_action(r, res) =
          [r EXCEPT !.offlined = "offline-failed",
                    !.offline_threshold_multiplier = Backoff(r.offline_threshold_multiplier)]
    BY <1>4 DEF offline_action
  <2> QED
    BY <1>1, <2>1 DEF Mempage
<1> QED
  BY <1>2, <1>3, <1>4

(* The end of account_page_error changes one counter, and marks it offline
   only with the kernel's consent.                                         *)
LEMMA ChargeIs ==
  ASSUME TypeOK, NEW s \in Slots, NEW r \in Mempage, r.addr \in Pages, NEW pre, Charge(s, r, pre)
  PROVE  /\ \E q \in Mempage :
              /\ mp' = [mp EXCEPT ![s] = q]
              /\ q.addr = r.addr /\ q.count = r.count + 1
              /\ q.offlined = "offline" => r.offlined = "offline" \/ r.addr \in kernel'
         /\ kernel \subseteq kernel' /\ kernel' \subseteq Pages
         /\ triggered' \in [Pages -> Nat] /\ records' \in Nat
<1>1. now \in Nat /\ conf \in Configs /\ kernel \subseteq Pages /\ triggered \in [Pages -> Nat]
      /\ records \in Nat
  BY DEF TypeOK
<1>2. records' = records + 1
  BY DEF Charge
<1>3. /\ Charged(r) \in Mempage /\ Charged(r).addr = r.addr
      /\ Charged(r).count = r.count + 1 /\ Charged(r).offlined = r.offlined
  BY <1>1, ChargedIs
<1>4. CASE /\ Overflows(page_trigger_conf, r.bucket, 1, now, r.offline_threshold_multiplier)
           /\ ~ Silent(r)
  <2>1. PICK res \in memory_offline :
          /\ mp' = [mp EXCEPT ![s] = offline_action([Charged(r) EXCEPT !.triggered = TRUE], res)]
          /\ kernel' = IF res[2] THEN kernel \cup {r.addr} ELSE kernel
          /\ triggered' = [triggered EXCEPT ![r.addr] = @ + 1]
    BY <1>4 DEF Charge
  <2> DEFINE p == [Charged(r) EXCEPT !.triggered = TRUE]
             q == offline_action(p, res)
  <2>2. p \in Mempage /\ p.addr = r.addr /\ p.count = r.count + 1 /\ p.offlined = r.offlined
    BY <1>3 DEF Mempage
  <2> HIDE DEF p
  <2>3. /\ q \in Mempage /\ q.addr = r.addr /\ q.count = r.count + 1
        /\ q.offlined = "offline" => r.offlined = "offline" \/ res[2]
    BY <1>1, <2>2, ActedIs
  <2>4. mp' = [mp EXCEPT ![s] = q]
    BY <2>1 DEF p
  <2> HIDE DEF q
  <2>5. res[2] => r.addr \in kernel'
    BY <2>1
  <2>6. kernel \subseteq kernel' /\ kernel' \subseteq Pages
    BY <1>1, <2>1
  <2>7. triggered' \in [Pages -> Nat]
    BY <1>1, <2>1
  <2>8. records' \in Nat
    BY <1>1, <1>2
  <2>9. q.offlined = "offline" => r.offlined = "offline" \/ r.addr \in kernel'
    BY <2>3, <2>5
  <2> QED
    BY <2>3, <2>4, <2>6, <2>7, <2>8, <2>9, Zenon
<1>5. CASE ~ (/\ Overflows(page_trigger_conf, r.bucket, 1, now, r.offline_threshold_multiplier)
              /\ ~ Silent(r))
  <2>1. mp' = [mp EXCEPT ![s] = Charged(r)] /\ kernel' = kernel /\ triggered' = triggered
    BY <1>5 DEF Charge
  <2>2. records' \in Nat
    BY <1>1, <1>2
  <2>3. kernel \subseteq kernel' /\ kernel' \subseteq Pages /\ triggered' \in [Pages -> Nat]
    BY <1>1, <2>1
  <2> QED
    BY <1>3, <2>1, <2>2, <2>3, Zenon
<1> QED
  BY <1>4, <1>5

LEMMA FreshIs ==
  ASSUME now \in Nat, NEW page \in Nat
  PROVE  /\ NewMempage(page) \in Mempage /\ NewMempage(page).addr = page
         /\ NewMempage(page).count = 0 /\ NewMempage(page).offlined = "online"
         /\ \A r \in Mempage :
              /\ Reset(r, page) \in Mempage /\ Reset(r, page).addr = page
              /\ Reset(r, page).count = 0 /\ Reset(r, page).offlined = "online"
<1>1. bucket_init(now) \in Bucket
  BY DEF bucket_init, Bucket
<1>2. 1 \in 0 .. CharValues - 1
  BY PageAssumption
<1>3. /\ NewMempage(page) \in Mempage /\ NewMempage(page).addr = page
      /\ NewMempage(page).count = 0 /\ NewMempage(page).offlined = "online"
  BY <1>1, <1>2 DEF NewMempage, Mempage
<1>4. ASSUME NEW r \in Mempage
      PROVE  /\ Reset(r, page) \in Mempage /\ Reset(r, page).addr = page
             /\ Reset(r, page).count = 0 /\ Reset(r, page).offlined = "online"
  BY <1>1, <1>2 DEF Reset, Mempage
<1> QED
  BY <1>3, <1>4

-----------------------------------------------------------------------------
(* The counters.                                                           *)

Owned == /\ OneCounterPerPage /\ CounterIsOwn
         /\ \A s \in tree : mp[s].addr \in Pages

(* A page gets a counter that starts from zero.                            *)
LEMMA NewCounter ==
  ASSUME TypeOK, Owned, NEW s \in Slots, NEW r \in Mempage, NEW page \in Pages, NEW pre,
         r.addr = page, r.count = 0, r.offlined = "online",
         mempage_lookup(page) = {}, tree' = tree \cup {s},
         seen' = [seen EXCEPT ![page] = 1], Charge(s, r, pre)
  PROVE  /\ Owned' /\ mp' \in [Slots -> Mempage] /\ seen' \in [Pages -> Nat]
         /\ kernel' \subseteq Pages /\ triggered' \in [Pages -> Nat] /\ records' \in Nat
<1>1. mp \in [Slots -> Mempage] /\ tree \subseteq Slots /\ seen \in [Pages -> Nat]
  BY DEF TypeOK
<1>2. PICK q \in Mempage :
        /\ mp' = [mp EXCEPT ![s] = q] /\ q.addr = page /\ q.count = 0 + 1
        /\ q.offlined = "offline" => page \in kernel'
  BY ChargeIs
<1>3. /\ kernel \subseteq kernel' /\ kernel' \subseteq Pages
      /\ triggered' \in [Pages -> Nat] /\ records' \in Nat
  BY ChargeIs
<1>4. mp' \in [Slots -> Mempage] /\ seen' \in [Pages -> Nat]
  BY <1>1, <1>2
<1>5. mp'[s] = q /\ \A t \in tree \ {s} : mp'[t] = mp[t] /\ mp[t].addr # page
  BY <1>1, <1>2 DEF mempage_lookup
<1>6. seen'[page] = 1 /\ \A p \in Pages \ {page} : seen'[p] = seen[p]
  BY <1>1
<1>7. \A t \in tree' : t = s \/ t \in tree \ {s}
  OBVIOUS
<1>8. OneCounterPerPage'
  <2>1. \A t, v \in tree \ {s} : mp'[t].addr = mp'[v].addr => t = v
    BY <1>5 DEF Owned, OneCounterPerPage
  <2>2. \A t \in tree \ {s} : mp'[t].addr # mp'[s].addr
    BY <1>2, <1>5
  <2> QED
    BY <1>7, <2>1, <2>2 DEF OneCounterPerPage
<1>9. \A t \in tree' : mp'[t].addr \in Pages
  BY <1>2, <1>5, <1>7 DEF Owned
<1>10. CountIsOwn'
  <2>1. \A t \in tree \ {s} : mp'[t].count = seen'[mp'[t].addr]
    BY <1>5, <1>6 DEF Owned, CounterIsOwn, CountIsOwn
  <2>2. mp'[s].count = seen'[mp'[s].addr]
    BY <1>2, <1>5, <1>6
  <2> QED
    BY <1>7, <2>1, <2>2 DEF CountIsOwn
<1>11. OfflineIsTrue'
  <2>1. \A t \in tree \ {s} : mp'[t].offlined = "offline" => mp'[t].addr \in kernel'
    BY <1>3, <1>5 DEF Owned, CounterIsOwn, OfflineIsTrue
  <2> QED
    BY <1>2, <1>5, <1>7, <2>1 DEF OfflineIsTrue
<1> QED
  BY <1>3, <1>4, <1>8, <1>9, <1>10, <1>11 DEF Owned, CounterIsOwn

(* The counter of a known page counts one more.                            *)
LEMMA OldCounter ==
  ASSUME TypeOK, Owned, NEW page, NEW s \in mempage_lookup(page), tree' = tree,
         seen' = [seen EXCEPT ![page] = @ + 1], Charge(s, mp[s], << >>)
  PROVE  /\ Owned' /\ mp' \in [Slots -> Mempage] /\ seen' \in [Pages -> Nat]
         /\ kernel' \subseteq Pages /\ triggered' \in [Pages -> Nat] /\ records' \in Nat
<1>1. mp \in [Slots -> Mempage] /\ tree \subseteq Slots /\ seen \in [Pages -> Nat]
  BY DEF TypeOK
<1>2. s \in tree /\ s \in Slots /\ mp[s].addr = page /\ page \in Pages /\ mp[s] \in Mempage
  BY <1>1 DEF mempage_lookup, Owned
<1>3. PICK q \in Mempage :
        /\ mp' = [mp EXCEPT ![s] = q] /\ q.addr = page /\ q.count = mp[s].count + 1
        /\ q.offlined = "offline" => mp[s].offlined = "offline" \/ page \in kernel'
  BY <1>2, ChargeIs
<1>4. /\ kernel \subseteq kernel' /\ kernel' \subseteq Pages
      /\ triggered' \in [Pages -> Nat] /\ records' \in Nat
  BY <1>2, ChargeIs
<1>5. mp' \in [Slots -> Mempage]
  BY <1>1, <1>3
<1>6. seen' \in [Pages -> Nat] /\ seen'[page] = seen[page] + 1
      /\ \A p \in Pages \ {page} : seen'[p] = seen[p]
  BY <1>1, <1>2
<1>7. mp'[s] = q /\ \A t \in tree \ {s} : mp'[t] = mp[t]
  BY <1>1, <1>2, <1>3
<1>8. \A t \in tree \ {s} : mp[t].addr # page
  BY <1>2 DEF Owned, OneCounterPerPage
<1>9. \A t \in tree' : t = s \/ t \in tree \ {s}
  OBVIOUS
<1>10. OneCounterPerPage'
  <2>1. \A t, v \in tree \ {s} : mp'[t].addr = mp'[v].addr => t = v
    BY <1>7 DEF Owned, OneCounterPerPage
  <2>2. \A t \in tree \ {s} : mp'[t].addr # mp'[s].addr
    BY <1>3, <1>7, <1>8
  <2> QED
    BY <1>9, <2>1, <2>2 DEF OneCounterPerPage
<1>11. \A t \in tree' : mp'[t].addr \in Pages
  BY <1>2, <1>3, <1>7, <1>9 DEF Owned
<1>12. CountIsOwn'
  <2>1. \A t \in tree \ {s} : mp'[t].count = seen'[mp'[t].addr]
    BY <1>6, <1>7, <1>8 DEF Owned, CounterIsOwn, CountIsOwn
  <2>2. mp'[s].count = seen'[mp'[s].addr]
    BY <1>2, <1>3, <1>6, <1>7 DEF Owned, CounterIsOwn, CountIsOwn
  <2> QED
    BY <1>9, <2>1, <2>2 DEF CountIsOwn
<1>13. OfflineIsTrue'
  <2>1. \A t \in tree \ {s} : mp'[t].offlined = "offline" => mp'[t].addr \in kernel'
    BY <1>4, <1>7 DEF Owned, CounterIsOwn, OfflineIsTrue
  <2>2. mp'[s].offlined = "offline" => mp'[s].addr \in kernel'
    BY <1>2, <1>3, <1>4, <1>7 DEF Owned, CounterIsOwn, OfflineIsTrue
  <2> QED
    BY <1>9, <2>1, <2>2 DEF OfflineIsTrue
<1> QED
  BY <1>4, <1>5, <1>6, <1>10, <1>11, <1>12, <1>13 DEF Owned, CounterIsOwn

-----------------------------------------------------------------------------
(* The list of clusters.                                                   *)

Heads == Clusters \cup {ListHead}

(* The pointers of the clusters in S stay within L.                        *)
Within(l, S, L) ==
  /\ l.next \in [Heads -> Int] /\ l.prev \in [Heads -> Int]
  /\ \A x \in S : l.next[x] \in L /\ l.prev[x] \in L

LEMMA AddIsSafe ==
  ASSUME NEW L, L \subseteq Heads, ListHead \in L, NEW c \in L, c # ListHead, NEW l,
         Within(l, L \ {c}, L), l.next[ListHead] = ListHead \/ l.prev[ListHead] # ListHead
  PROVE  Within(list_add(l, c), L, L) /\ list_add(l, c).prev[ListHead] # ListHead
<1> DEFINE f == l.next[ListHead]
           nx == [l.next EXCEPT ![c] = f, ![ListHead] = c]
           pv == [l.prev EXCEPT ![f] = c, ![c] = ListHead]
<1>1. list_add(l, c).next = nx /\ list_add(l, c).prev = pv
  BY DEF list_add
<1>2. Heads \subseteq Int
  BY PoolSize DEF Heads, ListHead
<1>3. /\ l.next \in [Heads -> Int] /\ l.prev \in [Heads -> Int] /\ f \in L /\ f \in Int
      /\ c \in Heads /\ c \in Int /\ ListHead \in Heads /\ ListHead \in Int /\ f \in Heads
  BY <1>2 DEF Within
<1>4. nx \in [Heads -> Int] /\ pv \in [Heads -> Int]
  BY <1>3
<1>5. \A x \in Heads : nx[x] = IF x = ListHead THEN c ELSE IF x = c THEN f ELSE l.next[x]
  BY <1>3
<1>6. \A x \in Heads : pv[x] = IF x = c THEN ListHead ELSE IF x = f THEN c ELSE l.prev[x]
  BY <1>3
<1> HIDE DEF nx, pv
<1>7. \A x \in L : nx[x] \in L /\ pv[x] \in L
  BY <1>3, <1>5, <1>6 DEF Within
<1>8. pv[ListHead] # ListHead
  BY <1>3, <1>6
<1> QED
  BY <1>1, <1>4, <1>7, <1>8 DEF Within

LEMMA DelIsSafe ==
  ASSUME NEW L, L \subseteq Heads, ListHead \in L, NEW c \in L, c # ListHead, NEW l,
         Within(l, L, L), l.prev[ListHead] # ListHead
  PROVE  /\ Within(list_del(l, c), L \ {c}, L)
         /\ \/ list_del(l, c).next[ListHead] = ListHead
            \/ list_del(l, c).prev[ListHead] # ListHead
<1> DEFINE n == l.next[c]
           p == l.prev[c]
           nx == [l.next EXCEPT ![p] = n, ![c] = Poison]
           pv == [l.prev EXCEPT ![n] = p, ![c] = Poison]
<1>1. list_del(l, c).next = nx /\ list_del(l, c).prev = pv
  BY DEF list_del
<1>2. Heads \subseteq Int /\ Poison \in Int
  BY PoolSize DEF Heads, ListHead, Poison
<1>3. /\ l.next \in [Heads -> Int] /\ l.prev \in [Heads -> Int]
      /\ n \in L /\ p \in L /\ n \in Heads /\ p \in Heads /\ n \in Int /\ p \in Int
      /\ c \in Heads /\ ListHead \in Heads
  BY <1>2 DEF Within
<1>4. nx \in [Heads -> Int] /\ pv \in [Heads -> Int]
  BY <1>2, <1>3
<1>5. \A x \in Heads : nx[x] = IF x = c THEN Poison ELSE IF x = p THEN n ELSE l.next[x]
  BY <1>3
<1>6. \A x \in Heads : pv[x] = IF x = c THEN Poison ELSE IF x = n THEN p ELSE l.prev[x]
  BY <1>3
<1> HIDE DEF nx, pv, n, p
<1>7. \A x \in L \ {c} : nx[x] \in L /\ pv[x] \in L
  BY <1>3, <1>5, <1>6 DEF Within
<1>8. nx[ListHead] = ListHead \/ pv[ListHead] # ListHead
  BY <1>3, <1>5, <1>6
<1> QED
  BY <1>1, <1>4, <1>7, <1>8 DEF Within

LEMMA UpdateIsSafe ==
  ASSUME NEW L, L \subseteq Heads, ListHead \in L, NEW c \in L, c # ListHead, NEW l,
         Within(l, L, L), l.prev[ListHead] # ListHead
  PROVE  /\ Within(mempage_cluster_lru_list_update(l, c), L, L)
         /\ mempage_cluster_lru_list_update(l, c).prev[ListHead] # ListHead
<1>1. CASE l.next[ListHead] = c
  BY <1>1 DEF mempage_cluster_lru_list_update
<1>2. CASE l.next[ListHead] # c
  <2>1. mempage_cluster_lru_list_update(l, c) = list_add(list_del(l, c), c)
    BY <1>2 DEF mempage_cluster_lru_list_update
  <2> QED
    BY <2>1, DelIsSafe, AddIsSafe
<1> QED
  BY <1>1, <1>2

-----------------------------------------------------------------------------
(* The pool.                                                               *)

LEMMA SlotsAre ==
  /\ \A c, i : <<c, i>> \in Slots <=> c \in 1 .. K /\ i \in 1 .. N
  /\ \A s \in Slots : s = <<s[1], s[2]>> /\ s[1] \in 1 .. K /\ s[2] \in 1 .. N
BY PoolSize DEF Slots

(* A cluster is in use from its first counter on.                          *)
LEMMA InUse == ASSUME PoolInv, NEW s \in tree, TypeOK PROVE <<s[1], 1>> \in tree /\ s[1] \in Clusters
<1>1. s \in Slots /\ s[1] \in 1 .. K /\ s[2] \in 1 .. N /\ <<s[1], 1>> \in Slots
  <2>1. s \in Slots
    BY DEF TypeOK
  <2>2. s[1] \in 1 .. K /\ s[2] \in 1 .. N
    BY <2>1, SlotsAre
  <2>3. 1 \in 1 .. N
    BY PoolSize
  <2> QED
    BY <2>1, <2>2, <2>3, SlotsAre
<1>2. s[1] \in Clusters
  BY <1>1, PoolSize
<1>3. CASE tree = Slots
  BY <1>1, <1>2, <1>3
<1>4. CASE tree = Handed(mp_cluster, mp_used[mp_cluster])
  <2>1. mp_used[mp_cluster] \in 1 .. N \/ tree = {} \/ tree = Slots
    BY DEF PoolInv
  <2>2. s[1] < mp_cluster \/ (s[1] = mp_cluster /\ s[2] <= mp_used[mp_cluster])
    BY <1>4 DEF Handed
  <2>3. <<s[1], 1>>[1] = s[1] /\ <<s[1], 1>>[2] = 1
    OBVIOUS
  <2>4. CASE mp_used[mp_cluster] \in 1 .. N
    <3>1. 1 <= mp_used[mp_cluster]
      BY <2>4, PoolSize
    <3>2. <<s[1], 1>> \in Handed(mp_cluster, mp_used[mp_cluster])
      BY <1>1, <2>2, <2>3, <3>1 DEF Handed
    <3> QED
      BY <1>2, <1>4, <3>2
  <2> QED
    BY <1>3, <2>1, <2>4
<1> QED
  BY <1>3, <1>4 DEF PoolInv

(* mempage_alloc takes the slot after the last one handed out.             *)
LEMMA AllocIsNext ==
  ASSUME TypeOK, PoolInv, corr_err_counters < max_corr_err_counters
  PROVE  LET s == AllocSlot IN
         /\ s \in Slots /\ s \notin tree /\ s[1] \in 1 .. K /\ s[2] \in 1 .. N
         /\ corr_err_counters + 1 = (s[1] - 1) * N + s[2]
         /\ tree \cup {s} = Handed(s[1], s[2])
         /\ <<s[1], 1>> \in tree \cup {s}
<1> USE PoolSize
<1>1. mp_used \in [Clusters -> 0 .. N] /\ corr_err_counters \in Nat
  BY DEF TypeOK
<1>2. CASE mp_cluster = ListHead
  <2>1. AllocSlot = <<1, 1>> /\ corr_err_counters = 0 /\ tree = {}
    BY <1>2 DEF AllocSlot, PoolInv, ListHead
  <2>2. <<1, 1>> \in Slots
    BY SlotsAre
  <2>3. Handed(1, 1) = {<<1, 1>>}
    BY <2>2, SlotsAre DEF Handed
  <2>4. (1 - 1) * N + 1 = 1
    OBVIOUS
  <2> QED
    BY <2>1, <2>2, <2>3, <2>4
<1>3. CASE mp_cluster # ListHead
  <2> DEFINE k == mp_cluster
             u == mp_used[mp_cluster]
  <2>1. /\ k \in 1 .. K /\ u \in 1 .. N
        /\ corr_err_counters = (k - 1) * N + u /\ tree = Handed(k, u)
    BY <1>1, <1>3 DEF PoolInv
  <2> HIDE DEF k, u
  <2>2. CASE u = N
    <3>1. AllocSlot = <<k + 1, 1>>
      BY <1>3, <2>2 DEF AllocSlot, k, u
    <3>2. k # K
      BY <2>1, <2>2, Rounds
    <3>3. k + 1 \in 1 .. K
      BY <2>1, <3>2
    <3>4. <<k + 1, 1>> \in Slots /\ <<k + 1, 1>>[1] = k + 1 /\ <<k + 1, 1>>[2] = 1
      BY <3>3, SlotsAre
    <3>5. <<k + 1, 1>> \notin Handed(k, u)
      BY <2>1, <3>4 DEF Handed
    <3>6. Handed(k, u) \cup {<<k + 1, 1>>} = Handed(k + 1, 1)
      <4>1. ASSUME NEW s \in Slots PROVE s \in Handed(k + 1, 1) <=> s \in Handed(k, u) \/ s = <<k + 1, 1>>
        <5>1. s = <<s[1], s[2]>> /\ s[1] \in 1 .. K /\ s[2] \in 1 .. N
          BY <4>1, SlotsAre
        <5>2. s \in Handed(k + 1, 1) <=> s[1] < k + 1 \/ (s[1] = k + 1 /\ s[2] <= 1)
          BY <4>1 DEF Handed
        <5>3. s \in Handed(k, u) <=> s[1] < k \/ (s[1] = k /\ s[2] <= u)
          BY <4>1 DEF Handed
        <5>4. s[1] = k + 1 /\ s[2] <= 1 <=> s = <<k + 1, 1>>
          BY <5>1, <3>4
        <5> QED
          BY <2>1, <2>2, <5>1, <5>2, <5>3, <5>4
      <4> QED
        BY <3>4, <4>1 DEF Handed
    <3>7. corr_err_counters + 1 = ((k + 1) - 1) * N + 1
      <4>1. (k - 1) * N + N = k * N
        BY <2>1
      <4> QED
        BY <2>1, <2>2, <4>1
    <3> QED
      BY <2>1, <3>1, <3>3, <3>4, <3>5, <3>6, <3>7
  <2>3. CASE u # N
    <3>1. AllocSlot = <<k, u + 1>>
      BY <1>3, <2>3 DEF AllocSlot, k, u
    <3>2. u + 1 \in 1 .. N
      BY <2>1, <2>3
    <3>3. <<k, u + 1>> \in Slots /\ <<k, u + 1>>[1] = k /\ <<k, u + 1>>[2] = u + 1
      BY <2>1, <3>2, SlotsAre
    <3>4. <<k, u + 1>> \notin Handed(k, u)
      BY <2>1, <3>3 DEF Handed
    <3>5. Handed(k, u) \cup {<<k, u + 1>>} = Handed(k, u + 1)
      <4>1. ASSUME NEW s \in Slots PROVE s \in Handed(k, u + 1) <=> s \in Handed(k, u) \/ s = <<k, u + 1>>
        <5>1. s = <<s[1], s[2]>> /\ s[1] \in 1 .. K /\ s[2] \in 1 .. N
          BY <4>1, SlotsAre
        <5>2. s \in Handed(k, u + 1) <=> s[1] < k \/ (s[1] = k /\ s[2] <= u + 1)
          BY <4>1 DEF Handed
        <5>3. s \in Handed(k, u) <=> s[1] < k \/ (s[1] = k /\ s[2] <= u)
          BY <4>1 DEF Handed
        <5>4. s[1] = k /\ s[2] = u + 1 <=> s = <<k, u + 1>>
          BY <5>1, <3>3
        <5> QED
          BY <2>1, <5>1, <5>2, <5>3, <5>4
      <4> QED
        BY <3>3, <4>1 DEF Handed
    <3>6. corr_err_counters + 1 = (k - 1) * N + (u + 1)
      <4>1. (k - 1) * N \in Nat
        BY <2>1
      <4> QED
        BY <2>1, <4>1
    <3>7. <<k, 1>> \in Handed(k, u)
      <4>1. <<k, 1>> \in Slots /\ <<k, 1>>[1] = k /\ <<k, 1>>[2] = 1
        BY <2>1, SlotsAre
      <4> QED
        BY <2>1, <4>1 DEF Handed
    <3> QED
      BY <2>1, <3>1, <3>2, <3>3, <3>4, <3>5, <3>6, <3>7
  <2> QED
    BY <2>2, <2>3
<1> QED
  BY <1>2, <1>3

(* mempage_replace takes a slot that is in the tree.                       *)
LEMMA ReplaceIsUsed ==
  ASSUME TypeOK, TreeMatchesPool, PoolInv, ListInv, corr_err_counters >= max_corr_err_counters
  PROVE  /\ corr_err_counters = max_corr_err_counters /\ tree = Slots /\ mp_cluster \in Clusters
         /\ ReplaceSlot \in Slots /\ ReplaceSlot[1] \in Clusters /\ ReplaceSlot[2] \in 1 .. N
<1> USE PoolSize
<1>1. corr_err_counters = max_corr_err_counters /\ tree = Slots
  BY DEF TypeOK, TreeMatchesPool
<1>2. K * N > 0
  BY Rounds
<1>3. mp_cluster \in Clusters /\ mp_used[mp_cluster] \in 1 .. N
  BY <1>1, <1>2 DEF PoolInv
<1>4. CASE mp_used[mp_cluster] = N
  <2>1. ReplaceSlot = <<lru.prev[ListHead], 1>>
    BY <1>4 DEF ReplaceSlot
  <2>2. <<1, 1>> \in tree
    BY <1>1, SlotsAre
  <2>3. lru.prev[ListHead] \in Clusters
    BY <2>2 DEF ListInv, Linked
  <2> QED
    BY <1>1, <1>3, <2>1, <2>3, SlotsAre
<1>5. CASE mp_used[mp_cluster] # N
  <2>1. ReplaceSlot = <<mp_cluster, mp_used[mp_cluster] + 1>>
    BY <1>5 DEF ReplaceSlot
  <2>2. mp_used[mp_cluster] + 1 \in 1 .. N
    BY <1>3, <1>5
  <2> QED
    BY <1>1, <1>3, <2>1, <2>2, SlotsAre
<1> QED
  BY <1>4, <1>5

-----------------------------------------------------------------------------
(* The steps.                                                              *)

LEMMA InitIInv == ASSUME Init PROVE IInv
<1> USE PoolSize DEF Init
<1>1. TypeOK
  <2>1. 0 \in Nat /\ NewMempage(0) \in Mempage
    BY FreshIs
  <2>2. mp \in [Slots -> Mempage]
    BY <2>1
  <2>3. mp_used \in [Clusters -> 0 .. N] /\ corr_err_counters \in 0 .. max_corr_err_counters
    OBVIOUS
  <2>4. mp_replacement \in [bucket: Bucket, count: Nat]
    BY DEF bucket_init, Bucket
  <2>5. seen \in [Pages -> Nat] /\ triggered \in [Pages -> Nat]
    OBVIOUS
  <2> QED
    BY <2>1, <2>2, <2>3, <2>4, <2>5 DEF TypeOK
<1>2. IsFiniteSet(tree) /\ Cardinality(tree) = 0
  BY FS_EmptySet
<1>3. max_corr_err_counters # 0
  BY Rounds
<1>4. TreeMatchesPool /\ OneCounterPerPage /\ CounterIsOwn
  BY <1>2, <1>3 DEF TreeMatchesPool, OneCounterPerPage, CounterIsOwn, CountIsOwn, OfflineIsTrue
<1>5. PoolInv
  BY DEF PoolInv
<1>6. ListInv
  <2>1. Linked = {ListHead} /\ ListHead \in Int
    BY DEF Linked, ListHead
  <2> QED
    BY <2>1 DEF ListInv
<1> QED
  BY <1>1, <1>2, <1>4, <1>5, <1>6 DEF IInv, PoolConsistent

(* The list stays safe when the last used cluster is moved to its front.   *)
LEMMA MoveIsSafe ==
  ASSUME TypeOK, PoolInv, ListInv, NEW s \in tree, tree' = tree,
         lru' = mempage_cluster_lru_list_update(lru, s[1])
  PROVE  ListInv'
<1>1. <<s[1], 1>> \in tree /\ s[1] \in Clusters
  BY InUse
<1>2. /\ Linked \subseteq Heads /\ ListHead \in Linked /\ s[1] \in Linked
      /\ s[1] # ListHead /\ Linked' = Linked
  BY <1>1, PoolSize DEF Linked, Heads, ListHead
<1>3. Within(lru, Linked, Linked) /\ lru.prev[ListHead] # ListHead
  BY DEF ListInv, Within, Heads
<1>4. Within(lru', Linked, Linked) /\ lru'.prev[ListHead] # ListHead
  BY <1>2, <1>3, UpdateIsSafe
<1> QED
  BY <1>2, <1>4 DEF ListInv, Within, Heads

LEMMA KnownKeepsInv == ASSUME IInv, NEW page \in Pages, KnownPage(page) PROVE IInv'
<1>1. /\ TypeOK /\ OneCounterPerPage /\ TreeMatchesPool /\ PoolInv /\ ListInv /\ Owned
      /\ IsFiniteSet(tree)
  BY DEF IInv, PoolConsistent, Owned
<1>2. PICK s \in mempage_lookup(page) :
        /\ lru' = mempage_cluster_lru_list_update(lru, s[1])
        /\ seen' = [seen EXCEPT ![page] = @ + 1]
        /\ Charge(s, mp[s], << >>)
        /\ UNCHANGED <<conf, now, tree, mp_used, mp_cluster, corr_err_counters, mp_replacement>>
  BY DEF KnownPage
<1>3. s \in tree /\ tree' = tree
  BY <1>2 DEF mempage_lookup
<1>4. /\ Owned' /\ mp' \in [Slots -> Mempage] /\ seen' \in [Pages -> Nat]
      /\ kernel' \subseteq Pages /\ triggered' \in [Pages -> Nat] /\ records' \in Nat
  BY <1>1, <1>2, <1>3, OldCounter
<1>5. TypeOK'
  BY <1>1, <1>2, <1>4 DEF TypeOK
<1>6. TreeMatchesPool' /\ PoolInv' /\ IsFiniteSet(tree')
  BY <1>1, <1>2 DEF TreeMatchesPool, PoolInv
<1>7. ListInv'
  BY <1>1, <1>2, <1>3, MoveIsSafe
<1> QED
  BY <1>4, <1>5, <1>6, <1>7 DEF IInv, PoolConsistent, Owned

LEMMA AllocKeepsInv == ASSUME IInv, NEW page \in Pages, page \in Nat, mempage_alloc(page) PROVE IInv'
<1> USE PoolSize
<1>1. /\ TypeOK /\ OneCounterPerPage /\ TreeMatchesPool /\ PoolInv /\ ListInv /\ Owned
      /\ IsFiniteSet(tree)
  BY DEF IInv, PoolConsistent, Owned
<1> DEFINE s == AllocSlot
           c == s[1]
<1>2. /\ mempage_lookup(page) = {} /\ corr_err_counters < max_corr_err_counters
      /\ mp_cluster' = c /\ mp_used' = [mp_used EXCEPT ![c] = s[2]]
      /\ tree' = tree \cup {s} /\ lru' = list_add(lru, c)
      /\ corr_err_counters' = corr_err_counters + 1
      /\ seen' = [seen EXCEPT ![page] = 1]
      /\ Charge(s, NewMempage(page), << >>)
      /\ UNCHANGED <<conf, now, mp_replacement>>
  BY DEF mempage_alloc
<1>3. /\ s \in Slots /\ s \notin tree /\ c \in 1 .. K /\ s[2] \in 1 .. N
      /\ corr_err_counters + 1 = (c - 1) * N + s[2]
      /\ tree \cup {s} = Handed(c, s[2]) /\ <<c, 1>> \in tree \cup {s}
  BY <1>1, <1>2, AllocIsNext
<1> HIDE DEF s
<1>4. /\ NewMempage(page) \in Mempage /\ NewMempage(page).addr = page
      /\ NewMempage(page).count = 0 /\ NewMempage(page).offlined = "online"
  BY <1>1, FreshIs DEF TypeOK
<1>5. /\ Owned' /\ mp' \in [Slots -> Mempage] /\ seen' \in [Pages -> Nat]
      /\ kernel' \subseteq Pages /\ triggered' \in [Pages -> Nat] /\ records' \in Nat
  BY <1>1, <1>2, <1>3, <1>4, NewCounter
<1>6. mp_used' \in [Clusters -> 0 .. N] /\ mp_used'[c] = s[2] /\ c \in Clusters
  BY <1>1, <1>2, <1>3, SMTT(40) DEF TypeOK
<1>7. corr_err_counters' \in 0 .. max_corr_err_counters
  BY <1>1, <1>2 DEF TypeOK
<1>8. TypeOK'
  <2>1. tree' \subseteq Slots
    BY <1>1, <1>2, <1>3 DEF TypeOK
  <2> QED
    BY <1>1, <1>2, <1>5, <1>6, <1>7, <2>1 DEF TypeOK
<1>9. PoolInv'
  BY <1>2, <1>3, <1>6 DEF PoolInv, Handed
<1>10. IsFiniteSet(tree') /\ Cardinality(tree') = corr_err_counters'
  BY <1>1, <1>2, <1>3, FS_AddElement DEF TreeMatchesPool
<1>11. corr_err_counters' = max_corr_err_counters => tree' = Slots
  <2> SUFFICES ASSUME corr_err_counters' = max_corr_err_counters PROVE tree' = Slots
    OBVIOUS
  <2>1. c = K /\ s[2] = N
    BY <1>2, <1>3, Rounds, SMTT(40)
  <2>2. \A x \in Slots : x \in Handed(K, N)
    BY SlotsAre DEF Handed
  <2> QED
    BY <1>2, <1>3, <2>1, <2>2 DEF Handed
<1>12. ListInv'
  <2> DEFINE L == Linked'
  <2>1. L = Linked \cup {c}
    <3>1. \A d \in Clusters : <<d, 1>> \in tree' <=> <<d, 1>> \in tree \/ d = c
      <4>1. s = <<c, s[2]>>
        BY <1>3, SlotsAre
      <4> QED
        BY <1>2, <1>3, <4>1
    <3> QED
      BY <1>6, <3>1 DEF Linked
  <2>2. L \subseteq Heads /\ ListHead \in L /\ c \in L /\ c # ListHead
    BY <1>3, <1>6, <2>1 DEF Linked, Heads, ListHead
  <2>3. Within(lru, L \ {c}, L)
    BY <1>1, <2>1 DEF ListInv, Within, Heads
  <2>4. lru.next[ListHead] = ListHead \/ lru.prev[ListHead] # ListHead
    <3>1. CASE tree = {}
      BY <1>1, <3>1 DEF ListInv, Linked
    <3>2. CASE tree # {}
      BY <1>1, <3>2 DEF ListInv
    <3> QED
      BY <3>1, <3>2
  <2> HIDE DEF L
  <2>5. Within(lru', L, L) /\ lru'.prev[ListHead] # ListHead
    BY <1>2, <2>2, <2>3, <2>4, AddIsSafe
  <2> QED
    BY <2>5 DEF L, ListInv, Within, Heads
<1> QED
  BY <1>5, <1>8, <1>9, <1>10, <1>11, <1>12 DEF IInv, PoolConsistent, TreeMatchesPool, Owned

LEMMA ReplaceKeepsInv ==
  ASSUME IInv, NEW page \in Pages, page \in Nat, mempage_replace(page)
  PROVE  IInv'
<1> USE PoolSize
<1>1. /\ TypeOK /\ OneCounterPerPage /\ TreeMatchesPool /\ PoolInv /\ ListInv /\ Owned
      /\ IsFiniteSet(tree)
  BY DEF IInv, PoolConsistent, Owned
<1> DEFINE s == ReplaceSlot
           c == s[1]
           bk == bucket_account(mp_replacement_trigger_conf, mp_replacement.bucket, 1, now, 1)
           pre == IF Overflows(mp_replacement_trigger_conf, mp_replacement.bucket, 1, now, 1)
                    THEN <<"page-error-counter">> ELSE << >>
<1>2. /\ mempage_lookup(page) = {} /\ corr_err_counters >= max_corr_err_counters
      /\ mp_cluster' = c /\ mp_used' = [mp_used EXCEPT ![c] = s[2]]
      /\ tree' = (tree \ {s}) \cup {s} /\ lru' = mempage_cluster_lru_list_update(lru, c)
      /\ mp_replacement' = [bucket |-> bk, count |-> mp_replacement.count + 1]
      /\ seen' = [seen EXCEPT ![page] = 1]
      /\ Charge(s, Reset(mp[s], page), pre)
      /\ UNCHANGED <<conf, now, corr_err_counters>>
  BY DEF mempage_replace
<1>3. /\ corr_err_counters = max_corr_err_counters /\ tree = Slots /\ mp_cluster \in Clusters
      /\ s \in Slots /\ c \in Clusters /\ s[2] \in 1 .. N
  BY <1>1, <1>2, ReplaceIsUsed
<1>4. mp_replacement' \in [bucket: Bucket, count: Nat]
  <2>1. mp_replacement.bucket \in Bucket /\ mp_replacement.count + 1 \in Nat
        /\ now \in Int /\ mp_replacement_trigger_conf \in BucketConf
    BY <1>1, PageAssumption DEF TypeOK
  <2>2. bk \in Bucket
    BY <2>1, AccountType
  <2> HIDE DEF bk
  <2> QED
    BY <1>2, <2>1, <2>2
<1> HIDE DEF s, bk, pre
<1>5. /\ Reset(mp[s], page) \in Mempage /\ Reset(mp[s], page).addr = page
      /\ Reset(mp[s], page).count = 0 /\ Reset(mp[s], page).offlined = "online"
  <2>1. mp[s] \in Mempage /\ now \in Nat
    BY <1>1, <1>3 DEF TypeOK
  <2> QED
    BY <2>1, FreshIs
<1>6. tree' = tree \cup {s} /\ tree' = tree /\ s \in tree
  BY <1>2, <1>3
<1>7. /\ Owned' /\ mp' \in [Slots -> Mempage] /\ seen' \in [Pages -> Nat]
      /\ kernel' \subseteq Pages /\ triggered' \in [Pages -> Nat] /\ records' \in Nat
  BY <1>1, <1>2, <1>3, <1>5, <1>6, NewCounter
<1>8. mp_used' \in [Clusters -> 0 .. N] /\ mp_used'[c] = s[2]
  BY <1>1, <1>2, <1>3 DEF TypeOK
<1>9. TypeOK'
  BY <1>1, <1>2, <1>3, <1>4, <1>6, <1>7, <1>8 DEF TypeOK
<1>10. PoolInv'
  BY <1>2, <1>3, <1>6, <1>8 DEF PoolInv
<1>11. TreeMatchesPool' /\ IsFiniteSet(tree')
  BY <1>1, <1>2, <1>6 DEF TreeMatchesPool
<1>12. ListInv'
  BY <1>1, <1>2, <1>6, MoveIsSafe
<1> QED
  BY <1>7, <1>9, <1>10, <1>11, <1>12 DEF IInv, PoolConsistent, Owned

LEMMA NextIInv == ASSUME IInv, [Next]_vars PROVE IInv'
<1>1. ASSUME NEW r \in Records, account_page_error(r) PROVE IInv'
  <2>1. PageOf(r.addr) \in Pages /\ PageOf(r.addr) \in Nat
    BY PageType
  <2> QED
    BY <1>1, <2>1, KnownKeepsInv, AllocKeepsInv, ReplaceKeepsInv DEF account_page_error
<1>2. CASE Tick \/ UNCHANGED vars
  <2>1. /\ UNCHANGED <<conf, mp, tree, mp_used, mp_cluster, corr_err_counters, lru,
                       mp_replacement, kernel, seen, triggered, records>>
        /\ now' = now \/ now' = now + 1
    BY <1>2 DEF Tick, vars
  <2>2. TypeOK'
    BY <2>1 DEF IInv, PoolConsistent, TypeOK
  <2>3. OneCounterPerPage' /\ TreeMatchesPool' /\ CounterIsOwn'
    BY <2>1 DEF IInv, PoolConsistent, OneCounterPerPage, TreeMatchesPool, CounterIsOwn, CountIsOwn,
                OfflineIsTrue
  <2>4. PoolInv' /\ ListInv' /\ IsFiniteSet(tree') /\ \A s \in tree' : mp'[s].addr \in Pages
    BY <2>1 DEF IInv, PoolInv, ListInv, Linked
  <2> QED
    BY <2>2, <2>3, <2>4 DEF IInv, PoolConsistent
<1> QED
  BY <1>1, <1>2 DEF Next

LEMMA AlwaysIInv == Spec => []IInv
  BY InitIInv, NextIInv, PTL DEF Spec

-----------------------------------------------------------------------------
(* The least element of a set of naturals, for the inductions below: on the
   size of a set, and on the number of attempts.                           *)

LessThan == OpToRel(<, Nat)

LEMMA LeastExists ==
  ASSUME NEW T \in SUBSET Nat, T # {}
  PROVE  \E x \in T : \A y \in T : x <= y
<1>1. IsWellFoundedOn(LessThan, Nat)
  BY NatLessThanWellFounded DEF LessThan
<1>2. \A a, b \in Nat : a < b => <<a, b>> \in LessThan
  BY DEF LessThan, OpToRel
<1>3. T \subseteq Nat
  OBVIOUS
<1>4. PICK x \in T : \A y \in T : ~ (<<y, x>> \in LessThan)
  BY <1>1, <1>3, WFMin
<1>5. ASSUME NEW y \in T PROVE x <= y
  <2>1. x \in Nat /\ y \in Nat
    OBVIOUS
  <2>2. ~ (y < x)
    BY <1>2, <1>4, <2>1
  <2> QED
    BY <2>1, <2>2
<1> QED
  BY <1>4, <1>5

(* Induction: a set of naturals without 0 and without a successor of a number
   outside it is empty.                                                    *)
LEMMA NothingLeft ==
  ASSUME NEW T \in SUBSET Nat, 0 \notin T, \A n \in Nat : n \notin T => n + 1 \notin T
  PROVE  T = {}
<1> SUFFICES ASSUME T # {} PROVE FALSE
  OBVIOUS
<1>1. PICK x \in T : \A y \in T : x <= y
  BY LeastExists
<1>2. x \in Nat /\ x # 0
  OBVIOUS
<1>3. x - 1 \in Nat /\ (x - 1) + 1 = x /\ ~ (x <= x - 1)
  BY <1>2
<1>4. x - 1 \notin T
  BY <1>1, <1>3
<1> QED
  BY <1>3, <1>4

-----------------------------------------------------------------------------
(* Doubled *)

(* Doubled up to n.                                                        *)
Doubling(f, n) == f = [k \in 0 .. n |-> IF k = 0 THEN 1 ELSE 2 * f[k - 1]]

LEMMA DoublingExists == \A n \in Nat : \E f : Doubling(f, n)
<1> DEFINE T == {n \in Nat : ~ \E f : Doubling(f, n)}
<1>1. 0 \notin T
  <2>1. Doubling([k \in 0 .. 0 |-> 1], 0)
    BY DEF Doubling
  <2> QED
    BY <2>1
<1>2. ASSUME NEW n \in Nat, n \notin T PROVE n + 1 \notin T
  <2>1. PICK f : Doubling(f, n)
    BY <1>2
  <2> DEFINE g == [k \in 0 .. n + 1 |-> IF k = 0 THEN 1 ELSE 2 * f[k - 1]]
  <2>2. \A k \in 0 .. n : f[k] = g[k]
    BY <2>1 DEF Doubling
  <2>3. \A k \in 0 .. n + 1 : k # 0 => k - 1 \in 0 .. n
    OBVIOUS
  <2>4. \A k \in 0 .. n + 1 : k # 0 => f[k - 1] = g[k - 1]
    BY <2>2, <2>3
  <2>5. Doubling(g, n + 1)
    BY <2>4 DEF Doubling
  <2> QED
    BY <2>5
<1>3. T \in SUBSET Nat
  OBVIOUS
<1>4. \A n \in Nat : n \notin T => n + 1 \notin T
  BY <1>2
<1> HIDE DEF T
<1>5. T = {}
  BY <1>1, <1>3, <1>4, NothingLeft
<1> QED
  BY <1>5 DEF T

(* Two of them agree where both are defined.                               *)
LEMMA DoublingUnique ==
  ASSUME NEW n \in Nat, NEW m \in Nat, NEW f, Doubling(f, n), NEW g, Doubling(g, m)
  PROVE  \A k \in Nat : k <= n /\ k <= m => f[k] = g[k]
<1> DEFINE T == {k \in Nat : k <= n /\ k <= m /\ f[k] # g[k]}
<1>1. 0 \notin T
  BY DEF Doubling
<1>2. ASSUME NEW k \in Nat, k \notin T PROVE k + 1 \notin T
  <2> SUFFICES ASSUME k + 1 <= n, k + 1 <= m PROVE f[k + 1] = g[k + 1]
    OBVIOUS
  <2>1. f[k] = g[k]
    BY <1>2
  <2>2. k + 1 \in 0 .. n /\ k + 1 \in 0 .. m /\ k + 1 # 0 /\ (k + 1) - 1 = k
    OBVIOUS
  <2>3. f[k + 1] = 2 * f[k]
    BY <2>2 DEF Doubling
  <2>4. g[k + 1] = 2 * g[k]
    BY <2>2 DEF Doubling
  <2> QED
    BY <2>1, <2>3, <2>4
<1>3. T \in SUBSET Nat
  OBVIOUS
<1>4. \A k \in Nat : k \notin T => k + 1 \notin T
  BY <1>2
<1> HIDE DEF T
<1>5. T = {}
  BY <1>1, <1>3, <1>4, NothingLeft
<1> QED
  BY <1>5 DEF T

LEMMA DoubledIs ==
  /\ Doubled[0] = 1
  /\ \A k \in Nat : Doubled[k + 1] = 2 * Doubled[k]
<1> DEFINE Is(f) == f = [k \in Nat |-> IF k = 0 THEN 1 ELSE 2 * f[k - 1]]
           upto(k) == CHOOSE f : Doubling(f, k)
           d == [k \in Nat |-> upto(k)[k]]
<1>1. \A k \in Nat : Doubling(upto(k), k)
  BY DoublingExists
<1> HIDE DEF upto
<1>2. ASSUME NEW k \in Nat PROVE d[k] = IF k = 0 THEN 1 ELSE 2 * d[k - 1]
  <2>1. Doubling(upto(k), k) /\ k \in 0 .. k
    BY <1>1
  <2>2. upto(k)[k] = IF k = 0 THEN 1 ELSE 2 * upto(k)[k - 1]
    BY <2>1 DEF Doubling
  <2>3. CASE k # 0
    <3>1. k - 1 \in Nat /\ k - 1 <= k /\ k - 1 <= k - 1
      BY <2>3
    <3>2. Doubling(upto(k - 1), k - 1)
      BY <1>1, <3>1
    <3>3. upto(k)[k - 1] = upto(k - 1)[k - 1]
      BY <2>1, <3>1, <3>2, DoublingUnique
    <3> QED
      BY <2>2, <2>3, <3>1, <3>3
  <2> QED
    BY <2>2, <2>3
<1>3. Is(d)
  BY <1>2
<1>4. Doubled = CHOOSE f : Is(f)
  BY Zenon DEF Doubled
<1>5. Is(Doubled)
  BY <1>3, <1>4
<1>6. \A k \in Nat : Doubled[k] = IF k = 0 THEN 1 ELSE 2 * Doubled[k - 1]
  BY <1>5
<1>7. \A k \in Nat : k + 1 \in Nat /\ k + 1 # 0 /\ (k + 1) - 1 = k
  OBVIOUS
<1> QED
  BY <1>6, <1>7

LEMMA DoubledType == \A k \in Nat : Doubled[k] \in Nat /\ Doubled[k] >= 1
<1> DEFINE T == {k \in Nat : ~ (Doubled[k] \in Nat /\ Doubled[k] >= 1)}
<1>1. 0 \notin T
  BY DoubledIs
<1>2. \A k \in Nat : k \notin T => k + 1 \notin T
  BY DoubledIs
<1>3. T \in SUBSET Nat
  OBVIOUS
<1> HIDE DEF T
<1>4. T = {}
  BY <1>1, <1>2, <1>3, NothingLeft
<1> QED
  BY <1>4 DEF T

-----------------------------------------------------------------------------
(* Sums over a finite set *)

SumOf(t, S) == MapThenSumSet(LAMBDA p : t[p], S)

\* The element MapThenSumSet takes out of a set next.
Taken(u) == CHOOSE x \in u : TRUE

Small(S, n) == {u \in SUBSET S : Cardinality(u) <= n}

(* The sums of t over the subsets of S with up to n elements.              *)
Summing(f, t, S, n) ==
  f = [u \in Small(S, n) |-> IF u = {} THEN 0 ELSE t[Taken(u)] + f[u \ {Taken(u)}]]

LEMMA TakenLess ==
  ASSUME NEW S, IsFiniteSet(S), NEW u \in SUBSET S, u # {}
  PROVE  /\ Taken(u) \in u /\ u \ {Taken(u)} \in SUBSET S
         /\ Cardinality(u) \in Nat \ {0}
         /\ Cardinality(u \ {Taken(u)}) = Cardinality(u) - 1
<1>1. IsFiniteSet(u)
  BY FS_Subset
<1>2. Taken(u) \in u
  BY DEF Taken
<1>3. Cardinality(u) \in Nat /\ Cardinality(u) # 0
  BY <1>1, FS_CardinalityType, FS_EmptySet
<1>4. Cardinality(u \ {Taken(u)}) = Cardinality(u) - 1
  BY <1>1, <1>2, FS_RemoveElement
<1> QED
  BY <1>2, <1>3, <1>4

LEMMA SummingExists ==
  ASSUME NEW S, IsFiniteSet(S), NEW t
  PROVE  \A n \in Nat : \E f : Summing(f, t, S, n)
<1> DEFINE T == {n \in Nat : ~ \E f : Summing(f, t, S, n)}
<1>1. 0 \notin T
  <2>1. ASSUME NEW u \in Small(S, 0) PROVE u = {}
    <3>1. u \in SUBSET S /\ Cardinality(u) <= 0
      BY DEF Small
    <3>2. ASSUME u # {} PROVE FALSE
      <4>1. Cardinality(u) \in Nat \ {0}
        BY <3>1, <3>2, TakenLess
      <4> QED
        BY <3>1, <4>1
    <3> QED
      BY <3>2
  <2> DEFINE f == [u \in Small(S, 0) |-> 0]
  <2>2. Summing(f, t, S, 0)
    BY <2>1 DEF Summing
  <2> QED
    BY <2>2
<1>2. ASSUME NEW n \in Nat, n \notin T PROVE n + 1 \notin T
  <2>1. PICK f : Summing(f, t, S, n)
    BY <1>2
  <2> DEFINE g == [u \in Small(S, n + 1) |-> IF u = {} THEN 0 ELSE t[Taken(u)] + f[u \ {Taken(u)}]]
  <2>2. ASSUME NEW u \in Small(S, n + 1), u # {} PROVE u \ {Taken(u)} \in Small(S, n)
    <3>1. u \in SUBSET S /\ Cardinality(u) <= n + 1
      BY DEF Small
    <3>2. u \ {Taken(u)} \in SUBSET S /\ Cardinality(u) \in Nat
          /\ Cardinality(u \ {Taken(u)}) = Cardinality(u) - 1
      BY <2>2, <3>1, TakenLess
    <3> QED
      BY <3>1, <3>2 DEF Small
  <2>3. ASSUME NEW u \in Small(S, n) PROVE u \in Small(S, n + 1)
    <3>1. u \in SUBSET S /\ Cardinality(u) <= n
      BY DEF Small
    <3>2. Cardinality(u) \in Nat
      BY <3>1, FS_Subset, FS_CardinalityType
    <3> QED
      BY <3>1, <3>2 DEF Small
  <2>4. \A u \in Small(S, n) : f[u] = g[u]
    BY <2>1, <2>3 DEF Summing
  <2>5. \A u \in Small(S, n + 1) : u # {} => f[u \ {Taken(u)}] = g[u \ {Taken(u)}]
    BY <2>2, <2>4
  <2>6. g = [u \in Small(S, n + 1) |-> IF u = {} THEN 0 ELSE t[Taken(u)] + g[u \ {Taken(u)}]]
    BY <2>5
  <2> HIDE DEF g
  <2>7. Summing(g, t, S, n + 1)
    BY <2>6 DEF Summing
  <2> QED
    BY <2>7
<1>3. T \in SUBSET Nat
  OBVIOUS
<1>4. \A n \in Nat : n \notin T => n + 1 \notin T
  BY <1>2
<1> HIDE DEF T
<1>5. T = {}
  BY <1>1, <1>3, <1>4, NothingLeft
<1> QED
  BY <1>5 DEF T

Sums(f, t, S) ==
  f = [u \in SUBSET S |-> IF u = {} THEN 0 ELSE t[Taken(u)] + f[u \ {Taken(u)}]]

LEMMA SumOfIs ==
  ASSUME NEW S, IsFiniteSet(S), NEW t
  PROVE  \E f : Sums(f, t, S) /\ SumOf(t, S) = f[S]
<1> DEFINE f == CHOOSE g : Sums(g, t, S)
<1>1. SumOf(t, S) = f[S]
  BY Zenon DEF SumOf, MapThenSumSet, MapThenFoldSet, Sums, Taken
<1>2. Cardinality(S) \in Nat
  BY FS_CardinalityType
<1>3. Small(S, Cardinality(S)) = SUBSET S
  <2>1. \A u \in SUBSET S : Cardinality(u) <= Cardinality(S)
    BY FS_Subset
  <2> QED
    BY <2>1 DEF Small
<1>4. \E g : Summing(g, t, S, Cardinality(S))
  BY <1>2, SummingExists
<1>5. \E g : Sums(g, t, S)
  BY <1>3, <1>4 DEF Summing, Sums
<1>6. Sums(f, t, S)
  BY <1>5
<1> QED
  BY <1>1, <1>6

(* t2 is t with the elements of P, one or none, counted once more.          *)
Raised(t, t2, S, P) == \A x \in S : t2[x] = IF x \in P THEN t[x] + 1 ELSE t[x]

(* The sum is one more if one of the terms is.                             *)
LEMMA SumsStep ==
  ASSUME NEW S, IsFiniteSet(S), NEW t \in [S -> Nat], NEW t2 \in [S -> Nat], NEW P \in SUBSET S,
         NEW p, P \subseteq {p},
         Raised(t, t2, S, P),
         NEW f, Sums(f, t, S), NEW g, Sums(g, t2, S)
  PROVE  \A u \in SUBSET S : f[u] \in Nat /\ g[u] = f[u] + (IF p \in u \cap P THEN 1 ELSE 0)
<1> DEFINE Good(u) == f[u] \in Nat /\ g[u] = f[u] + (IF p \in u \cap P THEN 1 ELSE 0)
           T == {n \in Nat : \E u \in SUBSET S : Cardinality(u) = n /\ ~ Good(u)}
<1>1. ASSUME NEW u \in SUBSET S, u = {} PROVE Good(u)
  <2>1. f[u] = 0 /\ g[u] = 0
    BY <1>1 DEF Sums
  <2> QED
    BY <1>1, <2>1
<1>2. ASSUME NEW u \in SUBSET S, u # {}, Good(u \ {Taken(u)}) PROVE Good(u)
  <2> DEFINE x == Taken(u)
             v == u \ {x}
  <2>1. x \in u /\ v \in SUBSET S /\ x \in S
    BY <1>2, TakenLess
  <2>2. f[u] = t[x] + f[v] /\ g[u] = t2[x] + g[v]
    BY <1>2 DEF Sums
  <2>3. t[x] \in Nat /\ t2[x] = t[x] + (IF x \in P THEN 1 ELSE 0)
    BY <2>1 DEF Raised
  <2>4. f[v] \in Nat /\ g[v] = f[v] + (IF p \in v \cap P THEN 1 ELSE 0)
    BY <1>2
  <2>5. u = v \cup {x} /\ x \notin v
    BY <2>1
  <2>6. x \in P => x = p
    OBVIOUS
  <2> HIDE DEF x, v
  <2>7. f[u] \in Nat
    BY <2>2, <2>3, <2>4
  <2>8. CASE x \in P
    <3>1. p \in u \cap P /\ p \notin v \cap P
      BY <2>5, <2>6, <2>8
    <3> QED
      BY <2>2, <2>3, <2>4, <2>7, <2>8, <3>1
  <2>9. CASE x \notin P
    <3>1. p \in u \cap P <=> p \in v \cap P
      BY <2>5, <2>9
    <3> QED
      BY <2>2, <2>3, <2>4, <2>7, <2>9, <3>1
  <2> QED
    BY <2>8, <2>9
<1> HIDE DEF Good
<1>3. SUFFICES ASSUME NEW u0 \in SUBSET S, ~ Good(u0) PROVE FALSE
  BY DEF Good
<1>4. T # {} /\ T \in SUBSET Nat
  <2>1. Cardinality(u0) \in Nat
    BY FS_Subset, FS_CardinalityType
  <2> QED
    BY <1>3, <2>1
<1>5. PICK n \in T : \A y \in T : n <= y
  BY <1>4, LeastExists
<1>6. PICK u \in SUBSET S : Cardinality(u) = n /\ ~ Good(u)
  OBVIOUS
<1>7. u # {}
  BY <1>1, <1>6
<1>8. u \ {Taken(u)} \in SUBSET S /\ n \in Nat \ {0} /\ Cardinality(u \ {Taken(u)}) = n - 1
  BY <1>6, <1>7, TakenLess
<1>9. n - 1 \in T
  BY <1>2, <1>6, <1>7, <1>8
<1> HIDE DEF T
<1> QED
  BY <1>5, <1>8, <1>9

LEMMA SumType ==
  ASSUME NEW S, IsFiniteSet(S), NEW t \in [S -> Nat]
  PROVE  SumOf(t, S) \in Nat
<1>1. PICK f : Sums(f, t, S) /\ SumOf(t, S) = f[S]
  BY SumOfIs
<1>2. S \in SUBSET S /\ {} \in SUBSET S /\ {} \subseteq {0}
  OBVIOUS
<1>3. \A u \in SUBSET S : f[u] \in Nat
  <2>1. Raised(t, t, S, {})
    BY DEF Raised
  <2> QED
    BY <1>1, <1>2, <2>1, SumsStep
<1> QED
  BY <1>1, <1>2, <1>3

LEMMA SumGrows ==
  ASSUME NEW S, IsFiniteSet(S), NEW t \in [S -> Nat], NEW p \in S
  PROVE  SumOf([t EXCEPT ![p] = @ + 1], S) = SumOf(t, S) + 1
<1> DEFINE t2 == [t EXCEPT ![p] = @ + 1]
<1>1. t2 \in [S -> Nat] /\ Raised(t, t2, S, {p})
  BY DEF Raised
<1> HIDE DEF t2
<1>2. PICK f : Sums(f, t, S) /\ SumOf(t, S) = f[S]
  BY SumOfIs
<1>3. PICK g : Sums(g, t2, S) /\ SumOf(t2, S) = g[S]
  BY SumOfIs
<1>4. {p} \in SUBSET S /\ {p} \subseteq {p} /\ S \in SUBSET S /\ p \in S \cap {p}
  OBVIOUS
<1>5. \A u \in SUBSET S : f[u] \in Nat /\ g[u] = f[u] + (IF p \in u \cap {p} THEN 1 ELSE 0)
  BY <1>1, <1>2, <1>3, <1>4, SumsStep
<1>6. g[S] = f[S] + 1
  BY <1>4, <1>5
<1> QED
  BY <1>2, <1>3, <1>6 DEF t2

LEMMA SumZero ==
  ASSUME NEW S, IsFiniteSet(S)
  PROVE  SumOf([x \in S |-> 0], S) = 0
<1> DEFINE t == [x \in S |-> 0]
<1>1. PICK f : Sums(f, t, S) /\ SumOf(t, S) = f[S]
  BY SumOfIs
<1> DEFINE T == {n \in Nat : \E u \in SUBSET S : Cardinality(u) = n /\ f[u] # 0}
<1>2. SUFFICES ASSUME f[S] # 0 PROVE FALSE
  BY <1>1
<1>3. T # {} /\ T \in SUBSET Nat
  <2>1. Cardinality(S) \in Nat /\ S \in SUBSET S
    BY FS_CardinalityType
  <2> QED
    BY <1>2, <2>1
<1>4. PICK n \in T : \A y \in T : n <= y
  BY <1>3, LeastExists
<1>5. PICK u \in SUBSET S : Cardinality(u) = n /\ f[u] # 0
  OBVIOUS
<1>6. u # {}
  BY <1>1, <1>5 DEF Sums
<1>7. /\ u \ {Taken(u)} \in SUBSET S /\ n \in Nat \ {0} /\ Cardinality(u \ {Taken(u)}) = n - 1
      /\ Taken(u) \in S
  BY <1>5, <1>6, TakenLess
<1>8. f[u] = t[Taken(u)] + f[u \ {Taken(u)}]
  BY <1>1, <1>6 DEF Sums
<1>9. f[u \ {Taken(u)}] # 0
  BY <1>5, <1>7, <1>8
<1>10. n - 1 \in T
  BY <1>7, <1>9
<1> HIDE DEF T
<1> QED
  BY <1>4, <1>7, <1>10

-----------------------------------------------------------------------------
(* The attempts to take pages offline *)

Capacity == page_trigger_conf.capacity

(* The counters whose page was not tried yet.                              *)
Untried == {s \in tree : mp[s].offlined = "online"}

(* Without retries every attempt uses up one of the counters handed out.   *)
OnceInv ==
  (~ conf.retry /\ conf.offline # "account") =>
    SumOf(triggered, Pages) + Cardinality(Untried) <= corr_err_counters + mp_replacement.count

(* With retries, the counter r of a page with n errors and k attempts: until
   the multiplier wraps it is the k-th power of two, and what the bucket holds
   came after the errors of the attempts.                                  *)
Spaced(r, n, k) ==
  /\ Doubled[k] <= CharValues => n >= Capacity * (Doubled[k] - 1)
  /\ (Doubled[k] < CharValues /\ r.offlined # "offline") =>
       /\ r.offline_threshold_multiplier = Doubled[k]
       /\ n >= Capacity * (Doubled[k] - 1) + r.bucket.count

SpacedInv ==
  (conf.retry /\ conf.offline # "account" /\ mp_replacement.count = 0) =>
    /\ \A s \in tree : Spaced(mp[s], seen[mp[s].addr], triggered[mp[s].addr])
    /\ \A p \in Pages : (\A s \in tree : mp[s].addr # p) => triggered[p] = 0

AttemptInv == OnceInv /\ SpacedInv

(* An error adds at most one to a bucket; one that overflows it was the last
   of a threshold, and empties it.                                         *)
LEMMA AccountCount ==
  ASSUME NEW c \in BucketConf, NEW b \in Bucket, NEW t \in Int, NEW mult \in Nat
  PROVE  /\ bucket_account(c, b, 1, t, mult).count <= b.count + 1
         /\ Overflows(c, b, 1, t, mult) =>
              /\ bucket_account(c, b, 1, t, mult).count = 0
              /\ b.count + 1 >= c.capacity * mult
<1> USE DEF BucketConf, Bucket
<1>1. CASE c.capacity = 0
  BY <1>1 DEF bucket_account, Overflows
<1>2. CASE c.capacity # 0
  <2>1. c.capacity \in Nat \ {0} /\ c.agetime \in Nat \ {0}
    BY <1>2
  <2> DEFINE a == bucket_age(c, b, t, mult)
  <2>2. a \in Bucket /\ a.count <= b.count
    <3>1. CASE t - b.tstamp >= c.agetime
      <4> DEFINE age == Leak(c, t - b.tstamp, mult)
      <4>1. age \in Nat
        <5> DEFINE k == c.capacity * mult
                   d == t - b.tstamp
        <5>1. k \in Nat /\ d \in Nat /\ c.agetime \in Nat \ {0}
          BY <2>1, <3>1
        <5> HIDE DEF k, d
        <5>2. d * k \in Nat
          BY <5>1
        <5>3. (d * k) \div c.agetime \in Nat
          BY <5>1, <5>2
        <5> QED
          BY <5>3 DEF Leak, k, d
      <4> HIDE DEF age
      <4>2. Drain(b, t, age) \in Bucket /\ Drain(b, t, age).count <= b.count
        BY <4>1 DEF Drain
      <4> QED
        BY <3>1, <4>2 DEF bucket_age, age
    <3>2. CASE ~ (t - b.tstamp >= c.agetime)
      BY <3>2 DEF bucket_age
    <3> QED
      BY <3>1, <3>2
  <2> HIDE DEF a
  <2> DEFINE f == Filled(c, b, 1, t, mult)
  <2>3. f = [a EXCEPT !.count = @ + 1]
    BY DEF Filled, a
  <2>4. f \in Bucket /\ f.count = a.count + 1 /\ f.count <= b.count + 1
    BY <2>2, <2>3
  <2> HIDE DEF f
  <2>5. Overflows(c, b, 1, t, mult) <=> f.count >= c.capacity * mult
    BY <2>1 DEF Overflows, f
  <2>6. bucket_account(c, b, 1, t, mult) =
          IF Overflows(c, b, 1, t, mult)
            THEN [count |-> 0, excess |-> f.excess + f.count, tstamp |-> f.tstamp] ELSE f
    BY <2>1 DEF bucket_account, f
  <2> DEFINE full == c.capacity * mult
  <2>7. full \in Nat
    BY <2>1
  <2> HIDE DEF full
  <2>8. CASE Overflows(c, b, 1, t, mult)
    <3>1. bucket_account(c, b, 1, t, mult).count = 0
      BY <2>6, <2>8
    <3>2. f.count >= full
      BY <2>5, <2>8 DEF full
    <3>3. b.count + 1 >= full
      BY <2>4, <2>7, <3>2
    <3> QED
      BY <3>1, <3>3 DEF full
  <2>9. CASE ~ Overflows(c, b, 1, t, mult)
    BY <2>4, <2>6, <2>9
  <2> QED
    BY <2>8, <2>9
<1> QED
  BY <1>1, <1>2

Tried(r, q) ==
  /\ ~ Silent(r)
  /\ q.offlined \in {"offline", "offline-failed"}
  /\ q.bucket.count = 0
  /\ r.bucket.count + 1 >= Capacity * r.offline_threshold_multiplier
  /\ q.offlined # "offline" =>
       q.offline_threshold_multiplier = Backoff(r.offline_threshold_multiplier)
  /\ triggered' = [triggered EXCEPT ![r.addr] = @ + 1]

NotTried(r, q) ==
  /\ q.offlined = r.offlined
  /\ q.offline_threshold_multiplier = r.offline_threshold_multiplier
  /\ q.bucket.count <= r.bucket.count + 1
  /\ triggered' = triggered

(* What the end of account_page_error makes of the counter r.              *)
LEMMA ChargeTries ==
  ASSUME TypeOK, NEW s \in Slots, NEW r \in Mempage, r.addr \in Pages, NEW pre,
         conf.offline \notin {"off", "account"}, Charge(s, r, pre)
  PROVE  /\ mp' = [mp EXCEPT ![s] = mp'[s]]
         /\ mp'[s] \in Mempage /\ mp'[s].addr = r.addr
         /\ Tried(r, mp'[s]) \/ NotTried(r, mp'[s])
<1> DEFINE mult == r.offline_threshold_multiplier
           bk == bucket_account(page_trigger_conf, r.bucket, 1, now, mult)
           c == Charged(r)
           over == Overflows(page_trigger_conf, r.bucket, 1, now, mult)
<1>1. /\ mp \in [Slots -> Mempage] /\ now \in Nat /\ now \in Int /\ conf \in Configs
      /\ page_trigger_conf \in BucketConf /\ r.bucket \in Bucket /\ mult \in Nat
  BY PageAssumption DEF TypeOK, Mempage
<1>2. /\ bk.count <= r.bucket.count + 1
      /\ over => bk.count = 0 /\ r.bucket.count + 1 >= Capacity * mult
  BY <1>1, AccountCount DEF Capacity
<1>3. /\ c \in Mempage /\ c.addr = r.addr /\ c.offlined = r.offlined /\ c.bucket = bk
      /\ c.offline_threshold_multiplier = mult
  <2>1. c \in Mempage /\ c.addr = r.addr /\ c.offlined = r.offlined
    BY <1>1, ChargedIs
  <2>2. c = [r EXCEPT !.count = r.count + 1, !.bucket = bk]
    BY DEF Charged
  <2> HIDE DEF bk, c, mult
  <2>3. c.bucket = bk /\ c.offline_threshold_multiplier = r.offline_threshold_multiplier
    BY <2>2 DEF Mempage
  <2> QED
    BY <2>1, <2>3 DEF mult
<1>4. CASE over /\ ~ Silent(r)
  <2>1. PICK res \in memory_offline :
          /\ mp' = [mp EXCEPT ![s] = offline_action([c EXCEPT !.triggered = TRUE], res)]
          /\ triggered' = [triggered EXCEPT ![r.addr] = @ + 1]
    BY <1>4 DEF Charge
  <2> DEFINE p == [c EXCEPT !.triggered = TRUE]
             q == offline_action(p, res)
  <2> HIDE DEF c, bk, over, mult
  <2>2. /\ p \in Mempage /\ p.addr = r.addr /\ p.bucket = bk
        /\ p.offline_threshold_multiplier = mult
    BY <1>3 DEF Mempage
  <2> HIDE DEF p
  <2>3. q \in Mempage /\ q.addr = r.addr
    BY <1>1, <2>2, ActedIs
  <2>4. /\ q.offlined \in {"offline", "offline-failed"} /\ q.bucket = bk
        /\ q.offlined # "offline" => q.offline_threshold_multiplier = Backoff(mult)
    <3>1. CASE res[2]
      <4>1. q = [p EXCEPT !.offlined = "offline"]
        BY <3>1 DEF offline_action
      <4> QED
        BY <2>2, <4>1 DEF Mempage
    <3>2. CASE ~ res[2]
      <4>1. q = [p EXCEPT !.offlined = "offline-failed",
                          !.offline_threshold_multiplier = Backoff(mult)]
        BY <2>2, <3>2 DEF offline_action
      <4> QED
        BY <2>2, <4>1 DEF Mempage
    <3> QED
      BY <3>1, <3>2
  <2>5. mp' = [mp EXCEPT ![s] = q]
    BY <2>1 DEF p
  <2> HIDE DEF q
  <2>6. mp'[s] = q
    BY <1>1, <2>5
  <2>7. Tried(r, q)
    BY <1>2, <1>4, <2>1, <2>4 DEF Tried, mult
  <2> QED
    BY <2>3, <2>5, <2>6, <2>7
<1>5. CASE ~ (over /\ ~ Silent(r))
  <2>1. mp' = [mp EXCEPT ![s] = c] /\ triggered' = triggered
    BY <1>5 DEF Charge
  <2> HIDE DEF c, bk, over
  <2>2. mp'[s] = c
    BY <1>1, <2>1
  <2>3. NotTried(r, c)
    BY <1>2, <1>3, <2>1 DEF NotTried
  <2> QED
    BY <1>3, <2>1, <2>2, <2>3
<1> QED
  BY <1>4, <1>5

(* One more error keeps the distance of the attempts.                      *)
LEMMA SpacedStep ==
  ASSUME NEW r \in Mempage, NEW q \in Mempage, NEW n \in Nat, NEW k \in Nat, conf.retry,
         Spaced(r, n, k)
  PROVE  /\ NotTried(r, q) => Spaced(q, n + 1, k)
         /\ Tried(r, q) => Spaced(q, n + 1, k + 1)
<1> DEFINE P == Doubled[k]
           low == Capacity * (P - 1)
<1>1. /\ Capacity \in Nat /\ P \in Nat /\ P >= 1 /\ CharValues \in Nat /\ CharValues > 1
      /\ Doubled[k + 1] = 2 * P
      /\ r.bucket.count \in Nat /\ q.bucket.count \in Nat
  BY PageAssumption, DoubledIs, DoubledType DEF Capacity, BucketConf, Mempage, Bucket
<1>2. low \in Nat
  BY <1>1
<1>3. ASSUME NotTried(r, q) PROVE Spaced(q, n + 1, k)
  <2> HIDE DEF P, low
  <2>1. P <= CharValues => n >= low
    BY DEF Spaced, P, low
  <2>2. P < CharValues /\ r.offlined # "offline" =>
          r.offline_threshold_multiplier = P /\ n >= low + r.bucket.count
    BY DEF Spaced, P, low
  <2>3. P <= CharValues => n + 1 >= low
    BY <1>2, <2>1
  <2>4. P < CharValues /\ q.offlined # "offline" =>
          q.offline_threshold_multiplier = P /\ n + 1 >= low + q.bucket.count
    BY <1>1, <1>2, <1>3, <2>2 DEF NotTried
  <2> QED
    BY <2>3, <2>4 DEF Spaced, P, low
<1>4. ASSUME Tried(r, q) PROVE Spaced(q, n + 1, k + 1)
  <2>1. r.offlined # "offline"
    BY <1>4 DEF Tried, Silent
  <2>2. SUFFICES ASSUME 2 * P <= CharValues
        PROVE  /\ n + 1 >= Capacity * (2 * P - 1)
               /\ 2 * P < CharValues /\ q.offlined # "offline" =>
                    /\ q.offline_threshold_multiplier = 2 * P
                    /\ n + 1 >= Capacity * (2 * P - 1) + q.bucket.count
    <3>1. 2 * P < CharValues => 2 * P <= CharValues
      BY <1>1
    <3> QED
      BY <1>1, <3>1 DEF Spaced
  <2>3. P < CharValues
    BY <1>1, <2>2
  <2>4. r.offline_threshold_multiplier = P /\ n >= low + r.bucket.count
    BY <2>1, <2>3 DEF Spaced
  <2>5. r.bucket.count + 1 >= Capacity * P
    BY <1>4, <2>4 DEF Tried
  <2>6. Capacity * (2 * P - 1) = low + Capacity * P /\ Capacity * P \in Nat
    BY <1>1
  <2>7. n + 1 >= Capacity * (2 * P - 1)
    <3> DEFINE x == Capacity * P
    <3>1. x \in Nat /\ r.bucket.count + 1 >= x
      BY <2>5, <2>6
    <3> HIDE DEF x, low
    <3>2. n + 1 >= low + x
      BY <1>1, <1>2, <2>4, <3>1
    <3> QED
      BY <2>6, <3>2 DEF x
  <2>8. q.bucket.count = 0 /\ Capacity * (2 * P - 1) \in Nat
    BY <1>2, <1>4, <2>6 DEF Tried
  <2>9. ASSUME 2 * P < CharValues, q.offlined # "offline" PROVE q.offline_threshold_multiplier = 2 * P
    <3>1. q.offline_threshold_multiplier = (P * 2) % CharValues
      BY <1>4, <2>4, <2>9 DEF Tried, Backoff
    <3> DEFINE y == P * 2
    <3>2. y \in Nat /\ y < CharValues /\ y = 2 * P
      BY <1>1, <2>9
    <3> HIDE DEF y
    <3>3. y % CharValues = y
      BY <1>1, <3>2
    <3> QED
      BY <3>1, <3>2, <3>3 DEF y
  <2> DEFINE z == Capacity * (2 * P - 1)
  <2> HIDE DEF z
  <2>10. n + 1 >= z + q.bucket.count
    BY <2>7, <2>8 DEF z
  <2> QED
    BY <2>7, <2>9, <2>10 DEF z
<1> QED
  BY <1>3, <1>4

LEMMA PagesFinite == IsFiniteSet(Pages)
<1> DEFINE f == [m \in Records |-> PageOf(m.addr)]
<1>1. IsFiniteSet(Records)
  BY PageAssumption
<1>2. f \in Surjection(Records, Pages)
  BY DEF Pages, Surjection
<1> HIDE DEF f
<1> QED
  BY <1>1, <1>2, FS_Surjection

(* Counters of other pages, and pages without one, are left alone.         *)
LEMMA SpacedOn ==
  ASSUME TypeOK, Owned, SpacedInv, NEW s \in Slots, NEW r \in Mempage, NEW pre, NEW n \in Nat,
         r.addr \in Pages, \A t \in tree : t = s <=> mp[t].addr = r.addr,
         tree' = tree \cup {s}, seen' = [seen EXCEPT ![r.addr] = n + 1],
         conf' = conf, mp_replacement' = mp_replacement, Charge(s, r, pre),
         (conf.retry /\ conf.offline # "account" /\ mp_replacement.count = 0) =>
           Spaced(r, n, triggered[r.addr]),
         conf.offline # "off"
  PROVE  SpacedInv'
<1> SUFFICES ASSUME conf.retry, conf.offline # "account", mp_replacement.count = 0
    PROVE  /\ \A t \in tree' : Spaced(mp'[t], seen'[mp'[t].addr], triggered'[mp'[t].addr])
           /\ \A p \in Pages : (\A t \in tree' : mp'[t].addr # p) => triggered'[p] = 0
  BY DEF SpacedInv, Spaced, Capacity
<1> DEFINE page == r.addr
           k == triggered[page]
           q == mp'[s]
<1>1. /\ mp \in [Slots -> Mempage] /\ tree \subseteq Slots /\ seen \in [Pages -> Nat]
      /\ triggered \in [Pages -> Nat] /\ k \in Nat
  BY DEF TypeOK
<1>2. /\ mp' = [mp EXCEPT ![s] = q] /\ q \in Mempage /\ q.addr = page
      /\ Tried(r, q) \/ NotTried(r, q)
  BY ChargeTries
<1>3. /\ seen'[page] = n + 1 /\ \A p \in Pages \ {page} : seen'[p] = seen[p]
  BY <1>1
<1>4. \A p \in Pages \ {page} : triggered'[p] = triggered[p]
  BY <1>1, <1>2 DEF Tried, NotTried
<1>5. \A t \in tree \ {s} : mp'[t] = mp[t] /\ mp[t].addr # page /\ mp[t].addr \in Pages
  BY <1>1, <1>2 DEF Owned
<1>6. Spaced(q, n + 1, triggered'[page])
  <2>1. Spaced(r, n, k)
    OBVIOUS
  <2>2. CASE Tried(r, q)
    <3>1. triggered'[page] = k + 1
      BY <1>1, <2>2 DEF Tried
    <3>2. Spaced(q, n + 1, k + 1)
      BY <1>1, <1>2, <2>1, <2>2, SpacedStep
    <3> QED
      BY <3>1, <3>2
  <2>3. CASE NotTried(r, q)
    <3>1. triggered'[page] = k
      BY <2>3 DEF NotTried
    <3>2. Spaced(q, n + 1, k)
      BY <1>1, <1>2, <2>1, <2>3, SpacedStep
    <3> QED
      BY <3>1, <3>2
  <2> QED
    BY <1>2, <2>2, <2>3
<1>7. ASSUME NEW t \in tree'
      PROVE  Spaced(mp'[t], seen'[mp'[t].addr], triggered'[mp'[t].addr])
  <2>1. CASE t = s
    BY <1>2, <1>3, <1>6, <2>1
  <2>2. CASE t # s
    <3>1. t \in tree \ {s}
      BY <2>2
    <3>2. Spaced(mp[t], seen[mp[t].addr], triggered[mp[t].addr])
      BY <3>1 DEF SpacedInv
    <3> QED
      BY <1>3, <1>4, <1>5, <3>1, <3>2
  <2> QED
    BY <2>1, <2>2
<1>8. ASSUME NEW p \in Pages, \A t \in tree' : mp'[t].addr # p PROVE triggered'[p] = 0
  <2>1. p # page
    BY <1>2, <1>8
  <2>2. \A t \in tree : mp[t].addr # p
    BY <1>5, <1>8, <2>1
  <2>3. triggered[p] = 0
    BY <2>2 DEF SpacedInv
  <2> QED
    BY <1>4, <2>1, <2>3
<1> QED
  BY <1>7, <1>8

(* An attempt takes a counter out of the untried ones; a counter handed out
   adds one at most.                                                       *)
LEMMA OnceOn ==
  ASSUME TypeOK, OnceInv, IsFiniteSet(tree), NEW s \in Slots, NEW r \in Mempage, NEW pre,
         r.addr \in Pages, tree' = tree \cup {s}, conf' = conf, Charge(s, r, pre),
         conf.offline # "off", corr_err_counters' \in Nat, mp_replacement'.count \in Nat,
         \/ /\ s \in tree /\ r = mp[s]
            /\ corr_err_counters' + mp_replacement'.count
                 = corr_err_counters + mp_replacement.count
         \/ corr_err_counters' + mp_replacement'.count
              = corr_err_counters + mp_replacement.count + 1
  PROVE  OnceInv'
<1> SUFFICES ASSUME ~ conf.retry, conf.offline # "account"
    PROVE  SumOf(triggered', Pages) + Cardinality(Untried')
             <= corr_err_counters' + mp_replacement'.count
  BY DEF OnceInv, Pages
<1> DEFINE q == mp'[s]
           n == Cardinality(Untried)
           m == Cardinality(Untried')
           S == SumOf(triggered, Pages)
           S2 == SumOf(triggered', Pages)
           h == corr_err_counters + mp_replacement.count
           h2 == corr_err_counters' + mp_replacement'.count
<1>1. /\ mp \in [Slots -> Mempage] /\ tree \subseteq Slots /\ triggered \in [Pages -> Nat]
      /\ corr_err_counters \in Nat /\ mp_replacement.count \in Nat
  <2>1. max_corr_err_counters \in Nat
    BY PoolSize
  <2> QED
    BY <2>1 DEF TypeOK
<1>2. /\ mp' = [mp EXCEPT ![s] = q] /\ q \in Mempage
      /\ Tried(r, q) \/ NotTried(r, q)
  BY ChargeTries
<1>3. IsFiniteSet(Untried) /\ n \in Nat
  <2>1. IsFiniteSet(Untried)
    BY FS_Subset DEF Untried
  <2> QED
    BY <2>1, FS_CardinalityType
<1>4. IsFiniteSet(Pages)
  BY PagesFinite
<1>5. S \in Nat /\ h \in Nat /\ h2 \in Nat /\ S + n <= h
  <2>1. S \in Nat
    BY <1>1, <1>4, SumType
  <2> QED
    BY <1>1, <2>1 DEF OnceInv
<1>6. \A t \in tree \ {s} : mp'[t] = mp[t]
  BY <1>1, <1>2
<1>7. Untried' = {t \in tree' : mp'[t].offlined = "online"}
  BY DEF Untried
<1>8. CASE Tried(r, q)
  <2>1. S2 = S + 1
    BY <1>1, <1>4, <1>8, SumGrows DEF Tried
  <2>2. Untried' \subseteq Untried \ {s}
    <3>1. q.offlined # "online"
      BY <1>8 DEF Tried
    <3> QED
      BY <1>6, <1>7, <3>1 DEF Untried
  <2>3. IsFiniteSet(Untried \ {s}) /\ m <= Cardinality(Untried \ {s}) /\ m \in Nat
    <3>1. IsFiniteSet(Untried \ {s})
      BY <1>3, FS_Subset
    <3>2. IsFiniteSet(Untried') /\ m <= Cardinality(Untried \ {s})
      BY <2>2, <3>1, FS_Subset
    <3> QED
      BY <3>1, <3>2, FS_CardinalityType
  <2>4. CASE s \in tree /\ r = mp[s] /\ h2 = h
    <3>1. s \in Untried
      BY <1>8, <2>4 DEF Tried, Silent, Untried
    <3>2. Cardinality(Untried \ {s}) = n - 1
      BY <1>3, <3>1, FS_RemoveElement
    <3> HIDE DEF n, m, S, S2, h, h2
    <3>3. m <= n - 1
      BY <2>3, <3>2 DEF m
    <3> QED
      BY <1>3, <1>5, <2>1, <2>3, <2>4, <3>3 DEF n, m, S, S2, h, h2
  <2>5. CASE h2 = h + 1
    <3>1. Cardinality(Untried \ {s}) <= n
      BY <1>3, FS_Subset
    <3>2. Cardinality(Untried \ {s}) \in Nat
      BY <2>3, FS_CardinalityType
    <3> DEFINE d == Cardinality(Untried \ {s})
    <3> HIDE DEF n, m, S, S2, h, h2, d
    <3>3. S2 + m <= h2
      BY <1>3, <1>5, <2>1, <2>3, <2>5, <3>1, <3>2 DEF d
    <3> QED
      BY <3>3 DEF m, S2, h2
  <2> QED
    BY <2>4, <2>5
<1>9. CASE NotTried(r, q)
  <2>1. S2 = S
    BY <1>9 DEF NotTried
  <2>2. CASE s \in tree /\ r = mp[s] /\ h2 = h
    <3>1. Untried' \subseteq Untried
      BY <1>6, <1>7, <1>9, <2>2 DEF NotTried, Untried
    <3>2. m <= n /\ m \in Nat
      BY <1>3, <3>1, FS_Subset, FS_CardinalityType
    <3> HIDE DEF n, m, S, S2, h, h2
    <3>3. S2 + m <= h2
      BY <1>3, <1>5, <2>1, <2>2, <3>2
    <3> QED
      BY <3>3 DEF m, S2, h2
  <2>3. CASE h2 = h + 1
    <3>1. Untried' \subseteq Untried \cup {s}
      BY <1>6, <1>7 DEF Untried
    <3> DEFINE d == Cardinality(Untried \cup {s})
    <3>2. IsFiniteSet(Untried \cup {s}) /\ (d = n \/ d = n + 1)
      BY <1>3, FS_AddElement
    <3>3. m <= d /\ m \in Nat
      BY <3>1, <3>2, FS_Subset, FS_CardinalityType
    <3> HIDE DEF n, m, S, S2, h, h2, d
    <3>4. S2 + m <= h2
      BY <1>3, <1>5, <2>1, <2>3, <3>2, <3>3
    <3> QED
      BY <3>4 DEF m, S2, h2
  <2> QED
    BY <2>2, <2>3
<1> QED
  BY <1>2, <1>8, <1>9

LEMMA FreshSpaced ==
  ASSUME now \in Nat, NEW page \in Nat
  PROVE  Spaced(NewMempage(page), 0, 0)
<1> DEFINE r == NewMempage(page)
<1>1. r.offline_threshold_multiplier = 1 /\ r.bucket.count = 0
  BY DEF NewMempage, bucket_init
<1> HIDE DEF r
<1>2. Capacity \in Nat /\ Doubled[0] = 1 /\ Capacity * 0 = 0
  BY PageAssumption, DoubledIs DEF Capacity, BucketConf
<1> QED
  BY <1>1, <1>2 DEF Spaced, r

LEMMA InitAttempts == Init => AttemptInv
<1> SUFFICES ASSUME Init PROVE AttemptInv
  OBVIOUS
<1>1. tree = {} /\ triggered = [p \in Pages |-> 0] /\ corr_err_counters = 0
      /\ mp_replacement.count = 0
  BY DEF Init
<1>2. Untried = {} /\ Cardinality(Untried) = 0
  <2>1. Untried = {}
    BY <1>1 DEF Untried
  <2> QED
    BY <2>1, FS_EmptySet
<1>3. SumOf(triggered, Pages) = 0
  BY <1>1, PagesFinite, SumZero
<1>4. OnceInv
  BY <1>1, <1>2, <1>3 DEF OnceInv
<1>5. SpacedInv
  BY <1>1 DEF SpacedInv
<1> QED
  BY <1>4, <1>5 DEF AttemptInv

LEMMA KnownKeepsAttempts ==
  ASSUME IInv, AttemptInv, conf.offline # "off", NEW page \in Pages, KnownPage(page)
  PROVE  AttemptInv'
<1>1. TypeOK /\ Owned /\ OneCounterPerPage /\ IsFiniteSet(tree) /\ OnceInv /\ SpacedInv
  BY DEF IInv, PoolConsistent, Owned, AttemptInv
<1>2. PICK s \in mempage_lookup(page) :
        /\ seen' = [seen EXCEPT ![page] = @ + 1] /\ Charge(s, mp[s], << >>)
        /\ UNCHANGED <<conf, tree, corr_err_counters, mp_replacement>>
  BY DEF KnownPage
<1> DEFINE r == mp[s]
           n == seen[page]
<1>3. s \in tree /\ s \in Slots /\ r \in Mempage /\ r.addr = page /\ n \in Nat
  BY <1>1 DEF mempage_lookup, TypeOK
<1>4. \A t \in tree : t = s <=> mp[t].addr = r.addr
  BY <1>1, <1>3 DEF OneCounterPerPage
<1>5. tree' = tree \cup {s}
  BY <1>2, <1>3
<1>6. seen' = [seen EXCEPT ![r.addr] = n + 1]
  BY <1>2, <1>3
<1>7. (conf.retry /\ conf.offline # "account" /\ mp_replacement.count = 0) =>
        Spaced(r, n, triggered[r.addr])
  BY <1>1, <1>3 DEF SpacedInv
<1>8. corr_err_counters \in Nat /\ mp_replacement.count \in Nat
  BY <1>1, PoolSize DEF TypeOK
<1> HIDE DEF n
<1>9. SpacedInv'
  BY <1>1, <1>2, <1>3, <1>4, <1>5, <1>6, <1>7, SpacedOn
<1>10. OnceInv'
  BY <1>1, <1>2, <1>3, <1>5, <1>8, OnceOn
<1> QED
  BY <1>9, <1>10 DEF AttemptInv

LEMMA AllocKeepsAttempts ==
  ASSUME IInv, AttemptInv, conf.offline # "off", NEW page \in Pages, page \in Nat,
         mempage_alloc(page)
  PROVE  AttemptInv'
<1>1. TypeOK /\ PoolInv /\ Owned /\ IsFiniteSet(tree) /\ OnceInv /\ SpacedInv
  BY DEF IInv, PoolConsistent, Owned, AttemptInv
<1> DEFINE s == AllocSlot
           r == NewMempage(page)
<1>2. /\ mempage_lookup(page) = {} /\ corr_err_counters < max_corr_err_counters
      /\ tree' = tree \cup {s} /\ corr_err_counters' = corr_err_counters + 1
      /\ seen' = [seen EXCEPT ![page] = 1] /\ Charge(s, r, << >>)
      /\ UNCHANGED <<conf, mp_replacement>>
  BY DEF mempage_alloc
<1>3. s \in Slots /\ s \notin tree
  BY <1>1, <1>2, AllocIsNext
<1>4. r \in Mempage /\ r.addr = page /\ now \in Nat
  BY <1>1, FreshIs DEF TypeOK
<1>5. Spaced(r, 0, 0)
  BY <1>4, FreshSpaced
<1> HIDE DEF s, r
<1>6. \A t \in tree : mp[t].addr # page
  BY <1>2 DEF mempage_lookup
<1>7. \A t \in tree : t = s <=> mp[t].addr = r.addr
  BY <1>3, <1>4, <1>6
<1>8. seen' = [seen EXCEPT ![r.addr] = 0 + 1]
  BY <1>2, <1>4
<1>9. (conf.retry /\ conf.offline # "account" /\ mp_replacement.count = 0) =>
        Spaced(r, 0, triggered[r.addr])
  BY <1>1, <1>4, <1>5, <1>6 DEF SpacedInv
<1>10. corr_err_counters \in Nat /\ mp_replacement.count \in Nat
  BY <1>1, PoolSize DEF TypeOK
<1>11. SpacedInv'
  <2> DEFINE n == 0
             pre == << >>
  <2>1. /\ n \in Nat /\ r.addr \in Pages /\ tree' = tree \cup {s}
        /\ conf' = conf /\ mp_replacement' = mp_replacement /\ Charge(s, r, pre)
        /\ seen' = [seen EXCEPT ![r.addr] = n + 1]
    BY <1>2, <1>4, <1>8
  <2>2. (conf.retry /\ conf.offline # "account" /\ mp_replacement.count = 0) =>
          Spaced(r, n, triggered[r.addr])
    BY <1>9
  <2> HIDE DEF n, pre
  <2> QED
    BY <1>1, <1>3, <1>4, <1>7, <2>1, <2>2, SpacedOn
<1>12. /\ corr_err_counters' \in Nat /\ mp_replacement'.count \in Nat
       /\ corr_err_counters' + mp_replacement'.count = corr_err_counters + mp_replacement.count + 1
  BY <1>2, <1>10
<1>13. OnceInv'
  BY <1>1, <1>2, <1>3, <1>4, <1>12, OnceOn
<1> QED
  BY <1>11, <1>13 DEF AttemptInv

LEMMA ReplaceKeepsAttempts ==
  ASSUME IInv, AttemptInv, conf.offline # "off", NEW page \in Pages, page \in Nat,
         mempage_replace(page)
  PROVE  AttemptInv'
<1>1. TypeOK /\ PoolInv /\ ListInv /\ TreeMatchesPool /\ IsFiniteSet(tree) /\ OnceInv
  BY DEF IInv, PoolConsistent, AttemptInv
<1> DEFINE s == ReplaceSlot
           r == Reset(mp[s], page)
           pre == IF Overflows(mp_replacement_trigger_conf, mp_replacement.bucket, 1, now, 1)
                    THEN <<"page-error-counter">> ELSE << >>
<1>2. /\ corr_err_counters >= max_corr_err_counters
      /\ tree' = (tree \ {s}) \cup {s} /\ Charge(s, r, pre)
      /\ mp_replacement'.count = mp_replacement.count + 1
      /\ UNCHANGED <<conf, corr_err_counters>>
  BY DEF mempage_replace
<1>3. tree = Slots /\ s \in Slots
  BY <1>1, <1>2, ReplaceIsUsed
<1> HIDE DEF s, pre
<1>4. r \in Mempage /\ r.addr = page
  <2>1. mp[s] \in Mempage /\ now \in Nat
    BY <1>1, <1>3 DEF TypeOK
  <2> QED
    BY <2>1, FreshIs
<1> HIDE DEF r
<1>5. corr_err_counters \in Nat /\ mp_replacement.count \in Nat
  BY <1>1, PoolSize DEF TypeOK
<1>6. /\ corr_err_counters' \in Nat /\ mp_replacement'.count \in Nat
      /\ corr_err_counters' + mp_replacement'.count = corr_err_counters + mp_replacement.count + 1
      /\ mp_replacement'.count # 0
  BY <1>2, <1>5
<1>7. tree' = tree \cup {s}
  BY <1>2
<1>8. OnceInv'
  BY <1>1, <1>2, <1>3, <1>4, <1>6, <1>7, OnceOn
<1>9. SpacedInv'
  BY <1>6 DEF SpacedInv
<1> QED
  BY <1>8, <1>9 DEF AttemptInv

LEMMA NextAttempts == ASSUME IInv, AttemptInv, [Next]_vars PROVE AttemptInv'
<1>1. ASSUME NEW m \in Records, account_page_error(m) PROVE AttemptInv'
  <2>1. PageOf(m.addr) \in Pages /\ PageOf(m.addr) \in Nat
    BY PageType
  <2>2. conf.offline # "off"
    BY <1>1 DEF account_page_error, Counted
  <2> QED
    BY <1>1, <2>1, <2>2, KnownKeepsAttempts, AllocKeepsAttempts, ReplaceKeepsAttempts
       DEF account_page_error
<1>2. CASE Tick \/ UNCHANGED vars
  <2>1. UNCHANGED <<conf, mp, tree, corr_err_counters, mp_replacement, seen, triggered>>
    BY <1>2 DEF Tick, vars
  <2>2. Untried' = Untried
    BY <2>1 DEF Untried
  <2>3. SumOf(triggered, Pages)' = SumOf(triggered, Pages)
    BY <2>1 DEF Pages
  <2>4. OnceInv'
    BY <2>1, <2>2, <2>3 DEF AttemptInv, OnceInv
  <2>5. SpacedInv'
    BY <2>1 DEF AttemptInv, SpacedInv, Spaced, Capacity
  <2> QED
    BY <2>4, <2>5 DEF AttemptInv
<1> QED
  BY <1>1, <1>2 DEF Next

LEMMA AttemptsLimit == ASSUME IInv, AttemptInv PROVE AttemptsAreLimited
<1>1. OneAttemptPerCounter
  <2> SUFFICES ASSUME ~ conf.retry, conf.offline # "account"
      PROVE  SumOf(triggered, Pages) <= corr_err_counters + mp_replacement.count
    BY Zenon DEF OneAttemptPerCounter, SumOf
  <2>1. /\ triggered \in [Pages -> Nat] /\ corr_err_counters \in Nat
        /\ mp_replacement.count \in Nat
    BY PoolSize DEF IInv, PoolConsistent, TypeOK
  <2>2. SumOf(triggered, Pages) \in Nat
    BY <2>1, PagesFinite, SumType
  <2>3. Cardinality(Untried) \in Nat
    <3>1. IsFiniteSet(Untried)
      BY FS_Subset DEF Untried, IInv
    <3> QED
      BY <3>1, FS_CardinalityType
  <2>4. SumOf(triggered, Pages) + Cardinality(Untried) <= corr_err_counters + mp_replacement.count
    BY DEF AttemptInv, OnceInv
  <2> QED
    BY <2>1, <2>2, <2>3, <2>4
<1>2. AttemptsAreSpaced
  <2> SUFFICES ASSUME conf.retry, conf.offline # "account", mp_replacement.count = 0,
                      NEW p \in Pages, Doubled[triggered[p]] <= CharValues
      PROVE  seen[p] >= Capacity * (Doubled[triggered[p]] - 1)
    BY DEF AttemptsAreSpaced, Capacity
  <2>1. CASE \E s \in tree : mp[s].addr = p
    <3>1. PICK s \in tree : mp[s].addr = p
      BY <2>1
    <3>2. Spaced(mp[s], seen[p], triggered[p])
      BY <3>1 DEF AttemptInv, SpacedInv
    <3> QED
      BY <3>2 DEF Spaced
  <2>2. CASE \A s \in tree : mp[s].addr # p
    <3>1. triggered[p] = 0 /\ Doubled[0] = 1
      BY <2>2, DoubledIs DEF AttemptInv, SpacedInv
    <3>2. Capacity \in Nat /\ seen[p] \in Nat
      BY PageAssumption DEF Capacity, BucketConf, IInv, PoolConsistent, TypeOK
    <3> QED
      BY <3>1, <3>2
  <2> QED
    BY <2>1, <2>2
<1> QED
  BY <1>1, <1>2 DEF AttemptsAreLimited


-----------------------------------------------------------------------------
(* For any size of the pool, account_page_error never gives a page two
   counters and never takes one that is not in the tree, although the LRU
   list it takes them by is corrupted.                                     *)
THEOREM PoolAlwaysConsistent == Spec => []PoolConsistent
<1>1. IInv => PoolConsistent
  BY DEF IInv
<1> QED
  BY <1>1, AlwaysIInv, PTL

(* For any history of replacements, a counter holds the errors and the
   offline state of its own page only.                                     *)
THEOREM CounterAlwaysOwn == Spec => []CounterIsOwn
<1>1. IInv => CounterIsOwn
  BY DEF IInv
<1> QED
  BY <1>1, AlwaysIInv, PTL

(* For any number of pages and any history of errors, offline_action asks the
   kernel at most once for every counter handed out; with retries, at
   distances that double until the multiplier wraps.                       *)
THEOREM AttemptsAlwaysLimited == Spec => []AttemptsAreLimited
<1>1. Spec => []AttemptInv
  BY InitAttempts, NextAttempts, AlwaysIInv, PTL DEF Spec
<1>2. IInv /\ AttemptInv => AttemptsAreLimited
  BY AttemptsLimit
<1> QED
  BY <1>1, <1>2, AlwaysIInv, PTL
=============================================================================
