----------------------------- MODULE PageErrors -----------------------------
(***************************************************************************)
(* The per page counters of corrected memory errors, page.c: a bounded     *)
(* pool of counters in clusters of N, the replacement of counters when the *)
(* pool is used up, the error threshold of a page, and taking the page     *)
(* offline, with its exponential backoff.                                  *)
(*                                                                         *)
(* account_page_error is one action: nothing interleaves with it.  The     *)
(* red-black tree is the set of counters linked into it; the LRU list of   *)
(* clusters keeps its next and prev pointers, as list.h assigns them.      *)
(***************************************************************************)
EXTENDS LeakyBucket, Sequences, SequencesExt, FiniteSetsExt

CONSTANTS
  N,             \* counters of a cluster (63 in the code)
  MaxCounters,   \* --max-corr-err-counters
  Records,       \* the decoded records: addr, addrv, uc, apei
  PageSize,
  CharValues,    \* the values of offline_threshold_multiplier, an unsigned char: 256
  Configs,       \* the configurations: "memory-ce-action" and
                 \* "memory-ce-offline-retry", as offline and retry
  page_trigger_conf,
  mp_replacement_trigger_conf,
  MaxTime,       \* bound: the clock stops here
  MaxRecords     \* bound: records accounted

OTypes == {"off", "account", "soft", "hard", "soft-then-hard"}

ASSUME PageAssumption ==
  /\ N \in Nat \ {0}
  /\ MaxCounters \in Nat \ {0}
  /\ Records \subseteq [addr: Nat, addrv: BOOLEAN, uc: BOOLEAN, apei: BOOLEAN]
  /\ IsFiniteSet(Records)    \* addresses have 64 bits
  /\ PageSize \in Nat \ {0} /\ CharValues \in Nat /\ CharValues > 1
  /\ Configs \subseteq [offline: OTypes, retry: BOOLEAN]
  /\ page_trigger_conf \in BucketConf
  /\ mp_replacement_trigger_conf \in BucketConf
  /\ MaxTime \in Nat
  /\ MaxRecords \in Nat

\* page_setup rounds the number of counters up to whole clusters.
max_corr_err_counters == ((MaxCounters + N - 1) \div N) * N

Clusters == 1 .. ((MaxCounters + N - 1) \div N)

Slots == Clusters \X (1 .. N)

ListHead == 0         \* the list head mempage_cluster_lru_list, and a NULL cluster
Poison == 0 - 1   \* LIST_POISON1 and LIST_POISON2

PageOf(addr) == addr - (addr % PageSize)

Pages == {PageOf(m.addr) : m \in Records}

VARIABLES
  conf,                \* the configuration page_setup has read
  now,                 \* time(NULL), and the time of the record
  mp,                  \* the struct mempage of every slot
  tree,                \* slots linked into mempage_root
  mp_used,             \* mp_used of every cluster
  mp_cluster,          \* the cluster counters are taken from
  corr_err_counters,
  lru,                 \* next and prev of the list heads
  mp_replacement,      \* bucket and count
  kernel,              \* pages the kernel has taken offline
  out,                 \* triggers and sysfs writes of the last record
  recency,             \* history: clusters, the last used one first
  seen,                \* history: errors of a page since it has its counter
  triggered,           \* history: how often each page's trigger was run
  records              \* history: how many records were accounted

vars == <<conf, now, mp, tree, mp_used, mp_cluster, corr_err_counters, lru,
          mp_replacement, kernel, out, recency, seen, triggered, records>>

Mempage == [addr: Nat, count: Nat, bucket: Bucket, triggered: BOOLEAN,
            offlined: {"online", "offline", "offline-failed"},
            offline_threshold_multiplier: 0 .. CharValues - 1]

\* mmap returns zeroed memory, and bucket_init and mempage_insert fill it.
NewMempage(page) ==
  [addr |-> page, count |-> 0, bucket |-> bucket_init(now), triggered |-> FALSE,
   offlined |-> "online", offline_threshold_multiplier |-> 1]

Init ==
  /\ conf \in Configs
  /\ now = 0
  /\ mp = [s \in Slots |-> NewMempage(0)]
  /\ tree = {}
  /\ mp_used = [c \in Clusters |-> 0]
  /\ mp_cluster = ListHead
  /\ corr_err_counters = 0
  /\ lru = [next |-> [c \in Clusters \cup {ListHead} |-> ListHead],
            prev |-> [c \in Clusters \cup {ListHead} |-> ListHead]]
  /\ mp_replacement = [bucket |-> bucket_init(0), count |-> 0]
  /\ kernel = {}
  /\ out = << >>
  /\ recency = << >>
  /\ seen = [p \in Pages |-> 0]
  /\ triggered = [p \in Pages |-> 0]
  /\ records = 0

-----------------------------------------------------------------------------
(* list.h, for the LRU list of clusters *)

list_add(l, c) ==
  LET first == l.next[ListHead]
  IN  [next |-> [l.next EXCEPT ![c] = first, ![ListHead] = c],
       prev |-> [l.prev EXCEPT ![first] = c, ![c] = ListHead]]

list_del(l, c) ==
  [next |-> [l.next EXCEPT ![l.prev[c]] = l.next[c], ![c] = Poison],
   prev |-> [l.prev EXCEPT ![l.next[c]] = l.prev[c], ![c] = Poison]]

mempage_cluster_lru_list_update(l, c) ==
  IF l.next[ListHead] = c THEN l ELSE list_add(list_del(l, c), c)

Touch(c) == recency' = <<c>> \o SelectSeq(recency, LAMBDA d : d # c)

-----------------------------------------------------------------------------
(* Taking a page offline *)

\* What the writes to the sysfs files of memory_offline can lead to: the
\* files written to, in order, and whether the last write succeeded.
memory_offline ==
  CASE conf.offline = "soft" -> {<<"soft">>} \X BOOLEAN
    [] conf.offline = "hard" -> {<<"hard">>} \X BOOLEAN
    [] conf.offline = "soft-then-hard" ->
         {<< <<"soft">>, TRUE >>} \cup ({<<"soft", "hard">>} \X BOOLEAN)
    [] OTHER -> {<< << >>, FALSE >>}

\* Mutant: no backoff.
Backoff_None(mult) == mult

\* offline_threshold_multiplier is an unsigned char.
Backoff(mult) == (mult * (IF conf.retry THEN 2 ELSE 1)) % CharValues

\* The mempage after offline_action, res being the outcome of memory_offline.
offline_action(r, res) ==
  IF conf.offline \in {"off", "account"} THEN r
  ELSE IF res[2] THEN [r EXCEPT !.offlined = "offline"]
  ELSE [r EXCEPT !.offlined = "offline-failed",
                 !.offline_threshold_multiplier = Backoff(@)]

\* No trigger, message or offlining any more for this page.
Silent(r) == IF conf.retry THEN r.offlined = "offline" ELSE r.offlined # "online"

SoftTrigger(name) == IF conf.offline \in {"soft", "soft-then-hard"} THEN <<name>>
                                                              ELSE << >>

\* ++count and __bucket_account of a page's counter.
Charged(r) ==
  [r EXCEPT !.count = @ + 1,
            !.bucket = bucket_account(page_trigger_conf, @, 1, now,
                                      r.offline_threshold_multiplier)]

\* The end of account_page_error, for the counter r in slot s; pre is what
\* was run before.
Charge(s, r, pre) ==
  LET page == r.addr
  IN  /\ records' = records + 1
      /\ IF /\ Overflows(page_trigger_conf, r.bucket, 1, now,
                         r.offline_threshold_multiplier)
            /\ ~ Silent(r)
           THEN \E res \in memory_offline :
                  /\ mp' = [mp EXCEPT ![s] =
                       offline_action([Charged(r) EXCEPT !.triggered = TRUE], res)]
                  /\ kernel' = IF res[2] THEN kernel \cup {page} ELSE kernel
                  /\ out' = pre \o <<"page">> \o SoftTrigger("page_pre_soft")
                            \o res[1] \o SoftTrigger("page_post_soft")
                  /\ triggered' = [triggered EXCEPT ![page] = @ + 1]
           ELSE /\ mp' = [mp EXCEPT ![s] = Charged(r)]
                /\ out' = pre
                /\ UNCHANGED <<kernel, triggered>>

-----------------------------------------------------------------------------
(* account_page_error *)

\* The records that are counted: corrected errors with an address, and on
\* Sandy Bridge EP not the copy firmware adds (apei).
Counted(m) ==
  /\ conf.offline # "off"
  /\ m.addrv /\ ~ m.uc
  /\ ~ m.apei

\* Mutant: only the current cluster is searched.
mempage_lookup_OneCluster(page) ==
  {s \in tree : s[1] = mp_cluster /\ mp[s].addr = page}

mempage_lookup(page) == {s \in tree : mp[s].addr = page}

\* The page has a counter.
KnownPage(page) ==
  \E s \in mempage_lookup(page) :
    /\ lru' = mempage_cluster_lru_list_update(lru, s[1])
    /\ Touch(s[1])
    /\ seen' = [seen EXCEPT ![page] = @ + 1]
    /\ Charge(s, mp[s], << >>)
    /\ UNCHANGED <<conf, now, tree, mp_used, mp_cluster, corr_err_counters,
                   mp_replacement>>

\* The slot mempage_alloc takes: the next one, of a new cluster if need be.
AllocSlot ==
  IF mp_cluster = ListHead THEN <<1, 1>>
  ELSE IF mp_used[mp_cluster] = N THEN <<mp_cluster + 1, 1>>
  ELSE <<mp_cluster, mp_used[mp_cluster] + 1>>

mempage_alloc(page) ==
  LET s == AllocSlot
      c == s[1]
  IN  /\ mempage_lookup(page) = {}
      /\ corr_err_counters < max_corr_err_counters
      /\ mp_cluster' = c
      /\ mp_used' = [mp_used EXCEPT ![c] = s[2]]
      /\ tree' = tree \cup {s}
      /\ lru' = list_add(lru, c)
      /\ Touch(c)
      /\ corr_err_counters' = corr_err_counters + 1
      /\ seen' = [seen EXCEPT ![page] = 1]
      /\ Charge(s, NewMempage(page), << >>)
      /\ UNCHANGED <<conf, now, mp_replacement>>

\* The slot mempage_replace takes: the next one of the cluster, or the first
\* one of the last cluster of the LRU list.
ReplaceSlot ==
  IF mp_used[mp_cluster] = N THEN <<lru.prev[ListHead], 1>>
                             ELSE <<mp_cluster, mp_used[mp_cluster] + 1>>

\* Mutant: count is not reset.
Reset_KeepsCount(r, page) ==
  [NewMempage(page) EXCEPT !.count = r.count]

\* The fields mempage_replace, bucket_init and mempage_insert reset.
Reset(r, page) ==
  [r EXCEPT !.offlined = "online",
            !.triggered = FALSE,
            !.offline_threshold_multiplier = 1,
            !.count = 0,
            !.bucket = bucket_init(now),
            !.addr = page]

mempage_replace(page) ==
  LET s == ReplaceSlot
      c == s[1]
      rconf == mp_replacement_trigger_conf
  IN  /\ mempage_lookup(page) = {}
      /\ corr_err_counters >= max_corr_err_counters
      /\ mp_cluster' = c
      /\ mp_used' = [mp_used EXCEPT ![c] = s[2]]
      /\ tree' = (tree \ {s}) \cup {s}
      /\ lru' = mempage_cluster_lru_list_update(lru, c)
      /\ Touch(c)
      /\ mp_replacement' =
           [bucket |-> bucket_account(rconf, mp_replacement.bucket, 1, now, 1),
            count  |-> mp_replacement.count + 1]
      /\ seen' = [seen EXCEPT ![page] = 1]
      /\ Charge(s, Reset(mp[s], page),
                IF Overflows(rconf, mp_replacement.bucket, 1, now, 1)
                  THEN <<"page-error-counter">> ELSE << >>)
      /\ UNCHANGED <<conf, now, corr_err_counters>>

account_page_error(m) ==
  /\ Counted(m)
  /\ records < MaxRecords
  /\ \/ KnownPage(PageOf(m.addr))
     \/ mempage_alloc(PageOf(m.addr))
     \/ mempage_replace(PageOf(m.addr))

Tick ==
  /\ now < MaxTime
  /\ now' = now + 1
  /\ out' = << >>
  /\ UNCHANGED <<conf, mp, tree, mp_used, mp_cluster, corr_err_counters, lru,
                 mp_replacement, kernel, recency, seen, triggered, records>>

Next ==
  \/ \E m \in Records : account_page_error(m)
  \/ Tick

Spec == Init /\ [][Next]_vars

-----------------------------------------------------------------------------
TypeOK ==
  /\ conf \in Configs
  /\ now \in Nat
  /\ mp \in [Slots -> Mempage]
  /\ tree \subseteq Slots
  /\ mp_used \in [Clusters -> 0 .. N]
  /\ mp_cluster \in Clusters \cup {ListHead}
  /\ corr_err_counters \in 0 .. max_corr_err_counters
  /\ mp_replacement \in [bucket: Bucket, count: Nat]
  /\ kernel \subseteq Pages
  /\ seen \in [Pages -> Nat]
  /\ triggered \in [Pages -> Nat]
  /\ records \in Nat

(* A page never has two counters, over any sequence of new pages, known
   pages and replacements: its errors are not split among them.            *)
OneCounterPerPage ==
  \A s, t \in tree : mp[s].addr = mp[t].addr => s = t

(* Every counter that was handed out is in the tree and no other:
   corr_err_counters is their number, a replacement takes one that is in
   the tree, so rb_erase is never called on a node outside it.             *)
TreeMatchesPool ==
  /\ Cardinality(tree) = corr_err_counters
  /\ corr_err_counters = max_corr_err_counters => tree = Slots

(* The pool and the tree stay consistent over any sequence of new pages, known
   pages and replacements by account_page_error.                           *)
PoolConsistent == TypeOK /\ OneCounterPerPage /\ TreeMatchesPool

(* A counter holds the errors of its own page since it was handed out and
   none of the page it was taken from.                                     *)
CountIsOwn == \A s \in tree : mp[s].count = seen[mp[s].addr]

(* A page that is reported offline, and is not watched any more, was taken
   offline by the kernel: the state of the page that had the counter before
   does not carry over.                                                    *)
OfflineIsTrue ==
  \A s \in tree : mp[s].offlined = "offline" => mp[s].addr \in kernel

(* What mempage_replace takes from one page for another brings nothing of the
   old page along: neither its errors nor its state.                       *)
CounterIsOwn == CountIsOwn /\ OfflineIsTrue

(* Without retries the kernel is asked at most once for every counter that
   was handed out, first use or replacement: a failed or successful
   offlining is repeated only for a page that the pool has lost.           *)
OneAttemptPerCounter ==
  (~ conf.retry /\ conf.offline # "account") =>
    MapThenSumSet(LAMBDA p : triggered[p], Pages)
      <= corr_err_counters + mp_replacement.count

\* The threshold multiplier after k attempts that failed, as long as it fits.
Doubled[k \in Nat] == IF k = 0 THEN 1 ELSE 2 * Doubled[k - 1]

(* With retries the attempts to take a page offline move apart: the k-th one
   comes only after Capacity * (2^k - 1) errors.  This ends with the width of
   the multiplier: once it has wrapped it is 0, every further error
   overflows the bucket, and no distance is promised any more.  (With
   "account" there are no attempts, and the trigger runs as often as ever.) *)
AttemptsAreSpaced ==
  (conf.retry /\ conf.offline # "account" /\ mp_replacement.count = 0) =>
    \A p \in Pages : Doubled[triggered[p]] <= CharValues =>
      seen[p] >= page_trigger_conf.capacity * (Doubled[triggered[p]] - 1)

(* offline_action does not ask the kernel again for every error of a page that
   it could not take offline: not at all, or at growing distances.         *)
AttemptsAreLimited == OneAttemptPerCounter /\ AttemptsAreSpaced

(* "If no free mp_cluster, reuse the last mp_cluster of the LRU list"
   (mempage_replace): the counters given up are those of the cluster that
   was not used for the longest time.                                      *)
ReplacesLeastRecent ==
  [][(/\ mp_replacement'.count # mp_replacement.count
      /\ mp_used[mp_cluster] = N) => mp_cluster' = Last(recency)]_vars
=============================================================================
