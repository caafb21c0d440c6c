-------------------------------- MODULE MemDB --------------------------------
(***************************************************************************)
(* The database of memory errors, memdb.c: the counters and thresholds of  *)
(* DIMMs and of sockets, fed by intel_memory_error of intel.c, and the     *)
(* dump of it that a client asks the daemon for, which ages the buckets.   *)
(*                                                                         *)
(* The hash table of struct memdimm is a function on the keys inserted so  *)
(* far.  A key is a socket and a place: a DIMM of the channel, NoDimm      *)
(* (channel, -1) if only the channel is known, or AnyDimm (-1, -1) for the *)
(* socket as a whole.  One channel per socket is enough: channels share    *)
(* only the socket.  Entries are inserted from the BIOS tables at the      *)
(* start, by memory errors, and by the page counters, which look up the    *)
(* DIMM whenever a page crosses its threshold.                             *)
(*                                                                         *)
(* The records are those of a CPU with extended logging (sandy-bridge.c,   *)
(* ivy-bridge.c), which name up to two devices that failed by their rank.  *)
(***************************************************************************)
EXTENDS LeakyBucket, Sequences, FiniteSetsExt

CONSTANTS
  Sockets, Dimms, NoDimm, AnyDimm,
  Ranks,              \* values of the failing rank fields of MISC
  Counts,             \* values of the corrected error count of a record
  dimms, sockets,     \* struct err_triggers: bucket configuration of ce and uc
  MaxLag,             \* the longest time from an error to its processing
  MaxTime,            \* bound: the clock stops here
  MaxRecords          \* bound: records processed

ASSUME MemDBAssumption ==
  /\ Dimms \subseteq Nat /\ Ranks \subseteq Nat
  /\ \A r \in Ranks : (r \in 0 .. 3 => 0 \in Dimms) /\ (r \in 4 .. 7 => 1 \in Dimms)
  /\ NoDimm \notin Nat /\ AnyDimm \notin Nat /\ NoDimm # AnyDimm
  /\ Counts \subseteq Nat
  /\ dimms \in [ce: BucketConf, uc: BucketConf]
  /\ sockets \in [ce: BucketConf, uc: BucketConf]
  /\ MaxLag \in Nat /\ MaxTime \in Nat /\ MaxRecords \in Nat

Places == Dimms \cup {NoDimm, AnyDimm}
Keys == Sockets \X Places

\* What a record says about the place: the rank of a device, only the channel
\* (NoDimm), or nothing (AnyDimm); and a second device if there is one.
Devices == {<<d>> : d \in Ranks \cup {NoDimm, AnyDimm}} \cup ((Ranks \cup {NoDimm}) \X Ranks)
Kinds == {"ce", "uc"}

VARIABLES
  memdb_enabled, sockdb_enabled,   \* the switches of the configuration
  now,        \* time(NULL)
  md,         \* the struct memdimm of the keys inserted so far
  fired,      \* the thresholds memdb_trigger was called for by the last record
  errs,       \* history: the errors accounted, in their order
  hardware,   \* history: errors the hardware reported for each socket
  dumped,     \* history: a client dumped the database
  ranks,      \* history: the DIMMs each rank of a socket was taken for
  records     \* history: how many records were processed

switches == <<memdb_enabled, sockdb_enabled>>
vars == <<switches, now, md, fired, errs, hardware, dumped, ranks, records>>

ErrType == [count: Nat, bucket: Bucket]
Error == [key: Keys, kind: Kinds, time: Int]

NewMemdimm == [kind \in Kinds |-> [count |-> 0, bucket |-> bucket_init(now)]]

\* prefill_memdb: some DIMMs are known from the BIOS.
Prefilled ==
  UNION {[known -> {NewMemdimm}] :
           known \in IF memdb_enabled THEN SUBSET (Sockets \X Dimms) ELSE {{}}}

Init ==
  /\ memdb_enabled \in BOOLEAN /\ sockdb_enabled \in BOOLEAN
  /\ now = 0
  /\ md \in Prefilled
  /\ fired = << >>
  /\ errs = << >>
  /\ hardware = [s \in Sockets |-> 0]
  /\ dumped = FALSE
  /\ ranks = [x \in Sockets \X Ranks |-> {}]
  /\ records = 0

-----------------------------------------------------------------------------
(* Accounting.  A database db is the table and the triggers run so far. *)

get_memdimm(db, key) ==
  IF key \in DOMAIN db.md THEN db
  ELSE [db EXCEPT !.md = [k \in DOMAIN db.md \cup {key} |->
                            IF k = key THEN NewMemdimm ELSE db.md[k]]]

\* count += inc and __bucket_account of one err_type, with the time tm of the
\* record (m->time), which may be older than the time stamp of the bucket.
Account(db, key, kind, inc, conf, tm) ==
  LET e == db.md[key][kind]
  IN  [md    |-> [db.md EXCEPT ![key][kind] =
                    [count  |-> e.count + inc,
                     bucket |-> bucket_account(conf, e.bucket, inc, tm, 1)]],
       fired |-> IF Overflows(conf, e.bucket, inc, tm, 1)
                   THEN Append(db.fired, <<key, kind, tm>>) ELSE db.fired,
       errs  |-> db.errs \o [i \in 1 .. inc |-> [key |-> key, kind |-> kind, time |-> tm]]]

account_memdb(db, triggers, key, uc, tm) ==
  LET kind == IF uc THEN "uc" ELSE "ce"
  IN  Account(db, key, kind, 1, triggers[kind], tm)

\* Mutant: a count of 0 is decremented as well.
account_over_NoZeroCheck(db, triggers, key, corr_err_cnt, tm) ==
  Account(db, key, "ce", corr_err_cnt - 1, triggers["ce"], tm)

\* The errors of a record beyond the first.
account_over(db, triggers, key, corr_err_cnt, tm) ==
  IF corr_err_cnt > 1
    THEN Account(db, key, "ce", corr_err_cnt - 1, triggers["ce"], tm) ELSE db

AccountDimm(db, socket, dimm, uc, tm) ==
  IF memdb_enabled /\ dimm # AnyDimm
    THEN account_memdb(get_memdimm(db, <<socket, dimm>>), dimms, <<socket, dimm>>, uc, tm)
    ELSE db

AccountSocket(db, socket, dimm, uc, corr_err_cnt, tm) ==
  LET key == <<socket, AnyDimm>>
  IN  IF sockdb_enabled
        THEN account_memdb(account_over(get_memdimm(db, key), sockets, key, corr_err_cnt, tm),
                           sockets, key, uc, tm)
        ELSE db

memory_error(db, socket, dimm, uc, corr_err_cnt, tm) ==
  AccountSocket(AccountDimm(db, socket, dimm, uc, tm), socket, dimm, uc, corr_err_cnt, tm)

\* Mutant: DIMM 1 is looked up instead of DIMM 2.
failrank2dimm_Other(rank, socket) ==
  CASE rank \in 0 .. 3 -> 0
    [] rank \in 4 .. 5 -> 1
    [] rank \in 6 .. 7 -> IF <<socket, 1>> \in DOMAIN md THEN 2 ELSE 1
    [] OTHER -> NoDimm

\* The DIMM of a rank: two or three to a channel, as far as is known.
failrank2dimm(rank, socket) ==
  CASE rank \in 0 .. 3 -> 0
    [] rank \in 4 .. 5 -> 1
    [] rank \in 6 .. 7 -> IF <<socket, 2>> \in DOMAIN md THEN 2 ELSE 1
    [] OTHER -> NoDimm

Place(device, socket) ==
  IF device \in {NoDimm, AnyDimm} THEN device ELSE failrank2dimm(device, socket)

\* account_page_error of a page that crosses its threshold: its message and
\* trigger name the DIMM, which is inserted even when DIMMs are not tracked.
PageThreshold(db, socket, place, crosses) ==
  IF crosses THEN get_memdimm(db, <<socket, place>>) ELSE db

\* A record of a memory error: the devices, translated before any is accounted,
\* then DIMM, socket and page of each.  Only a corrected error names ranks and
\* counts for its page, which crosses its threshold or not.  The record may
\* have waited for the daemon since the time tm.  (A record too short to have a
\* socketid is not accounted.)
intel_memory_error(socket, devices, uc, corr_err_cnt, crosses, tm) ==
  LET db0 == [md |-> md, fired |-> << >>, errs |-> errs]
      Step(db, i) ==
        LET place == Place(devices[i], socket)
        IN  PageThreshold(memory_error(db, socket, place, uc, corr_err_cnt, tm),
                          socket, place, crosses)
      db1 == Step(db0, 1)
      db2 == IF Len(devices) = 1 THEN db1 ELSE Step(db1, 2)
  IN  /\ records < MaxRecords
      /\ uc => devices \in {<<NoDimm>>, <<AnyDimm>>} /\ ~ crosses
      /\ md' = db2.md
      /\ fired' = db2.fired
      /\ errs' = db2.errs
      /\ hardware' = [hardware EXCEPT ![socket] =
                         @ + Len(devices) * Max({1, corr_err_cnt})]
      /\ ranks' = [x \in Sockets \X Ranks |->
                     IF x[1] = socket /\ \E i \in DOMAIN devices : devices[i] = x[2]
                       THEN ranks[x] \cup {Place(x[2], socket)} ELSE ranks[x]]
      /\ records' = records + 1
      /\ UNCHANGED <<switches, now, dumped>>

-----------------------------------------------------------------------------
(* The dump *)

\* Mutant: the dump begins a new age time and keeps the count.
Aged_KeepsCount(conf, b, garbage) ==
  IF now - b.tstamp >= conf.agetime THEN [b EXCEPT !.tstamp = now] ELSE b

\* What dump_errtype leaves of a bucket.  Without a threshold agetime is 0
\* and bucket_age converts a NaN to unsigned: undefined, garbage is the result.
Aged(conf, b, garbage) ==
  IF conf.agetime = 0
    THEN IF now >= b.tstamp THEN Drain(b, now, garbage) ELSE b
    ELSE bucket_age(conf, b, now, 1)

\* The thresholds are those of the DIMMs, for the entry of a socket too.
dump_dimm(m, all, garbage) ==
  IF all \/ m["ce"].count + m["uc"].count > 0
    THEN [kind \in Kinds |->
            [m[kind] EXCEPT !.bucket = Aged(dimms[kind], @, garbage)]]
    ELSE m

dump_memory_errors(all) ==
  /\ \E garbage \in {0, 2 ^ 30} :
       md' = [key \in DOMAIN md |-> dump_dimm(md[key], all, garbage)]
  /\ fired' = << >>
  /\ dumped' = TRUE
  /\ UNCHANGED <<switches, now, errs, hardware, ranks, records>>

Tick ==
  /\ now < MaxTime
  /\ now' = now + 1
  /\ fired' = << >>
  /\ UNCHANGED <<switches, md, errs, hardware, dumped, ranks, records>>

Next ==
  \/ \E s \in Sockets, devices \in Devices, uc \in BOOLEAN, cnt \in Counts, crosses \in BOOLEAN,
        lag \in 0 .. MaxLag :
       intel_memory_error(s, devices, uc, cnt, crosses, now - lag)
  \/ \E all \in BOOLEAN : dump_memory_errors(all)
  \/ Tick

Spec == Init /\ [][Next]_vars

-----------------------------------------------------------------------------
TypeOK ==
  /\ now \in 0 .. MaxTime
  /\ DOMAIN md \subseteq Keys
  /\ \A key \in DOMAIN md : md[key] \in [Kinds -> ErrType]
  /\ fired \in Seq(Keys \X Kinds \X Int)
  /\ errs \in Seq(Error)
  /\ hardware \in [Sockets -> Nat]
  /\ ranks \in [Sockets \X Ranks -> SUBSET (Places \ {AnyDimm})]
  /\ dumped \in BOOLEAN
  /\ records \in Nat

\* The errors accounted to a key, those in the age time and the lag before tm,
\* and those of the DIMMs and channels of a socket.
Accounted(key, kind) ==
  Cardinality({i \in 1 .. Len(errs) : errs[i].key = key /\ errs[i].kind = kind})
Recent(key, kind, agetime, tm) ==
  Cardinality({i \in 1 .. Len(errs) :
                 /\ errs[i].key = key /\ errs[i].kind = kind
                 /\ errs[i].time > tm - (agetime + MaxLag)})
OfDimms(s) ==
  Cardinality({i \in 1 .. Len(errs) : errs[i].key[1] = s /\ errs[i].key[2] # AnyDimm})

\* The count of an entry, 0 for a key that was never inserted.
Count(key, kind) == IF key \in DOMAIN md THEN md[key][kind].count ELSE 0
Total(key) == Count(key, "ce") + Count(key, "uc")

(* A socket's total is what the hardware reported: a record counts for its
   corrected error count, for one error when that is 0 or 1, and again for
   the second DIMM if it names two.  No dump, aging or lookup changes it.  *)
SocketTotalExact ==
  sockdb_enabled => \A s \in Sockets : Total(<<s, AnyDimm>>) = hardware[s]

(* The total of a socket, which includes the errors the hardware counted
   without a record of their own, is never below the sum of its DIMMs and
   channels: an error that is accounted to one of them is accounted to its
   socket too.                                                             *)
SocketCoversDimms ==
  (memdb_enabled /\ sockdb_enabled) =>
    \A s \in Sockets : OfDimms(s) <= Total(<<s, AnyDimm>>)

(* The counts of an entry, kept when its bucket overflows or is aged by a
   dump, are the numbers of errors accounted to it.                        *)
EntriesExact == \A key \in Keys, kind \in Kinds : Count(key, kind) = Accounted(key, kind)

(* DIMMs and sockets are accounted by separate code with separate switches, and
   neither loses, repeats or wraps a count.                                *)
TotalsExact == TypeOK /\ SocketTotalExact /\ SocketCoversDimms /\ EntriesExact

(* The DIMM threshold is crossed only when its errors really happened within
   its age time of the one that crosses it, although every client dump ages
   the bucket as well.  Records that are processed late may lie further apart,
   by the lag: one older than the time stamp of its bucket, which a dump or the
   insertion of the entry set to the time of day, does not age the bucket and
   counts with those that come up to an age time after the stamp.          *)
DimmTriggersReal ==
  \A i \in 1 .. Len(fired) :
    LET key == fired[i][1]
        kind == fired[i][2]
    IN  key[2] # AnyDimm =>
          Recent(key, kind, dimms[kind].agetime, fired[i][3]) >= dimms[kind].capacity

(* The same for the threshold of a socket, as long as no client asks for a
   dump: that ages the bucket of a socket with the age time and capacity of
   the DIMM threshold.  The errors the hardware counted without a record, and
   both devices of a record, count for it.                                 *)
SocketTriggersReal ==
  ~ dumped =>
    \A i \in 1 .. Len(fired) :
      LET key == fired[i][1]
          kind == fired[i][2]
      IN  key[2] = AnyDimm =>
            Recent(key, kind, sockets[kind].agetime, fired[i][3]) >= sockets[kind].capacity

(* No trigger of account_over or account_memdb without its errors.         *)
TriggersReal == DimmTriggersReal /\ SocketTriggersReal

(* A rank is taken for the same DIMM all the time, although failrank2dimm asks
   the database, which grows with every error, whether there is a DIMM 2: only
   the BIOS tables can have put it there.                                  *)
RankIsStable == \A x \in Sockets \X Ranks : Cardinality(ranks[x]) <= 1
=============================================================================
