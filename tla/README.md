# A TLA+ model of mcelog

mcelog takes machine check records from the Linux kernel, decodes them into a
log, counts memory errors per DIMM, socket and page, runs trigger scripts when
a rate exceeds its threshold, takes bad pages offline, and answers clients on a
unix socket. It is one process with one thread; what makes it hard to test is
everything that happens around that thread: children that exit, signals that
merge, clients that come and go between two callbacks, records that arrive while
others are handled, a clock, and long sequences of errors that fill its tables.

`PROJECT.json` maps every definition to the source lines it models. The names of
definitions are those of the C functions where there is one.

## Inventory

| Part | Source | State | Operations | Correct when |
|---|---|---|---|---|
| Leaky bucket | leaky-bucket.c | count, excess, tstamp | age, account, output | a threshold fires for errors within its age time and for no others; the reported count is right |
| Triggers | trigger.c | childlist, num_children, children-max | run_trigger, SIGCHLD handler, trigger_wait | the list is exactly the children; the limit holds; no abort; waiting ends |
| Page errors | page.c, list.h | red-black tree, counter pool, LRU list, offline state and backoff per page | account_page_error, replacement, offlining | one counter per page, holding that page's own errors; offline marks are true; failed attempts are spaced |
| Event loop | eventloop.c | poll table | register, unregister, callbacks | no slot is mixed up while callbacks change the table |
| Server and client | server.c, client.c | connections, their input and answer | accept, read, answer, close, ask_server | every client gets its answer or an end of file |
| Memory database | memdb.c, intel.c | entries per DIMM and socket with two buckets | memory_error, dump, prefill | totals are exact, triggers are for real rates |
| Record processing | mcelog.c | kernel buffer, batch, cputype, numerrors | process, mce_cpuid, filter, dump_mce | every record is handled once, as its CPU, and is logged or accounted |
| ASCII input | mcelog.c | the struct mce being filled | decodefatal | records are not mixed up or lost |
| Decoding | p4.c, zhaoxin.c, k8.c and a file per CPU model | none | decode_mca, decode_model, memerr_misc | an error is of the right kind, of the right channel, and runs a trigger once |
| Server start, end of the daemon | server.c, mcelog.c, client.c | socket file, pid file, credentials | server_setup, server_ping, write_pidfile, signal_exit | a live server keeps its socket, a stale file does not prevent a start, a start ends |
| Configuration, command line | config.c, mcelog.c | headers with hashed options; option globals | parse_config_file, config_string, modifier | the first value in the file counts; the command line decides |
| Log output | msg.c | log file with its stdio buffer, syslog line buffer, syslog_opt | Lprintf and the others, flushlog, reopenlog | every message reaches something, whole and in order, through rotation and exit |
| DMI | dmi.c, memdb.c | the BIOS tables, sorted ranges and devices | checkdmi, prefill_memdb, closedmi, dmi_decodeaddr | only unambiguous tables are trusted; DIMMs and addresses lead to the right device; nothing points into freed tables |
| The rest | tsc.c, cache.c, msr.c, sysfs.c, rbtree.c, memutil.c | caches of /proc and /sys | formatting, lookups | |

How they interact. `eventloop` calls `process_mcefd` for `/dev/mcelog` and
`client_accept`/`client_event` for the socket. `process` reads a batch and for
each record calls `mce_filter`, which accounts memory errors (`memory_error`,
`account_page_error`) and says whether the record is logged, and `dump_mce`,
which decodes it. Accounting and decoding call `run_trigger`, which forks. A client's
`dump` and `pages` commands walk memory database and page counters, aging
buckets on the way. SIGCHLD is delivered only inside `ppoll`. All of this shares one
thread, so a function runs to its end before another begins; `SIGTERM`,
`SIGINT` and `SIGQUIT` are the exception and end the program anywhere.

The hazards this leads to are listed, each at its line, in `PROJECT.json`.

## Modules

| Module | Models | Uses |
|---|---|---|
| `LeakyBucket` | the functions of leaky-bucket.c, as operators on a bucket | |
| `ThresholdWindow` | abstract: what a threshold "n per t" promises | |
| `LeakyBucketMonitor` | one bucket, a clock and the records accounted to it | both |
| `Triggers` | trigger.c, with the children and SIGCHLD | |
| `PageErrors`, `MCPageErrors` | page.c with the list operations of list.h | `LeakyBucket` |
| `PollServer`, `MCPollServer` | eventloop.c and server.c, with clients as client.c has them | |
| `MemDB`, `MCMemDB` | memdb.c as called from intel.c and by clients | `LeakyBucket` |
| `McaCodes` | the architectural decoders: kind of error and triggers | |
| `MemoryBanks` | the model specific ones: unit of a bank, channel of a memory error | `McaCodes` |
| `RecordProcessing` | process() of mcelog.c with the kernel's buffer | `MemoryBanks` |
| `AsciiInput`, `MCRecords` | decodefatal(); the two sources of records together | `RecordProcessing` |
| `DaemonLife` | several daemons from server_setup to their end, on one socket path and pid file | |
| `Options` | the configuration file, its lookup, the output options | |
| `LogOutput`, `MCLogOutput` | the start of main() as far as output goes, msg.c, log rotation | `Options` |
| `Dmi`, `MCDmi` | dmi.c and prefill_memdb | |
| `PageErrors_proofs`, `PollServer_proofs`, `MemDB_proofs`, `DaemonLife_proofs`, `LogOutput_proofs`, `Dmi_proofs` | theorems and proofs about the modules they are named after | the module |
| `Thresholds_proofs` | those about when a trigger runs and what becomes of it | `LeakyBucketMonitor`, `Triggers` |
| `Records_proofs` | those about the records of both sources | `AsciiInput` |

### LeakyBucketMonitor

`Account(inc, t)` is `__bucket_account` for a record of `inc` errors with time
`t`, which may be up to `MaxLag` seconds before the clock (`m->time` is the
kernel's time stamp, the bucket's start is `bucket_time()`). The code's `double`
division of the leak is modelled as exact division and truncation; the proof
shows that only "at least the capacity" matters. `hist` is a history variable.
`Leak` is only ever asked for `diff >= agetime`, as in `bucket_age`.

### Triggers

The main thread's `pc` is `ppoll`, `callbacks` (where triggers are forked), the
two halves of `child_handler`, or, for a program that runs once, `once` and
`trigger_wait`. `ExitEarly` are the exits that do not pass `trigger_wait`: that of
`process()` after `--num-errors` records and that of `main()` after `--ascii`. The kernel part (`proc`, `pending`) is what the code relies on:
SIGCHLD is a standard signal, so a second one is dropped while one is pending
and the `siginfo` is that of the first; it is blocked outside `ppoll`, and a
`ppoll` with ready descriptors returns them without delivering it.
`PidWrap = FALSE` is the assumption that the kernel does not reuse the pid a
pending SIGCHLD names.

### PageErrors

`account_page_error` is one action: early returns, lookup, allocation or
replacement, threshold, offlining. The LRU list is modelled as the pointers
`list_add` and `list_del` write, with the poison values, since the code adds a
cluster that is on the list already; the tree is the set of slots in it. `N`
stands for the counters of a cluster (a page's worth in the code), and whether the kernel takes a page
offline is a free choice. `OneAttemptPerCounter` and `AttemptsAreSpaced` are about
attempts; with `memory-ce-action = account` there are none, the trigger alone runs,
and both leave it out.

### PollServer

A round is `ppoll`, then one step per slot of the table (`SkipSlot` or
`Callback`), during which clients connect, send, read and are killed.
`register_pollcb` and `unregister_pollcb` change the table as the code does:
append, and shift the tail down. `Chunks` is how many writes an answer needs.
Refused credentials, unknown requests (`ping` and the dumps end differently) and
a full table are included. `process_mcefd` empties the device; `ReadError` is the
early return when `read()` fails. Assertions of the code set `failed`.

### MemDB

`intel_memory_error` is one action: the failing ranks of a record are translated
to DIMMs (`failrank2dimm`, which asks the database itself), then DIMM, socket and
page are accounted for the first device and again for the second. Whether the
page crosses its threshold, and so inserts its DIMM, is a free choice here and is
`PageErrors`' business. `dump_memory_errors` ages every bucket it prints, with the
thresholds of the DIMMs whatever the entry is. There are two times, as in the code:
`m->time` of a record, up to `MaxLag` before the clock, for accounting, and
`time(NULL)` for `bucket_init` and the dump. A record older than the time stamp of
its bucket, which a dump or the insertion of the entry made newer, does not age it,
so errors that lie further apart than the age time may count together, by the lag
at most; `TriggersReal` says so, and is the plain age time for `MaxLag = 0`. `errs`, `hardware`, `ranks` and
`dumped` are history variables; `errs` is the sequence of all errors accounted,
each with the entry it is for, its kind and its time, and the totals are compared
with the number of errors in it.

### Records

The machine and the options are chosen in `Init` (`setup`). `MachineCheck` is
the kernel: it appends to a buffer of `LogLen` records or sets `MCE_OVERFLOW`.
`Read`, `CheckOverflow`, one `ProcessRecord` per record and `EndBatch` are
`process()`, in steps because records arrive and signals end the program in
between. `produced`, `handled`, `dropped` and `lost` are history variables.
A record has only the fields that the decoders branch on; the tables of texts
per status bit are abstracted to the unit of the bank. `Reports` says how the
hardware reports an error of a memory channel, from the comments in the
`*_memerr_misc` functions, and is what `ChannelsApart` compares the code with: the
bank of a channel, where the code may name any channel, and the bank of its
controller, where the code has to. For i10nm, whose function takes the channel from
the code in every bank, the code has to name it in the channel's own bank too. The
banks of an M2M or B2CMI that several controllers share are decoded, but are no
reports of one channel (see the observations).
In `AsciiInput` a line is a field, a Xen header, or other text; a field holds
the number of the record that set it. Records of a log are separated by other
text: where they are not, the code joins them into one.

### DaemonLife

Each daemon has its own `pc` through `server_setup` (`access`, the ping in four
steps, `unlink`, `socket`, `bind`, `listen`), `drop_cred`, `daemon()` and
`write_pidfile`. `path` and `pidfile` say whose file is there; a file outlives its
daemon. The peer of a ping answers (`PingAnswer`), is too busy, has ended, or does
nothing at all, in which case the alarm ends the ping (`PingTimeout`), unless the
daemon is one of the `Patient`, with initial-ping-timeout = 0 and no alarm. The
alarm may also go off between the two last calls of the cleanup, when it kills
(`AlarmKills`). `socket()` for the ping and `unlink()` may fail, unnoticed by the
code. A daemon may
be killed anywhere, stopped by a signal once it has handlers, or end by
`--num-errors`, which leaves the socket. `upsets` and `overlap` remember the
situations in which `server_setup` cannot know better: a ping that was not answered
by a server that lives, a system call that failed, and two daemons in `server_setup`
at once around an old file. `FilesKept` is about behaviours without them (`Quiet`): in each of
them the code does lose a file (see the observations), and the property says that
nothing else does. The socket path is configured and short enough, as by default.

### Options, LogOutput

A configuration file is a sequence of headers, options and unparseable lines;
`ReadLine` is the loop of `parse_config_file`, which builds the header list
`hlist` with the chains of its hash buckets; `ReadOption` is the loop of
`config_options`, which applies the file in the order of the table `options[]`, and
`Argument` takes the command line in its own order. These loops are steps, with
`pos` for how far each one is, so that invariants can speak of the part that was
read. Then `modifier_finish` opens the log
file, or fails to, and `daemon()` may take the terminal away. A text is a sequence
of message numbers and newlines, so that order, gaps and mixed lines can be seen in
the outputs. `vlinesyslog` cuts at `LineSize` as `vsnprintf` does. The stdio buffer
of the log file is written by `flushlog`, by `fclose`, by `exit`, or at any time by
stdio itself, and is lost by `_exit`. `EndRecord` is the `flushlog` of a record that
was logged; a record that the filter keeps from the log has none, and what its
accounting printed waits in the buffer. `given` are the texts handed to
`vlinesyslog`, each with the place where it begins in what was accepted, so that
`LinesKept` can say which text was cut, and where; a message for a line buffer that
is `Full`, without a newline, reaches nothing and is `unheard`. `handle_sigusr1` runs only within `ppoll`, that is between
other actions.

### Dmi

`Init` chooses the tables of the BIOS and the options; `checkdmi`, `prefill_memdb`
and `closedmi` follow in the order of `main()`. Reading stops at any entry (a sysfs
file that fails, a truncated table). Addresses are below `2 * SignBit`, so that the
int subtraction of `cmp_range` wraps; for ranges on which the comparison contradicts
itself `Sorted` allows every order. The channel that a locator does not give is
what the variable held before, anything at first: that of the device before, or the
one that `sscanf` stored from a locator (`stray`) before the format failed
(`Missed`). `collected` is whether `dmi_ranges` and `handle_to_entry` are not NULL;
`dmi_decodeaddr` follows them without asking.

## Runs

| Run | Result | Question |
|---|---|---|
| `leaky_window` | pass | Does the bucket implement the window? Is a trigger always for real errors, and the count exact? |
| `trigger_children` | pass | Are list, counter and limit right in every order of exits, merged signals and handlers; does waiting end? |
| `trigger_starved` | violation | Does a place below children-max always become free again? No. |
| `page_counters` | pass | Do counts, offline marks and retries belong to their page through allocation and replacement? |
| `page_lru` | violation | Is the cluster given up the least recently used one? No. |
| `poll_server` | pass | Do table and connections agree, is everybody served? |
| `poll_dropped` | violation | Is a connection dropped only when its client closed it? No. |
| `memdb_accounting` | pass | Are totals exact, triggers for real rates, and ranks always the same DIMM, with dumps and lookups in between? |
| `records` | pass | Is every record handled once, in order, as its CPU, and logged or accounted; are overflows reported; do channels and ASCII records stay apart? |
| `daemons` | pass | Does a live server keep its socket and pid file, does a start end, and only give way to a live daemon? |
| `log_output` | pass | For every combination of options: does each message arrive, complete and in order, through rotations and exits? |
| `dmi_tables` | pass | Are the tables that are trusted unambiguous, good ones trusted, and DIMMs and addresses assigned right? |

An invariant of a run may be the conjunction of named parts that say together
what one piece of state promises (`PoolConsistent`, `CounterIsOwn`,
`AttemptsAreLimited`, `TableIsRight`, `TotalsExact`, `TriggersReal`,
`ErrorsGoWhereAsked`, `AsciiFaithful`, `FilesKept`, `OptionsAsGiven`,
`SyslogComplete`, `CheckIsRight`, `DimmsFound`); the type invariant of a module is then one of them.
The types of `Triggers` are part of the invariant that is proved.

The violations are findings of `PROJECT.json`, with the line of documentation or
comment that disagrees.

### Bounds

- `leaky_window`: capacity 3, age time 3, batches below, at and above what is
  missing for the threshold, 7 seconds, so that two windows pass; lag as long as a window.
- `trigger_children`: 4 pids, limit 3: two children besides the one a signal
  names, and one more fork. `trigger_starved` needs a limit of 2.
- `page_counters`: clusters of 2, a limit of 3 counters (which the code rounds
  up to 4), 5 pages, 6 records: the pool fills and a counter is replaced and used
  again. The multiplier of the backoff has 2 bits instead of 8, so that it
  reaches its end within these records.
- `poll_server`: 3 clients, one of them not allowed, a table of 4, so that it
  fills; answers in two writes.
- `memdb_accounting`: a lag of 1 second, 3 seconds; one channel with DIMMs 1 and 2, each known from the BIOS or
  not, records without a place, with a channel, with one or two devices of rank 6
  (the rank that depends on DIMM 2); 2 records with counts 0 (no CMCI count) and 3,
  thresholds of 2 and 4, both databases on or off.
- `records`: a buffer of 2, three records (two for the machines where channels
  are compared, which is what `ChannelsApart` needs), a setup for each modelled
  CPU and option; three records of an ASCII log.
- `daemons`: three daemons, so that a third meets what two others left; one of
  them without rights on the directory and one without a limit for its ping; a stale file or none at the start.
- `log_output`: files of up to three lines out of eight, command lines of up to three
  of seven options; a line buffer of 5, 3 messages of up to 4 characters, 2
  rotations.
- `dmi_tables`: addresses of 4 bits in units of 2 bytes; eight sets of devices
  (twins, empty, without channel or locator, half a locator, too short) with one or two ranges, and
  three ranges; every point at which reading may stop.

`CHECK_DEADLOCK FALSE` is set where the bounds on records and time, or the exit
of the program, end a behaviour; `poll_server` and `poll_dropped` check
deadlock.

### Fairness

- `Triggers`: the main thread goes on, trigger scripts end, and `ppoll` is not
  found with ready descriptors every single time. The last is strong fairness of
  `PpollSignal`; without it SIGCHLD could starve behind a device that is always
  ready.
- `PollServer`: weak fairness of the server's step, and of a client reading what
  it was sent; strong fairness of `process_mcefd`: `read()` of the device does not
  fail every single time. Nothing is assumed of clients connecting or sending.
- `AllSpec`: weak fairness of `Process`: the event loop calls `process_mcefd`
  whenever the device is readable. Nothing is assumed of the kernel or of signals.
- `DaemonLife`: weak fairness of each process' own steps, its alarm included. A
  server that is pinged need never answer: `PingAnswer` has no fairness.
- `LogOutput`: weak fairness of `handle_sigusr1`: the event loop enters `ppoll`
  again and again, and a pending signal is delivered there. Nothing is assumed of
  messages, records or logrotate.

## Proofs

TLAPS proves every invariant of the passing runs, and the refinement, for all values of the constants that the assumptions admit: any number
of daemons, clients, pages, DIMMs, records or messages, any size of a buffer, table
or pool, any thresholds. The bounds of the runs (`MaxTime`, `MaxRecords` and the like) are
constants too, so that nothing rests on them. Each proof has the same shape: an
inductive invariant `IInv` (checked by TLC on the instance of the run first),
one lemma per action, and the property from `IInv`.

**`Thresholds_proofs`**, about `BSpec` of `LeakyBucketMonitor`, from `MonitorAssumption` (positive capacity and age
time, as `parse_rate` demands):
- `Refinement`: `BSpec => ImplementsWindow`. The inductive invariant is the types,
  the clock's bound and `BelowCapacity`, which is needed because the code
  subtracts a leak instead of resetting: the leak after an age time is at least
  the capacity (`LeakAtLeastCapacity`), and so empties only a bucket that holds
  less (`AgeEmptiesOrKeeps`). Then each call is a step of the window
  (`AccountIsWindowStep`), for records in any order.
- `StaysBelowCapacity`, `BucketTyping`: `BelowCapacity` and `BTypeOK`.
- `CountAlwaysExact`, `NeverFalseTrigger`: `ReportedCountIsExact` and
  `NoFalseTrigger`. `CountInv` says that count and excess together are the errors
  of the history since `tstamp`; a window is shorter than the age time, so what
  filled it lies within one.

**`Thresholds_proofs`**, about `Spec` of `Triggers`, from `TriggersAssumption` and `~PidWrap`:
- `AbortUnreachable`, `ChildListIsExact`, `LimitHolds`, `AllCollected`. The
  invariants are not inductive: `finish_child(si_pid)` runs whatever `waitpid`
  returned unless it failed, so that it removes only dead children needs that a pending signal, and the one
  being handled, never name a running child. `IInv` adds this and that
  `childlist` is finite.

**`PageErrors_proofs`**, from `PageAssumption` (positive sizes; finitely many different
records; `CharValues` is the number of values of the backoff multiplier, 256 in the code):
- `PoolAlwaysConsistent`, `CounterAlwaysOwn`. That `rb_erase` meets a node of the
  tree depends on where the corrupted LRU list leads. `PoolInv` says which
  counters are handed out, in the order of the slots; `ListInv` is the little that
  is left of the list when a cluster is added to it twice: no pointer of a cluster
  in use is poisoned, or leads to one that is not in use. This is enough.
- `AttemptsAlwaysLimited`. `OnceInv`: the attempts, summed over all pages, and the
  counters whose page was not tried yet are together at most the counters handed
  out, so that replacing a counter (page.c:115) pays for the attempt it makes
  possible again. `SpacedInv`: after `k` attempts the multiplier of a counter is the
  `k`-th power of two (`Doubled`) as long as that fits, and what its bucket holds came after
  the errors of these attempts. That the sum over the pages grows
  by one with one of its terms is `SumsStep`.

**`PollServer_proofs`**, from `PollServerAssumption`:
- `AssertionsHold`, `TableAlwaysRight`. Callbacks remove and add slots of the table
  that is being walked, so a slot may hold the `revents` of another connection.
  `ResultsFresh` says what such a stale result can be: the fixed slots are only
  ever readable, and a slot not visited yet is readable only while no answer is
  pending; `ConnsOnce` and `SlotsUnique` that a connection is accepted, and has a slot, once.

**`MemDB_proofs`**, from `MemDBAssumption` (thresholds are positive; ranks 0 to 3 are
those of DIMM 0 and 4 to 7 those of DIMM 1, unless the channel has a DIMM 2):
- `TotalsAlwaysExact`, `TriggersAlwaysReal`, `RankAlwaysStable`. `memory_error` is
  called up to six times for a record, so the invariant `DbInv` is one of the table
  between these calls: each total is the number of errors in the history, each
  bucket is below its capacity and counts errors since its time stamp, and behind each
  trigger there are its errors. A bucket's time stamp is at most `MaxLag` later than the errors it counts. A socket's bucket has this only until a dump ages it
  with the thresholds of the DIMMs, which is the exception `TriggersReal` makes.
  `RankInv`: DIMM 2 is in the table from the first record or never.

**`Records_proofs`**, about `AllSpec`, from `LogLenAssumption` and `RecordsAssumption`
(a record of a machine names its CPU or none):
- `RecordsAlwaysKept`, `OverflowAlwaysReported`, `ErrorsAlwaysGoWhereAsked`,
  `AlwaysDecodedAsItsCpu`, `YellowAlwaysOnce`, `ChannelsAlwaysApart` from
  `DeviceInv`: a record is dropped only when the buffer is full, so the next batch
  is full and asks for the flag (`OverflowInv`); the log and the accounts are what the
  filter and the decoders make of a record (`LogInv`), so the last three
  are lemmas about the decoders, for every record.
- `TextAlwaysFaithful` from `TextInv`: the fields of the struct are those of the
  record whose lines are read, and what was dumped are the records before it.

**`DaemonLife_proofs`**, from `DaemonLifeAssumption`:
- `FilesAlwaysKept`, `YieldsAlwaysToLive`. `OneOwner`: without an unanswered ping
  and without overlapping starts there is one daemon with a socket, the file is
  its own, a ping in progress is with it and one that failed met nobody. `AlarmSet`
  and `SocketMade` relate alarm and socket to the place in `server_setup`.

**`LogOutput_proofs`**, from `OptionsAssumption` (any hash function and any number of
buckets) and `LogOutputAssumption` (any file, command line and texts):
- `OptionsAlwaysAsGiven`. `ParseInv`: after `k` lines the lookup in the header list
  gives for every section and name the first value among these lines. A line
  changes both sides alike: `FirstStep` for the file, `HeaderChanges` and `OptionChanges` for
  the chains. `OptionInv`: the options follow what was said about syslog so far, by
  the entries of the table and then by the arguments.
- `EveryMessageAlwaysHeard`. `HeardInv`: a background daemon without a log file was
  told to use syslog, or has failed to open the file; then it uses syslog if nothing
  was said.
- `SyslogAlwaysComplete`. `LinesInv`: the texts follow one another in what was
  accepted (`Marks`), and each one is whole or ends where the buffer was full. A new
  text is behind all others and leaves the parts of the earlier ones alone, wherever
  the last newline cuts what waits.
- `LogAlwaysComplete`. `FileInv`: text is written to the newest file that has any, and files
  and buffer together are what was printed. That flushes and new files keep
  this are `FlattenWrite` and `FlattenNew`.

**`Dmi_proofs`**, from `DmiAssumption` (any tables of any entries, with range ends that
fit into an unsigned):
- `TablesAlwaysOutliveUse`, `CheckAlwaysRight`, `DimmsAlwaysFound`. `TablesInv`: what was
  collected are entries that were read, and open tables are behind them. `ChecksInv`:
  a database with DIMMs has open and trusted tables, trusted means checked, and with
  `--dmi` trusted tables stay collected.
- That unambiguous tables only are trusted holds for every order of the ranges, so
  nothing is needed of the sort: well formed ranges, each behind the one before, are
  disjoint (`ApartMeansDisjoint`). That good tables are trusted needs the sort:
  below half of the address width `cmp_range` does not wrap (`ToIntIs`,
  `CompareIs`), disjoint ranges have an order (`SortExists`), so that `Sorted` has
  only ordered results, and they pass (`GoodIsApart`).
- The loops of `dmi_collect`, `prefill_memdb` and `dmi_find_addr` are folds.
  `FoldingExists` gives each fold its intermediate results, `FoldingPasses` carries
  a fact along them, and `KeepKeeps`, `DatabaseIs` and `FindIs` say what the loops compute. `Entered` is
  the invariant of `prefill_memdb`'s: every place has a device that fits it, every
  device a place, and the first one that names a place has it; it needs nothing of
  the channel variable, whatever a locator left in it.

What recursive functions and folds compute (`FlattenSeq`, `FoldLeft`, `MapThenSumSet`, `Doubled`,
`Max`, `Min`) is proved by the least counterexample (`LeastExists`, from the well-foundedness of `<`):
the library's induction theorems take an operator as a parameter, which the provers
cannot instantiate.

Only model-checked are the liveness properties `MceProcessed` and `Answered` (`poll_server`),
`EventuallyHandled` (`records`), `WaitEnds` and `MergedSignalsCollectAll`
(`trigger_children`), `StartEnds` (`daemons`) and `RotationFollowed`
(`log_output`): fairness is out of the prover's reach here.

## Observed and not made into a run

- trigger.c:126: `waitpid(..., WNOHANG)` of 0 (the child runs) is treated like a
  collected child. With `PidWrap = TRUE`, TLC shows `finish_child` dropping a
  running child and the later collection reaching `abort()`.
- mcelog.c:1289, 1389: `exit(0)` of `--num-errors` and of `--ascii` does not pass
  `trigger_wait`, so triggers run on without a parent (`ExitEarly`).
- leaky-bucket.c:199: the test of the bucket, which nothing builds, expects an event
  to be reported from the first one on; `__bucket_account` reports the one that
  reaches the capacity of a window.
- leaky-bucket.c:34: windows do not slide, so a burst across a boundary stays
  below the threshold, where tests/pfa/PFA_test_howto:141 says "if there are 2
  corrected errors detected in one page within 1 hour".
- page.c:248: the backoff multiplier is an unsigned char: after eight failures it
  is 0 and every further error retries at once, where mcelog.conf:162 says "Retry
  failed offlines with exponential backoff". `AttemptsAreSpaced` ends there.
- memdb.c:326: a dump ages the bucket of a socket with the DIMM's capacity and age
  time, so the socket threshold may miss errors or fire for old ones;
  `SocketTriggersReal` holds only without dumps.
- memdb.c:199, leaky-bucket.c:33: a record older than its bucket's time stamp does not
  age it. Records of the time before the daemon started, and those processed after
  a dump, may fire a trigger together with errors up to their lag beyond the age time.
- sapphire.c:468, granite.c:297: for the M2M or B2CMI bank that all controllers share
  (12, and 29 for the HBM) the channel of the code is kept, which is the channel within
  a controller: the errors of several controllers are counted together, and with
  those of the DDR channel of that number.
- intel.c:93: a memory error with bit 12 (corrected filtering) in its code is not
  recognised: it is logged although mcelog.conf:36 says "Don't log memory errors
  individually", and not accounted (`MemoryErrorsFiltered` names the exception).
  On a K8 the option has no effect.
- server.c:350: two starts around a stale socket file, or a live server that is busy
  for longer than the ping waits or answers "too busy", end with a server whose file is gone: it runs
  and cannot be reached. When it is stopped later, it unlinks the socket and pid
  file of its successor.
- server.c:304: without a descriptor for the ping, `server_ping` returns 0 and the
  start is given up as "already running".
- server.c:355: the result of `unlink()` is ignored; if it fails, `bind()` does, and
  the start is given up.
- server.c:310: with initial-ping-timeout = 0 a server that hangs holds up the start of
  the next one for ever.
- server.c:313, 322: SIGPIPE (the old server ends between connect and write) and
  SIGALRM (between restoring its disposition and `alarm(0)`) kill the daemon that
  starts.
- With run-credentials-user the daemon can neither write nor remove its pid file in
  a directory of root's, nor remove the socket.
- msg.c:165: after a reopen that failed `output_fh` is NULL, so that no later SIGUSR1
  tries again; decoded records then go nowhere unless syslog was asked for.
- mcelog.c:1268: a filtered record passes by `flushlog`, so that what its accounting
  printed (page.c:231, memdb.c:148) is lost when a signal ends the daemon before the
  next record that is logged.
- msg.c:115: 199 characters without newline stay in the buffer of `vlinesyslog` for
  ever, and swallow every message behind them. A message of several short lines is
  cut, too, when it does not fit whole behind the text that waits.
- `--ascii --logfile` never opens the log file: `modifier_finish` is behind the
  command.
- `--syslog` on the command line leaves the level that `syslog-error` in the file
  has set.
- config.c:243: `--config-file=name` matches the prefix `--conf` and takes the
  argument after it for the name.
- dmi.c:553: `numranges` counts the ranges behind the first, so one range for many
  DIMMs passes the check that there are enough.
- dmi.c:465: with ranges above 2 TB the sort goes wrong and good tables are rejected.
- dmi.c:624: the last kilobyte of a range is not found, although dmi.c:547 counts it in.
- dmi.c:545: a range that ends before it starts hides that the ranges around it overlap.
- memdb.c:393: the AMI formats leave `channel` uninitialized, or that of the device
  before, or what a locator that fits no format left there half way.
- page.c:115: a replaced counter forgets that its page had triggered.
- client.c:74: the answer to `ping` has no line `ask_server` waits for, so
  `mcelog --ping` ends only with the connection.
- nehalem.c:135: the KNL channel offset is logged but not used for accounting.
- p4.c: the bus trigger runs for corrected errors too, where mcelog.conf:141
  speaks of uncorrected ones.
- `--ascii` starts from `CPU_GENERIC`, not from the CPU it runs on, and a record
  without PROCESSOR is decoded as the CPU of the one before.
- A Xen header line that no bank line follows leaves its CPU number for the next
  record; `AsciiIntact` therefore leaves that field out.
- SIGTERM between `read()` and the end of a batch loses the rest of it, which
  the kernel has already forgotten.

## Not modelled

A socket path that is empty (no server) or too long for a unix socket; `max counters = 0`,
with which page.c:109 takes a cluster from an empty list (`PageAssumption` excludes it).

Texts: formatting of log lines and answers, the names of status bits, trigger
environment variables. Decoders of older and client CPUs (tulsa.c, dunnington.c,
core2.c, denverton.c, broadwell_de.c), which only print. `*_ce_type` and the
mirroring remark of p4.c. Of the configuration: the text of lines, numbers, trigger
and credential sections, the search for `--config-file`. Of DMI: the search for the
SMBIOS anchor, strings, memory arrays. The red-black tree's balancing
(rbtree.c is the kernel's). Time stamps, cache topology, model specific registers.

## Plan

Done: the core (thresholds, triggers, page counters, event loop and server,
memory database, record processing); then the life of daemons, options and log output,
DMI tables, and the rank to DIMM translation; then the proofs of all safety
invariants.

Left, in this order:
1. Compose `RecordProcessing` with `MemDB` and `PageErrors` (an abstract
   accounting module that both refine), and `Triggers` with the event loop.
2. The `*_ce_type` functions, `config_trigger` and `config_cred`.
