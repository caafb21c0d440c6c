-------------------------- MODULE RecordProcessing --------------------------
(***************************************************************************)
(* How mcelog takes machine check records from the kernel and handles them *)
(* one by one: process() of mcelog.c with the CPU type it decodes them as, *)
(* the filter that accounts memory errors, the decoders and the triggers.  *)
(*                                                                         *)
(* The kernel keeps at most LogLen records and drops further ones; the     *)
(* daemon empties its buffer with one read() and then works through the    *)
(* batch, while new records arrive and a signal may end it at any point.   *)
(***************************************************************************)
EXTENDS MemoryBanks, SequencesExt

CONSTANTS
    Setups,         \* the ways the program is started
    RecordsOf(_),   \* the records the machine may produce, by its CPU type
    LogLen,         \* MCE_GET_LOG_LEN: the size of the kernel's buffer
    MaxRecords(_)   \* bound: records a machine produces, by its CPU type

ASSUME LogLenAssumption == LogLen \in Nat \ {0}

VARIABLES
    setup,      \* the machine and the options the program was started with
    kernel,     \* the records in the kernel's buffer
    overflow,   \* MCE_OVERFLOW: a record found the buffer full
    batch,      \* the records read and not handled yet
    state,      \* "idle" in the event loop, "read", "loop" in process(), "exited"
    cputype,    \* the CPU type records are decoded as
    numerrors,  \* records left to handle before exiting; 0 means no limit
    finish,     \* process() exits at its end
    logged,     \* the records decoded into the log
    accounted,  \* the memory errors counted by memdb and the page counters
    produced,   \* history: every record the kernel took into its buffer
    handled,    \* history: the records the loop has done with
    dropped,    \* history: a record was lost since MCE_OVERFLOW was last cleared
    lost,       \* history: the same, at the last read()
    warned      \* the overflow was reported after the last read()

vars == <<setup, kernel, overflow, batch, state, cputype, numerrors, finish,
          logged, accounted, produced, handled, dropped, lost, warned>>

----------------------------------------------------------------------------
NonIntel == {"GENERIC", "K8", "ZHAOXIN", "KH40000", "KH50000"}
IsZhaoxin(t) == t \in {"ZHAOXIN", "KH40000", "KH50000"}
IsIntel(t) == t \notin NonIntel

NoCpuid == "none"

\* The kernel names the CPU it runs on in a record, or, before it did, none.
\* A negative --num-errors is no limit, as 0 is.
ASSUME RecordsAssumption ==
    \A s \in Setups :
        /\ s.numerrors \in Nat
        /\ \A r \in RecordsOf(s.machine) :
               r.cpuid \in {NoCpuid, s.machine} /\ r.code \in Nat

\* main: is_cpu_supported finds the type of the machine, unless one is forced.
\* --ascii is handled before that, so it starts from CPU_GENERIC.
StartType ==
    IF setup.forced # NoCpuid THEN setup.forced
    ELSE IF setup.source = "ascii" THEN "GENERIC" ELSE setup.machine

\* main switches extended logging on where it exists (without --no-imc-log).
ImcLog == StartType \in {"SANDY_BRIDGE_EP", "IVY_BRIDGE_EPEX", "HASWELL_EPEX"}

\* Mutant: a forced type is forgotten at the first record.
mce_cpuid_Unforced(r) == IF r.cpuid # NoCpuid THEN r.cpuid ELSE cputype

\* mce_cpuid: a record that names its CPU changes the type, unless it is forced;
\* without a type the machine's own is looked up.
mce_cpuid(r) ==
    IF setup.forced # NoCpuid THEN cputype
    ELSE IF r.cpuid # NoCpuid THEN r.cpuid
    ELSE IF cputype = "GENERIC" THEN setup.machine ELSE cputype

----------------------------------------------------------------------------
(* Filtering.  The memory errors of Intel and Zhaoxin CPUs are accounted   *)
(* by the filter, before it decides whether they are logged.               *)

\* intel_memory_error tests the code as it stands, zhaoxin_memory_error
\* masks bit 12 out first.
IsMemoryError(t, r) ==
    \/ IsIntel(t) /\ r.code \div 128 = 1
    \/ IsZhaoxin(t) /\ Unfiltered(r.code) \div 128 = 1

\* Mutant: filtered errors are not accounted.
Account_OnlyLogged(t, r) ==
    IF setup.filter /\ IsMemoryError(t, r) /\ ~setup.filtermem
    THEN <<[rec |-> r, as |-> t, channel |-> memerr_misc(t, r, ImcLog)[1]]>>
    ELSE <<>>

\* The entries memory_error and account_page_error get for a record.
Account(t, r) ==
    IF setup.filter /\ IsMemoryError(t, r)
    THEN [i \in 1..Len(memerr_misc(t, r, ImcLog)) |->
             [rec |-> r, as |-> t, channel |-> memerr_misc(t, r, ImcLog)[i]]]
    ELSE <<>>

\* mce_filter: does the record get logged?
mce_filter(t, r) ==
    \/ ~setup.filter
    \/ IF t = "K8" THEN ~IsGart(r) ELSE IsMemoryError(t, r) => ~setup.filtermem

\* dump_mce: the log entry of a record.
dump_mce(t, r) ==
    LET decoded == CASE t = "K8"      -> decode_k8_mc(r)
                     [] IsIntel(t)    -> decode_intel_mc(r)
                     [] IsZhaoxin(t)  -> decode_zhaoxin_mc(r, t)
                     [] OTHER         -> [kind |-> "undecoded", triggers |-> <<>>]
    IN [rec |-> r, as |-> t, unit |-> Unit(t, r.bank),
        kind |-> decoded.kind, triggers |-> decoded.triggers]

\* dump_mce_raw_ascii: --raw prints the fields and decodes nothing.
dump_mce_raw_ascii(t, r) ==
    [rec |-> r, as |-> t, unit |-> "none", kind |-> "raw", triggers |-> <<>>]

Dump(t, r) == IF setup.raw THEN dump_mce_raw_ascii(t, r) ELSE dump_mce(t, r)

----------------------------------------------------------------------------
Init ==
    /\ setup \in Setups
    /\ kernel = <<>> /\ overflow = FALSE
    /\ batch = <<>>
    /\ state = "idle"
    /\ cputype = StartType
    /\ numerrors = setup.numerrors
    /\ finish = FALSE
    /\ logged = <<>> /\ accounted = <<>>
    /\ produced = <<>> /\ handled = <<>>
    /\ dropped = FALSE /\ lost = FALSE /\ warned = FALSE

\* The kernel logs a record, or drops it and sets the flag.
MachineCheck(r) ==
    /\ state # "exited"
    /\ Len(produced) < MaxRecords(setup.machine)
    /\ IF Len(kernel) < LogLen
       THEN /\ kernel' = Append(kernel, r)
            /\ produced' = Append(produced, r)
            /\ UNCHANGED <<overflow, dropped>>
       ELSE /\ overflow' = TRUE
            /\ dropped' = TRUE
            /\ UNCHANGED <<kernel, produced>>
    /\ UNCHANGED <<setup, batch, state, cputype, numerrors, finish, logged, accounted, handled, lost, warned>>

\* Mutant: the device is readable only when its buffer is full.
Read_WhenFull ==
    /\ state = "idle"
    /\ Len(kernel) = LogLen
    /\ batch' = kernel
    /\ kernel' = <<>>
    /\ state' = "read"
    /\ lost' = dropped
    /\ UNCHANGED <<setup, overflow, cputype, numerrors, finish, logged, accounted, produced, handled, dropped, warned>>

\* read() of everything the kernel has: when the daemon's poll says so, or
\* at once when mcelog runs from cron.
Read ==
    /\ state = "idle"
    /\ setup.daemon => kernel # <<>>
    /\ batch' = kernel
    /\ kernel' = <<>>
    /\ state' = "read"
    /\ lost' = dropped
    /\ UNCHANGED <<setup, overflow, cputype, numerrors, finish, logged, accounted, produced, handled, dropped, warned>>

\* read() fails: a daemon tries again later.
ReadError ==
    /\ state = "idle" /\ ~setup.daemon
    /\ state' = "exited"
    /\ UNCHANGED <<setup, kernel, overflow, batch, cputype, numerrors, finish,
                   logged, accounted, produced, handled, dropped, lost, warned>>

\* Mutant: > for ==.
AsksForFlags_More == Len(batch) > LogLen

\* A full batch asks for the flag, which the kernel clears.
AsksForFlags == Len(batch) = LogLen

CheckOverflow ==
    /\ state = "read"
    /\ state' = "loop"
    /\ IF AsksForFlags
       THEN /\ overflow' = FALSE
            /\ dropped' = FALSE
            /\ warned' = overflow
       ELSE /\ warned' = FALSE
            /\ UNCHANGED <<overflow, dropped>>
    /\ UNCHANGED <<setup, kernel, batch, cputype, numerrors, finish, logged, accounted, produced, handled, lost>>

\* The countdown of --num-errors.
Countdown == IF numerrors > 0 THEN numerrors - 1 ELSE numerrors

\* One turn of the loop of process(): prepare, count, filter, dump.
ProcessRecord ==
    /\ state = "loop"
    /\ batch # <<>>
    /\ ~finish
    /\ LET r == Head(batch)
           t == mce_cpuid(r)
       IN /\ cputype' = t
          /\ numerrors' = Countdown
          /\ finish' = (numerrors = 1)
          /\ accounted' = accounted \o Account(t, r)
          /\ logged' = IF mce_filter(t, r) THEN Append(logged, Dump(t, r)) ELSE logged
          /\ batch' = Tail(batch)
          /\ handled' = Append(handled, r)
    /\ UNCHANGED <<setup, kernel, overflow, state, produced, dropped, lost, warned>>

\* Mutant: the loop stops at the last record but one.
EndBatch_OneLess ==
    /\ state = "loop"
    /\ finish \/ Len(batch) <= 1
    /\ state' = IF finish THEN "exited" ELSE "idle"
    /\ UNCHANGED <<setup, kernel, overflow, batch, cputype, numerrors, finish,
                   logged, accounted, produced, handled, dropped, lost, warned>>

\* The end of process(): exit, or back to the event loop.
EndBatch ==
    /\ state = "loop"
    /\ finish \/ batch = <<>>
    /\ state' = IF finish \/ ~setup.daemon \/ (setup.debug /\ numerrors = 0)
                THEN "exited" ELSE "idle"
    /\ UNCHANGED <<setup, kernel, overflow, batch, cputype, numerrors, finish,
                   logged, accounted, produced, handled, dropped, lost, warned>>

\* signal_exit: SIGTERM, SIGINT and SIGQUIT are never blocked.
SignalExit ==
    /\ state # "exited"
    /\ state' = "exited"
    /\ UNCHANGED <<setup, kernel, overflow, batch, cputype, numerrors, finish,
                   logged, accounted, produced, handled, dropped, lost, warned>>

Process == Read \/ CheckOverflow \/ ProcessRecord \/ EndBatch

Next ==
    \/ Process
    \/ ReadError
    \/ SignalExit
    \/ \E r \in RecordsOf(setup.machine) : MachineCheck(r)

----------------------------------------------------------------------------
TypeOK ==
    /\ setup \in Setups
    /\ kernel \in BoundedSeq(RecordsOf(setup.machine), LogLen)
    /\ batch \in BoundedSeq(RecordsOf(setup.machine), LogLen)
    /\ state \in {"idle", "read", "loop", "exited"}
    /\ numerrors \in 0..setup.numerrors
    /\ {overflow, finish, dropped, lost, warned} \subseteq BOOLEAN

\* Every record the kernel took is handled exactly once, in the order of its
\* arrival, or still waits in the batch or in the kernel: the reads and the
\* loop of process() lose and repeat nothing, whenever new records arrive.
RecordsKept == produced = handled \o batch \o kernel

\* The same, and the countdown of --num-errors, at whose 0 process() stops
\* handling records in debug mode, does not pass 0.
NothingLost == TypeOK /\ RecordsKept

\* process() asks for MCE_OVERFLOW only after a full batch, which is enough:
\* when records had been dropped before a read, the loop runs after a warning.
OverflowReported == state = "loop" /\ lost => warned

\* A handled record is in the log, or it is a memory error that was accounted
\* and that the user asked not to see, or a bogus GART error of a K8.
NoErrorVanishes ==
    \A r \in Range(handled) :
        \/ \E e \in Range(logged) : e.rec = r
        \/ setup.filtermem /\ \E a \in Range(accounted) : a.rec = r
        \/ IsGart(r)

\* The record is decoded as the CPU it names, or as the machine's own when it
\* names none; a forced type wins, as --cpu promises.  (All records of the
\* device name one CPU; AsciiFaithful is about records of different ones.)
DecodedAsItsCpu ==
    \A e \in Range(logged) \cup Range(accounted) :
        e.as = IF setup.forced # NoCpuid THEN setup.forced
               ELSE IF e.rec.cpuid # NoCpuid THEN e.rec.cpuid ELSE StartType

\* The record tells of a corrected cache error with yellow status, in the code
\* the architectural decoder knows or in the one of the KH caches.
YellowError(e) ==
    /\ e.rec.track = Yellow /\ ~e.rec.uc
    /\ \/ IsIntel(e.as) /\ e.rec.tes \in {"yes", "nocap"} /\ e.kind \in YellowKinds
       \/ /\ IsZhaoxin(e.as) /\ e.rec.tes = "yes"
          /\ e.kind \in YellowKinds \/ (e.unit = "cache" /\ e.rec.code = 1 /\ e.rec.ext = 1)

\* A corrected cache error with yellow status runs the cache trigger exactly
\* once, and no other record runs it: on the KH CPUs the model specific decoder
\* runs it where the architectural one does not, and nowhere else.
YellowOnce ==
    \A e \in Range(logged) :
        Cardinality({i \in DOMAIN e.triggers : e.triggers[i] = "yellow"})
            = IF YellowError(e) THEN 1 ELSE 0

\* The record that reports an error of a memory channel.
Reported(r, p) == r.bank = p.bank /\ CodeChannel(r.code) \in p.codes /\ r.misc = p.die

\* The errors of one memory channel are accounted together and apart from those
\* of every other channel, whether the channel's own bank reports them or the
\* bank of a home agent or M2M that belongs to one controller: their numbers
\* agree.  Not covered are the banks that one M2M or B2CMI has for all
\* controllers (12 and 29 of Sapphire, 12 of Granite), where *_memerr_misc
\* keeps the channel of the code, which may be any controller's.
ChannelsApart ==
    \A a, b \in Range(accounted) : \A p, q \in Reports(a.as) :
        a.as = b.as /\ Reported(a.rec, p) /\ Reported(b.rec, q) =>
            (a.channel = b.channel <=> SameChannel(p, q))

\* With filter-memory-errors a memory error is accounted and not logged
\* (mcelog.conf:36), whatever CPU type a record before it left behind.  The
\* exceptions are a K8, where mce_filter knows no memory errors, and codes with
\* bit 12, which intel_memory_error does not mask out: those are logged as
\* memory errors, and never accounted as well.
MemoryErrorsFiltered ==
    setup.filter /\ setup.filtermem =>
        \A e \in Range(logged) :
            e.kind = "memory" =>
                /\ e.as = "K8" \/ (IsIntel(e.as) /\ Filtered(e.rec.code))
                /\ \A a \in Range(accounted) : a.rec # e.rec

\* mce_filter, the accounting and the log agree on every record: each error
\* leaves a trace, and leaves it where the user asked for it.
ErrorsGoWhereAsked == NoErrorVanishes /\ MemoryErrorsFiltered

MaxCount == Max({MaxRecords(s.machine) : s \in Setups})

\* Every record the kernel took is handled in the end, unless the program exits.
EventuallyHandled ==
    \A n \in 1..MaxCount :
        (Len(produced) >= n) ~> (Len(handled) >= n \/ state = "exited")
=============================================================================
