--------------------------------- MODULE Dmi ---------------------------------
(***************************************************************************)
(* The BIOS tables of memory devices, dmi.c: read from sysfs or /dev/mem,  *)
(* checked, handed to the memory database by prefill_memdb of memdb.c,     *)
(* closed again by main() if they are not trusted, and asked for the DIMM  *)
(* of an address.                                                          *)
(*                                                                         *)
(* An entry is a memory "device", the "range" of addresses of a device, or *)
(* another kind.  Addresses of ranges are kilobytes in an unsigned whose   *)
(* highest bit is SignBit; Unit bytes are a kilobyte.                      *)
(***************************************************************************)
EXTENDS Integers, Sequences, SequencesExt, FiniteSets

CONSTANTS
  Tables,     \* the BIOS tables considered, sequences of entries
  SignBit,    \* of start_addr and end_addr taken as an int: 2^31 in the code
  Unit,       \* 1024 in the code
  Addresses,  \* the addresses of records that are looked up, in bytes
  Channels,   \* memory channels
  NONE        \* NULL, or a locator that is missing or cannot be parsed

ASSUME DmiAssumption ==
  /\ SignBit \in Nat \ {0} /\ Unit \in Nat \ {0}
  /\ Addresses \subseteq Nat \ {0}
  /\ NONE \notin Channels
  /\ \A t \in Tables :
       /\ t \in Seq(ToSet(t))
       /\ \A e \in ToSet(t) :
            e # NONE /\ (e.is = "range" => {e.start, e.end} \subseteq 0 .. 2 * SignBit - 1)

VARIABLES
  bios,          \* the BIOS tables of this machine
  option,        \* --dmi, --no-dmi, or neither (dmi_forced is 0)
  daemon_mode,
  prepopulate,   \* memdb_enabled and dmi-prepopulate not "no"
  pc,            \* check, prefill, close, running, or exit
  do_dmi,
  opened,        \* entries # NULL
  entries,       \* the entries that were read, in their order
  collected,     \* dmi_ranges, dmi_dimms and handle_to_entry # NULL
  dmi_ranges, dmi_dimms,   \* as sequences of entries
  memdb,         \* the DIMMs of the memory database: memdev of each place
  looked, found  \* the last address decoded, and the devices listed for it

given == <<bios, option, daemon_mode, prepopulate>>
tables == <<opened, entries, collected, dmi_ranges, dmi_dimms>>
decoded == <<looked, found>>
vars == <<given, pc, do_dmi, tables, memdb, decoded>>

Init ==
  /\ bios \in Tables
  /\ option \in {"dmi", "no-dmi", "default"}
  /\ daemon_mode \in BOOLEAN
  /\ prepopulate \in BOOLEAN
  /\ pc = "check"
  /\ do_dmi = (option = "dmi")
  /\ opened = FALSE /\ collected = FALSE
  /\ entries = << >> /\ dmi_ranges = << >> /\ dmi_dimms = << >>
  /\ memdb = << >>
  /\ looked = NONE /\ found = << >>

-----------------------------------------------------------------------------
(* opendmi *)

\* The elements of es that are in P, in their order.
Keep(es, P) == FoldLeft(LAMBDA kept, e : IF e \in P THEN Append(kept, e) ELSE kept, << >>, es)

OfKind(es, kind) == Keep(es, {e \in ToSet(es) : e.is = kind})

\* The entries of a kind in sysfs, up to the first one that cannot be read.
append_sysfs_dmi_entries(kind) ==
  {SubSeq(OfKind(bios, kind), 1, n) : n \in 0 .. Len(OfKind(bios, kind))}

SysfsEntries ==
  {arrays \o devices \o ranges :
     arrays \in append_sysfs_dmi_entries("array"),
     devices \in append_sysfs_dmi_entries("device"),
     ranges \in append_sysfs_dmi_entries("range")}

\* The table of /dev/mem, up to an entry that check_entry finds truncated.
MemEntries == {SubSeq(bios, 1, n) : n \in 0 .. Len(bios)}

\* An unsigned as the int of cmp_range, and the difference as one.
ToInt(x) == LET bits == x % (2 * SignBit)
            IN  IF bits >= SignBit THEN bits - 2 * SignBit ELSE bits

cmp_range(a, b) == ToInt(ToInt(a.start) - ToInt(b.end))

\* qsort: in the order of cmp_range if it is one on these ranges; for a
\* comparison that contradicts itself the ranges may come back in any order.
Sorted(rs) ==
  LET orders  == {[i \in 1 .. Len(rs) |-> rs[f[i]]] : f \in SetToSeqs(1 .. Len(rs))}
      ordered == {s \in orders : \A i, j \in 1 .. Len(s) :
                    i < j => cmp_range(s[i], s[j]) < 0 /\ cmp_range(s[j], s[i]) > 0}
  IN  IF ordered # {} THEN ordered ELSE orders

\* dmi_collect: entries long enough, and of the devices those with a size.
dmi_collect(es, kind) ==
  Keep(es, {e \in ToSet(es) : e.is = kind /\ e.whole /\ (kind = "device" => e.size # 0)})

\* opendmi leaves open tables alone.  Reading may yield nothing: entries is set
\* by the first bytes read, the arrays of pointers in any case.
opendmi ==
  IF opened THEN UNCHANGED tables
  ELSE \E es \in SysfsEntries \cup MemEntries :
         /\ entries' = es
         /\ opened' \in IF es = << >> THEN BOOLEAN ELSE {TRUE}
         /\ collected' = TRUE
         /\ dmi_ranges' \in Sorted(dmi_collect(es, "range"))
         /\ dmi_dimms' = dmi_collect(es, "device")

-----------------------------------------------------------------------------
(* checkdmi *)

\* Mutant: ranges may touch.
RangesApart_Touching(ranges) ==
  \A k \in 2 .. Len(ranges) : ranges[k].start >= ranges[k - 1].end

RangesApart(ranges) ==
  \A k \in 2 .. Len(ranges) : ranges[k].start > ranges[k - 1].end

\* numranges counts the ranges behind the first.
EnoughRanges(ranges, dimms) == ~ (Len(ranges) = 2 /\ Len(dimms) > 2)

LocatorsUnique(dimms) ==
  /\ \A k \in 1 .. Len(dimms) : dimms[k].locator # NONE
  /\ \A k \in 1 .. Len(dimms), i \in 1 .. Len(dimms) :
       i < k => dimms[i].locator # dimms[k].locator

dmi_sanity_check(ranges, dimms) ==
  /\ ranges # << >>
  /\ RangesApart(ranges)
  /\ EnoughRanges(ranges, dimms)
  /\ LocatorsUnique(dimms)

checkdmi ==
  /\ pc = "check"
  /\ \/ /\ option = "no-dmi"
        /\ pc' = "prefill"
        /\ UNCHANGED <<tables, do_dmi>>
     \/ /\ option # "no-dmi"
        /\ opendmi
        /\ do_dmi' = (option = "dmi" \/ dmi_sanity_check(dmi_ranges', dmi_dimms'))
        /\ pc' = "prefill"
     \/ /\ option # "no-dmi"            \* neither sysfs nor /dev/mem
        /\ pc' = IF option = "dmi" THEN "exit" ELSE "prefill"
        /\ do_dmi' = FALSE
        /\ UNCHANGED tables
  /\ UNCHANGED <<given, memdb, decoded>>

-----------------------------------------------------------------------------
(* prefill_memdb *)

\* parse_dimm_addr: formats without a channel leave the variable as it was.
parse_dimm_addr(d, channel) ==
  IF d.place.channel = NONE THEN [d.place EXCEPT !.channel = channel] ELSE d.place

\* A locator that fits no format is missed; sscanf may have stored the channel
\* of the beginning that did fit one.
Missed(db, d) == IF d.stray = NONE THEN db ELSE [db EXCEPT !.channel = d.stray]

\* Mutant: the last device of a place is kept.
AddDimm_Last(db, d) ==
  IF d.place = NONE THEN Missed(db, d)
  ELSE LET p == parse_dimm_addr(d, db.channel)
       IN  [channel |-> p.channel,
            dimms |-> [x \in DOMAIN db.dimms \cup {p} |-> IF x = p THEN d ELSE db.dimms[x]]]

\* The first device of a place is kept, others count as missed.
AddDimm(db, d) ==
  IF d.place = NONE THEN Missed(db, d)
  ELSE LET p == parse_dimm_addr(d, db.channel)
       IN  [channel |-> p.channel,
            dimms |-> [x \in DOMAIN db.dimms \cup {p} |->
                         IF x \in DOMAIN db.dimms THEN db.dimms[x] ELSE d]]

\* channel is uninitialized at the start of the loop.  opendmi cannot fail
\* here: with do_dmi checkdmi came through it before.
prefill_memdb ==
  /\ pc = "prefill"
  /\ pc' = "close"
  /\ IF daemon_mode /\ do_dmi /\ prepopulate
       THEN /\ opendmi
            /\ \E garbage \in Channels :
                 memdb' = FoldLeft(AddDimm, [channel |-> garbage, dimms |-> << >>],
                                   dmi_dimms').dimms
       ELSE UNCHANGED <<tables, memdb>>
  /\ UNCHANGED <<given, do_dmi, decoded>>

\* Mutant: the tables are closed in any case.
Close_Always == daemon_mode

\* main(): a daemon closes the tables that it does not use.
Close == daemon_mode /\ ~ do_dmi

closedmi ==
  /\ pc = "close"
  /\ pc' = "running"
  /\ IF Close /\ opened
       THEN /\ opened' = FALSE /\ entries' = << >>
            /\ collected' = FALSE /\ dmi_ranges' = << >> /\ dmi_dimms' = << >>
       ELSE UNCHANGED tables
  /\ UNCHANGED <<given, do_dmi, memdb, decoded>>

-----------------------------------------------------------------------------
(* dmi_decodeaddr *)

\* fill_handles: the last entry of a handle counts, whatever it is.
handle_to_entry(h) ==
  LET hits == {i \in 1 .. Len(entries) : entries[i].handle = h}
  IN  IF hits = {} THEN NONE ELSE entries[Max(hits)]

Covers(r, addr) == addr >= r.start * Unit /\ addr < r.end * Unit

dmi_find_addr(addr) ==
  Keep([i \in 1 .. Len(dmi_ranges) |->
          IF Covers(dmi_ranges[i], addr) THEN handle_to_entry(dmi_ranges[i].dev) ELSE NONE],
       ToSet(entries))

\* resolveaddr: only for --dmi.
dmi_decodeaddr(addr) ==
  /\ pc = "running"
  /\ do_dmi /\ option = "dmi"
  /\ looked' = addr
  /\ found' = dmi_find_addr(addr)
  /\ UNCHANGED <<given, pc, do_dmi, tables, memdb>>

Next ==
  \/ checkdmi \/ prefill_memdb \/ closedmi
  \/ \E addr \in Addresses : dmi_decodeaddr(addr)

Spec == Init /\ [][Next]_vars

-----------------------------------------------------------------------------
TypeOK ==
  /\ pc \in {"check", "prefill", "close", "running", "exit"}
  /\ do_dmi \in BOOLEAN /\ opened \in BOOLEAN /\ collected \in BOOLEAN
  /\ ToSet(entries) \subseteq ToSet(bios)
  /\ ToSet(dmi_ranges) \subseteq ToSet(entries)
  /\ ToSet(dmi_dimms) \subseteq ToSet(entries)
  /\ ToSet(found) \subseteq ToSet(bios)

(* The memory database points into the BIOS tables for as long as it lives:
   they are never freed once a DIMM was taken over from them.  And where
   dmi_decodeaddr may be called, dmi_ranges and handle_to_entry, which it
   follows without a check, are not NULL.                                  *)
InUseMeansOpen ==
  pc = "running" =>
    /\ memdb # << >> => opened
    /\ do_dmi /\ option = "dmi" => collected

(* closedmi takes the tables away from nobody who still uses them, and leaves
   dmi_ranges and dmi_dimms without pointers into them (TypeOK).           *)
TablesOutliveUse == TypeOK /\ InUseMeansOpen

\* The ranges are well formed, and pairwise apart.
WellFormed(rs) == \A r \in ToSet(rs) : r.start <= r.end
Disjoint(rs) ==
  \A i, j \in 1 .. Len(rs) : i # j => rs[i].end < rs[j].start \/ rs[j].end < rs[i].start

(* The tables that mcelog takes over without being told to are unambiguous:
   no two ranges overlap and no two DIMMs have the same name, in whatever
   order the comparison of cmp_range, which wraps, left the ranges.  This is
   so if each range starts before it ends, which nothing checks: a malformed
   range between two that overlap hides them from the check.               *)
TrustedMeansUnambiguous ==
  (pc = "prefill" /\ option = "default" /\ do_dmi /\ WellFormed(dmi_ranges)) =>
    Disjoint(dmi_ranges) /\ LocatorsUnique(dmi_dimms)

(* And good tables are trusted: with ranges that do not overlap, below half of
   the address width (2 TB), and enough of them, the check passes in whatever
   order the BIOS lists them.                                              *)
GoodTablesTrusted ==
  (/\ pc = "prefill" /\ option = "default" /\ opened
   /\ dmi_ranges # << >> /\ WellFormed(dmi_ranges) /\ Disjoint(dmi_ranges)
   /\ \A r \in ToSet(dmi_ranges) : r.end < SignBit
   /\ EnoughRanges(dmi_ranges, dmi_dimms) /\ LocatorsUnique(dmi_dimms)) => do_dmi

(* dmi_sanity_check tells good tables from bad ones.                       *)
CheckIsRight == TrustedMeansUnambiguous /\ GoodTablesTrusted

Prefilled == pc \in {"close", "running"} /\ daemon_mode /\ do_dmi /\ prepopulate

\* The locator of the device can mean the place: a format without a channel
\* may be any of them.
FitsPlace(d, p) ==
  /\ d.place # NONE
  /\ \/ d.place = p
     \/ d.place.channel = NONE /\ [d.place EXCEPT !.channel = p.channel] = p

(* What prefill_memdb makes of the devices, locators without a channel among
   them: each place of the database has a device that fits it, each device
   with a locator fits some place, and a device that names its channel is at
   its place unless one before it fits that place too.                     *)
DimmsAtTheirPlace ==
  Prefilled =>
    /\ \A p \in DOMAIN memdb : memdb[p] \in ToSet(dmi_dimms) /\ FitsPlace(memdb[p], p)
    /\ \A d \in ToSet(dmi_dimms) : d.place # NONE => \E p \in DOMAIN memdb : FitsPlace(d, p)
    /\ \A k \in 1 .. Len(dmi_dimms) :
         LET d == dmi_dimms[k]
         IN  (/\ d.place # NONE /\ d.place.channel # NONE
              /\ \A i \in 1 .. k - 1 : ~ FitsPlace(dmi_dimms[i], d.place))
             => d.place \in DOMAIN memdb /\ memdb[d.place] = d

(* The devices listed for an address are devices of ranges that hold it, and
   the device of each range that holds it is listed, unless the address is in
   the range's last kilobyte, which dmi_find_addr leaves out although SMBIOS
   and dmi_sanity_check count it in.  In tables without overlaps an address
   has one device at most.                                                 *)
DecodedToItsDimms ==
  looked # NONE =>
    LET holds == {r \in ToSet(dmi_ranges) : looked \div Unit \in r.start .. r.end}
    IN  /\ \A e \in ToSet(found) :
             e = handle_to_entry(e.handle) /\ \E r \in holds : r.dev = e.handle
        /\ \A r \in holds :
             looked \div Unit # r.end => handle_to_entry(r.dev) \in ToSet(found) \cup {NONE}
        /\ WellFormed(dmi_ranges) /\ Disjoint(dmi_ranges) =>
             \A d, e \in ToSet(found) : d = e

(* A DIMM is found where it is, by its locator (prefill_memdb) and by an
   address (dmi_decodeaddr).                                               *)
DimmsFound == DimmsAtTheirPlace /\ DecodedToItsDimms
=============================================================================
