---------------------------- MODULE Records_proofs ----------------------------
(***************************************************************************)
(* Proofs about RecordProcessing and AsciiInput, for any records, options, *)
(* size of the kernel's buffer and length of the log.                      *)
(***************************************************************************)
EXTENDS AsciiInput, FiniteSetTheorems, SequenceTheorems, TLAPS

Recs == RecordsOf(setup.machine)

(* The type a record is decoded as.                                        *)
CpuFor(r) ==
    IF setup.forced # NoCpuid THEN setup.forced
    ELSE IF r.cpuid # NoCpuid THEN r.cpuid ELSE StartType

(* The history variables are sequences; the loop leaves nothing behind in
   the batch when it goes back to the event loop.                          *)
LoopInv ==
    /\ handled \in Seq(Recs)
    /\ state = "idle" => batch = <<>>

(* A record is dropped only when the kernel's buffer is full, and then the
   next batch is a full one, which makes CheckOverflow ask for the flag.   *)
OverflowInv ==
    /\ dropped => overflow
    /\ dropped /\ state # "exited" =>
         Len(kernel) = LogLen \/ (state = "read" /\ Len(batch) = LogLen)
    /\ state = "read" /\ lost => overflow /\ Len(batch) = LogLen

(* The machine's records do not change the type they are decoded as.       *)
CpuInv == setup.source = "device" => cputype = StartType

(* What is in the log and in the accounts is what dump_mce and the filter
   make of a record, decoded as its CPU.                                   *)
LogInv ==
    /\ logged \in Seq(Range(logged)) /\ accounted \in Seq(Range(accounted))
    /\ \A e \in Range(logged) :
         /\ e.rec \in Recs /\ e.as = CpuFor(e.rec)
         /\ e = Dump(e.as, e.rec) /\ mce_filter(e.as, e.rec)
    /\ \A a \in Range(accounted) :
         /\ a.rec \in Recs /\ a.as = CpuFor(a.rec)
         /\ setup.filter /\ IsMemoryError(a.as, a.rec)
         /\ a.channel \in Range(memerr_misc(a.as, a.rec, ImcLog))

(* The inductive invariant of process().                                   *)
DeviceInv ==
    /\ NothingLost
    /\ LoopInv
    /\ OverflowInv
    /\ OverflowReported
    /\ CpuInv
    /\ LogInv
    /\ NoErrorVanishes

(* The struct mce that is being filled holds the fields of the record whose
   lines are read, and a record counts as known once data is set.          *)
FillInv ==
    /\ written \in Nat \ {0} /\ known \subseteq 1..written
    /\ m \in [Fields -> Nat] /\ data \in BOOLEAN
    /\ given \subseteq Fields \cup {"cpu"}
    /\ data \/ given \subseteq {"cpu"}
    /\ data <=> written \in known
    /\ \A f \in Fields \ {"cpu"} : m[f] = IF f \in given THEN written ELSE 0

(* What was dumped are the records before the current one.                 *)
DumpInv ==
    /\ dumps \in Seq(Range(dumps))
    /\ \A i \in DOMAIN dumps : dumps[i].of \in 1..written
    /\ setup.source # "ascii" => known = {} /\ dumps = <<>>

(* The inductive invariant of decodefatal().                               *)
TextInv == FillInv /\ DumpInv /\ AsciiFaithful

----------------------------------------------------------------------------
(* Sequences.                                                              *)

LEMMA BoundedSeqIs ==
  ASSUME NEW S, NEW n \in Nat, NEW s
  PROVE  s \in BoundedSeq(S, n) <=> s \in Seq(S) /\ Len(s) <= n
<1>1. s \in BoundedSeq(S, n) <=> \E k \in 0..n : s \in [1..k -> S]
  BY DEF BoundedSeq, SeqOf
<1>2. ASSUME NEW k \in 0..n, s \in [1..k -> S] PROVE s \in Seq(S) /\ Len(s) <= n
  BY <1>2
<1>3. ASSUME s \in Seq(S), Len(s) <= n PROVE \E k \in 0..n : s \in [1..k -> S]
  <2>1. s \in [1..Len(s) -> S] /\ Len(s) \in 0..n
    BY <1>3
  <2> QED
    BY <2>1
<1> QED
  BY <1>1, <1>2, <1>3

LEMMA AppendRange ==
  ASSUME NEW s, s \in Seq(Range(s)), NEW x
  PROVE  /\ Range(Append(s, x)) = Range(s) \cup {x}
         /\ Append(s, x) \in Seq(Range(Append(s, x)))
<1>1. /\ Append(s, x) \in Seq(Range(s) \cup {x}) /\ Len(Append(s, x)) = Len(s) + 1
      /\ Append(s, x)[Len(s) + 1] = x /\ Len(s) \in Nat
      /\ \A i \in 1..Len(s) : Append(s, x)[i] = s[i]
  OBVIOUS
<1>2. DOMAIN Append(s, x) = 1..(Len(s) + 1) /\ DOMAIN s = 1..Len(s)
  BY <1>1
<1> QED
  BY <1>1, <1>2 DEF Range

LEMMA ConcatRange ==
  ASSUME NEW s, s \in Seq(Range(s)), NEW t, t \in Seq(Range(t))
  PROVE  /\ Range(s \o t) = Range(s) \cup Range(t)
         /\ s \o t \in Seq(Range(s \o t))
<1>1. /\ s \in Seq(Range(s) \cup Range(t)) /\ t \in Seq(Range(s) \cup Range(t))
      /\ Len(s) \in Nat /\ Len(t) \in Nat
      /\ DOMAIN s = 1..Len(s) /\ DOMAIN t = 1..Len(t)
  OBVIOUS
<1>2. /\ s \o t \in Seq(Range(s) \cup Range(t)) /\ Len(s \o t) = Len(s) + Len(t)
      /\ \A i \in 1..Len(s) : (s \o t)[i] = s[i]
      /\ \A i \in 1..Len(t) : (s \o t)[Len(s) + i] = t[i]
  BY <1>1
<1>3. DOMAIN (s \o t) = 1..(Len(s) + Len(t))
  BY <1>2
<1>4. ASSUME NEW e \in Range(s) PROVE e \in Range(s \o t)
  BY <1>1, <1>2, <1>3 DEF Range
<1>5. ASSUME NEW e \in Range(t) PROVE e \in Range(s \o t)
  <2>1. PICK i \in 1..Len(t) : e = t[i]
    BY <1>1 DEF Range
  <2>2. Len(s) + i \in DOMAIN (s \o t) /\ (s \o t)[Len(s) + i] = e
    BY <1>1, <1>2, <1>3, <2>1
  <2> QED
    BY <2>2 DEF Range
<1>6. \A e \in Range(s \o t) : e \in Range(s) \cup Range(t)
  <2>1. \A i \in DOMAIN (s \o t) : (s \o t)[i] \in Range(s) \cup Range(t)
    BY <1>2
  <2> QED
    BY <2>1 DEF Range
<1>7. Range(s \o t) = Range(s) \cup Range(t)
  BY <1>4, <1>5, <1>6
<1> QED
  BY <1>2, <1>7

(* What process() does to the records it has not handled yet.              *)
LEMMA HeadMoves ==
  ASSUME NEW S, NEW h \in Seq(S), NEW b \in Seq(S), b # <<>>
  PROVE  /\ Append(h, Head(b)) \o Tail(b) = h \o b
         /\ Head(b) \in S /\ Tail(b) \in Seq(S) /\ Len(Tail(b)) = Len(b) - 1
         /\ Append(h, Head(b)) \in Seq(S)
<1> DEFINE x == Head(b)
           t == Tail(b)
<1>1. x \in S /\ t \in Seq(S) /\ Len(t) = Len(b) - 1 /\ <<x>> \in Seq(S)
  BY HeadTailProperties
<1>2. b = <<x>> \o t
  <2>1. /\ <<x>> \o t \in Seq(S) /\ Len(<<x>> \o t) = Len(b)
        /\ \A i \in 1..Len(b) : (<<x>> \o t)[i] = IF i = 1 THEN x ELSE t[i - 1]
    BY <1>1
  <2>2. x = b[1] /\ \A i \in 2..Len(b) : t[i - 1] = b[i]
    OBVIOUS
  <2>3. \A i \in 1..Len(b) : (<<x>> \o t)[i] = b[i]
    BY <2>1, <2>2
  <2> QED
    BY <2>1, <2>3, SeqEqual
<1>3. Append(h, x) = h \o <<x>> /\ Append(h, x) \in Seq(S)
  BY <1>1, AppendIsConcat, AppendProperties
<1> HIDE DEF x, t
<1>4. (h \o <<x>>) \o t = h \o (<<x>> \o t)
  BY <1>1, ConcatAssociative, SMTT(40)
<1>5. Append(h, x) \o t = h \o b
  BY <1>2, <1>3, <1>4
<1> QED
  BY <1>1, <1>3, <1>5 DEF x, t

----------------------------------------------------------------------------
(* process().                                                              *)

(* TypeOK, taken apart.                                                    *)
TypeParts ==
    /\ setup \in Setups
    /\ kernel \in Seq(Recs) /\ Len(kernel) <= LogLen
    /\ batch \in Seq(Recs) /\ Len(batch) <= LogLen
    /\ state \in {"idle", "read", "loop", "exited"}
    /\ numerrors \in 0..setup.numerrors
    /\ overflow \in BOOLEAN /\ finish \in BOOLEAN /\ dropped \in BOOLEAN
    /\ lost \in BOOLEAN /\ warned \in BOOLEAN

LEMMA TypeIs == (TypeOK <=> TypeParts) /\ (TypeOK' <=> TypeParts')
<1>1. LogLen \in Nat
  BY LogLenAssumption
<1>2. TypeOK <=> TypeParts
  BY <1>1, BoundedSeqIs DEF TypeOK, TypeParts, Recs
<1>3. TypeOK' <=> TypeParts'
  BY <1>1, BoundedSeqIs DEF TypeOK, TypeParts, Recs
<1> QED
  BY <1>2, <1>3

(* No step of process() loses or repeats a record.                         *)
LEMMA StepKeepsRecords ==
  ASSUME NothingLost, LoopInv, Next
  PROVE  NothingLost' /\ LoopInv'
<1>1. TypeParts /\ produced = handled \o batch \o kernel
  BY TypeIs DEF NothingLost, RecordsKept
<1>2. handled \in Seq(Recs) /\ (state = "idle" => batch = <<>>)
  BY DEF LoopInv
<1>3. setup' = setup /\ Recs' = Recs /\ setup.numerrors \in Nat /\ LogLen \in Nat \ {0}
  <2>1. setup' = setup
    BY DEF Next, Process, Read, CheckOverflow, ProcessRecord, EndBatch, ReadError, SignalExit,
           MachineCheck
  <2>2. setup.numerrors \in Nat
    <3>1. setup \in Setups
      BY <1>1 DEF TypeParts
    <3> QED
      BY <3>1, RecordsAssumption
  <2> QED
    BY <2>1, <2>2, LogLenAssumption DEF Recs
<1> SUFFICES /\ TypeParts' /\ produced' = handled' \o batch' \o kernel'
             /\ handled' \in Seq(Recs) /\ (state' = "idle" => batch' = <<>>)
  BY <1>3, TypeIs DEF NothingLost, RecordsKept, LoopInv
<1>4. CASE Read
  <2>1. /\ state = "idle" /\ batch' = kernel /\ kernel' = <<>> /\ state' = "read"
        /\ UNCHANGED <<overflow, numerrors, finish, produced, handled, dropped, warned>>
        /\ lost' = dropped
    BY <1>4 DEF Read
  <2>2. handled \o <<>> = handled /\ (handled \o kernel) \o <<>> = handled \o kernel
    <3>1. handled \o kernel \in Seq(Recs)
      BY <1>1, <1>2, ConcatProperties DEF TypeParts
    <3> QED
      BY <1>2, <3>1, ConcatEmptySeq
  <2>3. kernel' \in Seq(Recs) /\ Len(kernel') <= LogLen
    BY <2>1, <1>3
  <2>4. produced' = handled' \o batch' \o kernel'
    BY <1>1, <1>2, <2>1, <2>2
  <2> QED
    BY <1>1, <1>2, <1>3, <2>1, <2>3, <2>4 DEF TypeParts
<1>5. CASE CheckOverflow
  BY <1>1, <1>2, <1>3, <1>5 DEF CheckOverflow, TypeParts
<1>6. CASE ProcessRecord
  <2>1. /\ state = "loop" /\ batch # <<>> /\ handled' = Append(handled, Head(batch))
        /\ batch' = Tail(batch) /\ numerrors' = Countdown /\ finish' = (numerrors = 1)
        /\ UNCHANGED <<kernel, overflow, state, produced, dropped, lost, warned>>
    BY <1>6 DEF ProcessRecord
  <2>2. /\ Append(handled, Head(batch)) \o Tail(batch) = handled \o batch
        /\ Tail(batch) \in Seq(Recs) /\ Len(Tail(batch)) = Len(batch) - 1
        /\ Append(handled, Head(batch)) \in Seq(Recs)
    BY <1>1, <1>2, <2>1, HeadMoves DEF TypeParts
  <2>3. Len(Tail(batch)) <= LogLen
    BY <1>1, <1>3, <2>2 DEF TypeParts
  <2>4. numerrors' \in 0..setup.numerrors
    BY <1>1, <1>3, <2>1 DEF Countdown, TypeParts
  <2>5. produced' = handled' \o batch' \o kernel'
    BY <1>1, <2>1, <2>2
  <2> QED
    BY <1>1, <1>3, <2>1, <2>2, <2>3, <2>4, <2>5 DEF TypeParts
<1>7. CASE EndBatch
  BY <1>1, <1>2, <1>3, <1>7 DEF EndBatch, TypeParts
<1>8. CASE ReadError \/ SignalExit
  BY <1>1, <1>2, <1>3, <1>8 DEF ReadError, SignalExit, TypeParts
<1>9. ASSUME NEW r \in Recs, MachineCheck(r)
      PROVE  /\ TypeParts' /\ produced' = handled' \o batch' \o kernel'
             /\ handled' \in Seq(Recs) /\ (state' = "idle" => batch' = <<>>)
  <2>1. CASE Len(kernel) < LogLen
    <3>1. /\ kernel' = Append(kernel, r) /\ produced' = Append(produced, r)
          /\ UNCHANGED <<overflow, dropped, batch, state, numerrors, finish, handled, lost, warned>>
      BY <1>9, <2>1 DEF MachineCheck
    <3>2. kernel' \in Seq(Recs) /\ Len(kernel') <= LogLen
      BY <1>1, <1>3, <2>1, <3>1 DEF TypeParts
    <3>3. handled \o batch \in Seq(Recs)
      BY <1>1, <1>2, ConcatProperties DEF TypeParts
    <3>4. Append(handled \o batch \o kernel, r) = handled \o batch \o Append(kernel, r)
      <4> DEFINE g == handled \o batch
      <4>1. r \in Recs /\ kernel \in Seq(Recs) /\ <<r>> \in Seq(Recs) /\ g \in Seq(Recs)
        BY <1>1, <1>9, <3>3 DEF TypeParts
      <4> HIDE DEF g
      <4>2. g \o kernel \in Seq(Recs)
        BY <4>1, ConcatProperties
      <4>3. Append(kernel, r) = kernel \o <<r>>
        BY <4>1, AppendIsConcat
      <4>4. Append(g \o kernel, r) = (g \o kernel) \o <<r>>
        BY <4>1, <4>2, AppendIsConcat
      <4>5. (g \o kernel) \o <<r>> = g \o (kernel \o <<r>>)
        BY <4>1, ConcatAssociative
      <4> QED
        BY <4>3, <4>4, <4>5 DEF g
    <3> QED
      BY <1>1, <1>2, <1>3, <3>1, <3>2, <3>4 DEF TypeParts
  <2>2. CASE ~ (Len(kernel) < LogLen)
    BY <1>1, <1>2, <1>3, <1>9, <2>2 DEF MachineCheck, TypeParts
  <2> QED
    BY <2>1, <2>2
<1> QED
  BY <1>4, <1>5, <1>6, <1>7, <1>8, <1>9 DEF Next, Process, Recs

(* A record that was dropped before a read is reported after it.           *)
LEMMA StepReportsOverflow ==
  ASSUME TypeOK, LoopInv, OverflowInv, OverflowReported, Next
  PROVE  OverflowInv' /\ OverflowReported'
<1>1. TypeParts /\ LogLen \in Nat
  BY TypeIs, LogLenAssumption
<1> USE DEF OverflowInv, OverflowReported
<1>2. CASE Read
  BY <1>1, <1>2 DEF Read, TypeParts
<1>3. CASE CheckOverflow
  BY <1>1, <1>3 DEF CheckOverflow, AsksForFlags, TypeParts
<1>4. CASE ProcessRecord
  BY <1>4 DEF ProcessRecord
<1>5. CASE EndBatch
  BY <1>5 DEF EndBatch
<1>6. CASE ReadError \/ SignalExit
  BY <1>6 DEF ReadError, SignalExit
<1>7. ASSUME NEW r \in Recs, MachineCheck(r)
      PROVE  OverflowInv' /\ OverflowReported'
  <2>1. CASE Len(kernel) < LogLen
    <3>1. /\ Len(kernel) # LogLen /\ ~ (Len(kernel) = LogLen)
          /\ UNCHANGED <<overflow, dropped, batch, state, lost, warned>>
      BY <1>1, <1>7, <2>1 DEF MachineCheck, TypeParts
    <3> QED
      BY <3>1
  <2>2. CASE ~ (Len(kernel) < LogLen)
    <3>1. /\ Len(kernel) = LogLen
          /\ UNCHANGED <<kernel, batch, state, lost, warned>> /\ overflow' = TRUE
      BY <1>1, <1>7, <2>2 DEF MachineCheck, TypeParts
    <3> QED
      BY <3>1
  <2> QED
    BY <2>1, <2>2
<1> QED
  BY <1>2, <1>3, <1>4, <1>5, <1>6, <1>7 DEF Next, Process, Recs

(* A memory error is accounted to one channel or to two.                   *)
LEMMA MiscNotEmpty ==
  ASSUME NEW t, NEW r, NEW b
  PROVE  LET mm == memerr_misc(t, r, b) IN \E x, y : mm = <<x>> \/ mm = <<x, y>>
<1>1. \E x, y : nehalem_memerr_misc(r) = <<x>> \/ nehalem_memerr_misc(r) = <<x, y>>
  BY DEF nehalem_memerr_misc
<1>2. \A banks : \E x, y : \/ imc_log_memerr_misc(r, banks, b) = <<x>>
                           \/ imc_log_memerr_misc(r, banks, b) = <<x, y>>
  BY DEF imc_log_memerr_misc
<1>3. \E x, y : haswell_memerr_misc(r) = <<x>> \/ haswell_memerr_misc(r) = <<x, y>>
  BY DEF haswell_memerr_misc
<1>4. \E x, y : skylake_memerr_misc(r) = <<x>> \/ skylake_memerr_misc(r) = <<x, y>>
  BY DEF skylake_memerr_misc
<1>5. \E x, y : i10nm_memerr_misc(r) = <<x>> \/ i10nm_memerr_misc(r) = <<x, y>>
  BY DEF i10nm_memerr_misc
<1>6. \E x, y : sapphire_memerr_misc(r) = <<x>> \/ sapphire_memerr_misc(r) = <<x, y>>
  BY DEF sapphire_memerr_misc
<1>7. \E x, y : granite_memerr_misc(r) = <<x>> \/ granite_memerr_misc(r) = <<x, y>>
  BY DEF granite_memerr_misc
<1>8. \E x, y : diamond_memerr_misc(r) = <<x>> \/ diamond_memerr_misc(r) = <<x, y>>
  BY DEF diamond_memerr_misc
<1>9. \E x, y : kh_memerr_misc(r, t) = <<x>> \/ kh_memerr_misc(r, t) = <<x, y>>
  BY DEF kh_memerr_misc
<1>10. \E x, y : <<CodeChannel(r.code)>> = <<x>> \/ <<CodeChannel(r.code)>> = <<x, y>>
  OBVIOUS
<1> QED
  BY <1>1, <1>2, <1>3, <1>4, <1>5, <1>6, <1>7, <1>8, <1>9, <1>10 DEF memerr_misc

(* The entries of one record in the accounts.                              *)
LEMMA AccountIs ==
  ASSUME NEW t, NEW r
  PROVE  /\ Account(t, r) \in Seq(Range(Account(t, r)))
         /\ \A a \in Range(Account(t, r)) :
              /\ a.rec = r /\ a.as = t /\ setup.filter /\ IsMemoryError(t, r)
              /\ a.channel \in Range(memerr_misc(t, r, ImcLog))
         /\ setup.filter /\ IsMemoryError(t, r) => Range(Account(t, r)) # {}
<1>1. CASE ~ (setup.filter /\ IsMemoryError(t, r))
  <2>1. Account(t, r) = <<>>
    BY <1>1 DEF Account
  <2>2. <<>> \in Seq(Range(<<>>)) /\ Range(<<>>) = {}
    BY DEF Range
  <2> QED
    BY <1>1, <2>1, <2>2
<1>2. CASE setup.filter /\ IsMemoryError(t, r)
  <2> DEFINE mm == memerr_misc(t, r, ImcLog)
             a(i) == [rec |-> r, as |-> t, channel |-> mm[i]]
  <2>1. Account(t, r) = [i \in 1..Len(mm) |-> a(i)]
    BY <1>2 DEF Account
  <2>2. PICK x, y : mm = <<x>> \/ mm = <<x, y>>
    BY MiscNotEmpty
  <2>3. Len(mm) \in Nat \ {0} /\ DOMAIN mm = 1..Len(mm)
    BY <2>2, SMTT(40)
  <2> HIDE DEF mm
  <2>4. Range(Account(t, r)) = {a(i) : i \in 1..Len(mm)}
    BY <2>1 DEF Range
  <2>5. Account(t, r) \in Seq({a(i) : i \in 1..Len(mm)})
    BY <2>1, <2>3
  <2>6. \A i \in 1..Len(mm) : a(i).channel \in Range(mm) /\ a(i).rec = r /\ a(i).as = t
    BY <2>3 DEF Range
  <2>7. Range(Account(t, r)) # {}
    <3>1. 1 \in 1..Len(mm)
      BY <2>3
    <3> QED
      BY <2>4, <3>1
  <2> QED
    BY <1>2, <2>4, <2>5, <2>6, <2>7 DEF mm
<1> QED
  BY <1>1, <1>2

(* What becomes of a record depends on the record and on the setup, which
   does not change.                                                        *)
LEMMA SetupOnly ==
  ASSUME setup' = setup
  PROVE  /\ Recs' = Recs
         /\ StartType' = StartType
         /\ \A t, r : /\ CpuFor(r)' = CpuFor(r)
                      /\ Dump(t, r)' = Dump(t, r)
                      /\ mce_filter(t, r)' <=> mce_filter(t, r)
                      /\ memerr_misc(t, r, ImcLog)' = memerr_misc(t, r, ImcLog)
<1>1. Recs' = Recs
  BY DEF Recs
<1>2. StartType' = StartType
  BY DEF StartType
<1>3. ImcLog' = ImcLog
  BY <1>2 DEF ImcLog
<1>4. \A t, r : /\ CpuFor(r)' = CpuFor(r)
                /\ Dump(t, r)' = Dump(t, r)
                /\ mce_filter(t, r)' <=> mce_filter(t, r)
  BY <1>2 DEF CpuFor, Dump, mce_filter
<1>5. \A t, r : memerr_misc(t, r, ImcLog)' = memerr_misc(t, r, ImcLog)
  BY <1>3
<1> QED
  BY <1>1, <1>2, <1>4, <1>5

(* A record that is not logged is a bogus one or is accounted.             *)
LEMMA FilteredIsAccounted ==
  ASSUME NEW t, NEW r, ~ mce_filter(t, r)
  PROVE  IsGart(r) \/ (setup.filtermem /\ \E a \in Range(Account(t, r)) : a.rec = r)
<1>1. setup.filter /\ (IsGart(r) \/ (IsMemoryError(t, r) /\ setup.filtermem))
  BY DEF mce_filter
<1> QED
  BY <1>1, AccountIs

(* Each turn of the loop decodes, accounts and logs the record as the CPU
   it comes from.                                                          *)
LEMMA StepLogs ==
  ASSUME TypeOK, LoopInv, CpuInv, LogInv, NoErrorVanishes, setup.source = "device", Next
  PROVE  CpuInv' /\ LogInv' /\ NoErrorVanishes'
<1>1. CASE ~ ProcessRecord
  <2>1. UNCHANGED <<setup, cputype, logged, accounted, handled>>
    BY <1>1 DEF Next, Process, Read, CheckOverflow, EndBatch, ReadError, SignalExit, MachineCheck
  <2>2. setup' = setup
    BY <2>1
  <2>3. CpuInv' /\ NoErrorVanishes'
    BY <2>1, <2>2, SetupOnly DEF CpuInv, NoErrorVanishes
  <2>4. LogInv'
    BY <2>1, <2>2, SetupOnly DEF LogInv, IsMemoryError
  <2> QED
    BY <2>3, <2>4
<1>2. CASE ProcessRecord
  <2> DEFINE r == Head(batch)
             t == mce_cpuid(r)
  <2>1. /\ batch # <<>> /\ cputype' = t /\ setup' = setup
        /\ accounted' = accounted \o Account(t, r)
        /\ logged' = IF mce_filter(t, r) THEN Append(logged, Dump(t, r)) ELSE logged
        /\ handled' = Append(handled, r)
    BY <1>2 DEF ProcessRecord
  <2>2. r \in Recs /\ setup \in Setups
    BY <2>1, TypeIs, HeadTailProperties DEF TypeParts
  <2>3. t = CpuFor(r) /\ t = StartType
    <3>1. r.cpuid \in {NoCpuid, setup.machine}
      BY <2>2, RecordsAssumption DEF Recs
    <3>2. cputype = StartType /\ setup.source # "ascii"
      BY DEF CpuInv
    <3> HIDE DEF r
    <3>3. StartType = IF setup.forced # NoCpuid THEN setup.forced ELSE setup.machine
      BY <3>2 DEF StartType
    <3>4. CpuFor(r) = StartType
      BY <3>1, <3>3 DEF CpuFor
    <3>5. mce_cpuid(r) = StartType
      <4>1. CASE setup.forced # NoCpuid
        BY <3>2, <4>1 DEF mce_cpuid
      <4>2. CASE ~ (setup.forced # NoCpuid)
        BY <3>1, <3>2, <3>3, <4>2 DEF mce_cpuid
      <4> QED
        BY <4>1, <4>2
    <3> QED
      BY <3>4, <3>5
  <2> HIDE DEF r, t
  <2>4. CpuInv'
    BY <2>1, <2>3, SetupOnly DEF CpuInv
  <2>5. Dump(t, r).rec = r /\ Dump(t, r).as = t
    BY DEF Dump, dump_mce, dump_mce_raw_ascii
  <2>6. /\ logged' \in Seq(Range(logged'))
        /\ Range(logged) \subseteq Range(logged')
        /\ mce_filter(t, r) => Dump(t, r) \in Range(logged')
        /\ \A e \in Range(logged') : e \in Range(logged) \/ (e = Dump(t, r) /\ mce_filter(t, r))
    <3>1. logged \in Seq(Range(logged))
      BY DEF LogInv
    <3>2. CASE mce_filter(t, r)
      <4>1. logged' = Append(logged, Dump(t, r))
        BY <2>1, <3>2
      <4>2. Range(logged') = Range(logged) \cup {Dump(t, r)} /\ logged' \in Seq(Range(logged'))
        BY <3>1, <4>1, AppendRange
      <4> QED
        BY <3>2, <4>2
    <3>3. CASE ~ mce_filter(t, r)
      BY <2>1, <3>1, <3>3
    <3> QED
      BY <3>2, <3>3
  <2>7. /\ accounted' \in Seq(Range(accounted'))
        /\ Range(accounted') = Range(accounted) \cup Range(Account(t, r))
    BY <2>1, AccountIs, ConcatRange DEF LogInv
  <2>8. \A e \in Range(logged') : /\ e.rec \in Recs /\ e.as = CpuFor(e.rec)
                                  /\ e = Dump(e.as, e.rec) /\ mce_filter(e.as, e.rec)
    BY <2>2, <2>3, <2>5, <2>6 DEF LogInv
  <2>9. ASSUME NEW a \in Range(accounted')
        PROVE  /\ a.rec \in Recs /\ a.as = CpuFor(a.rec)
               /\ setup.filter /\ IsMemoryError(a.as, a.rec)
               /\ a.channel \in Range(memerr_misc(a.as, a.rec, ImcLog))
    <3>1. CASE a \in Range(accounted)
      BY <3>1 DEF LogInv
    <3>2. CASE a \in Range(Account(t, r))
      <4>1. /\ a.rec = r /\ a.as = t /\ setup.filter /\ IsMemoryError(t, r)
            /\ a.channel \in Range(memerr_misc(t, r, ImcLog))
        BY <3>2, AccountIs
      <4> QED
        BY <2>2, <2>3, <4>1
    <3> QED
      BY <2>7, <3>1, <3>2
  <2>10. LogInv'
    BY <2>1, <2>6, <2>7, <2>8, <2>9, SetupOnly DEF LogInv, IsMemoryError
  <2>11. NoErrorVanishes'
    <3>1. \A q \in Range(handled') : q \in Range(handled) \/ q = r
      <4>1. handled \in Seq(Recs) /\ DOMAIN handled = 1..Len(handled)
        BY DEF LoopInv
      <4>2. /\ DOMAIN handled' = 1..(Len(handled) + 1)
            /\ \A i \in 1..(Len(handled) + 1) :
                 handled'[i] = IF i = Len(handled) + 1 THEN r ELSE handled[i]
        BY <2>1, <4>1
      <4> QED
        BY <4>1, <4>2 DEF Range
    <3>2. \/ \E e \in Range(logged') : e.rec = r
          \/ setup.filtermem /\ \E a \in Range(accounted') : a.rec = r
          \/ IsGart(r)
      BY <2>5, <2>6, <2>7, FilteredIsAccounted
    <3>3. \A q \in Range(handled) : \/ \E e \in Range(logged') : e.rec = q
                                    \/ setup.filtermem /\ \E a \in Range(accounted') : a.rec = q
                                    \/ IsGart(q)
      BY <2>6, <2>7 DEF NoErrorVanishes
    <3> QED
      BY <2>1, <3>1, <3>2, <3>3 DEF NoErrorVanishes
  <2> QED
    BY <2>4, <2>10, <2>11
<1> QED
  BY <1>1, <1>2

----------------------------------------------------------------------------
(* What the log and the accounts say of a record.                          *)

(* A code that decode_mca takes for a memory error has its prefix.         *)
LEMMA MemoryCode ==
  ASSUME NEW code \in Nat, decode_mca(code) = "memory"
  PROVE  Unfiltered(code) \div 128 = 1
<1> DEFINE mca == Unfiltered(code)
<1>1. test_prefix(7, mca)
  BY DEF decode_mca
<1> QED
  BY <1>1 DEF test_prefix

(* What is logged as a memory error is one for the filter as well, but for
   the exceptions of MemoryErrorsFiltered.                                 *)
LEMMA LoggedMemoryError ==
  ASSUME NEW t, NEW r, r.code \in Nat, Dump(t, r).kind = "memory"
  PROVE  t = "K8" \/ IsMemoryError(t, r) \/ (IsIntel(t) /\ Filtered(r.code))
<1>1. ~ setup.raw /\ dump_mce(t, r).kind = "memory"
  BY DEF Dump, dump_mce_raw_ascii
<1>2. CASE IsIntel(t)
  <2>1. t # "K8" /\ ~ IsZhaoxin(t)
    BY <1>2 DEF IsIntel, IsZhaoxin, NonIntel
  <2>2. decode_intel_mc(r).kind = "memory"
    BY <1>1, <1>2, <2>1 DEF dump_mce
  <2>3. decode_mca(r.code) = "memory"
    BY <2>2 DEF decode_intel_mc
  <2> QED
    BY <1>2, <2>3, MemoryCode DEF IsMemoryError, Unfiltered
<1>3. CASE IsZhaoxin(t)
  <2>1. t # "K8" /\ ~ IsIntel(t)
    BY <1>3 DEF IsIntel, IsZhaoxin, NonIntel
  <2>2. decode_zhaoxin_mc(r, t).kind = "memory"
    BY <1>1, <1>3, <2>1 DEF dump_mce
  <2>3. decode_mca(r.code) = "memory"
    BY <2>2 DEF decode_zhaoxin_mc, zhaoxin_decode_mca
  <2> QED
    BY <1>3, <2>3, MemoryCode DEF IsMemoryError
<1>4. CASE t # "K8" /\ ~ IsIntel(t) /\ ~ IsZhaoxin(t)
  BY <1>1, <1>4 DEF dump_mce
<1> QED
  BY <1>2, <1>3, <1>4

LEMMA FilteredIfAsked == ASSUME TypeOK, LogInv PROVE MemoryErrorsFiltered
<1> SUFFICES ASSUME setup.filter, setup.filtermem,
                    NEW e \in Range(logged), e.kind = "memory"
             PROVE  /\ e.as = "K8" \/ (IsIntel(e.as) /\ Filtered(e.rec.code))
                    /\ \A a \in Range(accounted) : a.rec # e.rec
  BY DEF MemoryErrorsFiltered
<1>1. /\ e.rec \in Recs /\ e.as = CpuFor(e.rec) /\ e = Dump(e.as, e.rec)
      /\ mce_filter(e.as, e.rec)
  BY DEF LogInv
<1>2. e.rec.code \in Nat
  <2>1. setup \in Setups
    BY DEF TypeOK
  <2> QED
    BY <1>1, <2>1, RecordsAssumption DEF Recs
<1>3. ~ IsMemoryError(e.as, e.rec)
  BY <1>1 DEF mce_filter, IsMemoryError, IsIntel, IsZhaoxin, NonIntel
<1>4. \A a \in Range(accounted) : a.rec # e.rec
  BY <1>1, <1>3 DEF LogInv
<1>5. Dump(e.as, e.rec).kind = "memory"
  BY <1>1
<1> QED
  BY <1>2, <1>3, <1>4, <1>5, LoggedMemoryError

----------------------------------------------------------------------------
(* The cache trigger.                                                      *)

Yellows(ts) == {i \in DOMAIN ts : ts[i] = "yellow"}

LEMMA YellowsOf ==
  /\ Cardinality(Yellows(<<>>)) = 0
  /\ Cardinality(Yellows(<<"yellow">>)) = 1
  /\ Cardinality(Yellows(<<"bus">>)) = 0
  /\ Cardinality(Yellows(<<"bus", "iomca">>)) = 0
  /\ Cardinality(Yellows(<<"unknown">>)) = 0
<1>1. /\ Yellows(<<>>) = {} /\ Yellows(<<"bus">>) = {} /\ Yellows(<<"unknown">>) = {}
      /\ Yellows(<<"bus", "iomca">>) = {}
  BY DEF Yellows
<1>2. Yellows(<<"yellow">>) = {1}
  BY DEF Yellows
<1> QED
  BY <1>1, <1>2, FS_EmptySet, FS_Singleton

LEMMA ShortSeqs ==
  ASSUME NEW S, NEW x \in S, NEW y \in S
  PROVE  /\ <<x>> \in Seq(S) /\ <<x, y>> \in Seq(S)
         /\ <<x>> \o <<y>> = <<x, y>>
<1>1. <<x>> \in Seq(S) /\ <<y>> \in Seq(S) /\ <<x, y>> \in Seq(S)
  OBVIOUS
<1>2. Append(<<x>>, y) = <<x, y>>
  <2>1. /\ Append(<<x>>, y) \in Seq(S) /\ Len(Append(<<x>>, y)) = 2
        /\ Append(<<x>>, y)[1] = x /\ Append(<<x>>, y)[2] = y
    BY <1>1
  <2>2. Len(<<x, y>>) = 2 /\ <<x, y>>[1] = x /\ <<x, y>>[2] = y
    OBVIOUS
  <2>3. \A i \in 1..2 : Append(<<x>>, y)[i] = <<x, y>>[i]
    BY <2>1, <2>2
  <2> QED
    BY <1>1, <2>1, <2>2, <2>3, SeqEqual
<1>3. Append(<<x>>, y) = <<x>> \o <<y>>
  BY <1>1, AppendIsConcat
<1> QED
  BY <1>1, <1>2, <1>3

(* The triggers of the architectural decoder for one kind of error.        *)
LEMMA ArchTriggersAre ==
  ASSUME NEW kind, NEW track, NEW r
  PROVE  LET ts == ArchTriggers(kind, track, r) IN
         /\ kind \in YellowKinds => ts = IF track = Yellow THEN <<"yellow">> ELSE <<>>
         /\ kind = "bus" => ts \in {<<"bus">>, <<"bus", "iomca">>}
         /\ kind \in {"internal", "unknown"} => ts = <<"unknown">>
         /\ kind \notin YellowKinds \cup {"bus", "internal", "unknown"} => ts = <<>>
<1> DEFINE T == {"yellow", "bus", "iomca", "unknown"}
           a == If(kind \in YellowKinds /\ track = Yellow, "yellow")
           b == If(kind = "bus", "bus")
           c == If(kind = "bus" /\ IsIoMca(r), "iomca")
           d == If(kind \in {"internal", "unknown"}, "unknown")
<1>1. ArchTriggers(kind, track, r) = a \o b \o c \o d
  BY DEF ArchTriggers
<1>2. /\ a = IF kind \in YellowKinds /\ track = Yellow THEN <<"yellow">> ELSE <<>>
      /\ b = IF kind = "bus" THEN <<"bus">> ELSE <<>>
      /\ c = IF kind = "bus" /\ IsIoMca(r) THEN <<"iomca">> ELSE <<>>
      /\ d = IF kind \in {"internal", "unknown"} THEN <<"unknown">> ELSE <<>>
  BY DEF If
<1> HIDE DEF a, b, c, d
<1>3. /\ <<"bus">> \o <<"iomca">> = <<"bus", "iomca">>
      /\ <<"bus">> \in Seq(T) /\ <<"unknown">> \in Seq(T)
      /\ <<"yellow">> \in Seq(T) /\ <<>> \in Seq(T)
      /\ <<"bus", "iomca">> \in Seq(T)
  <2>1. "bus" \in T /\ "iomca" \in T /\ "yellow" \in T /\ "unknown" \in T
    OBVIOUS
  <2> HIDE DEF T
  <2>2. /\ <<"bus">> \o <<"iomca">> = <<"bus", "iomca">>
        /\ <<"bus">> \in Seq(T) /\ <<"bus", "iomca">> \in Seq(T)
    BY <2>1, ShortSeqs, Zenon
  <2>3. <<"unknown">> \in Seq(T) /\ <<"yellow">> \in Seq(T)
    BY <2>1, ShortSeqs, Zenon
  <2>4. <<>> \in Seq(T)
    BY EmptySeq
  <2> QED
    BY <2>2, <2>3, <2>4, Zenon
<1> HIDE DEF T
<1>4. \A s \in Seq(T) : s \o <<>> = s /\ <<>> \o s = s
  BY ConcatEmptySeq
<1>5. kind \in YellowKinds => kind \notin {"bus", "internal", "unknown"}
  BY DEF YellowKinds
<1>6. CASE kind \in YellowKinds
  <2>1. b = <<>> /\ c = <<>> /\ d = <<>> /\ a \in Seq(T)
    BY <1>2, <1>3, <1>5, <1>6
  <2>2. a \o b \o c \o d = a
    BY <1>4, <2>1
  <2> QED
    BY <1>1, <1>2, <1>5, <1>6, <2>2
<1>7. CASE kind = "bus"
  <2>1. a = <<>> /\ b = <<"bus">> /\ d = <<>>
    BY <1>2, <1>5, <1>7
  <2>2. a \o b = <<"bus">>
    BY <1>3, <1>4, <2>1
  <2>3. CASE IsIoMca(r)
    <3>1. c = <<"iomca">>
      BY <1>2, <1>7, <2>3
    <3>2. a \o b \o c \o d = <<"bus", "iomca">>
      BY <1>3, <1>4, <2>1, <2>2, <3>1
    <3> QED
      BY <1>1, <1>5, <1>7, <3>2
  <2>4. CASE ~ IsIoMca(r)
    <3>1. c = <<>>
      BY <1>2, <2>4
    <3>2. a \o b \o c \o d = <<"bus">>
      BY <1>3, <1>4, <2>1, <2>2, <3>1
    <3> QED
      BY <1>1, <1>5, <1>7, <3>2
  <2> QED
    BY <2>3, <2>4
<1>8. CASE kind \in {"internal", "unknown"}
  <2>1. a = <<>> /\ b = <<>> /\ c = <<>> /\ d = <<"unknown">>
    BY <1>2, <1>5, <1>8
  <2>2. a \o b \o c \o d = <<"unknown">>
    BY <1>3, <1>4, <2>1
  <2> QED
    BY <1>1, <1>5, <1>8, <2>2
<1>9. CASE kind \notin YellowKinds \cup {"bus", "internal", "unknown"}
  <2>1. a = <<>> /\ b = <<>> /\ c = <<>> /\ d = <<>>
    BY <1>2, <1>9
  <2>2. a \o b \o c \o d = <<>>
    BY <1>3, <1>4, <2>1
  <2> QED
    BY <1>1, <1>9, <2>2
<1> QED
  BY <1>6, <1>7, <1>8, <1>9

LEMMA ArchYellows ==
  ASSUME NEW kind, NEW track, NEW r
  PROVE  Cardinality(Yellows(ArchTriggers(kind, track, r)))
             = IF kind \in YellowKinds /\ track = Yellow THEN 1 ELSE 0
<1>1. kind \in YellowKinds => kind \notin {"bus", "internal", "unknown"}
  BY DEF YellowKinds
<1> QED
  BY <1>1, ArchTriggersAre, YellowsOf

(* The caches of the KH CPUs are the two banks their decoder looks at.     *)
LEMMA CacheUnit ==
  ASSUME NEW t, IsZhaoxin(t), NEW bank
  PROVE  Unit(t, bank) = "cache" <=> t \in {"KH40000", "KH50000"} /\ bank \in KhCacheBanks
<1> DEFINE units == decode_model(t)
           found == {u \in DOMAIN units : bank \in units[u]}
<1>1. Unit(t, bank) = IF found = {} THEN "none" ELSE CHOOSE u \in found : TRUE
  BY DEF Unit
<1>2. CASE t = "ZHAOXIN"
  <2>1. units = [pcu |-> {}]
    BY <1>2 DEF decode_model
  <2>2. found = {}
    BY <2>1
  <2> QED
    BY <1>1, <1>2, <2>2
<1>3. CASE t \in {"KH40000", "KH50000"}
  <2>1. units = kh40000_decode_model \/ units = kh50000_decode_model
    BY <1>3 DEF decode_model
  <2>2. CASE bank \in KhCacheBanks
    <3>1. \A u \in DOMAIN units : bank \in units[u] <=> u = "cache"
      BY <2>1, <2>2 DEF kh40000_decode_model, kh50000_decode_model, KhCacheBanks
    <3>2. "cache" \in DOMAIN units
      BY <2>1 DEF kh40000_decode_model, kh50000_decode_model
    <3>3. found = {"cache"}
      BY <3>1, <3>2
    <3> QED
      BY <1>1, <1>3, <2>2, <3>3
  <2>3. CASE bank \notin KhCacheBanks
    <3>1. units["cache"] = KhCacheBanks
      BY <2>1 DEF kh40000_decode_model, kh50000_decode_model, KhCacheBanks
    <3>2. "cache" \notin found
      BY <2>3, <3>1
    <3> HIDE DEF found
    <3> QED
      BY <1>1, <2>3, <3>2
  <2> QED
    BY <2>2, <2>3
<1> QED
  BY <1>2, <1>3 DEF IsZhaoxin

(* One entry of the log as YellowOnce wants it.                            *)
LEMMA EntryYellows ==
  ASSUME NEW t, NEW r, r.code \in Nat
  PROVE  LET e == Dump(t, r) IN
         Cardinality(Yellows(e.triggers)) = IF YellowError(e) THEN 1 ELSE 0
<1> DEFINE e == Dump(t, r)
<1>0. e.as = t /\ e.rec = r
  BY DEF Dump, dump_mce, dump_mce_raw_ascii
<1>1. CASE setup.raw
  <2>1. e.kind = "raw" /\ e.unit = "none" /\ e.triggers = <<>>
    BY <1>1 DEF Dump, dump_mce_raw_ascii
  <2>2. ~ YellowError(e)
    BY <2>1 DEF YellowError, YellowKinds
  <2> QED
    BY <2>1, <2>2, YellowsOf
<1>2. CASE ~ setup.raw /\ IsIntel(t)
  <2>1. t # "K8" /\ ~ IsZhaoxin(t)
    BY <1>2 DEF IsIntel, IsZhaoxin, NonIntel
  <2>2. e.triggers = decode_intel_mc(r).triggers /\ e.kind = decode_intel_mc(r).kind
    BY <1>2, <2>1 DEF Dump, dump_mce
  <2> HIDE DEF e
  <2>3. CASE r.bank = THERMAL_BANK
    <3>1. e.triggers = <<"unknown">> /\ e.kind = "thermal"
      BY <2>2, <2>3 DEF decode_intel_mc
    <3>2. ~ YellowError(e)
      BY <1>0, <2>1, <3>1 DEF YellowError, YellowKinds
    <3> QED
      BY <3>1, <3>2, YellowsOf DEF e
  <2>4. CASE r.bank # THERMAL_BANK
    <3>1. /\ e.triggers = ArchTriggers(decode_mca(r.code), intel_track(r), r)
          /\ e.kind = decode_mca(r.code)
      BY <2>2, <2>4 DEF decode_intel_mc
    <3>2. YellowError(e) <=> e.kind \in YellowKinds /\ intel_track(r) = Yellow
      BY <1>0, <1>2, <2>1 DEF YellowError, intel_track, Yellow
    <3>3. Cardinality(Yellows(e.triggers))
            = IF e.kind \in YellowKinds /\ intel_track(r) = Yellow THEN 1 ELSE 0
      BY <3>1, ArchYellows
    <3> QED
      BY <3>2, <3>3 DEF e
  <2> QED
    BY <2>3, <2>4
<1>3. CASE ~ setup.raw /\ IsZhaoxin(t)
  <2> DEFINE kind  == zhaoxin_decode_mca(r.code)
             arch  == ArchTriggers(kind, zhaoxin_track(r), r)
             cache == t \in {"KH40000", "KH50000"} /\ KhYellow(r)
  <2>1. t # "K8" /\ ~ IsIntel(t)
    BY <1>3 DEF IsIntel, IsZhaoxin, NonIntel
  <2>2. /\ e.kind = kind /\ e.triggers = decode_zhaoxin_mc(r, t).triggers
        /\ e.unit = Unit(t, r.bank)
    <3>1. e.kind = decode_zhaoxin_mc(r, t).kind /\ e.triggers = decode_zhaoxin_mc(r, t).triggers
          /\ e.unit = Unit(t, r.bank)
      BY <1>3, <2>1 DEF Dump, dump_mce
    <3>2. decode_zhaoxin_mc(r, t).kind = kind
      BY DEF decode_zhaoxin_mc
    <3> QED
      BY <3>1, <3>2
  <2>3. decode_zhaoxin_mc(r, t).triggers = arch \o (IF cache THEN <<"yellow">> ELSE <<>>)
    BY DEF decode_zhaoxin_mc, If
  <2>4. YellowError(e) <=> /\ zhaoxin_track(r) = Yellow
                           /\ \/ kind \in YellowKinds
                              \/ e.unit = "cache" /\ r.code = 1 /\ r.ext = 1
    <3>1. zhaoxin_track(r) = Yellow <=> r.track = Yellow /\ ~ r.uc /\ r.tes = "yes"
      BY DEF zhaoxin_track, Yellow
    <3> HIDE DEF e
    <3> QED
      BY <1>0, <1>3, <2>1, <2>2, <3>1 DEF YellowError
  <2>5. cache <=> /\ zhaoxin_track(r) = Yellow
                  /\ e.unit = "cache" /\ r.code = 1 /\ r.ext = 1
    BY <1>3, <2>2, CacheUnit DEF KhYellow
  <2>6. CASE cache
    <3>1. r.code = 1 /\ Unfiltered(r.code) = 1
      BY <2>6 DEF KhYellow, Unfiltered, Filtered, FilteringBit
    <3>2. kind = "simple"
      BY <3>1 DEF zhaoxin_decode_mca, decode_mca, test_prefix
    <3>3. arch = <<>>
      <4>1. kind \notin YellowKinds \cup {"bus", "internal", "unknown"}
        BY <3>2 DEF YellowKinds
      <4> QED
        BY <4>1, ArchTriggersAre
    <3>4. e.triggers = <<"yellow">>
      BY <2>2, <2>3, <2>6, <3>3, ConcatEmptySeq
    <3> QED
      BY <2>4, <2>5, <2>6, <3>4, YellowsOf
  <2>7. CASE ~ cache
    <3>1. e.triggers = arch \o <<>>
      BY <2>2, <2>3, <2>7
    <3>2. arch \o <<>> = arch
      <4>1. \E T : arch \in Seq(T)
        <5>1. arch \in {<<"yellow">>, <<>>, <<"bus">>, <<"bus", "iomca">>, <<"unknown">>}
          BY ArchTriggersAre
        <5> DEFINE T == {"yellow", "bus", "iomca", "unknown"}
        <5>2. "bus" \in T /\ "iomca" \in T /\ "yellow" \in T /\ "unknown" \in T
          OBVIOUS
        <5> HIDE DEF T
        <5>3. <<"bus">> \in Seq(T) /\ <<"bus", "iomca">> \in Seq(T)
          BY <5>2, ShortSeqs, Zenon
        <5>4. <<"unknown">> \in Seq(T) /\ <<"yellow">> \in Seq(T)
          BY <5>2, ShortSeqs, Zenon
        <5>5. <<>> \in Seq(T)
          BY EmptySeq
        <5> QED
          BY <5>1, <5>3, <5>4, <5>5, Zenon
      <4> QED
        BY <4>1, ConcatEmptySeq, Zenon
    <3>3. Cardinality(Yellows(e.triggers))
            = IF kind \in YellowKinds /\ zhaoxin_track(r) = Yellow THEN 1 ELSE 0
      BY <3>1, <3>2, ArchYellows
    <3> QED
      BY <2>4, <2>5, <2>7, <3>3
  <2> QED
    BY <2>6, <2>7
<1>4. CASE ~ setup.raw /\ ~ IsIntel(t) /\ ~ IsZhaoxin(t)
  <2>1. e.triggers = <<>>
    BY <1>4 DEF Dump, dump_mce, decode_k8_mc
  <2>2. ~ YellowError(e)
    BY <1>0, <1>4 DEF YellowError
  <2> QED
    BY <2>1, <2>2, YellowsOf
<1> QED
  BY <1>1, <1>2, <1>3, <1>4

LEMMA RunsYellowOnce == ASSUME TypeOK, LogInv PROVE YellowOnce
<1> SUFFICES ASSUME NEW e \in Range(logged)
             PROVE  Cardinality(Yellows(e.triggers)) = IF YellowError(e) THEN 1 ELSE 0
  BY DEF YellowOnce, Yellows
<1>1. e.rec \in Recs /\ e = Dump(e.as, e.rec)
  BY DEF LogInv
<1>2. e.rec.code \in Nat
  <2>1. setup \in Setups
    BY DEF TypeOK
  <2> QED
    BY <1>1, <2>1, RecordsAssumption DEF Recs
<1> QED
  BY <1>1, <1>2, EntryYellows

----------------------------------------------------------------------------
(* The number a memory channel has in the accounts.                        *)

Haswells == {"HASWELL_EPEX", "BROADWELL_EPEX"}
I10nms == {"ICELAKE_XEON", "ICELAKE_DE", "TREMONT_D"}
Sapphires == {"SAPPHIRERAPIDS", "EMERALDRAPIDS"}
Granites == {"GRANITERAPIDS", "SIERRAFOREST", "CLEARWATERFOREST"}

Number(t, p) ==
    IF t \in Haswells THEN 4 * p.ctrl + p.chan
    ELSE IF t \in I10nms \cup {"SKYLAKE_XEON"} THEN 3 * p.ctrl + p.chan
    ELSE IF t \in Sapphires THEN IF p.ctrl < 4 THEN 2 * p.ctrl + p.chan ELSE 4 + p.ctrl
    ELSE IF t \in Granites THEN p.ctrl
    ELSE 8 * p.ctrl + p.chan

(* Which channels the reports of a CPU name.                               *)
Places(t, p) ==
    \/ t \in Haswells /\ p.ctrl \in 0..1 /\ p.chan \in 0..3
    \/ t \in I10nms \cup {"SKYLAKE_XEON"} /\ p.ctrl \in 0..3 /\ p.chan \in 0..2
    \/ t \in Sapphires /\ \/ p.ctrl \in 0..3 /\ p.chan \in 0..1
                          \/ p.ctrl \in 4..5 /\ p.chan = 0
    \/ t \in Granites /\ p.ctrl \in 0..11 /\ p.chan = 0
    \/ t = "DIAMONDRAPIDS" /\ p.ctrl \in 0..1 /\ p.chan \in 0..7

(* A report is accounted to the number of its channel.                     *)
LEMMA ReportIsNumbered ==
  ASSUME NEW t, NEW p \in Reports(t), NEW r, Reported(r, p), NEW b
  PROVE  memerr_misc(t, r, b) = <<Number(t, p)>> /\ Places(t, p)
<1> USE DEF Haswells, I10nms, Sapphires, Granites, AnyChannel
<1>1. r.bank = p.bank /\ CodeChannel(r.code) \in p.codes /\ r.misc = p.die
  BY DEF Reported
<1>2. CASE t \in Haswells
  <2>1. /\ p \in TwoControllers
        /\ memerr_misc(t, r, b) = haswell_memerr_misc(r)
        /\ Number(t, p) = 4 * p.ctrl + p.chan
    BY <1>2 DEF Reports, memerr_misc, Number
  <2>2. PICK k \in 0..1, c \in 0..3 :
          /\ p.ctrl = k /\ p.chan = c
          /\ \/ p.bank = 7 + k /\ p.codes = {c}
             \/ p.bank = 9 + 4 * k + c /\ p.codes = 0..14
    BY <2>1 DEF TwoControllers, ByController, ByChannel
  <2>3. haswell_memerr_misc(r) = <<4 * k + c>>
    BY <1>1, <2>2 DEF haswell_memerr_misc, NoChannel
  <2> QED
    BY <1>2, <2>1, <2>2, <2>3 DEF Places
<1>3. CASE t = "SKYLAKE_XEON"
  <2>1. /\ p \in SkylakeReports
        /\ memerr_misc(t, r, b) = skylake_memerr_misc(r)
        /\ Number(t, p) = 3 * p.ctrl + p.chan
    BY <1>3 DEF Reports, memerr_misc, Number
  <2>2. PICK k \in 0..1, c \in 0..2 :
          /\ p.ctrl = k /\ p.chan = c
          /\ \/ p.bank = 7 + k /\ p.codes = {c}
             \/ p.bank = SkylakeBank(k, c) /\ p.codes = 0..14
    BY <2>1 DEF SkylakeReports, ByController, ByChannel
  <2>3. skylake_memerr_misc(r) = <<3 * k + c>>
    <3>1. CASE p.bank = 7 + k /\ p.codes = {c}
      BY <1>1, <2>2, <3>1 DEF skylake_memerr_misc, NoChannel
    <3>2. CASE p.bank = SkylakeBank(k, c) /\ p.codes = 0..14
      <4>1. /\ SkylakeChannel[13] = 0 /\ SkylakeChannel[14] = 1 /\ SkylakeChannel[15] = 3
            /\ SkylakeChannel[16] = 4 /\ SkylakeChannel[17] = 2 /\ SkylakeChannel[18] = 5
        BY DEF SkylakeChannel
      <4>2. SkylakeBank(k, c) \in 13..18 /\ SkylakeChannel[SkylakeBank(k, c)] = 3 * k + c
        BY <2>2, <4>1 DEF SkylakeBank
      <4> QED
        BY <1>1, <2>2, <3>2, <4>2 DEF skylake_memerr_misc, NoChannel
    <3> QED
      BY <2>2, <3>1, <3>2
  <2> QED
    BY <1>3, <2>1, <2>2, <2>3 DEF Places
<1>4. CASE t \in I10nms
  <2>1. /\ p \in I10nmReports(0..3) \cup I10nmReports(0..1) \cup I10nmReports({0})
        /\ memerr_misc(t, r, b) = i10nm_memerr_misc(r)
        /\ Number(t, p) = 3 * p.ctrl + p.chan
    BY <1>4 DEF Reports, memerr_misc, Number
  <2>2. PICK k \in 0..3, c \in 0..2 :
          /\ p.ctrl = k /\ p.chan = c /\ p.codes = {c}
          /\ p.bank \in {12 + 4 * k, 13 + 4 * k + c}
    BY <2>1 DEF I10nmReports, ByController
  <2>3. i10nm_memerr_misc(r) = <<3 * k + c>>
    <3>1. p.bank \in 12..27 /\ (p.bank - 12) \div 4 = k
      BY <2>2
    <3>2. i10nm_memerr_misc(r) = <<((r.bank - 12) \div 4) * 3 + CodeChannel(r.code)>>
      <4>1. CodeChannel(r.code) # NoChannel /\ r.bank \in 12..27
        BY <1>1, <2>2, <3>1 DEF NoChannel
      <4> QED
        BY <4>1 DEF i10nm_memerr_misc
    <3>3. ((r.bank - 12) \div 4) * 3 + CodeChannel(r.code) = k * 3 + c
      BY <1>1, <2>2, <3>1
    <3>4. k * 3 + c = 3 * k + c
      OBVIOUS
    <3> QED
      BY <3>2, <3>3, <3>4
  <2> QED
    BY <1>4, <2>1, <2>2, <2>3 DEF Places
<1>5. CASE t \in Sapphires
  <2>1. /\ p \in SapphireReports
        /\ memerr_misc(t, r, b) = sapphire_memerr_misc(r)
        /\ Number(t, p) = IF p.ctrl < 4 THEN 2 * p.ctrl + p.chan ELSE 4 + p.ctrl
    BY <1>5 DEF Reports, memerr_misc, Number
  <2>2. /\ p.codes = 0..14
        /\ \/ \E k \in 0..3, c \in 0..1 : p.ctrl = k /\ p.chan = c /\ p.bank = 13 + 2 * k + c
           \/ \E c \in 0..1 : p.ctrl = 4 + c /\ p.chan = 0 /\ p.bank = 30 + c
    BY <2>1 DEF SapphireReports, ByChannel
  <2>3. sapphire_memerr_misc(r) = <<Number(t, p)>>
    BY <1>1, <2>1, <2>2 DEF sapphire_memerr_misc, NoChannel
  <2> QED
    BY <1>5, <2>1, <2>2, <2>3 DEF Places
<1>6. CASE t \in Granites
  <2>1. /\ p \in GraniteReports
        /\ memerr_misc(t, r, b) = granite_memerr_misc(r)
        /\ Number(t, p) = p.ctrl
    BY <1>6 DEF Reports, memerr_misc, Number
  <2>2. PICK k \in 0..11 : p.ctrl = k /\ p.chan = 0 /\ p.bank = 13 + k /\ p.codes = 0..14
    BY <2>1 DEF GraniteReports, ByChannel
  <2>3. granite_memerr_misc(r) = <<k>>
    BY <1>1, <2>2 DEF granite_memerr_misc, NoChannel
  <2> QED
    BY <1>6, <2>1, <2>2, <2>3 DEF Places
<1>7. CASE t = "DIAMONDRAPIDS"
  <2>1. /\ p \in DiamondReports
        /\ memerr_misc(t, r, b) = diamond_memerr_misc(r)
        /\ Number(t, p) = 8 * p.ctrl + p.chan
    BY <1>7 DEF Reports, memerr_misc, Number
  <2>2. PICK d \in 0..1, c \in 0..7 : p.ctrl = d /\ p.chan = c /\ p.bank = 19 + c /\ p.die = d
    BY <2>1 DEF DiamondReports, ByChannel
  <2>3. diamond_memerr_misc(r) = <<8 * d + c>>
    BY <1>1, <2>2 DEF diamond_memerr_misc
  <2> QED
    BY <1>7, <2>1, <2>2, <2>3 DEF Places
<1>8. CASE t \notin Haswells \cup I10nms \cup Sapphires \cup Granites \cup {"SKYLAKE_XEON", "DIAMONDRAPIDS"}
  BY <1>8 DEF Reports
<1> QED
  BY <1>2, <1>3, <1>4, <1>5, <1>6, <1>7, <1>8

(* Two channels of a CPU have different numbers.                           *)
LEMMA NumbersApart ==
  ASSUME NEW t, NEW p, NEW q, Places(t, p), Places(t, q)
  PROVE  Number(t, p) = Number(t, q) <=> SameChannel(p, q)
<1> USE DEF Haswells, I10nms, Sapphires, Granites, SameChannel
<1>1. CASE t \in Haswells
  BY <1>1 DEF Places, Number
<1>2. CASE t \in I10nms \cup {"SKYLAKE_XEON"}
  BY <1>2 DEF Places, Number
<1>3. CASE t \in Sapphires
  BY <1>3 DEF Places, Number
<1>4. CASE t \in Granites
  BY <1>4 DEF Places, Number
<1>5. CASE t = "DIAMONDRAPIDS"
  BY <1>5 DEF Places, Number
<1> QED
  BY <1>1, <1>2, <1>3, <1>4, <1>5 DEF Places

LEMMA AccountsChannelsApart == ASSUME LogInv PROVE ChannelsApart
<1> SUFFICES ASSUME NEW a \in Range(accounted), NEW b \in Range(accounted),
                    NEW p \in Reports(a.as), NEW q \in Reports(a.as),
                    a.as = b.as, Reported(a.rec, p), Reported(b.rec, q)
             PROVE  a.channel = b.channel <=> SameChannel(p, q)
  BY DEF ChannelsApart
<1>1. /\ a.channel \in Range(memerr_misc(a.as, a.rec, ImcLog))
      /\ b.channel \in Range(memerr_misc(a.as, b.rec, ImcLog))
  BY DEF LogInv
<1>2. /\ memerr_misc(a.as, a.rec, ImcLog) = <<Number(a.as, p)>> /\ Places(a.as, p)
      /\ memerr_misc(a.as, b.rec, ImcLog) = <<Number(a.as, q)>> /\ Places(a.as, q)
  BY ReportIsNumbered
<1>3. \A x : Range(<<x>>) = {x}
  BY DEF Range
<1>4. a.channel = Number(a.as, p) /\ b.channel = Number(a.as, q)
  BY <1>1, <1>2, <1>3
<1> QED
  BY <1>2, <1>4, NumbersApart

----------------------------------------------------------------------------
(* decodefatal().                                                          *)

(* The record that dump_mce_final adds is the current one, with its fields
   and its CPU.                                                            *)
LEMMA DumpAdds ==
  ASSUME TextInv, data, state = "idle", dump_mce_final
  PROVE  LET d == [fields |-> m, of |-> written, given |-> given] IN
         /\ Len(dumps') = Len(dumps) + 1 /\ Len(dumps) \in Nat
         /\ DOMAIN dumps' = 1..(Len(dumps) + 1) /\ DOMAIN dumps = 1..Len(dumps)
         /\ dumps' \in Seq(Range(dumps'))
         /\ \A i \in DOMAIN dumps : dumps'[i] = dumps[i] /\ dumps[i].of < written
         /\ LET e == dumps'[Len(dumps) + 1] IN
            /\ e.of = written /\ e.given = given /\ e.fields = m
            /\ "processor" \in given /\ setup.forced = NoCpuid => e.as = CpuOf(written)
<1> DEFINE t == IF m["processor"] # 0 /\ setup.forced = NoCpuid
                THEN CpuOf(m["processor"]) ELSE cputype
           e == [fields |-> m, as |-> t, of |-> written, given |-> given]
<1>1. dumps' = Append(dumps, e)
  BY DEF dump_mce_final
<1>2. e.of = written /\ e.given = given /\ e.fields = m /\ e.as = t
  OBVIOUS
<1>3. ASSUME "processor" \in given, setup.forced = NoCpuid PROVE t = CpuOf(written)
  <2>1. "processor" \in Fields \ {"cpu"} /\ written \in Nat \ {0}
    BY <1>3 DEF TextInv, FillInv
  <2>2. m["processor"] = written
    BY <1>3, <2>1 DEF TextInv, FillInv
  <2> QED
    BY <1>3, <2>1, <2>2
<1> HIDE DEF e, t
<1>4. dumps \in Seq(Range(dumps)) /\ Len(dumps) \in Nat /\ DOMAIN dumps = 1..Len(dumps)
  BY DEF TextInv, DumpInv
<1>5. dumps' \in Seq(Range(dumps'))
  BY <1>1, <1>4, AppendRange
<1>6. /\ Len(dumps') = Len(dumps) + 1 /\ DOMAIN dumps' = 1..(Len(dumps) + 1)
      /\ dumps'[Len(dumps) + 1] = e
      /\ \A i \in 1..Len(dumps) : dumps'[i] = dumps[i]
  BY <1>1, <1>4
<1>7. ASSUME NEW i \in DOMAIN dumps PROVE dumps[i].of < written
  <2>1. dumps[i].of \in {k \in known : k < written \/ state = "exited"}
    BY DEF TextInv, AsciiFaithful, AsciiOnce
  <2> QED
    BY <2>1
<1> QED
  BY <1>2, <1>3, <1>4, <1>5, <1>6, <1>7

(* What the dump of the last record leaves to show.                        *)
LEMMA DumpIsFaithful ==
  ASSUME TextInv, data, state = "idle", dump_mce_final, setup' = setup, known' = known,
         \/ written' = written /\ state' = "exited"
         \/ written' = written + 1 /\ state' = state
  PROVE  AsciiFaithful' /\ DumpInv'
<1> DEFINE n == Len(dumps) + 1
<1>1. /\ n \in Nat \ {0} /\ DOMAIN dumps' = 1..n /\ DOMAIN dumps = 1..(n - 1)
      /\ dumps' \in Seq(Range(dumps'))
      /\ \A i \in 1..(n - 1) : dumps'[i] = dumps[i] /\ dumps[i].of < written
      /\ dumps'[n].of = written /\ dumps'[n].given = given /\ dumps'[n].fields = m
      /\ "processor" \in given /\ setup.forced = NoCpuid => dumps'[n].as = CpuOf(written)
  BY DumpAdds
<1>2. /\ written \in Nat \ {0} /\ known \subseteq 1..written /\ written \in known
      /\ \A f \in Fields \ {"cpu"} : m[f] = IF f \in given THEN written ELSE 0
  BY DEF TextInv, FillInv
<1>3. \A i \in 1..(n - 1) : dumps[i].of \in 1..written
  BY <1>1 DEF TextInv, DumpInv
<1> HIDE DEF n
<1>4. AsciiIntact'
  <2>1. \A i \in 1..(n - 1) : \A f \in Fields \ {"cpu"} :
          dumps'[i].fields[f] = IF f \in dumps'[i].given THEN dumps'[i].of ELSE 0
    BY <1>1 DEF TextInv, AsciiFaithful, AsciiIntact
  <2>2. \A f \in Fields \ {"cpu"} :
          dumps'[n].fields[f] = IF f \in dumps'[n].given THEN dumps'[n].of ELSE 0
    BY <1>1, <1>2
  <2>3. \A i \in DOMAIN dumps' : i \in 1..(n - 1) \/ i = n
    BY <1>1
  <2> QED
    BY <2>1, <2>2, <2>3 DEF AsciiIntact
<1>5. \A i, j \in DOMAIN dumps' : i < j => dumps'[i].of < dumps'[j].of
  <2> SUFFICES ASSUME NEW i \in 1..n, NEW j \in 1..n, i < j
               PROVE  dumps'[i].of < dumps'[j].of
    BY <1>1
  <2>1. CASE j = n
    BY <1>1, <2>1
  <2>2. CASE j # n
    <3>1. i \in DOMAIN dumps /\ j \in DOMAIN dumps
      BY <1>1, <2>2
    <3>2. dumps[i].of < dumps[j].of
      BY <3>1 DEF TextInv, AsciiFaithful, AsciiOnce
    <3> QED
      BY <1>1, <3>1, <3>2
  <2> QED
    BY <2>1, <2>2
<1>6. {dumps'[i].of : i \in DOMAIN dumps'} = {k \in known' : k < written' \/ state' = "exited"}
  <2>1. {dumps[i].of : i \in DOMAIN dumps} = {k \in known : k < written}
    BY DEF TextInv, AsciiFaithful, AsciiOnce
  <2>2. {dumps'[i].of : i \in DOMAIN dumps'} = {dumps[i].of : i \in DOMAIN dumps} \cup {written}
    <3>1. \A i \in DOMAIN dumps' : i \in DOMAIN dumps \/ i = n
      BY <1>1
    <3>2. DOMAIN dumps \subseteq DOMAIN dumps' /\ n \in DOMAIN dumps'
      BY <1>1
    <3>3. \A i \in DOMAIN dumps : dumps'[i].of = dumps[i].of
      BY <1>1
    <3> QED
      BY <1>1, <3>1, <3>2, <3>3
  <2>3. {k \in known' : k < written' \/ state' = "exited"} = {k \in known : k < written} \cup {written}
    <3>1. \A k \in known : k \in Nat /\ (k <= written)
      BY <1>2
    <3>2. \A k \in known : (k < written' \/ state' = "exited")
      BY <1>2, <3>1
    <3>3. \A k \in known : k < written \/ k = written
      BY <1>2, <3>1
    <3> QED
      BY <1>2, <3>2, <3>3
  <2> QED
    BY <2>1, <2>2, <2>3
<1>7. \A i \in DOMAIN dumps' :
        "processor" \in dumps'[i].given /\ setup.forced = NoCpuid => dumps'[i].as = CpuOf(dumps'[i].of)
  <2>1. \A i \in 1..(n - 1) :
          "processor" \in dumps'[i].given /\ setup.forced = NoCpuid => dumps'[i].as = CpuOf(dumps'[i].of)
    BY <1>1 DEF TextInv, AsciiFaithful, AsciiOnce
  <2>2. \A i \in DOMAIN dumps' : i \in 1..(n - 1) \/ i = n
    BY <1>1
  <2> QED
    BY <1>1, <2>1, <2>2
<1>8. AsciiOnce'
  BY <1>5, <1>6, <1>7 DEF AsciiOnce
<1>9. DumpInv'
  <2>1. \A i \in DOMAIN dumps' : dumps'[i].of \in 1..written'
    <3>1. \A i \in DOMAIN dumps' : i \in 1..(n - 1) \/ i = n
      BY <1>1
    <3>2. \A i \in DOMAIN dumps' : dumps'[i].of \in 1..written
      BY <1>1, <1>2, <1>3, <3>1
    <3>3. 1..written \subseteq 1..written'
      BY <1>2
    <3> QED
      BY <3>2, <3>3
  <2>2. setup.source = "ascii"
    BY <1>2 DEF TextInv, DumpInv
  <2> QED
    BY <1>1, <2>1, <2>2 DEF DumpInv
<1> QED
  BY <1>4, <1>8, <1>9 DEF AsciiFaithful

(* Each line keeps the records of the log apart.                           *)
LEMMA StepReadsText == ASSUME TextInv, AsciiStep PROVE TextInv'
<1>1. /\ written \in Nat \ {0} /\ known \subseteq 1..written
      /\ m \in [Fields -> Nat] /\ data \in BOOLEAN
      /\ given \subseteq Fields \cup {"cpu"}
      /\ data \/ given \subseteq {"cpu"}
      /\ data <=> written \in known
      /\ \A f \in Fields \ {"cpu"} : m[f] = IF f \in given THEN written ELSE 0
  BY DEF TextInv, FillInv
<1>2. setup.source = "ascii" /\ state = "idle" /\ setup' = setup
  BY DEF AsciiStep, XenHeaderLine, OtherLine, EndOfFile, FieldLine, Reading, processVars
<1>3. \A k \in known : k \in Nat /\ k <= written
  BY <1>1
<1>4. ASSUME UNCHANGED <<dumps, state, written>>, known' = known \/ known' = known \cup {written}
      PROVE  DumpInv' /\ AsciiFaithful'
  <2>1. {k \in known' : k < written} = {k \in known : k < written}
    BY <1>1, <1>4
  <2> QED
    BY <1>2, <1>4, <2>1 DEF TextInv, DumpInv, AsciiFaithful, AsciiIntact, AsciiOnce
<1>5. ASSUME NEW f \in Fields, FieldLine(f) PROVE TextInv'
  <2>1. /\ given' = given \cup {f} /\ known' = known \cup {written}
        /\ m' = [m EXCEPT ![f] = written] /\ data' = TRUE
        /\ UNCHANGED <<dumps, state, written>>
    BY <1>5 DEF FieldLine
  <2>2. FillInv'
    BY <1>1, <2>1 DEF FillInv
  <2> QED
    BY <1>4, <2>1, <2>2 DEF TextInv
<1>6. CASE XenHeaderLine
  <2>1. /\ given' = given \cup {"cpu"} /\ m' = [m EXCEPT !["cpu"] = written]
        /\ UNCHANGED <<dumps, state, written, known, data>>
    BY <1>6 DEF XenHeaderLine
  <2>2. FillInv'
    BY <1>1, <2>1 DEF FillInv
  <2> QED
    BY <1>4, <2>1, <2>2 DEF TextInv
<1>7. CASE OtherLine
  <2>1. /\ written' = written + 1 /\ given' = {} /\ known' = known /\ state' = state
    BY <1>7 DEF OtherLine
  <2>2. written' \notin known' /\ known' \subseteq 1..written' /\ written' \in Nat \ {0}
    BY <1>1, <1>3, <2>1
  <2>3. CASE data
    <3>1. dump_mce_final /\ m' = Blank /\ data' = FALSE
      BY <1>7, <2>3 DEF OtherLine, Restart
    <3>2. FillInv'
      BY <2>1, <2>2, <3>1 DEF FillInv, Blank
    <3>3. DumpInv' /\ AsciiFaithful'
      BY <1>2, <2>1, <2>3, <3>1, DumpIsFaithful
    <3> QED
      BY <3>2, <3>3 DEF TextInv
  <2>4. CASE ~ data
    <3>1. m' = m /\ data' = data /\ dumps' = dumps
      BY <1>7, <2>4 DEF OtherLine
    <3>2. FillInv'
      <4>1. \A f \in Fields \ {"cpu"} : m[f] = 0
        BY <1>1, <2>4
      <4> QED
        BY <1>1, <2>1, <2>2, <2>4, <3>1, <4>1 DEF FillInv
    <3>3. {k \in known' : k < written'} = {k \in known : k < written}
      <4>1. \A k \in known : k < written /\ k < written + 1
        BY <1>1, <1>3, <2>4
      <4> QED
        BY <2>1, <4>1
    <3>4. AsciiFaithful'
      BY <1>2, <2>1, <3>1, <3>3 DEF TextInv, AsciiFaithful, AsciiIntact, AsciiOnce
    <3>5. DumpInv'
      <4>1. 1..written \subseteq 1..written'
        BY <1>1, <2>1
      <4> QED
        BY <1>2, <3>1, <4>1 DEF TextInv, DumpInv
    <3> QED
      BY <3>2, <3>4, <3>5 DEF TextInv
  <2> QED
    BY <2>3, <2>4
<1>8. CASE EndOfFile
  <2>1. state' = "exited" /\ UNCHANGED <<written, given, known, m, data>>
    BY <1>8 DEF EndOfFile
  <2>2. FillInv'
    BY <1>1, <2>1 DEF FillInv
  <2>3. CASE data
    <3>1. dump_mce_final
      BY <1>8, <2>3 DEF EndOfFile
    <3>2. DumpInv' /\ AsciiFaithful'
      BY <1>2, <2>1, <2>3, <3>1, DumpIsFaithful
    <3> QED
      BY <2>2, <3>2 DEF TextInv
  <2>4. CASE ~ data
    <3>1. dumps' = dumps
      BY <1>8, <2>4 DEF EndOfFile
    <3>2. {k \in known' : k < written' \/ state' = "exited"} = {k \in known : k < written}
      <4>1. \A k \in known : k < written
        BY <1>1, <1>3, <2>4
      <4> QED
        BY <2>1, <4>1
    <3>3. AsciiFaithful'
      BY <1>2, <2>1, <3>1, <3>2 DEF TextInv, AsciiFaithful, AsciiIntact, AsciiOnce
    <3>4. DumpInv'
      BY <1>2, <2>1, <3>1 DEF TextInv, DumpInv
    <3> QED
      BY <2>2, <3>3, <3>4 DEF TextInv
  <2> QED
    BY <2>3, <2>4
<1> QED
  BY <1>5, <1>6, <1>7, <1>8 DEF AsciiStep

(* decodefatal() leaves the state of process() alone.                      *)
LEMMA TextLeavesDevice == ASSUME DeviceInv, AsciiStep PROVE DeviceInv'
<1>1. /\ UNCHANGED <<setup, kernel, overflow, batch, numerrors, finish, logged,
                     accounted, produced, handled, dropped, lost, warned>>
      /\ setup.source = "ascii" /\ state = "idle" /\ state' \in {"idle", "exited"}
  BY DEF AsciiStep, XenHeaderLine, OtherLine, EndOfFile, FieldLine, Reading, processVars
<1>2. NothingLost'
  <2>1. TypeParts
    BY TypeIs DEF DeviceInv, NothingLost
  <2>2. TypeParts'
    BY <1>1, <2>1 DEF TypeParts, Recs
  <2> QED
    BY <1>1, <2>2, TypeIs DEF DeviceInv, NothingLost, RecordsKept
<1>3. LoopInv'
  BY <1>1 DEF DeviceInv, LoopInv, Recs
<1>4. OverflowInv' /\ OverflowReported'
  BY <1>1 DEF DeviceInv, OverflowInv, OverflowReported
<1>5. CpuInv' /\ NoErrorVanishes'
  BY <1>1 DEF DeviceInv, CpuInv, NoErrorVanishes
<1>6. LogInv'
  <2>1. setup' = setup /\ logged' = logged /\ accounted' = accounted
    BY <1>1
  <2> QED
    BY <2>1, SetupOnly DEF DeviceInv, LogInv, IsMemoryError
<1> QED
  BY <1>2, <1>3, <1>4, <1>5, <1>6 DEF DeviceInv

(* process() leaves the text alone.                                        *)
LEMMA DeviceLeavesText ==
  ASSUME TextInv, setup.source = "device", setup' = setup, UNCHANGED asciiVars
  PROVE  TextInv'
<1>1. known = {} /\ dumps = <<>> /\ UNCHANGED <<written, given, known, m, data, dumps>>
  BY DEF TextInv, DumpInv, asciiVars
<1>2. FillInv'
  BY <1>1 DEF TextInv, FillInv
<1>3. DumpInv' /\ AsciiIntact'
  BY <1>1 DEF TextInv, DumpInv, AsciiFaithful, AsciiIntact
<1>4. AsciiOnce'
  BY <1>1 DEF AsciiOnce
<1> QED
  BY <1>2, <1>3, <1>4 DEF TextInv, AsciiFaithful

----------------------------------------------------------------------------
LEMMA StartIsRight == AllInit => DeviceInv /\ TextInv
<1> SUFFICES ASSUME AllInit PROVE DeviceInv /\ TextInv
  OBVIOUS
<1> USE DEF AllInit, Init, AsciiInit
<1>1. Range(<<>>) = {}
  BY DEF Range
<1>2. TypeParts
  <2>1. setup.numerrors \in Nat
    BY RecordsAssumption
  <2>2. <<>> \in Seq(Recs) /\ Len(<<>>) = 0
    BY EmptySeq
  <2>3. Len(<<>>) <= LogLen
    BY <2>2, LogLenAssumption
  <2>4. numerrors \in 0..setup.numerrors
    BY <2>1
  <2>5. /\ setup \in Setups /\ state = "idle" /\ kernel = <<>> /\ batch = <<>>
        /\ ~ overflow /\ ~ finish /\ ~ dropped /\ ~ lost /\ ~ warned
        /\ overflow \in BOOLEAN /\ finish \in BOOLEAN /\ dropped \in BOOLEAN
        /\ lost \in BOOLEAN /\ warned \in BOOLEAN
    OBVIOUS
  <2> QED
    BY <2>2, <2>3, <2>4, <2>5 DEF TypeParts
<1>3. NothingLost
  <2>1. <<>> \o <<>> \o <<>> = <<>>
    BY ConcatEmptySeq, EmptySeq
  <2> QED
    BY <1>2, <2>1, TypeIs DEF NothingLost, RecordsKept
<1>4. LoopInv /\ OverflowInv /\ OverflowReported /\ CpuInv
  BY DEF LoopInv, OverflowInv, OverflowReported, CpuInv
<1>5. LogInv /\ NoErrorVanishes
  BY <1>1 DEF LogInv, NoErrorVanishes
<1>6. FillInv
  <2>1. /\ written = 1 /\ given = {} /\ known = {} /\ data = FALSE /\ data \in BOOLEAN
        /\ m = [f \in Fields |-> 0]
    BY DEF Blank
  <2>2. m \in [Fields -> Nat] /\ \A f \in Fields \ {"cpu"} : m[f] = 0
    BY <2>1
  <2> QED
    BY <2>1, <2>2 DEF FillInv
<1>7. DumpInv /\ AsciiFaithful
  BY <1>1 DEF DumpInv, AsciiFaithful, AsciiIntact, AsciiOnce
<1> QED
  BY <1>3, <1>4, <1>5, <1>6, <1>7 DEF DeviceInv, TextInv

LEMMA StepKeepsInv == DeviceInv /\ TextInv /\ [AllNext]_allVars => DeviceInv' /\ TextInv'
<1> SUFFICES ASSUME DeviceInv, TextInv, [AllNext]_allVars PROVE DeviceInv' /\ TextInv'
  OBVIOUS
<1>1. CASE setup.source = "device" /\ Next /\ UNCHANGED asciiVars
  <2>1. TypeOK /\ RecordsKept /\ LoopInv /\ OverflowInv /\ OverflowReported /\ CpuInv /\ LogInv
        /\ NoErrorVanishes
    BY DEF DeviceInv, NothingLost
  <2>2. setup' = setup
    BY <1>1 DEF Next, Process, Read, CheckOverflow, ProcessRecord, EndBatch, ReadError, SignalExit,
                MachineCheck
  <2>3. NothingLost' /\ LoopInv'
    BY <1>1, <2>1, StepKeepsRecords DEF NothingLost
  <2>4. OverflowInv' /\ OverflowReported'
    BY <1>1, <2>1, StepReportsOverflow
  <2>5. CpuInv' /\ LogInv' /\ NoErrorVanishes'
    BY <1>1, <2>1, StepLogs
  <2>6. TextInv'
    BY <1>1, <2>2, DeviceLeavesText
  <2> QED
    BY <2>3, <2>4, <2>5, <2>6 DEF DeviceInv
<1>2. CASE AsciiStep
  BY <1>2, StepReadsText, TextLeavesDevice
<1>3. CASE UNCHANGED allVars
  <2>1. UNCHANGED <<setup, kernel, overflow, batch, state, cputype, numerrors, finish,
                    logged, accounted, produced, handled, dropped, lost, warned>>
    BY <1>3 DEF allVars, vars
  <2>2. UNCHANGED <<written, given, known, m, data, dumps>>
    BY <1>3 DEF allVars, asciiVars
  <2>3. TextInv'
    BY <2>1, <2>2 DEF TextInv, FillInv, DumpInv, AsciiFaithful, AsciiIntact, AsciiOnce
  <2>4. TypeParts'
    BY <2>1, TypeIs DEF TypeParts, Recs, DeviceInv, NothingLost
  <2>5. NothingLost'
    BY <2>1, <2>4, TypeIs DEF DeviceInv, NothingLost, RecordsKept
  <2>6. LoopInv' /\ OverflowInv' /\ OverflowReported' /\ NoErrorVanishes'
    BY <2>1 DEF DeviceInv, LoopInv, OverflowInv, OverflowReported, NoErrorVanishes, Recs
  <2>7. CpuInv' /\ LogInv'
    <3>1. setup' = setup /\ cputype' = cputype /\ logged' = logged /\ accounted' = accounted
      BY <2>1
    <3> QED
      BY <3>1, SetupOnly DEF DeviceInv, CpuInv, LogInv, IsMemoryError
  <2> QED
    BY <2>3, <2>5, <2>6, <2>7 DEF DeviceInv
<1> QED
  BY <1>1, <1>2, <1>3 DEF AllNext

LEMMA AlwaysInv == AllSpec => [](DeviceInv /\ TextInv)
  BY StartIsRight, StepKeepsInv, PTL DEF AllSpec

----------------------------------------------------------------------------
(* The reads and the loop of process() handle every record the kernel took
   exactly once and in order, for any size of the kernel's buffer.         *)
THEOREM RecordsAlwaysKept == AllSpec => []NothingLost
<1>1. DeviceInv => NothingLost
  BY DEF DeviceInv
<1> QED
  BY <1>1, AlwaysInv, PTL

(* Asking for MCE_OVERFLOW only after a full batch misses no drop that
   happened before the read.                                               *)
THEOREM OverflowAlwaysReported == AllSpec => []OverflowReported
<1>1. DeviceInv => OverflowReported
  BY DEF DeviceInv
<1> QED
  BY <1>1, AlwaysInv, PTL

(* No record disappears between mce_filter, the accounting and the log, and
   filtered memory errors are accounted instead of logged.                 *)
THEOREM ErrorsAlwaysGoWhereAsked == AllSpec => []ErrorsGoWhereAsked
<1>1. DeviceInv => ErrorsGoWhereAsked
  BY FilteredIfAsked DEF DeviceInv, NothingLost, ErrorsGoWhereAsked
<1> QED
  BY <1>1, AlwaysInv, PTL

(* A record of the machine is decoded as the CPU it names, or as the forced
   one.                                                                    *)
THEOREM AlwaysDecodedAsItsCpu == AllSpec => []DecodedAsItsCpu
<1>1. DeviceInv => DecodedAsItsCpu
  BY DEF DeviceInv, LogInv, DecodedAsItsCpu, CpuFor
<1> QED
  BY <1>1, AlwaysInv, PTL

(* The cache trigger runs exactly once for a record of a corrected cache error
   with yellow status, and never for another, whatever its fields and CPU. *)
THEOREM YellowAlwaysOnce == AllSpec => []YellowOnce
<1>1. DeviceInv => YellowOnce
  BY RunsYellowOnce DEF DeviceInv, NothingLost
<1> QED
  BY <1>1, AlwaysInv, PTL

(* The *_memerr_misc functions give each memory channel a number of its own,
   the same in its own bank, whatever channel the code names there, and in
   the bank of its home agent or M2M.  The banks that all controllers share
   are no part of this.                                                    *)
THEOREM ChannelsAlwaysApart == AllSpec => []ChannelsApart
<1>1. DeviceInv => ChannelsApart
  BY AccountsChannelsApart DEF DeviceInv
<1> QED
  BY <1>1, AlwaysInv, PTL

(* decodefatal() dumps each record of a log once, with its own fields and
   as its own CPU, for any number of records and any fields.               *)
THEOREM TextAlwaysFaithful == AllSpec => []AsciiFaithful
<1>1. TextInv => AsciiFaithful
  BY DEF TextInv
<1> QED
  BY <1>1, AlwaysInv, PTL
=============================================================================
