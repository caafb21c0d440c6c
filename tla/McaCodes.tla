------------------------------ MODULE McaCodes ------------------------------
(***************************************************************************)
(* What mcelog makes of the machine check code of a record, the low 16     *)
(* bits of MCi_STATUS: the architectural decoders of Intel (p4.c), Zhaoxin *)
(* (zhaoxin.c) and AMD K8 (k8.c), and the triggers they run.               *)
(*                                                                         *)
(* A record has the fields the decoders look at:                           *)
(*   bank, code           the bank and the 16 bit machine check code       *)
(*   uc, miscv            MCI_STATUS_UC and MCI_STATUS_MISCV               *)
(*   track                bits 53-54 of the status; 2 is "yellow"          *)
(*   tes                  "yes" and "no" for MCG_TES_P, "nocap" when       *)
(*                        mcgcap is 0                                      *)
(*   ext                  the model specific code from bit 16 on           *)
(*   misc                 the part of MCi_MISC a decoder reads             *)
(***************************************************************************)
EXTENDS Integers, Sequences

THERMAL_BANK == 128

Yellow == 2

\* The value of a channel that no decoder found.
NoChannel == -1

----------------------------------------------------------------------------
test_prefix(nr, value) == value \div 2^nr = 1

\* Bit 12, "corrected filtering": other errors of the same region may be unreported.
FilteringBit == 2^12

Filtered(code) == (code \div FilteringBit) % 2 = 1

Unfiltered(code) == IF Filtered(code) THEN code - FilteringBit ELSE code

\* The channel of a memory controller code; 0xf means that there is none.
CodeChannel(code) == IF code % 16 = 15 THEN NoChannel ELSE code % 16

----------------------------------------------------------------------------
\* decode_mca of p4.c: the kind of error, bit 12 masked out first.
decode_mca(code) ==
    LET mca == Unfiltered(code) IN
    CASE mca < 7                                              -> "simple"
      [] mca \div 4 = 3                                       -> "generic cache"
      [] test_prefix(4, mca)                                  -> "tlb"
      [] test_prefix(8, mca)                                  -> "cache"
      [] test_prefix(9, mca) /\ (mca \div 128) % 4 = 1        -> "memory as cache"
      [] test_prefix(10, mca)                                 -> "internal"
      [] test_prefix(11, mca)                                 -> "bus"
      [] test_prefix(7, mca)                                  -> "memory"
      [] OTHER                                                -> "unknown"

\* decode_mca of zhaoxin.c knows no memory used as a cache.
zhaoxin_decode_mca(code) ==
    IF decode_mca(code) = "memory as cache" THEN "unknown" ELSE decode_mca(code)

\* The kinds of error for which a yellow status runs the cache trigger.
YellowKinds == {"generic cache", "tlb", "cache"}

\* A bus error reported by a root port, which MISC names.
IsIoMca(r) == r.miscv /\ Unfiltered(r.code) = 3595          \* 0x0e0b

If(condition, trigger) == IF condition THEN <<trigger>> ELSE <<>>

\* The triggers run for a record of this kind whose threshold status is track.
ArchTriggers(kind, track, r) ==
    If(kind \in YellowKinds /\ track = Yellow, "yellow")
    \o If(kind = "bus", "bus")
    \o If(kind = "bus" /\ IsIoMca(r), "iomca")
    \o If(kind \in {"internal", "unknown"}, "unknown")

\* The threshold status counts only for corrected errors of CPUs that report it;
\* p4.c takes a missing mcgcap for such a CPU, zhaoxin.c does not.
intel_track(r) == IF r.tes \in {"yes", "nocap"} /\ ~r.uc THEN r.track ELSE 0
zhaoxin_track(r) == IF r.tes = "yes" /\ ~r.uc THEN r.track ELSE 0

\* decode_intel_mc: kind of the error and triggers run, in order.
decode_intel_mc(r) ==
    IF r.bank = THERMAL_BANK
    THEN [kind |-> "thermal", triggers |-> <<"unknown">>]
    ELSE [kind |-> decode_mca(r.code),
          triggers |-> ArchTriggers(decode_mca(r.code), intel_track(r), r)]

\* The PL2 and the LLC cache of the KH CPUs.
KhCacheBanks == {1, 17}

\* Mutant: the code is not looked at.
KhYellow_AnyCode(r) ==
    r.bank \in KhCacheBanks /\ r.ext = 1 /\ zhaoxin_track(r) = Yellow

\* decode_cache_error of both KH CPUs runs the trigger for code 1, which the
\* architectural decoder takes for a simple error; bits 30-31 (ext) must be 1.
KhYellow(r) ==
    /\ r.bank \in KhCacheBanks
    /\ r.ext = 1
    /\ zhaoxin_track(r) = Yellow
    /\ r.code = 1

decode_zhaoxin_mc(r, cputype) ==
    [kind |-> zhaoxin_decode_mca(r.code),
     triggers |-> ArchTriggers(zhaoxin_decode_mca(r.code), zhaoxin_track(r), r)
                  \o If(cputype \in {"KH40000", "KH50000"} /\ KhYellow(r), "yellow")]

\* The northbridge bank of a K8, where the extended code names memory errors.
K8_NB_BANK == 4

\* decode_k8_mc runs no trigger.
decode_k8_mc(r) ==
    [kind |-> IF r.bank = K8_NB_BANK /\ r.ext \in {0, 8} THEN "memory"
              ELSE IF r.bank \notin 0..5 THEN "unknown"
              ELSE CASE r.code \div 16 = 1     -> "tlb"
                     [] r.code \div 256 = 1    -> "cache"
                     [] r.code \div 2048 = 1   -> "bus"
                     [] OTHER                  -> "unknown",
     triggers |-> <<>>]

\* mce_filter_k8: uncorrected GART errors of the northbridge are bogus.
IsGart(r) == r.bank = K8_NB_BANK /\ r.ext = 5 /\ r.uc
=============================================================================
