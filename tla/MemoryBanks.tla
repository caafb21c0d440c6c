----------------------------- MODULE MemoryBanks -----------------------------
(***************************************************************************)
(* The model specific part of decoding: which unit of a CPU a bank belongs *)
(* to (the *_decode_model functions) and which memory channel an error is  *)
(* accounted to (the *_memerr_misc functions).  The texts the decoders     *)
(* print for the bits of a unit are left out.                              *)
(***************************************************************************)
EXTENDS McaCodes

----------------------------------------------------------------------------
(* The banks of each unit, as the decode_model functions name them.        *)

snb_decode_model       == [pcu |-> {4}, link |-> {6, 7}, imc |-> 8..11]
ivb_decode_model       == [pcu |-> {4}, link |-> {5}, imc |-> 9..16]
hsw_decode_model       == [pcu |-> {4}, link |-> {5, 20, 21}, imc |-> 9..16]
bdw_epex_decode_model  == [pcu |-> {4}, link |-> {5, 20, 21}, imc |-> 9..16]
skylake_s_decode_model == [pcu |-> {4}, link |-> {5, 12, 19}, m2m |-> {7, 8}, imc |-> 13..18]
icelake    == [pcu |-> {4}, link |-> {5, 7, 8}, m2m |-> {12, 16, 20, 24},
               imc |-> (13..15) \cup (17..19) \cup (21..23) \cup (25..27)]
icelake_de == [pcu |-> {4}, m2m |-> {12, 16}, imc |-> (13..15) \cup (17..19)]
tremont    == [pcu |-> {4}, m2m |-> {12}, imc |-> 13..15]
sapphire   == [pcu |-> {4}, link |-> {5}, m2m |-> {12, 29}, imc |-> (13..20) \cup {30, 31}]
granite_decode_model   == [link |-> {5}, pcu |-> {6}, m2m |-> {12}, imc |-> 13..24]
diamond_decode_model   == [pcu |-> {4, 11}, link |-> {18}, imc |-> 19..26]
kh40000_decode_model   == [cpu |-> {0}, cache |-> {1, 17}, pcu |-> {4}, link |-> {5},
                           pcie |-> {6}, imc |-> {9, 10}]
kh50000_decode_model   == [cpu |-> {0}, cache |-> {1, 17}, pcu |-> {4, 22, 27},
                           link |-> {3, 5, 7, 26}, pcie |-> {2, 6}, hif |-> 28..31,
                           imc |-> (9..16) \cup (18..21)]

\* The decoder decode_intel_mc or decode_zhaoxin_mc calls for a CPU type.
decode_model(cputype) ==
    CASE cputype = "SANDY_BRIDGE_EP"  -> snb_decode_model
      [] cputype = "IVY_BRIDGE_EPEX"  -> ivb_decode_model
      [] cputype = "HASWELL_EPEX"     -> hsw_decode_model
      [] cputype = "BROADWELL_EPEX"   -> bdw_epex_decode_model
      [] cputype = "SKYLAKE_XEON"     -> skylake_s_decode_model
      [] cputype = "ICELAKE_XEON"     -> icelake
      [] cputype = "ICELAKE_DE"       -> icelake_de
      [] cputype = "TREMONT_D"        -> tremont
      [] cputype \in {"SAPPHIRERAPIDS", "EMERALDRAPIDS"} -> sapphire
      [] cputype \in {"GRANITERAPIDS", "SIERRAFOREST", "CLEARWATERFOREST"} -> granite_decode_model
      [] cputype = "DIAMONDRAPIDS"    -> diamond_decode_model
      [] cputype = "KH40000"          -> kh40000_decode_model
      [] cputype = "KH50000"          -> kh50000_decode_model
      [] OTHER                        -> [pcu |-> {}]

\* The unit named in the log for a record, "none" when the decoder knows none.
Unit(cputype, bank) ==
    LET units == decode_model(cputype)
        found == {u \in DOMAIN units : bank \in units[u]}
    IN IF found = {} THEN "none" ELSE CHOOSE u \in found : TRUE

----------------------------------------------------------------------------
(* The channels of a memory error.  intel_memory_error starts from the     *)
(* channel in the code; the functions below override it, or leave it alone *)
(* where they return early.  A CPU that reports two failing devices gives  *)
(* two channels, and the error is accounted twice.                         *)

\* Nehalem reads the channel from MISC.
nehalem_memerr_misc(r) == <<IF r.miscv THEN r.misc ELSE CodeChannel(r.code)>>

\* Sandy and Ivy Bridge: corrected errors of the iMC banks, with extended
\* logging enabled.  r.misc is bit 63 of MISC: a second device failed as well.
imc_log_memerr_misc(r, banks, imc_log) ==
    LET chan == CodeChannel(r.code) IN
    IF imc_log /\ r.bank \in banks /\ ~r.uc /\ chan # NoChannel /\ r.misc = 1
    THEN <<chan, chan>>
    ELSE <<chan>>

haswell_memerr_misc(r) ==
    LET chan == CodeChannel(r.code) IN
    IF chan = NoChannel THEN <<chan>> ELSE
    CASE r.bank = 8            -> <<chan + 4>>
      [] r.bank \in 9..12      -> <<r.bank - 9>>
      [] r.bank \in 13..16     -> <<(r.bank - 13) + 4>>
      [] OTHER                 -> <<chan>>

\* Mutant: the banks are taken for the order of the channels.
SkylakeChannel_InOrder == [bank \in 13..18 |-> bank - 13]

\* The iMC banks of Skylake are not in the order of their channels.
SkylakeChannel == [bank \in 13..18 |-> <<0, 1, 3, 4, 2, 5>>[bank - 12]]

skylake_memerr_misc(r) ==
    LET chan == CodeChannel(r.code) IN
    IF chan = NoChannel THEN <<chan>> ELSE
    CASE r.bank = 8            -> <<chan + 3>>
      [] r.bank \in 13..18     -> <<SkylakeChannel[r.bank]>>
      [] OTHER                 -> <<chan>>

\* Banks 12 to 27 are four controllers of an M2M and three channels each.
i10nm_memerr_misc(r) ==
    LET chan == CodeChannel(r.code)
        imc  == (r.bank - 12) \div 4
    IN IF chan # NoChannel /\ r.bank \in 12..27 THEN <<imc * 3 + chan>> ELSE <<chan>>

sapphire_memerr_misc(r) ==
    LET chan == CodeChannel(r.code) IN
    IF chan = NoChannel THEN <<chan>> ELSE
    CASE r.bank \in 13..20     -> <<r.bank - 13>>
      [] r.bank \in 30..31     -> <<8 + r.bank - 30>>
      [] OTHER                 -> <<chan>>

granite_memerr_misc(r) ==
    LET chan == CodeChannel(r.code) IN
    IF chan # NoChannel /\ r.bank \in 13..24 THEN <<r.bank - 13>> ELSE <<chan>>

\* r.misc is the IO die (imh) that the APIC id of the record names.
diamond_memerr_misc(r) ==
    IF r.bank \in 19..26 THEN <<r.bank - 19 + 8 * r.misc>> ELSE <<CodeChannel(r.code)>>

\* The KH CPUs believe the code only in the banks of the memory controllers.
kh_memerr_misc(r, cputype) ==
    <<IF \/ cputype = "KH40000" /\ r.bank \notin 9..10
         \/ cputype = "KH50000" /\ (r.bank \notin 9..21 \/ r.bank = 17)
      THEN NoChannel ELSE CodeChannel(r.code)>>

\* The channels a memory error is accounted to, by the switch on the CPU type
\* in intel_memory_error and zhaoxin_memory_error.
memerr_misc(cputype, r, imc_log) ==
    CASE cputype = "NEHALEM"                                  -> nehalem_memerr_misc(r)
      [] cputype = "SANDY_BRIDGE_EP"                          -> imc_log_memerr_misc(r, 8..11, imc_log)
      [] cputype = "IVY_BRIDGE_EPEX"                          -> imc_log_memerr_misc(r, 9..16, imc_log)
      [] cputype \in {"HASWELL_EPEX", "BROADWELL_EPEX"}       -> haswell_memerr_misc(r)
      [] cputype = "SKYLAKE_XEON"                             -> skylake_memerr_misc(r)
      [] cputype \in {"ICELAKE_XEON", "ICELAKE_DE", "TREMONT_D"} -> i10nm_memerr_misc(r)
      [] cputype \in {"SAPPHIRERAPIDS", "EMERALDRAPIDS"}      -> sapphire_memerr_misc(r)
      [] cputype \in {"GRANITERAPIDS", "SIERRAFOREST", "CLEARWATERFOREST"} -> granite_memerr_misc(r)
      [] cputype = "DIAMONDRAPIDS"                            -> diamond_memerr_misc(r)
      [] cputype \in {"KH40000", "KH50000", "ZHAOXIN"}        -> kh_memerr_misc(r, cputype)
      [] OTHER                                                -> <<CodeChannel(r.code)>>

----------------------------------------------------------------------------
(* How the hardware reports an error of a memory channel, as the comments  *)
(* of the functions above describe it: by the home agent or M2M of the     *)
(* controller, with the channel in the code, and by the bank of the        *)
(* channel itself, where the code may name any.  codes are the channels    *)
(* the code may have; die is read from the APIC id.                        *)
(*                                                                         *)
(* An M2M or B2CMI that all controllers share (bank 12 of Sapphire and     *)
(* Granite, bank 29 for the HBM) is not here: its bank does not say which  *)
(* controller it speaks of.                                                *)

AnyChannel == 0..14

ByController(ctrl, chan, bank) ==
    [ctrl |-> ctrl, chan |-> chan, bank |-> bank, codes |-> {chan}, die |-> 0]

ByChannel(ctrl, chan, bank, die) ==
    [ctrl |-> ctrl, chan |-> chan, bank |-> bank, codes |-> AnyChannel, die |-> die]

TwoControllers == {ByController(k, c, 7 + k) : k \in 0..1, c \in 0..3}
                  \cup {ByChannel(k, c, 9 + 4 * k + c, 0) : k \in 0..1, c \in 0..3}

SkylakeBank(k, c) == IF c = 2 THEN 17 + k ELSE 13 + 2 * k + c

SkylakeReports == {ByController(k, c, 7 + k) : k \in 0..1, c \in 0..2}
                  \cup {ByChannel(k, c, SkylakeBank(k, c), 0) : k \in 0..1, c \in 0..2}

\* i10nm_memerr_misc takes the channel from the code in every bank of a
\* controller, so the hardware has to put it there in the channel's own too.
I10nmReports(ctrls) == {ByController(k, c, 12 + 4 * k) : k \in ctrls, c \in 0..2}
                       \cup {ByController(k, c, 13 + 4 * k + c) : k \in ctrls, c \in 0..2}

\* Two channels a controller, and the two banks of the HBM.
SapphireReports == {ByChannel(k, c, 13 + 2 * k + c, 0) : k \in 0..3, c \in 0..1}
                   \cup {ByChannel(4 + c, 0, 30 + c, 0) : c \in 0..1}

GraniteReports == {ByChannel(k, 0, 13 + k, 0) : k \in 0..11}

DiamondReports == {ByChannel(d, c, 19 + c, d) : d \in 0..1, c \in 0..7}

Reports(cputype) ==
    CASE cputype \in {"HASWELL_EPEX", "BROADWELL_EPEX"} -> TwoControllers
      [] cputype = "SKYLAKE_XEON"                       -> SkylakeReports
      [] cputype = "ICELAKE_XEON"                       -> I10nmReports(0..3)
      [] cputype = "ICELAKE_DE"                         -> I10nmReports(0..1)
      [] cputype = "TREMONT_D"                          -> I10nmReports({0})
      [] cputype \in {"SAPPHIRERAPIDS", "EMERALDRAPIDS"} -> SapphireReports
      [] cputype \in {"GRANITERAPIDS", "SIERRAFOREST", "CLEARWATERFOREST"} -> GraniteReports
      [] cputype = "DIAMONDRAPIDS"                      -> DiamondReports
      [] OTHER                                          -> {}

SameChannel(p, q) == p.ctrl = q.ctrl /\ p.chan = q.chan
=============================================================================
