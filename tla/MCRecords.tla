------------------------------ MODULE MCRecords ------------------------------
(***************************************************************************)
(* Instances of AsciiInput and RecordProcessing for TLC.                   *)
(***************************************************************************)
EXTENDS AsciiInput

Record(cpuid, bank, code) ==
    [cpuid |-> cpuid, bank |-> bank, code |-> code, uc |-> FALSE, miscv |-> FALSE,
     track |-> 0, tes |-> "yes", ext |-> 0, misc |-> 0]

\* A corrected memory read error (0x90) of every report the hardware can make,
\* with the channel in the code or, where it does not matter, another one.
MemoryRecords(cpu) ==
    UNION {{[Record(cpu, p.bank, 144 + c) EXCEPT !.misc = p.die] :
                c \in p.codes \cap {p.chan, 14}} : p \in Reports(cpu)}

\* One record for every path through the Intel decoder.
IntelRecords(cpu) ==
    { Record(cpu, 3, 5),                                            \* simple
      [Record(cpu, 3, 14) EXCEPT !.track = 2],                      \* generic cache, yellow
      [Record(cpu, 3, 281) EXCEPT !.track = 2, !.uc = TRUE],        \* cache, uncorrected
      [Record(cpu, 3, 281) EXCEPT !.track = 2, !.tes = "nocap"],
      Record(cpu, 9, 656),                                          \* memory as cache
      [Record(cpu, 5, 3595) EXCEPT !.miscv = TRUE, !.uc = TRUE],    \* IO MCA
      Record(cpu, THERMAL_BANK, 1),
      Record(cpu, 9, 144),                                          \* memory, channel 0
      Record(cpu, 9, 159),                                          \* memory, no channel
      Record(cpu, 9, FilteringBit + 144) }

\* Two devices fail: the error is accounted twice.
DoubleRecords(cpu) == {[Record(cpu, 9, 145) EXCEPT !.misc = 1], [Record(cpu, 9, 145) EXCEPT !.uc = TRUE, !.misc = 1]}

ZhaoxinRecords(cpu) ==
    { [Record(cpu, 1, 1) EXCEPT !.track = 2, !.ext = 1],            \* PL2 cache, yellow
      [Record(cpu, 17, 281) EXCEPT !.track = 2, !.ext = 1],         \* LLC cache, architectural code
      Record(cpu, 9, FilteringBit + 144),
      Record(cpu, 3, 144),                                          \* memory code of another bank
      Record(cpu, 9, 656) }

K8Records == { [Record("K8", 4, 2063) EXCEPT !.ext = 5, !.uc = TRUE],
               [Record("K8", 4, 2063) EXCEPT !.ext = 8],
               Record("K8", 0, 281) }

MCRecordsOf(machine) ==
    CASE machine = "INTEL"                                 -> IntelRecords(NoCpuid)
      [] machine = "NEHALEM"                               ->
             {[Record(machine, 8, 145) EXCEPT !.misc = 2, !.miscv = v] : v \in BOOLEAN}
      [] machine \in {"SANDY_BRIDGE_EP", "IVY_BRIDGE_EPEX"} -> DoubleRecords(machine)
      [] machine \in {"KH40000", "KH50000"}                -> ZhaoxinRecords(machine)
      [] machine = "K8"                                    -> K8Records
      [] OTHER                                             -> MemoryRecords(machine)

\* Two records show whether two channels are told apart.
MCMaxRecords(machine) == IF Reports(machine) = {} THEN 3 ELSE 2

Setup == [source |-> "device", daemon |-> TRUE, filter |-> TRUE, filtermem |-> FALSE,
          forced |-> NoCpuid, machine |-> "INTEL", numerrors |-> 0, debug |-> FALSE,
          raw |-> FALSE]

\* Machines whose memory channels are told apart by their banks.
ServerSetups ==
    {[Setup EXCEPT !.machine = c] :
        c \in {"HASWELL_EPEX", "BROADWELL_EPEX", "SKYLAKE_XEON", "ICELAKE_XEON", "ICELAKE_DE",
               "TREMONT_D", "SAPPHIRERAPIDS", "GRANITERAPIDS", "DIAMONDRAPIDS"}}

SmallSetups ==
    {[Setup EXCEPT !.machine = c, !.filtermem = f] :
        c \in {"NEHALEM", "SANDY_BRIDGE_EP", "IVY_BRIDGE_EPEX", "KH40000", "KH50000", "K8"},
        f \in BOOLEAN}

OptionSetups ==
    { Setup,
      [Setup EXCEPT !.filtermem = TRUE],
      [Setup EXCEPT !.filter = FALSE, !.filtermem = TRUE],
      [Setup EXCEPT !.daemon = FALSE],
      [Setup EXCEPT !.machine = "KH50000", !.raw = TRUE],
      [Setup EXCEPT !.numerrors = 1],
      [Setup EXCEPT !.machine = "KH40000", !.numerrors = 2],
      [Setup EXCEPT !.machine = "KH40000", !.debug = TRUE],
      [Setup EXCEPT !.machine = "KH40000", !.forced = "INTEL"],
      [Setup EXCEPT !.machine = "K8", !.forced = "GENERIC"] }

AsciiSetups == {[Setup EXCEPT !.source = "ascii", !.forced = f] : f \in {NoCpuid, "K8"}}

MCSetups == ServerSetups \cup SmallSetups \cup OptionSetups \cup AsciiSetups

\* The records of a log come from different machines.
MCCpuOf(k) == IF k % 2 = 1 THEN "SKYLAKE_XEON" ELSE "KH40000"
=============================================================================
