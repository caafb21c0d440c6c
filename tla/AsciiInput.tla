----------------------------- MODULE AsciiInput -----------------------------
(***************************************************************************)
(* mcelog --ascii: decodefatal() of mcelog.c puts records together from    *)
(* the lines of a console log.  A line either carries a field (CPU,        *)
(* STATUS, PROCESSOR, ...), or is incomplete, or is text of another kind,  *)
(* which ends the record read so far.  (Blank lines and the lines of       *)
(* skip_patterns change nothing; incomplete ones only add a remark.)       *)
(*                                                                         *)
(* In the log, text of another kind stands between two records: written is *)
(* the number of the record whose lines are being read, given the fields   *)
(* of it that were seen, and known the records of which a line counted, so *)
(* that the properties can compare what was dumped with what was there.    *)
(* A field of the struct mce being filled holds the number of the record   *)
(* whose line set it last, or 0.                                           *)
(***************************************************************************)
EXTENDS RecordProcessing

CONSTANTS
    Fields,         \* the fields a line may carry; "processor" names the CPU
    CpuOf(_),       \* the CPU type of the machine that wrote a record
    MaxText         \* bound: records in the log

VARIABLES
    written,    \* the record of the log whose lines are being read
    given,      \* history: the fields of it that were read
    known,      \* history: the records of which a line was understood
    m,          \* decodefatal's struct mce
    data,       \* a line of the record was understood
    dumps       \* the records decoded, with the type they were decoded as

asciiVars == <<written, given, known, m, data, dumps>>

Blank == [f \in Fields |-> 0]

AsciiInit ==
    /\ written = 1
    /\ given = {}
    /\ known = {}
    /\ m = Blank
    /\ data = FALSE
    /\ dumps = <<>>

----------------------------------------------------------------------------
Reading == setup.source = "ascii" /\ state = "idle"

\* The variables of process() that decodefatal never touches.
processVars == <<setup, kernel, overflow, batch, numerrors, finish, logged,
                 accounted, produced, handled, dropped, lost, warned>>

\* Mutant: the memset is missing.
Restart_KeepsFields == m' = m /\ data' = FALSE

\* restart: a new record starts from zero.
Restart == m' = Blank /\ data' = FALSE

\* dump_mce_final: unlike process() it asks for the CPU only when there is one,
\* and neither filters nor accounts.
dump_mce_final ==
    LET t == IF m["processor"] # 0 /\ setup.forced = NoCpuid
             THEN CpuOf(m["processor"]) ELSE cputype
    IN /\ cputype' = t
       /\ dumps' = Append(dumps, [fields |-> m, as |-> t, of |-> written, given |-> given])

\* A line with a field.
FieldLine(f) ==
    /\ Reading
    /\ written <= MaxText
    /\ given' = given \cup {f}
    /\ known' = known \cup {written}
    /\ m' = [m EXCEPT ![f] = written]
    /\ data' = TRUE
    /\ UNCHANGED <<processVars, state, cputype, written, dumps>>

\* The header line of a Xen record sets the CPU but is not counted as data.
XenHeaderLine ==
    /\ Reading
    /\ written <= MaxText
    /\ given' = given \cup {"cpu"}
    /\ m' = [m EXCEPT !["cpu"] = written]
    /\ UNCHANGED <<processVars, state, cputype, written, known, data, dumps>>

\* A line of another kind ends a record of which something was understood;
\* otherwise it is only echoed and the struct mce is left as it is.
OtherLine ==
    /\ Reading
    /\ written <= MaxText
    /\ IF data THEN dump_mce_final /\ Restart ELSE UNCHANGED <<cputype, dumps, m, data>>
    /\ written' = written + 1
    /\ given' = {}
    /\ UNCHANGED <<processVars, state, known>>

\* The end of the log dumps the record that is left.
EndOfFile ==
    /\ Reading
    /\ IF data THEN dump_mce_final ELSE UNCHANGED <<cputype, dumps>>
    /\ state' = "exited"
    /\ UNCHANGED <<processVars, written, given, known, m, data>>

AsciiStep == XenHeaderLine \/ OtherLine \/ EndOfFile \/ \E f \in Fields : FieldLine(f)

----------------------------------------------------------------------------
(* The program, with either source of records.                             *)

allVars == <<vars, asciiVars>>

AllInit == Init /\ AsciiInit

AllNext ==
    \/ setup.source = "device" /\ Next /\ UNCHANGED asciiVars
    \/ AsciiStep

\* The event loop runs whenever the device is readable, and process() goes on.
AllSpec ==
    /\ AllInit
    /\ [][AllNext]_allVars
    /\ WF_allVars(setup.source = "device" /\ Process /\ UNCHANGED asciiVars)

----------------------------------------------------------------------------
\* Every dumped record has exactly the fields that its lines in the log gave,
\* and nothing left over from a record before it.  (The number of the CPU is
\* not claimed: a Xen header that no bank line follows is not reset.)
AsciiIntact ==
    \A i \in DOMAIN dumps : \A f \in Fields \ {"cpu"} :
        dumps[i].fields[f] = IF f \in dumps[i].given THEN dumps[i].of ELSE 0

\* A record of the log is dumped exactly once and in its turn, when the text
\* after it or the end of the log is reached, and is decoded as the CPU its
\* PROCESSOR line names, although the records of one log may come from
\* different machines.
AsciiOnce ==
    /\ \A i, j \in DOMAIN dumps : i < j => dumps[i].of < dumps[j].of
    /\ {dumps[i].of : i \in DOMAIN dumps}
           = {k \in known : k < written \/ state = "exited"}
    /\ \A i \in DOMAIN dumps :
           "processor" \in dumps[i].given /\ setup.forced = NoCpuid =>
               dumps[i].as = CpuOf(dumps[i].of)

\* decodefatal tells the records of a log apart: each one is dumped once, with
\* its own fields and as its own CPU.
AsciiFaithful == AsciiIntact /\ AsciiOnce
=============================================================================
