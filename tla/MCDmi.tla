-------------------------------- MODULE MCDmi --------------------------------
(***************************************************************************)
(* BIOS tables for Dmi, with addresses of 4 bits.                          *)
(***************************************************************************)
EXTENDS Dmi

Full(s, c, d) == [socket |-> s, channel |-> c, dimm |-> d]
Device(h, loc, place, size) ==
  [is |-> "device", handle |-> h, whole |-> TRUE, size |-> size,
   locator |-> loc, place |-> place, stray |-> NONE]
Short(e) == [e EXCEPT !.whole = FALSE]
AddrRange(h, s, e, dev) ==
  [is |-> "range", handle |-> h, whole |-> TRUE, start |-> s, end |-> e, dev |-> dev]
Array(h) == [is |-> "array", handle |-> h, whole |-> TRUE]

A == Device(1, "DIMM_A", Full(0, 0, 0), 4)
B == Device(2, "DIMM_B", Full(0, 1, 0), 4)
Twin == Device(2, "DIMM_A", Full(0, 0, 0), 4)
Empty == Device(3, "DIMM_C", Full(0, 1, 1), 0)
NoChannel == Device(3, "DIMM_C", Full(0, NONE, 1), 4)
Unnamed == Device(3, NONE, NONE, 4)
CutOff == [Device(3, "DIMM_C", NONE, 4) EXCEPT !.stray = 1]
NoChannel2 == Device(4, "DIMM_D", Full(0, NONE, 1), 4)

Devices == {<<A>>, <<A, B>>, <<A, Twin>>, <<B, Empty>>, <<NoChannel, A>>, <<A, B, NoChannel>>,
            <<B, Unnamed>>, <<Short(A), B>>, <<CutOff, NoChannel2, B>>}
\* Low, high, touching and malformed ranges; from 8 on they are negative ints.
Ranges(h, dev) ==
  {AddrRange(h, s, e, dev) :
     <<s, e>> \in {<<0, 3>>, <<4, 7>>, <<8, 12>>, <<0, 7>>, <<4, 12>>, <<7, 12>>, <<8, 7>>}}

\* Those a BIOS without faults would list, and one that overlaps them.
Usual(h, dev) == {AddrRange(h, s, e, dev) : <<s, e>> \in {<<0, 3>>, <<4, 7>>, <<8, 12>>, <<0, 7>>}}

MCTables ==
  {d \o <<r1, Array(9), r2>> : d \in Devices, r1 \in Ranges(10, 1), r2 \in Usual(11, 2)}
  \cup {d \o <<r>> : d \in Devices, r \in Ranges(10, 1)}
  \cup {<<B, r3, r1, r2>> : r1 \in Usual(10, 1), r2 \in Usual(11, 2), r3 \in Usual(12, 2)}
=============================================================================
