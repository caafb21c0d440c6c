---------------------------- MODULE MCPageErrors ----------------------------
(***************************************************************************)
(* Values for the constants of PageErrors.                                 *)
(***************************************************************************)
EXTENDS PageErrors

Corrected(a) == [addr |-> a, addrv |-> TRUE, uc |-> FALSE, apei |-> FALSE]

\* Corrected errors in k pages of 4 bytes, and next to them an uncorrected
\* one, one without an address and firmware's copy of a record.
SomeRecords(k) ==
  {Corrected((4 * i) + (i % 2)) : i \in 0 .. k - 1}
    \cup {[Corrected(1) EXCEPT !.uc = TRUE], [Corrected(2) EXCEPT !.addrv = FALSE],
          [Corrected(0) EXCEPT !.apei = TRUE]}

FivePages == SomeRecords(5)

Config(action, retry) == [offline |-> action, retry |-> retry]

\* Counting only; one attempt to take a page offline; and repeated attempts.
AllKinds == {Config("off", FALSE), Config("account", TRUE), Config("account", FALSE),
             Config("soft-then-hard", FALSE), Config("hard", TRUE)}
AccountOnly == {Config("account", FALSE)}

Disabled == [capacity |-> 0, agetime |-> 0]
OneIn1 == [capacity |-> 1, agetime |-> 1]
TwoIn2 == [capacity |-> 2, agetime |-> 2]
=============================================================================
