------------------------------ MODULE MCMemDB ------------------------------
(***************************************************************************)
(* Values for the constants of MemDB.                                      *)
(***************************************************************************)
EXTENDS MemDB

Threshold(c, a) == [capacity |-> c, agetime |-> a]
Off == [capacity |-> 0, agetime |-> 0]

DimmTriggers == [ce |-> Threshold(2, 2), uc |-> Threshold(1, 2)]
SocketTriggers == [ce |-> Threshold(4, 2), uc |-> Off]
=============================================================================
