------------------------------ MODULE MCProcess ------------------------------
(* Instances of Process for TLC.                                           *)
EXTENDS Process

CONSTANTS p1, p2, p3

TwoPids == {p1, p2}
ThreePids == {p1, p2, p3}
=============================================================================
