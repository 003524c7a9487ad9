-------------------------- MODULE MCDataRetrieval --------------------------
(***************************************************************************)
(* Instances of DataRetrieval for TLC.                                     *)
(***************************************************************************)
EXTENDS DataRetrieval, TLC

CONSTANTS tick1, tick2

OneTick == {tick1}
TwoTicks == {tick1, tick2}
=============================================================================
