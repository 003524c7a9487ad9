------------------------- MODULE MCModbusController -------------------------
(***************************************************************************)
(* Instances of ModbusController for TLC.                                  *)
(***************************************************************************)
EXTENDS ModbusController, TLC

CONSTANTS c1, c2, k1, k2, cl1, cl2

OneController == {c1}
TwoControllers == {c1, c2}
OneCaller == {k1}
TwoCallers == {k1, k2}
OneClient == {cl1}
TwoClients == {cl1, cl2}

\* Controllers, callers and clients are interchangeable.
ControllerSymmetry ==
    Permutations(TwoControllers) \cup Permutations(TwoCallers) \cup Permutations(TwoClients)
=============================================================================
