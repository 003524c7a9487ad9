--------------------------- MODULE MCSensorGroups ---------------------------
(***************************************************************************)
(* An inverter with two groups: three sensors on registers 1 to 4, one of  *)
(* them two registers wide, and one that is read once.                     *)
(***************************************************************************)
EXTENDS SensorGroups, TLC

CONSTANTS s1, s2, s3, s4, r1, r2

Registry == (s1 :> {1}) @@ (s2 :> {2}) @@ (s3 :> {3, 4}) @@ (s4 :> {7})
Table == <<{s1, s2, s3}, {s4}>>
ReadOnce == {s4}
MCSensors == {s1, s2, s3, s4}
TwoRuns == {r1, r2}
OneRun == {r1}
AnyRefused == {2, 4}
=============================================================================
