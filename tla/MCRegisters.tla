---------------------------- MODULE MCRegisters -----------------------------
(***************************************************************************)
(* Registers of a hybrid inverter: a storage mode with a select and two    *)
(* switches, force charge with one setpoint, PV shutdown with its timer,   *)
(* the two blocks of remote dispatch.                                      *)
(***************************************************************************)
EXTENDS DispatchServices

SomeRegisters ==
    {TouVersionRegister, 43110, 43135, 43282, 44280, 44100, 44101, 44105, 44108, 44111,
     44112, 44116, 44125, 44126}

\* The version of time of use is unknown before the first poll, so both cases occur.
SomeStarts ==
    {[r \in SomeRegisters |->
        CASE r = TouVersionRegister -> TouVersionV2
          [] r = 43110 -> {2, 3}
          [] r = 44280 -> {0}
          [] r \in {43282, 44112, 44126} -> {0, 2}
          [] OTHER -> {}]}

Cut(control) ==
    [control EXCEPT !.companions = SelectSeq(@, LAMBDA r : r \in SomeRegisters)]

SomeSwitches ==
    {s \in StorageSwitches : s.bits \in {{0}, {5}}} \cup {ShutdownSwitch} \cup
    {Cut(s) : s \in {f \in ForceSwitches : f.on = {{0}}}}

SomeSelects ==
    {{o \in StorageModes : 4 \notin o.requires /\ o.bits # {11}},
     {Cut(o) : o \in {f \in ForceModes : f.on # {{1}}}}}

SomeRequests ==
    {[schedule |-> FALSE, mode |-> {1}, given |-> (0 :> {4}) @@ (1 :> {4})],
     [schedule |-> FALSE, mode |-> {2}, given |-> (0 :> Unknown) @@ (1 :> {5})],
     [schedule |-> TRUE, mode |-> {0}, given |-> (0 :> {4}) @@ (1 :> Unknown)],
     [schedule |-> TRUE, mode |-> {}, given |-> (0 :> {5}) @@ (1 :> Unknown)]}

\* Two switches of one register, for the run toggle_lost.
TwoSwitches == {s \in StorageSwitches : s.bits \in {{5}, {7}}}
TwoRegisters == {TouVersionRegister, 43110, 44100, 44101, 44105, 44108, 44116}
OneStart == {[r \in TwoRegisters |-> {}]}
=============================================================================
