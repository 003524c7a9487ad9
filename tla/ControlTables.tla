--------------------------- MODULE ControlTables ----------------------------
(***************************************************************************)
(* The switches, selects and times of the Solis inverters: the functions   *)
(* of sensor_data/switch_sensors.py, select_sensors.py and time_sensors.py.*)
(* A word is the set of its bits that are 1.                               *)
(***************************************************************************)
EXTENDS Naturals, Sequences

BitsOf(n) == {b \in 0..15 : (n \div 2^b) % 2 = 1}

-----------------------------------------------------------------------------
(***************************************************************************)
(* A control is a switch or an option of a select.  It has a bit position  *)
(* (bits is a singleton) or a value to write (on, off: sets of words with  *)
(* at most one member).                                                    *)
(***************************************************************************)
BitControl(register, bit) ==
    [register |-> register, target |-> register, bits |-> {bit}, on |-> {}, off |-> {},
     conflicts |-> {}, requires |-> {}, requiresAny |-> <<>>, inverted |-> FALSE,
     keepAlive |-> FALSE, companions |-> <<>>, touV1 |-> FALSE]

BitControls(register, bits) == {BitControl(register, b) : b \in bits}

Inverted(register, bits) ==
    {[BitControl(register, b) EXCEPT !.inverted = TRUE] : b \in bits}

ValueControl(register, on, off) ==
    [BitControl(register, 0) EXCEPT !.bits = {}, !.on = {BitsOf(on)},
                                    !.off = {BitsOf(n) : n \in off}]

-----------------------------------------------------------------------------
\* The virtual register of the switch that enables the integration.
EnabledRegister == 90005

\* Register 43110, whose bits make up the storage mode.
StorageSwitches ==
    BitControls(43110, {3, 5, 7, 8, 9, 10}) \cup
    {[BitControl(43110, 0) EXCEPT !.conflicts = {2, 6, 11}],
     [BitControl(43110, 1) EXCEPT !.requiresAny = <<0, 6>>, !.touV1 = TRUE],
     [BitControl(43110, 2) EXCEPT !.conflicts = {0, 1, 4, 6, 11}],
     [BitControl(43110, 4) EXCEPT !.conflicts = {2, 11}, !.requires = {0}],
     [BitControl(43110, 6) EXCEPT !.conflicts = {0, 11}],
     [BitControl(43110, 11) EXCEPT !.conflicts = {0, 1, 2, 4, 6}]}

\* Registers 43135 and 44280, which the inverter resets unless they are written again.
ForceCompanions == <<43136, 43129, 43282>>

ForceSwitches ==
    {[ValueControl(43135, on, {}) EXCEPT !.companions = ForceCompanions,
                                         !.keepAlive = TRUE] : on \in {1, 2}}

ShutdownSwitch == [BitControl(44280, 4) EXCEPT !.keepAlive = TRUE]

HybridSwitches ==
    StorageSwitches \cup ForceSwitches \cup {ShutdownSwitch} \cup
    {ValueControl(43007, 190, {222}), ValueControl(43070, 170, {85}),
     ValueControl(43111, 1, {0}), ValueControl(43363, 1, {}),
     ValueControl(43292, 170, {0})} \cup
    BitControls(43073, {4}) \cup BitControls(43365, 0..4) \cup
    BitControls(43815, 0..5) \cup BitControls(43340, 0..1) \cup
    BitControls(43483, (0..7) \ {3}) \cup Inverted(43483, {3}) \cup
    BitControls(43302, {3, 4, 12, 13, 14}) \cup Inverted(43302, {0, 1, 8, 9}) \cup
    BitControls(43249, 0..7) \cup BitControls(43707, 0..11)

\* It is read from one register and written to another.
GridSwitches == {[ValueControl(3089, 170, {85}) EXCEPT !.target = 3069]}

Storing == {"hybrid", "energy"}
Stringed == {"grid", "string"}

GetSwitchSensors(type) ==
    BitControls(EnabledRegister, {0}) \cup
    (IF type \in Storing THEN HybridSwitches
     ELSE IF type \in Stringed THEN GridSwitches ELSE {})

-----------------------------------------------------------------------------
\* The bits of 43110 that make a mode: each option clears them and sets its own.
StorageModeBits == {0, 1, 2, 4, 6, 11}

ModeOption(bit, requires) ==
    [BitControl(43110, bit) EXCEPT !.conflicts = StorageModeBits, !.requires = requires,
                                   !.touV1 = 1 \in requires]

StorageModes ==
    {ModeOption(bit, requires) : bit \in {0, 6}, requires \in SUBSET {1, 4}} \cup
    {ModeOption(2, {}), ModeOption(11, {})}

ForceModes ==
    {[ValueControl(43135, on, {}) EXCEPT !.companions = ForceCompanions] : on \in 0..2}

BatteryModels(features) ==
    LET values == IF "high_voltage_battery" \in features
                  THEN {256 * n : n \in (0..23) \cup {38, 99}}
                  ELSE (0..43) \cup {84} \cup (99..103)
    IN  {ValueControl(43009, v, {}) : v \in values}

\* The selects, each as the set of its options.
GetSelectSensors(type, features) ==
    IF type \in Storing
    THEN {{ValueControl(43132, on, {}) : on \in 0..2}, ForceModes, StorageModes,
          BatteryModels(features)}
    ELSE {}

-----------------------------------------------------------------------------
\* Registers of an hour; the minute is in the next one.
ChargingSlots ==
    {43143 + 10 * slot + 2 * n : slot \in 0..4, n \in 0..3}

GridSlots ==
    UNION {{first + 7 * slot, first + 7 * slot + 2} : first \in {43711, 43753}, slot \in 0..5}

GetTimeSensors(type, features) ==
    (IF type \in Storing THEN ChargingSlots ELSE {}) \cup
    (IF type \in Storing /\ "v2" \in features THEN GridSlots ELSE {})
=============================================================================
