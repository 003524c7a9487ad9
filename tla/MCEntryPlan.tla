---------------------------- MODULE MCEntryPlan -----------------------------
(***************************************************************************)
(* Configurations of entries: every poll profile with and without its      *)
(* options; all optional features, none, the defaults, and each one alone; *)
(* and the brands with one table each.                                     *)
(***************************************************************************)
EXTENDS EntryPlan

Solis(type, features, options, profile) ==
    [brand |-> "solis", type |-> type, features |-> features, options |-> options,
     connection |-> "S2_WL_ST", profile |-> profile, battery |-> FALSE,
     smartPort |-> FALSE, clockSync |-> TRUE]

Options == {"pv", "generator", "battery", "high_voltage_battery", "v2", "ac_coupling",
            "parallel", "dual_meter", "epm"}
Defaults == {"pv", "battery", "v2", "generator", "epm"}

HybridConfigs ==
    {Solis("hybrid", {"smart_port"}, o, "full") :
        o \in {{}, Options, Defaults} \cup {{x} : x \in Options}} \cup
    {Solis("hybrid", f, o, p) :
        f \in {{}, {"smart_port"}}, o \in {{}, Options}, p \in {"essential", "extreme"}} \cup
    {[Solis("energy", {"smart_port"}, Options, "extreme") EXCEPT
        !.battery = b, !.smartPort = s, !.clockSync = FALSE] : b, s \in BOOLEAN} \cup
    {Solis("waveshare", {}, Defaults, "full")}

StringConfigs ==
    {Solis("grid", {}, o, p) : o \in {{}, Options}, p \in Profiles}

Brand(b) == [Solis("hybrid", {}, {}, "full") EXCEPT !.brand = b]

OtherConfigs ==
    {Brand(b) : b \in {"sunsynk", "sigenergy", "solaredge", "skyline", "duracell"}}

ManyConfigs == HybridConfigs \cup StringConfigs \cup OtherConfigs
GivEnergyEntry == {Brand("givenergy")}
=============================================================================
