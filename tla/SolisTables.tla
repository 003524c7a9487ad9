---------------------------- MODULE SolisTables -----------------------------
(***************************************************************************)
(* The register tables of the Solis inverters:                             *)
(* sensor_data/hybrid_sensors.py, and from StringSensors on                *)
(* sensor_data/string_sensors.py. HybridN and StringN are the groups that  *)
(* start at register N; parts of long groups have a letter. The Derived    *)
(* sets hold the registers of the entities computed from others, with the  *)
(* synthetic ones 90006 and 90007 and the literals 0 and 1.                *)
(***************************************************************************)
EXTENDS GroupTables

-----------------------------------------------------------------------------
\* Hybrid and storage inverters (sensor_data/hybrid_sensors.py).
Hybrid33000 ==
    [Group("once", "default", Run(33000, Ones(4) \o <<16>>)) EXCEPT
        !.profiles = {"essential", "extreme"}]

Hybrid35000 ==
    [Group("once", "default", Run(35000, <<1>>)) EXCEPT
        !.profiles = {"essential", "extreme"}]

Hybrid33022 ==
    [Group("slow", "default", Run(33022, Ones(6))) EXCEPT
        !.profiles = {"essential"}]

Hybrid33029 ==
    [Group("slow", "default", Run(33029, <<2, 2, 2, 1, 1, 2, 2>>)) EXCEPT
        !.needs = {"pv"},
        !.profiles = {"essential"}]

Hybrid33041 ==
    [Group("fast", "default", Run(33041, <<1, 1, 1>>)) EXCEPT
        !.needs = {"bms"},
        !.reserved = {33042}]

Hybrid33049 ==
    [Group("fast", "default", Run(33049, Ones(8) \o <<2>>)) EXCEPT
        !.needs = {"pv"},
        !.profiles = {"essential", "extreme"}]

Hybrid33070b ==
    Run(33095, <<1, 1>>)

Hybrid33070 ==
    [Group("fast", "default", Run(33070, Ones(9) \o <<2, 2, 2, 8, 1, 1>>) \o Hybrid33070b)
          EXCEPT
        !.profiles = {"essential"},
        !.reserved = {33085}]

Hybrid33116 ==
    Group("fast", "default", Run(33116, Ones(8)))

Hybrid33126 ==
    [Group("fast", "default", Run(33126, <<2, 1, 1, 2>>)) EXCEPT
        !.profiles = {"extreme"}]

Hybrid33132b ==
    Run(33146, <<1, 1, 1, 2, 2>> \o Ones(5))

Hybrid33132 ==
    [Group("fast", "default", Run(33132, Ones(14)) \o Hybrid33132b) EXCEPT
        !.profiles = {"essential", "extreme_battery"}]

Hybrid33161b ==
    Run(33179, <<1, 1, 5, 2, 2>>)

Hybrid33161 ==
    [Group("slow", "default", Run(33161, <<2, 1, 1, 2, 1, 1, 2, 1, 1, 2, 1, 1, 2>>) \o
          Hybrid33161b) EXCEPT
        !.profiles = {"essential"},
        !.reserved = {33181}]

Hybrid33243 ==
    Group("normal", "default", Run(33243, Ones(8)))

Hybrid34243 ==
    [Group("slow", "default", Run(34243, <<1>>)) EXCEPT
        !.needs = {"parallel"}]

Hybrid34328 ==
    [Group("fast", "default", Run(34328, Ones(6))) EXCEPT
        !.needs = {"smart_port"}]

Hybrid34391 ==
    [Group("fast", "default", Run(34391, <<1, 1, 1>>)) EXCEPT
        !.needs = {"smart_port"},
        !.profiles = {"extreme_smart_port"}]

Hybrid33251b ==
    Run(33273, <<2, 2, 2, 2, 1, 1, 2, 2>>)

Hybrid33251 ==
    Group("fast", "default", Run(33251, Ones(6) \o <<2, 2, 2, 2, 2, 2, 2, 2>>) \o
          Hybrid33251b)

Hybrid33289 ==
    Group("slow", "default", Run(33289, <<1>>))

Hybrid33300 ==
    [Group("fast", "default", Run(33300, Ones(8) \o <<2, 2, 2, 2>>)) EXCEPT
        !.needs = {"dual_meter"}]

Hybrid33316 ==
    [Group("slow", "default", Run(33316, <<2, 2, 2, 2, 2, 2, 2, 2, 1, 1, 2, 2>>)) EXCEPT
        !.needs = {"dual_meter"}]

Hybrid33512 ==
    [Group("fast", "default", Run(33512, <<1, 2, 1, 2, 1>>)) EXCEPT
        !.reserved = {33513, 33516}]

Hybrid33530 ==
    [Group("fast", "default", Run(33530, <<1, 1, 2, 1, 1>>)) EXCEPT
        !.needs = {"generator"}]

Hybrid33580 ==
    [Group("slow", "default", Run(33580, <<2, 2, 2, 1, 3, 2, 2, 2, 1>>)) EXCEPT
        !.reserved = {33587}]

Hybrid34445 ==
    [Group("slow", "default", Run(34445, <<2, 2, 2, 1, 1>>)) EXCEPT
        !.needs = {"ac_coupling"}]

Hybrid34496 ==
    [Group("fast", "default", Run(34496, <<2>>)) EXCEPT
        !.needs = {"ac_coupling"}]

Hybrid43007b ==
    Run(43019, <<1, 1, 1, 2, 1, 2, 1, 1>>)

Hybrid43007 ==
    [Group("normal", "default", Run(43007, Ones(7) \o <<2, 1, 1, 1>>) \o Hybrid43007b)
          EXCEPT
        !.reserved = {43008, 43014, 43022, 43025},
        !.editable = (43010..43013) \cup (43016..43021) \cup {43024, 43027}]

Hybrid43073 ==
    [Group("slow", "default", Run(43073, <<1, 1>>)) EXCEPT
        !.editable = {43074}]

Hybrid43195 ==
    [Group("slow", "default", Run(43195, <<1>>)) EXCEPT
        !.editable = {43195}]

Hybrid43128b ==
    Run(43136, <<1, 1>>)

Hybrid43128 ==
    [Group("slow", "default", Run(43128, Ones(8)) \o Hybrid43128b) EXCEPT
        !.editable = (43128..43131) \cup {43133, 43134, 43136, 43137}]

Hybrid43141b ==
    Run(43157, Ones(4) \o <<2>> \o Ones(8))

Hybrid43141 ==
    [Group("slow", "default", Run(43141, Ones(10) \o <<2>> \o Ones(4)) \o Hybrid43141b)
          EXCEPT
        !.reserved = {43151, 43161},
        !.editable = {43141, 43142}]

Hybrid43173b ==
    Run(43190, <<1>>)

Hybrid43173 ==
    [Group("slow", "default", Run(43173, Ones(8) \o <<2>> \o Ones(7)) \o Hybrid43173b)
          EXCEPT
        !.reserved = {43181}]

Hybrid43361 ==
    [Group("slow", "default", Run(43361, Ones(9))) EXCEPT
        !.reserved = {43362},
        !.editable = (43367..43369) \cup {43361, 43364}]

Hybrid43707b ==
    Run(43719, Ones(12))

Hybrid43707c ==
    Run(43731, Ones(13))

Hybrid43707d ==
    Run(43744, Ones(6))

Hybrid43707 ==
    [Group("slow", "default", Run(43707, Ones(12)) \o Hybrid43707b \o Hybrid43707c \o
          Hybrid43707d) EXCEPT
        !.editable = (43708..43710) \cup (43715..43717) \cup (43722..43724) \cup
                (43729..43731) \cup (43736..43738) \cup (43743..43745)]

Hybrid43750b ==
    Run(43761, Ones(12))

Hybrid43750c ==
    Run(43773, Ones(13))

Hybrid43750d ==
    Run(43786, Ones(6))

Hybrid43750 ==
    [Group("slow", "default", Run(43750, Ones(11)) \o Hybrid43750b \o Hybrid43750c \o
          Hybrid43750d) EXCEPT
        !.editable = (43750..43752) \cup (43757..43759) \cup (43764..43766) \cup
                (43771..43773) \cup (43778..43780) \cup (43785..43787)]

Hybrid43815 ==
    Group("slow", "default", Run(43815, <<1>>))

Hybrid43340 ==
    Group("default", "default", Run(43340, <<1>>))

Hybrid43483 ==
    Group("default", "default", Run(43483, <<1>>))

Hybrid43487 ==
    [Group("slow", "default", Run(43487, <<1, 1>>)) EXCEPT
        !.editable = {43487, 43488}]

Hybrid43249 ==
    Group("slow", "default", Run(43249, <<1>>))

Hybrid43291 ==
    [Group("slow", "default", Run(43291, <<1, 1>>)) EXCEPT
        !.editable = {43291}]

Hybrid43302 ==
    Group("slow", "default", Run(43302, <<1>>))

Hybrid43110 ==
    Group("slow", "default", Run(43110, <<1, 1>>))

Hybrid43117 ==
    [Group("slow", "default", Run(43117, <<1, 1>>)) EXCEPT
        !.editable = {43117, 43118}]

Hybrid43282 ==
    [Group("slow", "default", Run(43282, <<1>>)) EXCEPT
        !.editable = {43282}]

Hybrid33200 ==
    [Group("slow", "default", Run(33200, Ones(8) \o <<5>> \o Ones(5))) EXCEPT
        !.reserved = {33205, 33208}]

Hybrid34502 ==
    Group("once", "default", Run(34502, <<1, 1>>))

Hybrid34504 ==
    Group("slow", "default", Run(34504, <<1>>))

Hybrid44100 ==
    Group("slow", "default", Run(44100, Ones(6) \o <<2>> \o Ones(5)))

Hybrid43070 ==
    Group("slow", "default", Run(43070, <<1>>))

Hybrid43081 ==
    [Group("slow", "default", Run(43081, <<1>>)) EXCEPT
        !.editable = {43081}]

Hybrid44280 ==
    Group("slow", "default", Run(44280, <<1>>))

HybridSensors == <<Hybrid33000, Hybrid35000, Hybrid33022, Hybrid33029, Hybrid33041,
    Hybrid33049, Hybrid33070, Hybrid33116, Hybrid33126, Hybrid33132, Hybrid33161,
    Hybrid33243, Hybrid34243, Hybrid34328, Hybrid34391, Hybrid33251, Hybrid33289,
    Hybrid33300, Hybrid33316, Hybrid33512, Hybrid33530, Hybrid33580, Hybrid34445,
    Hybrid34496, Hybrid43007, Hybrid43073, Hybrid43195, Hybrid43128, Hybrid43141,
    Hybrid43173, Hybrid43361, Hybrid43707, Hybrid43750, Hybrid43815, Hybrid43340,
    Hybrid43483, Hybrid43487, Hybrid43249, Hybrid43291, Hybrid43302, Hybrid43110,
    Hybrid43117, Hybrid43282, Hybrid33200, Hybrid34502, Hybrid34504, Hybrid44100,
    Hybrid43070, Hybrid43081, Hybrid44280>>

HybridDerived1 == {
    {90006},
    {90007, 33022, 33023, 33024, 33025, 33026, 33027},
    {33095},
    {43292, 43291},
    {33049, 33050},
    {33051, 33052},
    {33053, 33054},
    {33055, 33056},
    {33079, 33080, 33081, 33082},
    {33149, 33150, 33135, 0},
    {33149, 33150, 33135, 1},
    {33149, 33150, 33135},
    {33263, 33264},
    {33263, 33264, 0},
    {33263, 33264, 1},
    {33175, 33171}}

HybridDerived2 == {
    {35000}}

HybridDerived == HybridDerived1 \cup HybridDerived2

-----------------------------------------------------------------------------
\* String and grid inverters (sensor_data/string_sensors.py).

String2999b ==
    Run(3023, Ones(6))

String2999 ==
    [Group("fast", "default", Run(2999, Ones(5) \o <<2, 2, 2, 2, 2, 1, 1, 2, 2, 1, 1, 1>>)
          \o String2999b) EXCEPT
        !.profiles = {"essential"},
        !.reserved = {3020}]

String3033 ==
    [Group("fast", "default", Run(3033, Ones(11) \o <<2, 2>> \o Ones(4))) EXCEPT
        !.profiles = {"essential"},
        !.reserved = {3039, 3048},
        !.editable = {3049}]

String3089 ==
    Group("slow", "default", Run(3089, <<1>>))

String3179 ==
    [Group("slow", "default", Run(3179, <<1, 1>>)) EXCEPT
        !.editable = {3180}]

String3250 ==
    Group("fast", "default", Run(3250, Ones(6) \o <<2, 2, 2, 2>>))

String3280 ==
    Group("slow", "default", Run(3280, <<1, 1, 2, 2>>))

String36013 ==
    [Group("default", "default", Run(36013, <<1, 1>>)) EXCEPT
        !.needs = {"epm"},
        !.profiles = {"essential"}]

String36022 ==
    [Group("default", "default", Run(36022, <<1, 1, 1>>)) EXCEPT
        !.needs = {"epm"}]

String36028 ==
    [Group("fast", "default", Run(36028, <<2>>)) EXCEPT
        !.needs = {"epm"},
        !.profiles = {"essential"}]

String36050 ==
    [Group("slow", "default", Run(36050, <<2, 2, 2, 2>>)) EXCEPT
        !.needs = {"epm"},
        !.profiles = {"essential"}]

StringSensors == <<String2999, String3033, String3089, String3179, String3250, String3280,
    String36013, String36022, String36028, String36050>>

StringDerived == {
    {3021, 3022},
    {3023, 3024},
    {3025, 3026},
    {3027, 3028}}
=============================================================================
