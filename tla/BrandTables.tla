---------------------------- MODULE BrandTables -----------------------------
(***************************************************************************)
(* The register tables of the other brands. A definition is named after    *)
(* the brand and the register its group starts at.                         *)
(***************************************************************************)
EXTENDS GroupTables

-----------------------------------------------------------------------------
\* SunSynk, single phase (sensor_data/sunsynk_single_phase.py).

Sunsynk0 ==
    [Group("once", "input", Run(0, <<1, 1, 1, 5>>)) EXCEPT
        !.reserved = {1}]

Sunsynk59b ==
    <<{78, 80}>>

Sunsynk59 ==
    [Group("normal", "input", Run(59, Ones(4) \o <<2, 1, 1, 1, 2, 1, 1, 2, 2, 1, 1>>) \o
          Sunsynk59b) EXCEPT
        !.reserved = {62}]

Sunsynk79 ==
    Group("fast", "input", Run(79, <<1>>))

Sunsynk80b ==
    Run(101, Ones(8))

Sunsynk80 ==
    [Group("slow", "input", Run(80, <<1, 2, 1, 1, 2, 2>> \o Ones(7) \o <<2, 2, 1>>) \o
          Sunsynk80b) EXCEPT
        !.reserved = (100..102) \cup {83, 89, 93, 94, 107}]

Sunsynk109 ==
    Group("fast", "input", Run(109, Ones(6)))

Sunsynk150b ==
    Run(167, Ones(16))

Sunsynk150c ==
    Run(183, Ones(14))

Sunsynk150 ==
    [Group("fast", "input", Run(150, Ones(17)) \o Sunsynk150b \o Sunsynk150c) EXCEPT
        !.reserved = (151..153) \cup (155..159) \cup {162, 163, 165, 170, 171, 173, 174,
                179, 180, 185, 189, 195}]

Sunsynk314 ==
    Group("slow", "input", Run(314, <<1, 1>>))

Sunsynk16 ==
    Group("once", "holding", Run(16, <<2>>))

Sunsynk43 ==
    [Group("slow", "holding", Run(43, <<1>>)) EXCEPT
        !.editable = {43}]

Sunsynk53 ==
    [Group("slow", "holding", Run(53, <<1>>)) EXCEPT
        !.editable = {53}]

Sunsynk200 ==
    [Group("slow", "holding", Run(200, Ones(12))) EXCEPT
        !.reserved = 204..209,
        !.editable = (201..203) \cup {210, 211}]

Sunsynk217b ==
    Run(232, Ones(4))

Sunsynk217 ==
    [Group("slow", "holding", Run(217, Ones(15)) \o Sunsynk217b) EXCEPT
        !.reserved = (223..229) \cup {231, 233, 234},
        !.editable = (217..222) \cup {230, 232, 235}]

Sunsynk243 ==
    [Group("slow", "holding", Run(243, Ones(6))) EXCEPT
        !.reserved = {246},
        !.editable = (243..245) \cup {247, 248}]

Sunsynk250 ==
    Group("slow", "holding", Run(250, Ones(6)))

Sunsynk256 ==
    [Group("slow", "holding", Run(256, Ones(6))) EXCEPT
        !.editable = 256..261]

Sunsynk262 ==
    [Group("slow", "holding", Run(262, Ones(6))) EXCEPT
        !.editable = 262..267]

Sunsynk268 ==
    [Group("slow", "holding", Run(268, Ones(12))) EXCEPT
        !.editable = 268..273]

\* Variant with a defect, to test the properties: the group declares three registers.
Sunsynk312Wide ==
    Group("slow", "holding", Run(312, <<1, 1, 1>>))

Sunsynk312 ==
    Group("slow", "holding", Run(312, <<1>>))

Sunsynk325 ==
    Group("slow", "holding", Run(325, <<1>>))

SunsynkSensors == <<Sunsynk0, Sunsynk59, Sunsynk79, Sunsynk80, Sunsynk109, Sunsynk150,
    Sunsynk314, Sunsynk16, Sunsynk43, Sunsynk53, Sunsynk200, Sunsynk217, Sunsynk243,
    Sunsynk250, Sunsynk256, Sunsynk262, Sunsynk268, Sunsynk312, Sunsynk325>>

-----------------------------------------------------------------------------
\* GivEnergy (sensor_data/givenergy_sensors.py).

Givenergy0b ==
    Run(17, Ones(4) \o <<2>> \o Ones(4) \o <<2, 1, 1, 1, 2, 1>>)

Givenergy0c ==
    Run(35, Ones(10) \o <<2>> \o Ones(5))

Givenergy0d ==
    Run(52, Ones(8))

Givenergy0 ==
    Group("fast", "input", Run(0, Ones(6) \o <<2, 1, 1, 1, 2>> \o Ones(4)) \o Givenergy0b \o
          Givenergy0c \o Givenergy0d)

Givenergy0Info ==
    Group("once", "holding", Run(0, <<1, 2>> \o Ones(5) \o <<5, 5>> \o Ones(4)))

GivenergySensors == <<Givenergy0, Givenergy0Info>>

-----------------------------------------------------------------------------
\* Sigenergy (sensor_data/sigenergy_sensors.py).

Sigenergy30000 ==
    Group("normal", "holding", Run(30000, <<2, 1, 1, 1, 2, 2, 1, 2, 2, 1>>))

Sigenergy30015b ==
    Run(30037, <<2, 2, 2>> \o Ones(4) \o <<2, 2, 1>>)

Sigenergy30015 ==
    Group("normal", "holding", Run(30015, <<2, 2, 2, 2, 2, 2>> \o Ones(4) \o <<2, 2, 2>>) \o
          Sigenergy30015b)

Sigenergy30064b ==
    Run(30085, <<1, 1, 1, 2, 1, 1, 2>>)

Sigenergy30064 ==
    Group("slow", "holding", Run(30064, <<2, 2, 2, 2>> \o Ones(11) \o <<2>>) \o
          Sigenergy30064b)

Sigenergy30200b ==
    Run(30222, <<1, 1>>)

Sigenergy30200 ==
    Group("slow", "holding", Run(30200, <<2, 1, 1, 2>> \o Ones(10) \o <<2, 1, 1, 2>>) \o
          Sigenergy30200b)

SigenergySensors == <<Sigenergy30000, Sigenergy30015, Sigenergy30064, Sigenergy30200>>

-----------------------------------------------------------------------------
\* SolarEdge (sensor_data/solaredge_sensors.py).

Solaredge40004 ==
    Group("once", "holding", Run(40004, <<16, 16, 8, 16, 1>>))

Solaredge40071b ==
    Run(40084, Ones(9) \o <<2>> \o Ones(5))

Solaredge40071c ==
    Run(40100, Ones(9))

Solaredge40071 ==
    Group("fast", "holding", Run(40071, Ones(13)) \o Solaredge40071b \o Solaredge40071c)

SolaredgeSensors == <<Solaredge40004, Solaredge40071>>

-----------------------------------------------------------------------------
\* Skyline and Duracell (sensor_data/skyline_sensors.py).

Skyline6656 ==
    Group("once", "holding", Run(6656, <<8>>))

Skyline6672 ==
    Group("once", "holding", Run(6672, <<8>>))

Skyline6694 ==
    Group("once", "holding", Run(6694, <<3, 3>>))

Skyline6752 ==
    Group("once", "holding", Run(6752, <<3>>))

Skyline6684 ==
    Group("once", "holding", Run(6684, <<3>>))

Skyline4097b ==
    Run(4116, <<1, 1, 2>> \o Ones(9) \o <<2>> \o Ones(4))

Skyline4097c ==
    Run(4135, <<2>>)

Skyline4097 ==
    Group("fast", "holding", Run(4097, <<1, 1, 2, 1, 1, 1, 2, 1, 1, 1, 2, 1, 1, 1, 2>>) \o
          Skyline4097b \o Skyline4097c)

Skyline4864b ==
    Run(4885, Ones(8) \o <<2>> \o Ones(10))

Skyline4864c ==
    Run(4905, Ones(9) \o <<2, 2>>)

Skyline4864 ==
    Group("fast", "holding", Run(4864, <<2>> \o Ones(4) \o <<2, 2, 2>> \o Ones(9)) \o
          Skyline4864b \o Skyline4864c)

Skyline8192 ==
    Group("fast", "holding", Run(8192, Ones(7) \o <<2, 2, 2, 2, 2, 2>>))

SkylineSensors == <<Skyline6656, Skyline6672, Skyline6694, Skyline6752, Skyline6684,
    Skyline4097, Skyline4864, Skyline8192>>

DuracellSensors == <<Skyline6656, Skyline6672, Skyline6694, Skyline6752, Skyline4097,
    Skyline4864, Skyline8192>>
=============================================================================
