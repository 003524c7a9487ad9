----------------------------- MODULE EntryPlan ------------------------------
(***************************************************************************)
(* From the configuration of an entry to the values of its entities.       *)
(*                                                                         *)
(* The set-up functions of __init__.py choose which groups of the          *)
(* inverter's table the controller polls: features, poll profile and its   *)
(* options.  The platforms make entities from those groups and from tables *)
(* of their own.  The poll batches of data_retrieval.py read the groups,   *)
(* and drop those to be read once.  An entity gets a value only when a     *)
(* block that was read holds its registers.                                *)
(*                                                                         *)
(* The cell of a register in the cache is named by the register alone, not *)
(* by the type of register it was read as.                                 *)
(*                                                                         *)
(* A group is its place in the table.  poll_lock lets one batch run at a   *)
(* time; refused registers are in module SensorGroups.                     *)
(***************************************************************************)
EXTENDS ControlTables, SolisTables, BrandTables, FiniteSetsExt

CONSTANTS
    Configs,       \* the configurations to set up
    MaxFailures    \* bound: reads that fail

Speeds == {"fast", "normal", "slow"}
Brands == {"solis", "sunsynk", "givenergy", "sigenergy", "solaredge", "skyline", "duracell"}
Profiles == {"full", "essential", "extreme"}

ASSUME PlanAssumption ==
    /\ \A c \in Configs : c.brand \in Brands /\ c.profile \in Profiles
    /\ MaxFailures \in Nat

-----------------------------------------------------------------------------
(***************************************************************************)
(* The configuration.                                                      *)
(***************************************************************************)
Tables ==
    [hybrid |-> HybridSensors, string |-> StringSensors, sunsynk |-> SunsynkSensors,
     givenergy |-> GivenergySensors, sigenergy |-> SigenergySensors,
     solaredge |-> SolaredgeSensors, skyline |-> SkylineSensors,
     duracell |-> DuracellSensors]

TableName(c) ==
    IF c.brand # "solis" THEN c.brand ELSE IF c.type \in Stringed THEN "string" ELSE "hybrid"

Table(c) == Tables[TableName(c)]

\* Only the Solis tables have entities that are computed from others.
Derived(c) ==
    CASE TableName(c) = "hybrid" -> HybridDerived
      [] TableName(c) = "string" -> StringDerived
      [] OTHER                   -> {}

Groups(c) == DOMAIN Table(c)

\* _rebuild_features: the model's own features, those of the options, and TCP.
Features(c) ==
    c.features \cup c.options \cup {"bms"} \cup
    (IF c.type = "waveshare" \/ c.connection = "WAVESHARE" THEN {"tcp"} ELSE {})

StartRegister(g) == Min(UNION ToSet(g.sensors))
RegistrarCount(g) == FoldSeq(LAMBDA regs, n : n + Cardinality(regs), 0, g.sensors)
Block(g) == StartRegister(g)..(StartRegister(g) + RegistrarCount(g) - 1)

\* Without a speed in the table SolisSensorGroup chooses one by the address, and so the type.
PollSpeed(g) ==
    IF g.speed # "default" THEN g.speed
    ELSE IF StartRegister(g) < 40000 THEN "normal" ELSE "slow"

RegisterType(g) ==
    IF g.type # "default" THEN g.type
    ELSE IF StartRegister(g) >= 40000 THEN "holding" ELSE "input"

\* A profile that keeps no group falls back to "essential".
ProfileOf(c) ==
    IF c.profile = "extreme" /\ \A i \in Groups(c) : "extreme" \notin Table(c)[i].profiles
    THEN "essential" ELSE c.profile

GroupInPollProfile(c, g) ==
    \/ ProfileOf(c) = "full"
    \/ ProfileOf(c) = "essential" /\ "essential" \in g.profiles
    \/ /\ ProfileOf(c) = "extreme"
       /\ \/ "extreme" \in g.profiles
          \/ c.battery /\ "extreme_battery" \in g.profiles
          \/ c.smartPort /\ "extreme_smart_port" \in g.profiles

HasFeature(c, g) == g.needs = {} \/ g.needs \cap Features(c) # {}

\* The groups the controller starts with; profiles and features are for Solis only.
Selected(c) ==
    {i \in Groups(c) : c.brand = "solis" =>
        HasFeature(c, Table(c)[i]) /\ GroupInPollProfile(c, Table(c)[i])}

RegistersDeclaredBy(c, ids) == UNION {UNION ToSet(Table(c)[i].sensors) : i \in ids}

-----------------------------------------------------------------------------
(***************************************************************************)
(* The entities, each by the registers it needs a value of.                *)
(***************************************************************************)
\* Variant with a defect, to test the properties: all derived entities are made.
EveryDerived(e, offered, polled) == TRUE

\* Every register of it that some group offers is polled.
DerivedSensorIsSupported(e, offered, polled) == e \cap offered \subseteq polled

SyntheticRegisters == {90005, 90006, 90007}
Flags == {0, 1}

DerivedEntities(c) ==
    LET offered == RegistersDeclaredBy(c, Groups(c))
        polled  == RegistersDeclaredBy(c, Selected(c))
    IN  {e \ (SyntheticRegisters \cup Flags) :
            e \in {d \in Derived(c) : /\ DerivedSensorIsSupported(d, offered, polled)
                                      /\ 90007 \in d => c.clockSync}}

\* Sensors and numbers of the groups polled.
GroupEntities(c) ==
    UNION {{s \in ToSet(Table(c)[i].sensors) : Min(s) \notin Table(c)[i].reserved} :
              i \in Selected(c)}

IsEssentialOnly(c) == c.profile # "full"

ControlNeeds(ctl) == ({ctl.register} \cup ToSet(ctl.companions)) \ SyntheticRegisters

\* The platforms of switches, selects and times, which only Solis entries have.
SwitchEntities(c) ==
    {ControlNeeds(s) : s \in {t \in GetSwitchSensors(c.type) :
                                 IsEssentialOnly(c) => t.register = EnabledRegister}}

SelectEntities(c) ==
    IF IsEssentialOnly(c) THEN {}
    ELSE {ControlNeeds(o) : o \in UNION GetSelectSensors(c.type, Features(c))}

TimeEntities(c) ==
    IF IsEssentialOnly(c) THEN {}
    ELSE {{r, r + 1} : r \in GetTimeSensors(c.type, Features(c))}

Entities(c) ==
    GroupEntities(c) \cup DerivedEntities(c) \cup
    (IF c.brand = "solis" THEN SwitchEntities(c) \cup SelectEntities(c) \cup TimeEntities(c)
     ELSE {})

-----------------------------------------------------------------------------
(***************************************************************************)
(* The state.  A table is looked up by its name, and a group by its place. *)
(***************************************************************************)
\* What the controller needs of a group to poll it.
Polled(g) == [speed |-> PollSpeed(g), type |-> RegisterType(g), block |-> Block(g)]

Each(Op(_), table) == FoldLeft(LAMBDA s, g : Append(s, Op(g)), <<>>, table)

PolledTables ==
    [hybrid |-> Each(Polled, HybridSensors), string |-> Each(Polled, StringSensors),
     sunsynk |-> Each(Polled, SunsynkSensors), givenergy |-> Each(Polled, GivenergySensors),
     sigenergy |-> Each(Polled, SigenergySensors),
     solaredge |-> Each(Polled, SolaredgeSensors),
     skyline |-> Each(Polled, SkylineSensors), duracell |-> Each(Polled, DuracellSensors)]

VARIABLES
    config,      \* the configuration of the entry
    groups,      \* the controller's _sensor_groups
    firstPoll,   \* the batches of the first poll that are still to run
    batch,       \* the speed of the batch that runs, or "off"
    todo,        \* the groups it has still to read
    marked,      \* marked_for_removal
    heard,       \* the groups that have been read
    unfed,       \* the registers an entity needs and has no value of
    foreign,     \* groups read whose cells a read of the other type has overwritten
    link,        \* whether the inverter is connected
    failures     \* reads that failed so far

batchVars == <<batch, todo, marked>>
cellVars == <<heard, unfed, foreign>>
vars == <<config, groups, firstPoll, batchVars, cellVars, link, failures>>

TypeOK ==
    /\ config \in Configs
    /\ groups \cup heard = Selected(config)
    /\ foreign \subseteq heard /\ marked \subseteq heard
    /\ todo \subseteq groups
    /\ batch \in Speeds \cup {"off"}
    /\ batch = "off" => todo = {} /\ marked = {}
    /\ firstPoll \in {<<>>, <<"slow">>, <<"normal", "slow">>, <<"fast", "normal", "slow">>}
    /\ link \in BOOLEAN /\ failures \in 0..MaxFailures

Init ==
    /\ config \in Configs
    /\ groups = Selected(config)
    /\ firstPoll = <<"fast", "normal", "slow">>
    /\ batch = "off" /\ todo = {} /\ marked = {}
    /\ heard = {} /\ unfed = UNION Entities(config) /\ foreign = {}
    /\ link = TRUE /\ failures = 0

PolledGroup(i) == PolledTables[TableName(config)][i]
BlockOf(i) == PolledGroup(i).block
SpeedOf(i) == PolledGroup(i).speed

\* The cells do not tell the register types apart.
Overwrites(i, j) ==
    /\ BlockOf(i) \cap BlockOf(j) # {}
    /\ PolledGroup(i).type # PolledGroup(j).type

\* Variant with a defect, to test the properties: nobody takes the groups read once.
TakesOwn(sp, i) == SpeedOf(i) = sp

\* modbus_update_normal takes the groups that are read once, too.
Takes(sp, i) ==
    \/ SpeedOf(i) = sp
    \/ sp = "normal" /\ SpeedOf(i) = "once"

\* Variant with a defect, to test the properties: a batch that was broken off removes nothing.
FinishIfComplete(rest, done) ==
    \/ /\ link' /\ rest # {}
       /\ todo' = rest /\ marked' = done
       /\ UNCHANGED <<groups, batch>>
    \/ /\ ~link' \/ rest = {}
       /\ groups' = IF rest = {} THEN groups \ done ELSE groups
       /\ todo' = {} /\ marked' = {} /\ batch' = "off"

\* The loop goes on, or is over, or the link is gone: what was read once leaves the list.
Proceed(rest, done) ==
    \/ /\ link' /\ rest # {}
       /\ todo' = rest /\ marked' = done
       /\ UNCHANGED <<groups, batch>>
    \/ /\ ~link' \/ rest = {}
       /\ groups' = groups \ done
       /\ todo' = {} /\ marked' = {} /\ batch' = "off"

\* A timer fires; before the timers run, modbus_update_all makes one batch of each speed.
StartBatch(sp) ==
    LET taken == {i \in groups : Takes(sp, i)}
    IN  /\ batch = "off" /\ link
        /\ firstPoll # <<>> => sp = Head(firstPoll)
        /\ firstPoll' = IF firstPoll = <<>> THEN firstPoll ELSE Tail(firstPoll)
        /\ \/ taken # {} /\ batch' = sp
           \/ taken = {} /\ batch' = "off"
        /\ todo' = taken
        /\ UNCHANGED <<config, groups, marked, cellVars, link, failures>>

\* Without a link the batches of the first poll return at once.
SkipBatch ==
    /\ batch = "off" /\ ~link /\ firstPoll # <<>>
    /\ firstPoll' = Tail(firstPoll)
    /\ UNCHANGED <<config, groups, batchVars, cellVars, link, failures>>

\* Variant with a defect, to test the properties: marked for removal before the read.
ReadFailsMarked ==
    /\ batch # "off" /\ failures < MaxFailures
    /\ failures' = failures + 1
    /\ link' \in BOOLEAN
    /\ Proceed(todo \ {Min(todo)},
               marked \cup {i \in {Min(todo)} : SpeedOf(i) = "once"})
    /\ UNCHANGED <<config, firstPoll, cellVars>>

\* The read of a group fails, with the link or without.
ReadFails ==
    /\ batch # "off" /\ failures < MaxFailures
    /\ failures' = failures + 1
    /\ link' \in BOOLEAN
    /\ Proceed(todo \ {Min(todo)}, marked)
    /\ UNCHANGED <<config, firstPoll, cellVars>>

\* The next group of the table is read, and its values go to the cells of its registers.
ReadGroup ==
    LET i == Min(todo)
    IN  /\ batch # "off"
        /\ heard' = heard \cup {i}
        /\ unfed' = unfed \ BlockOf(i)
        /\ foreign' = (foreign \ {i}) \cup {j \in heard : Overwrites(i, j)}
        /\ UNCHANGED link
        /\ Proceed(todo \ {i},
                   IF SpeedOf(i) = "once" THEN marked \cup {i} ELSE marked)
        /\ UNCHANGED <<config, firstPoll, failures>>

\* The watchdog connects again.
Reconnect ==
    /\ ~link /\ link' = TRUE
    /\ UNCHANGED <<config, groups, firstPoll, batchVars, cellVars, failures>>

Next ==
    \/ \E sp \in Speeds : StartBatch(sp)
    \/ SkipBatch \/ ReadGroup \/ ReadFails \/ Reconnect

Spec == Init /\ [][Next]_vars

\* Timers fire, reads return, and poll_lock is served first come, first served.
Fairness ==
    /\ \A sp \in Speeds : SF_vars(StartBatch(sp))
    /\ WF_vars(ReadGroup \/ ReadFails)

FairSpec == Spec /\ Fairness

-----------------------------------------------------------------------------
(***************************************************************************)
(* Properties.                                                             *)
(***************************************************************************)
\* No entity is "created but permanently unknown": whatever the features, the profile
\* and the failures, each register an entity has no value of is in the block of a group
\* that is still polled.
NothingDead == unfed \subseteq UNION {BlockOf(i) : i \in groups}

\* A cell that holds a value read for a group holds it from a register of its type.
SourceIsOwn == foreign = {}

\* A group that is read once is not read again after it was read, also when the link
\* goes before its batch is over.
ReadOnce ==
    [][\A i \in marked' \ marked : i \notin heard]_vars

\* When the link stays up, every entity gets its value.
EveryEntityFed ==
    <>[]link => <>(unfed = {})
=============================================================================
