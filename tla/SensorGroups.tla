---------------------------- MODULE SensorGroups ----------------------------
(***************************************************************************)
(* The poll batches of one inverter (get_modbus_updates in                 *)
(* data_retrieval.py) and the recovery of a block the inverter refuses.    *)
(*                                                                         *)
(* The controller keeps a list of sensor groups, each read as one block of *)
(* registers.  A timer run takes the groups of its poll speed and reads    *)
(* them one by one under poll_lock.  When the inverter refuses a block,    *)
(* the run bisects it down to one register, disables the sensors on that   *)
(* register, splits the group around it and reads the parts, recursively.  *)
(*                                                                         *)
(* One poll speed is modelled, the one that takes the groups read once     *)
(* with it; poll_lock keeps the other speeds apart.  A step is a read, or  *)
(* a wait for poll_lock.  Lock and frames of the link are in module        *)
(* ModbusController; here the link is up, down, or busy: the inverter      *)
(* answers every request with some exception for a while.                  *)
(***************************************************************************)
EXTENDS Naturals, SequencesExt

CONSTANTS
    Sensors,
    RegsOf,          \* per sensor: its registers
    InitialGroups,   \* the groups the inverter's table defines, as sets of sensors
    Once,            \* the sensors of groups with poll speed ONCE
    Runs,            \* timer runs of the batch that may overlap
    Refusable,       \* bound: the registers the inverter may refuse for good
    MaxDepth         \* _MAX_REGISTER_RECOVERY_DEPTH

Registers == UNION {RegsOf[s] : s \in Sensors}

ASSUME GroupsAssumption ==
    /\ IsFiniteSet(Sensors)
    /\ RegsOf \in [Sensors -> (SUBSET Nat) \ {{}}]
    /\ \A s \in Sensors : IsFiniteSet(RegsOf[s])
    /\ \A s, u \in Sensors : s # u => RegsOf[s] \cap RegsOf[u] = {}
    /\ InitialGroups \in Seq((SUBSET Sensors) \ {{}})
    /\ \A s \in Sensors :
          Cardinality({i \in DOMAIN InitialGroups : s \in InitialGroups[i]}) = 1
    /\ Once \subseteq Sensors
    /\ Refusable \subseteq Registers
    /\ MaxDepth \in Nat

RegistersOf(g) == UNION {RegsOf[s] : s \in g}

\* A group without gaps: its block holds all its registers.
Solid(g) == \A lo, hi \in RegistersOf(g) : lo..hi \subseteq RegistersOf(g)

\* What is read once is read whole: in the tables no group, and no entity, has a gap.
ASSUME OnceAssumption ==
    /\ \A s \in Once : Solid({s})
    /\ \A i \in DOMAIN InitialGroups : InitialGroups[i] \subseteq Once => Solid(InitialGroups[i])

VARIABLES
    groups,      \* the controller's _sensor_groups
    disabled,    \* the sensors with enabled = False
    updating,    \* poll_updating: the keys of the runs in progress
    known,       \* the registers with a value in the cache
    saved,       \* the registers the last step saved a value of
    pc,          \* per run: the place it is suspended at
    todo,        \* per run: the groups of its snapshot it has still to finish
    key,         \* per run: its group_hash
    stack,       \* of the run that holds poll_lock: blocks under recovery
    span,        \* ... the part of the block the bisection looks at
    results,     \* ... the groups the recovery read
    marked,      \* ... marked_for_removal
    link,        \* "up", "busy" or "down"
    polling,     \* the controller is enabled, the poller not stopping
    refused      \* the registers this inverter refuses to read

runVars == <<updating, pc, todo, key>>
recoveryVars == <<stack, span, results, marked>>
cacheVars == <<known, saved>>
worldVars == <<link, polling, refused>>
vars == <<groups, disabled, cacheVars, runVars, recoveryVars, worldVars>>

Reading == {"read", "probe", "reread"}
NoSpan == [lo |-> 0, n |-> 0, part |-> "none", off |-> 0]

\* The numbers of a finite set in increasing order (SetToSortSeq, in a form to reason about).
Sorted(S) ==
    CHOOSE f \in [1..Cardinality(S) -> S] : \A i, j \in DOMAIN f : i < j => f[i] < f[j]

Lo(s) == Min(RegsOf[s])
Hi(s) == Max(RegsOf[s])

\* start_register and registrar_count: the block is as long as the sensors' lists together.
StartRegister(g) == Min({Lo(s) : s \in g})
RegistrarCount(g) == MapThenSumSet(LAMBDA s : Cardinality(RegsOf[s]), g)
Interval(lo, n) == lo..(lo + n - 1)
Block(g) == Interval(StartRegister(g), RegistrarCount(g))

\* group_hash
GroupHash(gs) == {StartRegister(gs[i]) : i \in DOMAIN gs}

TypeOK ==
    /\ groups \in Seq((SUBSET Sensors) \ {{}})
    /\ disabled \subseteq Sensors
    /\ \A k \in updating : k \subseteq Registers
    /\ known \subseteq Registers /\ saved \subseteq known
    /\ pc \in [Runs -> Reading \cup {"off", "lock"}]
    /\ todo \in [Runs -> Seq((SUBSET Sensors) \ {{}})]
    /\ key \in [Runs -> SUBSET Registers]
    /\ stack \in Seq([group : (SUBSET Sensors) \ {{}}, depth : 0..(MaxDepth + 1)])
    /\ span.lo \in Nat /\ span.n \in Nat /\ span.off \in Nat
    /\ span.part \in {"none", "left", "right", "one"}
    /\ results \subseteq SUBSET Sensors /\ marked \subseteq SUBSET Sensors
    /\ link \in {"up", "busy", "down"} /\ polling \in BOOLEAN
    /\ refused \subseteq Registers

Init ==
    /\ groups = InitialGroups
    /\ disabled = {} /\ updating = {}
    /\ known = {} /\ saved = {}
    /\ pc = [r \in Runs |-> "off"]
    /\ todo = [r \in Runs |-> <<>>]
    /\ key = [r \in Runs |-> {}]
    /\ stack = <<>> /\ span = NoSpan
    /\ results = {} /\ marked = {}
    /\ link = "up" /\ polling = TRUE
    /\ refused \in SUBSET Refusable

CanPoll == polling /\ link # "down"

Reads(regs) == link = "up" /\ regs \cap refused = {}
IsRefused(regs) == link = "up" /\ regs \cap refused # {}

\* RECOVERABLE_REGISTER_READ_EXCEPTIONS: an exception that may be about a register.
Recoverable(regs) == IsRefused(regs) \/ link = "busy"

-----------------------------------------------------------------------------
(***************************************************************************)
(* cluster_sensors_by_contiguous_registers, without the disabled sensors:  *)
(* a cluster begins at a register that the sensors before it do not reach. *)
(***************************************************************************)
ClusterStarts(S) ==
    {Lo(s) : s \in {t \in S : \A u \in S : Lo(u) < Lo(t) => Hi(u) + 1 < Lo(t)}}

Cluster(S, x) ==
    {s \in S : /\ x <= Lo(s)
               /\ \A y \in ClusterStarts(S) : x < y => Lo(s) < y}

\* Variant with a defect, to test the properties: the sensors stay together, if any are left.
OneCluster(S) == <<S>>

Clusters(S) ==
    LET starts == Sorted(ClusterStarts(S))
    IN  [i \in DOMAIN starts |-> Cluster(S, starts[i])]

\* Variant with a defect, to test the properties: the new groups are always added.
ReplaceOrAppend(gs, old, new) ==
    IF Contains(gs, old) THEN ReplaceFirstSubSeq(new, <<old>>, gs) ELSE gs \o new

\* replace_sensor_group: the list stays as it is when the group is not in it.
ReplaceSensorGroup(gs, old, new) == ReplaceFirstSubSeq(new, <<old>>, gs)

\* The groups of a list that are not done, in their order.
NotDone(list, done) ==
    IF done = {} THEN list
    ELSE LET kept == Sorted({i \in DOMAIN list : list[i] \notin done})
         IN  [n \in DOMAIN kept |-> list[kept[n]]]

-----------------------------------------------------------------------------
(***************************************************************************)
(* The batch.  Every operator below says what a run does until its next    *)
(* await: list is the controller's group list, done is marked_for_removal, *)
(* gs is the rest of the snapshot.                                         *)
(***************************************************************************)
\* Variant with a defect, to test the properties: the key stays when the link is gone.
FinishLeakingKey(r, list, done) ==
    /\ groups' = NotDone(list, done)
    /\ updating' = IF CanPoll THEN updating \ {key[r]} ELSE updating
    /\ pc' = [pc EXCEPT ![r] = "off"]
    /\ todo' = [todo EXCEPT ![r] = <<>>]
    /\ key' = [key EXCEPT ![r] = {}]
    /\ marked' = {}

\* The loop is over, or the link is gone: the groups read once leave the list.
Finish(r, list, done) ==
    /\ groups' = NotDone(list, done)
    /\ updating' = updating \ {key[r]}
    /\ pc' = [pc EXCEPT ![r] = "off"]
    /\ todo' = [todo EXCEPT ![r] = <<>>]
    /\ key' = [key EXCEPT ![r] = {}]
    /\ marked' = {}

\* The next group of the snapshot; its read needs a link to begin with.
NextGroup(r, gs, list, done) ==
    \/ (gs = <<>> \/ ~CanPoll) /\ Finish(r, list, done)
    \/ /\ gs # <<>> /\ CanPoll
       /\ pc' = [pc EXCEPT ![r] = "read"]
       /\ todo' = [todo EXCEPT ![r] = gs]
       /\ groups' = list /\ marked' = done
       /\ UNCHANGED <<updating, key>>

\* _apply_register_read_to_cache, for the groups of a set; values land on the block's registers.
ApplyToCache(gs) ==
    /\ saved' = (UNION {Block(g) : g \in gs}) \cap Registers
    /\ known' = known \cup saved'

Marks(gs) == {g \in gs : g \subseteq Once}

NothingRead == saved' = {} /\ UNCHANGED known

(***************************************************************************)
(* The recovery goes on with the blocks of stk, if the link allows, or is  *)
(* over: what it read goes to the cache, and the batch continues.          *)
(***************************************************************************)
Continue(r, stk, list, read) ==
    /\ span' = NoSpan
    /\ \/ /\ stk # <<>> /\ CanPoll
          /\ pc' = [pc EXCEPT ![r] = "reread"]
          /\ stack' = stk /\ results' = read /\ groups' = list
          /\ NothingRead
          /\ UNCHANGED <<updating, todo, key, marked>>
       \/ /\ stk = <<>> \/ ~CanPoll
          /\ stack' = <<>> /\ results' = {}
          /\ ApplyToCache(read)
          /\ NextGroup(r, Tail(todo[r]), list, marked \cup Marks(read))

\* Variant with a defect, to test the properties: the sensors are dropped, but not disabled.
BlameQuietly(r, stk, bad) ==
    LET old == Head(stk)
        new == Clusters({s \in old.group : bad \notin RegsOf[s]} \ disabled)
        parts == [i \in DOMAIN new |-> [group |-> new[i], depth |-> old.depth + 1]]
    IN  /\ Continue(r, parts \o Tail(stk), ReplaceSensorGroup(groups, old.group, new), results)
        /\ UNCHANGED disabled

\* The isolated register: its sensors are disabled, the group is split around it.
Blame(r, stk, bad) ==
    LET old == Head(stk)
        new == Clusters({s \in old.group : bad \notin RegsOf[s]} \ disabled)
        parts == [i \in DOMAIN new |-> [group |-> new[i], depth |-> old.depth + 1]]
    IN  /\ disabled' = disabled \cup {s \in old.group : bad \in RegsOf[s]}
        /\ Continue(r, parts \o Tail(stk), ReplaceSensorGroup(groups, old.group, new), results)

\* No register could be isolated, or the recursion is too deep.
GiveUp(r, stk) ==
    /\ Continue(r, Tail(stk), groups, results)
    /\ UNCHANGED disabled

(***************************************************************************)
(* _async_isolate_one_bad_register looks at n registers from lo on: one is *)
(* the culprit, more are halved, and when both halves read well each one   *)
(* is tried.                                                               *)
(***************************************************************************)
Isolate(r, stk, lo, n) ==
    \/ n = 1 /\ Blame(r, stk, lo)
    \/ /\ n > 1
       /\ pc' = [pc EXCEPT ![r] = "probe"]
       /\ stack' = stk
       /\ span' = [lo |-> lo, n |-> n, part |-> "left", off |-> 0]
       /\ NothingRead
       /\ UNCHANGED <<groups, disabled, updating, todo, key, results, marked>>

\* _recover_sensor_group_after_modbus_failure, for the block on top of stk.
Recover(r, stk) ==
    LET b == Head(stk)
    IN  \/ b.depth > MaxDepth /\ GiveUp(r, stk)
        \/ /\ b.depth <= MaxDepth
           /\ Isolate(r, stk, StartRegister(b.group), RegistrarCount(b.group))

HalfOf(n) == n \div 2

\* The registers of the current probe.
Probed ==
    CASE span.part = "left"  -> Interval(span.lo, HalfOf(span.n))
      [] span.part = "right" -> Interval(span.lo + HalfOf(span.n),
                                         span.n - HalfOf(span.n))
      [] span.part = "one"   -> {span.lo + span.off}

\* Variant with a defect, to test the properties: the right half is looked for at the left.
NarrowFromStart(r) ==
    LET half == HalfOf(span.n)
    IN  \/ span.part = "left" /\ Isolate(r, stack, span.lo, half)
        \/ span.part = "right" /\ Isolate(r, stack, span.lo, span.n - half)
        \/ span.part = "one" /\ Blame(r, stack, span.lo + span.off)

\* The probe failed: the culprit is among the probed registers.
Narrow(r) ==
    LET half == HalfOf(span.n)
    IN  \/ span.part = "left" /\ Isolate(r, stack, span.lo, half)
        \/ span.part = "right" /\ Isolate(r, stack, span.lo + half, span.n - half)
        \/ span.part = "one" /\ Blame(r, stack, span.lo + span.off)

\* Variant with a defect, to test the properties: after the last register, start over.
WidenForever(r) ==
    LET next == [left |-> [span EXCEPT !.part = "right"],
                 right |-> [span EXCEPT !.part = "one"],
                 one |-> [span EXCEPT !.off = (@ + 1) % span.n]][span.part]
    IN  /\ span' = next
        /\ NothingRead
        /\ UNCHANGED <<groups, disabled, runVars, stack, results, marked>>

\* The probe read well: look further, or give up after the last register.
Widen(r) ==
    LET next == [left |-> [span EXCEPT !.part = "right"],
                 right |-> [span EXCEPT !.part = "one"],
                 one |-> [span EXCEPT !.off = @ + 1]][span.part]
    IN  \/ next.off = span.n /\ GiveUp(r, stack)
        \/ /\ next.off < span.n
           /\ span' = next
           /\ NothingRead
           /\ UNCHANGED <<groups, disabled, runVars, stack, results, marked>>

-----------------------------------------------------------------------------
(***************************************************************************)
(* The actions.                                                            *)
(***************************************************************************)
LockFree == \A r \in Runs : pc[r] \notin Reading

Queue(r, place) ==
    /\ updating' = updating \cup {GroupHash(groups)}
    /\ key' = [key EXCEPT ![r] = GroupHash(groups)]
    /\ todo' = [todo EXCEPT ![r] = groups]
    /\ pc' = [pc EXCEPT ![r] = place]

\* Variant with a defect, to test the properties: no check for a run in progress.
StartRunAlways(r) ==
    /\ pc[r] = "off" /\ CanPoll /\ groups # <<>>
    /\ Queue(r, IF \A u \in Runs : pc[u] = "off" THEN "read" ELSE "lock")
    /\ NothingRead
    /\ UNCHANGED <<groups, disabled, recoveryVars, worldVars>>

\* The timer fires, modbus_update_normal takes the groups; unless a run of the same is in progress.
StartRun(r) ==
    /\ pc[r] = "off" /\ CanPoll /\ groups # <<>>
    /\ GroupHash(groups) \notin updating
    /\ Queue(r, IF \A u \in Runs : pc[u] = "off" THEN "read" ELSE "lock")
    /\ NothingRead
    /\ UNCHANGED <<groups, disabled, recoveryVars, worldVars>>

GetLock(r) ==
    /\ pc[r] = "lock" /\ LockFree
    /\ NextGroup(r, todo[r], groups, {})
    /\ NothingRead
    /\ UNCHANGED <<disabled, stack, span, results, worldVars>>

\* The read of a group returns its values, a refusal, or nothing.
ReadReturns(r) ==
    LET g == Head(todo[r])
    IN  /\ pc[r] = "read"
        /\ \/ /\ Reads(Block(g))
              /\ ApplyToCache({g})
              /\ NextGroup(r, Tail(todo[r]), groups, marked \cup Marks({g}))
              /\ UNCHANGED <<disabled, stack, span, results>>
           \/ /\ Recoverable(Block(g))
              /\ Recover(r, <<[group |-> g, depth |-> 0]>>)
           \/ /\ link # "up"
              /\ NothingRead
              /\ NextGroup(r, Tail(todo[r]), groups, marked)
              /\ UNCHANGED <<disabled, stack, span, results>>
        /\ UNCHANGED worldVars

ProbeReturns(r) ==
    /\ pc[r] = "probe"
    /\ \/ Reads(Probed) /\ Widen(r)
       \/ ~Reads(Probed) /\ Narrow(r)
    /\ UNCHANGED worldVars

\* The read of a part of a split group returns.
RereadReturns(r) ==
    LET g == Head(stack).group
    IN  /\ pc[r] = "reread"
        /\ \/ /\ Reads(Block(g))
              /\ Continue(r, Tail(stack), groups, results \cup {g})
              /\ UNCHANGED disabled
           \/ Recoverable(Block(g)) /\ Recover(r, stack)
           \/ /\ link # "up"
              /\ Continue(r, Tail(stack), groups, results)
              /\ UNCHANGED disabled
        /\ UNCHANGED worldVars

\* The link goes and comes, a busy inverter recovers, polling is switched off or stops.
World ==
    /\ \/ link' \in {"up", "busy", "down"} \ {link} /\ UNCHANGED polling
       \/ polling' = FALSE /\ UNCHANGED link
    /\ NothingRead
    /\ UNCHANGED <<groups, disabled, runVars, recoveryVars, refused>>

RunStep(r) == GetLock(r) \/ ReadReturns(r) \/ ProbeReturns(r) \/ RereadReturns(r)

Next == World \/ \E r \in Runs : StartRun(r) \/ RunStep(r)

Spec == Init /\ [][Next]_vars

\* Timers fire, every read returns, and poll_lock is served first come, first served.
Fairness ==
    \A r \in Runs :
        /\ WF_vars(StartRun(r)) /\ SF_vars(GetLock(r))
        /\ WF_vars(ReadReturns(r) \/ ProbeReturns(r) \/ RereadReturns(r))

FairSpec == Spec /\ Fairness

-----------------------------------------------------------------------------
(***************************************************************************)
(* Properties.                                                             *)
(***************************************************************************)
Grouped(s) == {i \in DOMAIN groups : s \in groups[i]}

\* Splitting and replacing groups loses no sensor and polls none twice, also when a
\* run works on groups another run has replaced: an enabled sensor is in one group of
\* the list, unless its group was to be read once and has been.
NoSensorLost ==
    \A s \in Sensors \ disabled :
        \/ Cardinality(Grouped(s)) = 1
        \/ s \in Once /\ RegsOf[s] \subseteq known /\ Grouped(s) = {}

\* poll_updating holds exactly the keys of the runs in progress, and no two runs
\* poll the same groups at a time.
GuardExact ==
    /\ updating = {key[r] : r \in {u \in Runs : pc[u] # "off"}}
    /\ \A r, u \in Runs : pc[r] # "off" /\ pc[u] # "off" /\ r # u => key[r] # key[u]

RefusedSensors == {s \in Sensors : RegsOf[s] \cap refused # {}}

\* Whatever failed before, and for whatever reason: while the inverter answers, the
\* bisection disables only sensors with a register it refuses, since what it blames in the
\* end is the one register of its last probe.
BlameIsFair ==
    [][link = "up" => disabled' \ disabled \subseteq RefusedSensors]_vars

\* "Bisect to find a bad register, disable affected sensors": a lost link does not make
\* a register bad.
LinkLossDisablesNothing ==
    [][link = "down" => disabled' \ disabled \subseteq RefusedSensors]_vars

\* Every batch comes to an end, whatever the inverter answers, and gives up its key.
BatchEnds == \A r \in Runs : pc[r] # "off" ~> pc[r] = "off"

Settles == <>[](link = "up" /\ polling)

\* Once the link stays up, every good sensor that was not disabled is polled for good
\* (or was read, if it is to be read once), however many registers are bad.
GoodSensorsRead ==
    Settles => \A s \in Sensors \ Once :
        []<>(RegsOf[s] \subseteq saved \/ s \in disabled \cup RefusedSensors)

\* Once the link stays up, the recovery finds every bad register of the groups.
BadSensorsFound == Settles => <>[](RefusedSensors \subseteq disabled)
=============================================================================
