-------------------------- MODULE EntryPlan_proofs --------------------------
(***************************************************************************)
(* Proofs about module EntryPlan, for any set of configurations and any    *)
(* number of failing reads.                                                *)
(*                                                                         *)
(* What a configuration selects and what its entities need is computed     *)
(* from the tables of registers, which only TLC evaluates.  One theorem    *)
(* takes what it needs of that as a hypothesis on the configurations, and  *)
(* shows that polling keeps it, whatever fails.                            *)
(***************************************************************************)
EXTENDS EntryPlan, TLAPS, WellFoundedInduction

-----------------------------------------------------------------------------
(***************************************************************************)
(* The groups of a table, and the next of a batch.                         *)
(***************************************************************************)
LEMMA LeastNumber ==
    ASSUME NEW T, T \subseteq Nat, T # {}
    PROVE  Min(T) \in T
<1>1. PICK x \in T : \A y \in T : ~(<<y, x>> \in OpToRel(<, Nat))
  BY WFMin, NatLessThanWellFounded
<1>2. \A y \in T : ~(y < x)
  BY <1>1 DEF OpToRel
<1>3. \A y \in T : x <= y
  BY <1>2
<1>. QED BY <1>3 DEF Min

\* A group is a place in a table.
LEMMA GroupsAreNumbers ==
    ASSUME NEW c \in Configs
    PROVE  Selected(c) \subseteq Nat
<1>1. TableName(c) \in {"hybrid", "string", "sunsynk", "givenergy", "sigenergy", "solaredge",
                        "skyline", "duracell"}
  BY PlanAssumption DEF TableName, Brands
<1>2. DOMAIN HybridSensors \subseteq Nat
  BY DEF HybridSensors
<1>3. DOMAIN StringSensors \subseteq Nat
  BY DEF StringSensors
<1>4. DOMAIN SunsynkSensors \subseteq Nat
  BY DEF SunsynkSensors
<1>5. DOMAIN GivenergySensors \subseteq Nat
  BY DEF GivenergySensors
<1>6. DOMAIN SigenergySensors \subseteq Nat
  BY DEF SigenergySensors
<1>7. DOMAIN SolaredgeSensors \subseteq Nat
  BY DEF SolaredgeSensors
<1>8. DOMAIN SkylineSensors \subseteq Nat
  BY DEF SkylineSensors
<1>9. DOMAIN DuracellSensors \subseteq Nat
  BY DEF DuracellSensors
<1>10. Table(c) \in {HybridSensors, StringSensors, SunsynkSensors, GivenergySensors,
                     SigenergySensors, SolaredgeSensors, SkylineSensors, DuracellSensors}
  BY <1>1 DEF Table, Tables
<1>11. DOMAIN Table(c) \subseteq Nat
  BY <1>2, <1>3, <1>4, <1>5, <1>6, <1>7, <1>8, <1>9, <1>10
<1>. QED BY <1>11 DEF Selected, Groups

-----------------------------------------------------------------------------
(***************************************************************************)
(* The inductive invariant.                                                *)
(***************************************************************************)
\* A batch that runs has something to read, and has not read it yet.
BatchIsAhead ==
    /\ batch # "off" => todo # {}
    /\ marked \cap todo = {}

\* What was read once and is still polled is about to be removed by the batch that runs.
OnceIsMarked == {i \in groups \cap heard : SpeedOf(i) = "once"} \subseteq marked

\* A register without a value is one of an entity, and none of the groups read holds it.
UnfedIsUnread ==
    /\ unfed \subseteq UNION Entities(config)
    /\ \A i \in heard : unfed \cap BlockOf(i) = {}

PlanInv == TypeOK /\ BatchIsAhead /\ OnceIsMarked /\ UnfedIsUnread

\* The next group of a batch is one that the batch has still to read.
LEMMA NextIsTodo ==
    ASSUME TypeOK, todo # {}
    PROVE  Min(todo) \in todo
<1>1. todo \subseteq Nat
  BY GroupsAreNumbers DEF TypeOK
<1>. QED BY <1>1, LeastNumber

LEMMA FirstPollShrinks ==
    ASSUME TypeOK, firstPoll # <<>>
    PROVE  /\ Tail(firstPoll) \in {<<>>, <<"slow">>, <<"normal", "slow">>,
                                    <<"fast", "normal", "slow">>}
           /\ Head(firstPoll) \in Speeds
<1>1. CASE firstPoll = <<"slow">>
  BY <1>1 DEF Speeds
<1>2. CASE firstPoll = <<"normal", "slow">>
  BY <1>2 DEF Speeds
<1>3. CASE firstPoll = <<"fast", "normal", "slow">>
  BY <1>3 DEF Speeds
<1>. QED BY <1>1, <1>2, <1>3 DEF TypeOK

LEMMA PlanInit == Init => PlanInv
BY PlanAssumption DEF Init, PlanInv, TypeOK, BatchIsAhead, OnceIsMarked, UnfedIsUnread

\* Starting and skipping a batch.
LEMMA StartKeeps ==
    ASSUME PlanInv, NEW sp \in Speeds, StartBatch(sp)
    PROVE  PlanInv'
<1>. USE DEF batchVars, cellVars
<1>1. TypeOK'
  <2>1. TypeOK
    BY DEF PlanInv
  <2>2. firstPoll' \in {<<>>, <<"slow">>, <<"normal", "slow">>, <<"fast", "normal", "slow">>}
    <3>1. CASE firstPoll = <<>>
      BY <3>1 DEF StartBatch
    <3>2. CASE firstPoll # <<>>
      BY <2>1, <3>2, FirstPollShrinks DEF StartBatch
    <3>. QED BY <3>1, <3>2
  <2>3. /\ todo' \subseteq groups'
        /\ batch' \in Speeds \cup {"off"}
        /\ batch' = "off" => todo' = {} /\ marked' = {}
    BY <2>1 DEF StartBatch, TypeOK, Speeds
  <2>4. UNCHANGED <<config, groups, marked, heard, foreign, link, failures>>
    BY DEF StartBatch
  <2>. QED BY <2>1, <2>2, <2>3, <2>4 DEF TypeOK
<1>2. BatchIsAhead'
  BY DEF PlanInv, TypeOK, StartBatch, BatchIsAhead, Speeds
<1>3. OnceIsMarked'
  BY DEF PlanInv, StartBatch, OnceIsMarked, SpeedOf, PolledGroup
<1>4. UnfedIsUnread'
  BY DEF PlanInv, StartBatch, UnfedIsUnread, BlockOf, PolledGroup
<1>. QED BY <1>1, <1>2, <1>3, <1>4 DEF PlanInv

LEMMA SkipKeeps ==
    ASSUME PlanInv, SkipBatch
    PROVE  PlanInv'
BY FirstPollShrinks
DEF PlanInv, TypeOK, SkipBatch, BatchIsAhead, OnceIsMarked, UnfedIsUnread, SpeedOf, BlockOf,
    PolledGroup, batchVars, cellVars

\* The end of a step of a batch keeps what the rest of the step established.
LEMMA ProceedKeeps ==
    ASSUME PlanInv, NEW i \in todo, NEW done, Proceed(todo \ {i}, done),
           marked \subseteq done, done \subseteq heard', done \cap (todo \ {i}) = {},
           {j \in groups \cap heard' : SpeedOf(j) = "once"} \subseteq done,
           config' = config, groups \cup heard' = Selected(config),
           link' \in BOOLEAN
    PROVE  /\ groups' \cup heard' = Selected(config)
           /\ marked' \subseteq heard' /\ todo' \subseteq groups'
           /\ batch' \in Speeds \cup {"off"}
           /\ batch' = "off" => todo' = {} /\ marked' = {}
           /\ BatchIsAhead' /\ OnceIsMarked'
<1>1. CASE /\ todo' = todo \ {i} /\ marked' = done
           /\ todo \ {i} # {}
           /\ UNCHANGED <<groups, batch>>
  <2>1. batch # "off"
    BY DEF PlanInv, TypeOK
  <2>2. BatchIsAhead'
    BY <1>1 DEF BatchIsAhead
  <2>3. OnceIsMarked'
    BY <1>1 DEF OnceIsMarked, SpeedOf, PolledGroup
  <2>. QED BY <1>1, <2>1, <2>2, <2>3 DEF PlanInv, TypeOK
<1>2. CASE groups' = groups \ done /\ todo' = {} /\ marked' = {} /\ batch' = "off"
  <2>1. BatchIsAhead'
    BY <1>2 DEF BatchIsAhead
  <2>2. OnceIsMarked'
    BY <1>2 DEF OnceIsMarked, SpeedOf, PolledGroup
  <2>. QED BY <1>2, <2>1, <2>2
<1>. QED BY <1>1, <1>2 DEF Proceed

LEMMA FailKeeps ==
    ASSUME PlanInv, ReadFails
    PROVE  PlanInv'
<1>. DEFINE i == Min(todo)
<1>1. i \in todo
  BY NextIsTodo DEF PlanInv, BatchIsAhead, ReadFails
<1>. HIDE DEF i
<1>2. Proceed(todo \ {i}, marked)
  BY DEF ReadFails, i
<1>3. UNCHANGED <<config, firstPoll, heard, unfed, foreign>>
  BY DEF ReadFails, cellVars
<1>4. failures' \in 0..MaxFailures /\ link' \in BOOLEAN
  BY PlanAssumption DEF ReadFails, PlanInv, TypeOK
<1>5. /\ groups' \cup heard' = Selected(config)
      /\ marked' \subseteq heard' /\ todo' \subseteq groups'
      /\ batch' \in Speeds \cup {"off"}
      /\ batch' = "off" => todo' = {} /\ marked' = {}
      /\ BatchIsAhead' /\ OnceIsMarked'
  BY <1>1, <1>2, <1>3, <1>4, ProceedKeeps DEF PlanInv, TypeOK, BatchIsAhead, OnceIsMarked
<1>6. TypeOK'
  BY <1>3, <1>4, <1>5 DEF PlanInv, TypeOK
<1>7. UnfedIsUnread'
  BY <1>3 DEF PlanInv, UnfedIsUnread, BlockOf, PolledGroup
<1>. QED BY <1>5, <1>6, <1>7 DEF PlanInv

LEMMA ReadKeeps ==
    ASSUME PlanInv, ReadGroup
    PROVE  PlanInv'
<1>. DEFINE i == Min(todo)
            done == IF SpeedOf(i) = "once" THEN marked \cup {i} ELSE marked
<1>1. i \in todo
  BY NextIsTodo DEF PlanInv, BatchIsAhead, ReadGroup
<1>2. /\ Proceed(todo \ {i}, done)
      /\ heard' = heard \cup {i}
      /\ unfed' = unfed \ BlockOf(i)
      /\ foreign' = (foreign \ {i}) \cup {j \in heard : Overwrites(i, j)}
      /\ UNCHANGED <<link, config, firstPoll, failures>>
  BY DEF ReadGroup
<1>. HIDE DEF i
<1>3. /\ marked \subseteq done /\ done \subseteq heard'
      /\ done \cap (todo \ {i}) = {}
  BY <1>1, <1>2 DEF PlanInv, TypeOK, BatchIsAhead
<1>4. {j \in groups \cap heard' : SpeedOf(j) = "once"} \subseteq done
  BY <1>2 DEF PlanInv, OnceIsMarked
<1>5. groups \cup heard' = Selected(config)
  BY <1>1, <1>2 DEF PlanInv, TypeOK
<1>6. link' \in BOOLEAN
  BY <1>2 DEF PlanInv, TypeOK
<1>. HIDE DEF done
<1>7. /\ groups' \cup heard' = Selected(config)
      /\ marked' \subseteq heard' /\ todo' \subseteq groups'
      /\ batch' \in Speeds \cup {"off"}
      /\ batch' = "off" => todo' = {} /\ marked' = {}
      /\ BatchIsAhead' /\ OnceIsMarked'
  BY <1>1, <1>2, <1>3, <1>4, <1>5, <1>6, ProceedKeeps
<1>8. TypeOK'
  BY <1>2, <1>7 DEF PlanInv, TypeOK
<1>9. UnfedIsUnread'
  BY <1>2 DEF PlanInv, UnfedIsUnread, BlockOf, PolledGroup
<1>. QED BY <1>7, <1>8, <1>9 DEF PlanInv

LEMMA ReconnectKeeps ==
    ASSUME PlanInv, Reconnect
    PROVE  PlanInv'
BY DEF PlanInv, TypeOK, Reconnect, BatchIsAhead, OnceIsMarked, UnfedIsUnread, SpeedOf, BlockOf,
       PolledGroup, batchVars, cellVars

LEMMA PlanNext == PlanInv /\ [Next]_vars => PlanInv'
<1>. SUFFICES ASSUME PlanInv, [Next]_vars
              PROVE  PlanInv'
  OBVIOUS
<1>1. ASSUME NEW sp \in Speeds, StartBatch(sp)
      PROVE  PlanInv'
  BY <1>1, StartKeeps
<1>2. CASE UNCHANGED vars
  BY <1>2 DEF PlanInv, TypeOK, BatchIsAhead, OnceIsMarked, UnfedIsUnread, SpeedOf, BlockOf,
              PolledGroup, vars, batchVars, cellVars
<1>. QED
  BY <1>1, <1>2, SkipKeeps, FailKeeps, ReadKeeps, ReconnectKeeps DEF Next

\* The inductive invariant of the poll plan.
THEOREM PlanInvariant == Spec => []PlanInv
<1>. QED BY PlanInit, PlanNext, PTL DEF Spec

\* Every group a configuration selects is polled or was read, and nothing else is.
THEOREM TypesHold == Spec => []TypeOK
<1>1. PlanInv => TypeOK
  BY DEF PlanInv
<1>. QED BY <1>1, PlanInvariant, PTL

-----------------------------------------------------------------------------
(***************************************************************************)
(* Groups that are read once.                                              *)
(***************************************************************************)
\* modbus_update_normal reads a group to be read once until it is read, and then never
\* again, also when the link goes while the rest of the batch waits.
THEOREM OnceIsOnce == Spec => ReadOnce
<1>1. PlanInv /\ [Next]_vars => [\A i \in marked' \ marked : i \notin heard]_vars
  <2>. SUFFICES ASSUME PlanInv, Next, NEW i \in marked' \ marked
                PROVE  i \notin heard
    OBVIOUS
  <2>1. ReadGroup
    BY DEF Next, StartBatch, SkipBatch, ReadFails, Reconnect, Proceed, batchVars
  <2>2. i = Min(todo) /\ SpeedOf(i) = "once"
    BY <2>1 DEF ReadGroup, Proceed
  <2>3. i \in todo
    BY <2>1, <2>2, NextIsTodo DEF PlanInv, BatchIsAhead, ReadGroup
  <2>4. i \in groups /\ i \notin marked
    BY <2>3 DEF PlanInv, TypeOK, BatchIsAhead
  <2>. QED BY <2>2, <2>4 DEF PlanInv, OnceIsMarked
<1>. QED BY <1>1, PlanInvariant, PTL DEF Spec, ReadOnce

-----------------------------------------------------------------------------
(***************************************************************************)
(* The entities and their sources.                                         *)
(***************************************************************************)
BlockIn(c, i) == PolledTables[TableName(c)][i].block

\* Each register an entity of the configuration needs is in the block of a group selected.
Complete(c) == UNION Entities(c) \subseteq UNION {BlockIn(c, i) : i \in Selected(c)}

\* When the entities are made for the groups selected, then no failure, loss of the link or
\* removal of a group leaves an entity waiting for a register that nobody polls.
THEOREM PollingKillsNothing ==
    ASSUME \A c \in Configs : Complete(c)
    PROVE  Spec => []NothingDead
<1>1. PlanInv => NothingDead
  <2>. SUFFICES ASSUME PlanInv, NEW r \in unfed
                PROVE  \E i \in groups : r \in BlockOf(i)
    BY DEF NothingDead
  <2>1. PICK i \in Selected(config) : r \in BlockOf(i)
    BY DEF PlanInv, TypeOK, UnfedIsUnread, Complete, BlockIn, BlockOf, PolledGroup
  <2>2. i \notin heard
    BY <2>1 DEF PlanInv, UnfedIsUnread
  <2>. QED BY <2>1, <2>2 DEF PlanInv, TypeOK
<1>. QED BY <1>1, PlanInvariant, PTL
=============================================================================
