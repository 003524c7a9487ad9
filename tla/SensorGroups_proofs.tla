------------------------ MODULE SensorGroups_proofs -------------------------
(***************************************************************************)
(* Proofs about module SensorGroups: the guard of the timer runs and       *)
(* poll_lock, for any sensors, groups and runs.                            *)
(***************************************************************************)
EXTENDS SensorGroups_lemmas

Places == Reading \cup {"off", "lock"}

\* At most one run is past poll_lock.
OneReader == \A r, u \in Runs : pc[r] \in Reading /\ pc[u] \in Reading => r = u

\* The last part makes it inductive: the key of an ended run leaves poll_updating, and
\* no other run may rest on it.
GuardInv ==
    /\ pc \in [Runs -> Places]
    /\ DOMAIN key = Runs
    /\ OneReader
    /\ GuardExact

\* A run goes on, to another read or not, with the key it has.
GoesOn(r) ==
    /\ UNCHANGED <<updating, key>>
    /\ \/ UNCHANGED pc
       \/ \E place \in Reading : pc' = [pc EXCEPT ![r] = place]

\* A run ends, and gives up its key.
Ends(r) ==
    /\ updating' = updating \ {key[r]}
    /\ pc' = [pc EXCEPT ![r] = "off"]
    /\ key' = [key EXCEPT ![r] = {}]

-----------------------------------------------------------------------------
(***************************************************************************)
(* Whatever a read returns, and however deep the recovery is, the run goes *)
(* on or ends.                                                             *)
(***************************************************************************)
LEMMA NextGroupMoves ==
    ASSUME NEW r \in Runs, NEW gs, NEW list, NEW done, NextGroup(r, gs, list, done)
    PROVE  GoesOn(r) \/ Ends(r)
<1>1. CASE Finish(r, list, done)
  BY <1>1 DEF Finish, Ends
<1>2. CASE pc' = [pc EXCEPT ![r] = "read"] /\ UNCHANGED <<updating, key>>
  BY <1>2 DEF GoesOn, Reading
<1>. QED BY <1>1, <1>2 DEF NextGroup

LEMMA ContinueMoves ==
    ASSUME NEW r \in Runs, NEW stk, NEW list, NEW read, Continue(r, stk, list, read)
    PROVE  GoesOn(r) \/ Ends(r)
<1>1. CASE pc' = [pc EXCEPT ![r] = "reread"] /\ UNCHANGED <<updating, key>>
  BY <1>1 DEF GoesOn, Reading
<1>2. CASE NextGroup(r, Tail(todo[r]), list, marked \cup Marks(read))
  BY <1>2, NextGroupMoves
<1>. QED BY <1>1, <1>2 DEF Continue

LEMMA BlameMoves ==
    ASSUME NEW r \in Runs, NEW stk, NEW bad, Blame(r, stk, bad)
    PROVE  GoesOn(r) \/ Ends(r)
BY ContinueMoves DEF Blame

LEMMA GiveUpMoves ==
    ASSUME NEW r \in Runs, NEW stk, GiveUp(r, stk)
    PROVE  GoesOn(r) \/ Ends(r)
BY ContinueMoves DEF GiveUp

LEMMA IsolateMoves ==
    ASSUME NEW r \in Runs, NEW stk, NEW lo, NEW n, Isolate(r, stk, lo, n)
    PROVE  GoesOn(r) \/ Ends(r)
<1>1. CASE Blame(r, stk, lo)
  BY <1>1, BlameMoves
<1>2. CASE pc' = [pc EXCEPT ![r] = "probe"] /\ UNCHANGED <<updating, key>>
  BY <1>2 DEF GoesOn, Reading
<1>. QED BY <1>1, <1>2 DEF Isolate

LEMMA RecoverMoves ==
    ASSUME NEW r \in Runs, NEW stk, Recover(r, stk)
    PROVE  GoesOn(r) \/ Ends(r)
BY IsolateMoves, GiveUpMoves DEF Recover

LEMMA ProbeMoves ==
    ASSUME NEW r \in Runs, Narrow(r) \/ Widen(r)
    PROVE  GoesOn(r) \/ Ends(r)
<1>1. CASE Narrow(r)
  BY <1>1, IsolateMoves, BlameMoves DEF Narrow
<1>2. CASE Widen(r)
  <2>1. CASE GiveUp(r, stack)
    BY <2>1, GiveUpMoves
  <2>2. CASE UNCHANGED runVars
    BY <2>2 DEF GoesOn, runVars
  <2>. QED BY <1>2, <2>1, <2>2 DEF Widen
<1>. QED BY <1>1, <1>2

LEMMA StepMoves ==
    ASSUME NEW r \in Runs, RunStep(r)
    PROVE  /\ GoesOn(r) \/ Ends(r)
           /\ pc[r] \in Reading \/ (pc[r] = "lock" /\ LockFree)
<1>1. CASE GetLock(r)
  BY <1>1, NextGroupMoves DEF GetLock
<1>2. CASE ReadReturns(r)
  <2>1. pc[r] = "read"
    BY <1>2 DEF ReadReturns
  <2>2. \/ \E list, done : NextGroup(r, Tail(todo[r]), list, done)
        \/ Recover(r, <<[group |-> Head(todo[r]), depth |-> 0]>>)
    BY <1>2 DEF ReadReturns
  <2>3. GoesOn(r) \/ Ends(r)
    BY <2>2, NextGroupMoves, RecoverMoves
  <2>. QED BY <2>1, <2>3 DEF Reading
<1>3. CASE ProbeReturns(r)
  <2>1. pc[r] = "probe"
    BY <1>3 DEF ProbeReturns
  <2>2. GoesOn(r) \/ Ends(r)
    BY <1>3, ProbeMoves DEF ProbeReturns
  <2>. QED BY <2>1, <2>2 DEF Reading
<1>4. CASE RereadReturns(r)
  <2>1. pc[r] = "reread"
    BY <1>4 DEF RereadReturns
  <2>2. \/ \E read : Continue(r, Tail(stack), groups, read)
        \/ Recover(r, stack)
    BY <1>4 DEF RereadReturns
  <2>3. GoesOn(r) \/ Ends(r)
    BY <2>2, ContinueMoves, RecoverMoves
  <2>. QED BY <2>1, <2>3 DEF Reading
<1>. QED BY <1>1, <1>2, <1>3, <1>4 DEF RunStep

-----------------------------------------------------------------------------
(***************************************************************************)
(* The invariant.                                                          *)
(***************************************************************************)
LEMMA GoingOnKeeps ==
    ASSUME GuardInv, NEW r \in Runs, GoesOn(r),
           pc[r] \in Reading \/ (pc[r] = "lock" /\ LockFree)
    PROVE  GuardInv'
<1>1. CASE UNCHANGED pc
  BY <1>1 DEF GuardInv, OneReader, GuardExact, GoesOn
<1>2. ASSUME NEW place \in Reading, pc' = [pc EXCEPT ![r] = place]
      PROVE  GuardInv'
  <2>1. pc' \in [Runs -> Places]
    BY <1>2 DEF GuardInv, Places
  <2>2. OneReader'
    BY <1>2 DEF GuardInv, OneReader, LockFree
  <2>3. \A u \in Runs : pc'[u] # "off" <=> pc[u] # "off"
    BY <1>2 DEF GuardInv, Reading
  <2>4. GuardExact'
    BY <2>3 DEF GuardInv, GuardExact, GoesOn
  <2>. QED BY <2>1, <2>2, <2>4 DEF GuardInv, GoesOn
<1>. QED BY <1>1, <1>2 DEF GoesOn

\* No other run has the key that leaves poll_updating.
LEMMA EndingKeeps ==
    ASSUME GuardInv, NEW r \in Runs, Ends(r), pc[r] # "off"
    PROVE  GuardInv'
<1>1. pc' \in [Runs -> Places] /\ DOMAIN key' = Runs
  BY DEF GuardInv, Ends, Places
<1>2. OneReader'
  BY DEF GuardInv, Ends, OneReader, Reading
<1>3. pc'[r] = "off" /\ \A u \in Runs \ {r} : pc'[u] = pc[u] /\ key'[u] = key[u]
  BY DEF GuardInv, Ends
<1>4. \A u \in Runs \ {r} : pc[u] # "off" => key[u] # key[r]
  BY DEF GuardInv, GuardExact
<1>5. updating' = {key'[u] : u \in {w \in Runs : pc'[w] # "off"}}
  BY <1>3, <1>4 DEF GuardInv, GuardExact, Ends
<1>6. GuardExact'
  BY <1>3, <1>5 DEF GuardInv, GuardExact
<1>. QED BY <1>1, <1>2, <1>6 DEF GuardInv

LEMMA StartKeeps ==
    ASSUME GuardInv, NEW r \in Runs, StartRun(r)
    PROVE  GuardInv'
<1>. DEFINE place == IF \A u \in Runs : pc[u] = "off" THEN "read" ELSE "lock"
            hash == GroupHash(groups)
<1>1. /\ pc[r] = "off" /\ hash \notin updating
      /\ updating' = updating \cup {hash}
      /\ key' = [key EXCEPT ![r] = hash]
      /\ pc' = [pc EXCEPT ![r] = place]
  BY DEF StartRun, Queue
<1>. HIDE DEF hash
<1>2. pc' \in [Runs -> Places] /\ DOMAIN key' = Runs
  BY <1>1 DEF GuardInv, Places, Reading
<1>3. OneReader'
  BY <1>1 DEF GuardInv, OneReader, Reading
<1>4. /\ pc'[r] # "off" /\ key'[r] = hash
      /\ \A u \in Runs \ {r} : pc'[u] = pc[u] /\ key'[u] = key[u]
  BY <1>1 DEF GuardInv
<1>5. \A u \in Runs \ {r} : pc[u] # "off" => key[u] # hash
  BY <1>1 DEF GuardInv, GuardExact
<1>6. updating' = {key'[u] : u \in {w \in Runs : pc'[w] # "off"}}
  BY <1>1, <1>4 DEF GuardInv, GuardExact
<1>7. GuardExact'
  BY <1>4, <1>5, <1>6 DEF GuardInv, GuardExact
<1>. QED BY <1>2, <1>3, <1>7 DEF GuardInv

LEMMA InitGuard == Init => GuardInv
BY DEF Init, GuardInv, OneReader, GuardExact, Places, Reading

LEMMA NextGuard == GuardInv /\ [Next]_vars => GuardInv'
<1>. SUFFICES ASSUME GuardInv, [Next]_vars
              PROVE  GuardInv'
  OBVIOUS
<1>1. CASE World
  BY <1>1 DEF World, runVars, GuardInv, OneReader, GuardExact
<1>2. ASSUME NEW r \in Runs, StartRun(r)
      PROVE  GuardInv'
  BY <1>2, StartKeeps
<1>3. ASSUME NEW r \in Runs, RunStep(r)
      PROVE  GuardInv'
  <2>1. pc[r] # "off"
    BY <1>3, StepMoves DEF Reading
  <2>. QED BY <1>3, <2>1, StepMoves, GoingOnKeeps, EndingKeeps
<1>4. CASE UNCHANGED vars
  BY <1>4 DEF vars, runVars, GuardInv, OneReader, GuardExact
<1>. QED BY <1>1, <1>2, <1>3, <1>4 DEF Next

\* The inductive invariant: at most one run is past poll_lock, and the keys are exact.
THEOREM GuardInvariant == Spec => []GuardInv
BY InitGuard, NextGuard, PTL DEF Spec

\* poll_updating holds exactly the keys of the runs in progress, and no two runs poll
\* the same groups, also when a recovery splits the groups while runs wait for poll_lock.
THEOREM GuardIsExact == Spec => []GuardExact
<1>1. GuardInv => GuardExact
  BY DEF GuardInv
<1>. QED BY <1>1, GuardInvariant, PTL

\* Runs of a batch never read at the same time: a run gets poll_lock only when the one
\* before has read its last block, or its last probe.
THEOREM OneRunReads == Spec => []OneReader
<1>1. GuardInv => OneReader
  BY DEF GuardInv
<1>. QED BY <1>1, GuardInvariant, PTL

-----------------------------------------------------------------------------
(***************************************************************************)
(* The groups.  An enabled sensor stays in one group of the list, or was   *)
(* in a group that is read once, and has its values.  The recovery works   *)
(* on groups of the snapshot, which the list may not have any more.        *)
(***************************************************************************)
Blocks == [group : Sound, depth : 0..(MaxDepth + 1)]
Spans == [lo : Nat, n : Nat, part : {"none", "left", "right", "one"}, off : Nat]

ListsInv == groups \in Seq(Sound) /\ todo \in [Runs -> Seq(Sound)]

CacheInv == known \subseteq Registers /\ saved \subseteq known

\* The sensors of a group are all in the cache.
WasRead(g) == g \subseteq Once /\ RegistersOf(g) \subseteq known
MarkInv == marked \subseteq Sound /\ \A g \in marked : WasRead(g)

\* In one group of the list, or read for good.
Kept(list, s) ==
    \/ Placed(list, s)
    \/ s \in Once /\ RegsOf[s] \subseteq known /\ Absent(list, s)
LostInv == disabled \subseteq Sensors /\ \A s \in Sensors \ disabled : Kept(groups, s)

RecoveryInv == stack \in Seq(Blocks) /\ span \in Spans /\ results \subseteq Sound

\* What a run has at hand where it is suspended.
AtPlace(r) ==
    /\ pc[r] \in Reading => todo[r] # <<>>
    /\ pc[r] \in {"probe", "reread"} => stack # <<>>
    /\ pc[r] = "probe" => Head(stack).depth <= MaxDepth /\ span.part # "none"

BatchInv ==
    /\ ListsInv /\ CacheInv /\ MarkInv /\ LostInv /\ RecoveryInv
    /\ \A r \in Runs : AtPlace(r)

\* No other run is past poll_lock.
Alone(r) ==
    /\ pc \in [Runs -> Places]
    /\ \A u \in Runs \ {r} : pc[u] \notin Reading

KeysInv ==
    /\ \A k \in updating : k \subseteq Registers
    /\ key \in [Runs -> SUBSET Registers]

WorldInv ==
    /\ link \in {"up", "busy", "down"} /\ polling \in BOOLEAN
    /\ refused \subseteq Registers

GroupsInv == GuardInv /\ BatchInv /\ KeysInv /\ WorldInv

LEMMA SoundIs ==
    ASSUME NEW g \in Sound
    PROVE  g \in SUBSET Sensors /\ g # {} /\ (g \subseteq Once => Solid(g))
BY DEF Sound, Groups

\* The block of a sound group that is read once holds its registers.
LEMMA ApplyIs ==
    ASSUME CacheInv, NEW gs \in SUBSET Sound, ApplyToCache(gs)
    PROVE  /\ known \subseteq known' /\ CacheInv'
           /\ Marks(gs) \subseteq Sound /\ \A g \in Marks(gs) : WasRead(g)'
<1>1. known' = known \cup saved'
  BY DEF ApplyToCache
<1>6. saved' = (UNION {Block(g) : g \in gs}) \cap Registers
  BY DEF ApplyToCache
<1>7. saved' \subseteq Registers
  BY <1>6
<1>5. \A g \in gs : \A q \in Block(g) : q \in Registers => q \in saved'
  BY <1>6
<1>2. known \subseteq known' /\ CacheInv'
  <2>1. known \subseteq known' /\ saved' \subseteq known' /\ saved' \subseteq Registers
    BY <1>1, <1>7
  <2>2. known \subseteq Registers
    BY DEF CacheInv
  <2>. QED BY <1>1, <2>1, <2>2 DEF CacheInv
<1>3. ASSUME NEW g \in Marks(gs)
      PROVE  WasRead(g)'
  <2>1. g \in gs /\ g \in Sound /\ g \subseteq Once
    BY DEF Marks
  <2>2. RegistersOf(g) \subseteq Block(g) /\ RegistersOf(g) \subseteq Registers
    BY <2>1, SoundIs, SolidBlock, RegistersFinite
  <2>3. RegistersOf(g) \subseteq known'
    BY <1>1, <1>5, <2>1, <2>2
  <2>. QED BY <2>1, <2>3 DEF WasRead
<1>4. Marks(gs) \subseteq Sound
  BY DEF Marks
<1>. QED BY <1>2, <1>3, <1>4

\* The loop of the batch goes on with the list it is given, or ends without what was read.
LEMMA NextGroupKeeps ==
    ASSUME ListsInv, NEW r \in Runs, pc \in [Runs -> Places],
           NEW gs \in Seq(Sound), NEW list \in Seq(Sound), NEW done \in SUBSET Sound,
           NEW kn, known' = kn, disabled' \subseteq Sensors,
           \A g \in done : g \subseteq Once /\ RegistersOf(g) \subseteq kn,
           \A s \in Sensors \ disabled' :
              \/ Placed(list, s)
              \/ s \in Once /\ RegsOf[s] \subseteq kn /\ Absent(list, s),
           NextGroup(r, gs, list, done)
    PROVE  /\ ListsInv' /\ MarkInv' /\ LostInv'
           /\ pc'[r] \in {"read", "off"} /\ (pc'[r] = "read" => todo'[r] # <<>>)
           /\ \A u \in Runs \ {r} : pc'[u] = pc[u] /\ todo'[u] = todo[u]
<1>1. CASE Finish(r, list, done)
  <2>1. /\ groups' = NotDone(list, done) /\ marked' = {}
        /\ pc' = [pc EXCEPT ![r] = "off"] /\ todo' = [todo EXCEPT ![r] = <<>>]
    BY <1>1 DEF Finish
  <2>. DEFINE rest == NotDone(list, done)
  <2>2. /\ rest \in Seq(Sound)
        /\ \A s : Absent(list, s) => Absent(rest, s)
        /\ \A s : Placed(list, s) => Placed(rest, s) \/ (Absent(rest, s) /\ \E g \in done : s \in g)
    BY NotDoneIs
  <2>. HIDE DEF rest
  <2>3. groups' = rest
    BY <2>1 DEF rest
  <2>4. ASSUME NEW s \in Sensors \ disabled'
        PROVE  Placed(rest, s) \/ (s \in Once /\ RegsOf[s] \subseteq kn /\ Absent(rest, s))
    <3>1. ASSUME NEW g \in done, s \in g
          PROVE  s \in Once /\ RegsOf[s] \subseteq kn
      BY <3>1 DEF RegistersOf
    <3>. QED BY <2>2, <3>1
  <2>5. LostInv'
    BY <2>3, <2>4 DEF LostInv, Kept
  <2>6. <<>> \in Seq(Sound)
    BY EmptySeq
  <2>7. ListsInv'
    BY <2>1, <2>2, <2>3, <2>6 DEF ListsInv
  <2>8. MarkInv'
    BY <2>1 DEF MarkInv
  <2>. QED BY <2>1, <2>5, <2>7, <2>8 DEF ListsInv
<1>2. CASE /\ gs # <<>>
           /\ pc' = [pc EXCEPT ![r] = "read"]
           /\ todo' = [todo EXCEPT ![r] = gs]
           /\ groups' = list /\ marked' = done
  <2>1. ListsInv'
    BY <1>2 DEF ListsInv
  <2>2. MarkInv'
    BY <1>2 DEF MarkInv, WasRead
  <2>3. LostInv'
    BY <1>2 DEF LostInv, Kept
  <2>. QED BY <1>2, <2>1, <2>2, <2>3 DEF ListsInv
<1>. QED BY <1>1, <1>2 DEF NextGroup

\* The run that takes the step is alone; what the others have at hand is as before.
LEMMA OthersKeep ==
    ASSUME NEW r \in Runs, Alone(r), \A u \in Runs : AtPlace(u),
           \A u \in Runs \ {r} : pc'[u] = pc[u], AtPlace(r)'
    PROVE  \A u \in Runs : AtPlace(u)'
<1>1. ASSUME NEW u \in Runs \ {r}
      PROVE  AtPlace(u)'
  <2>1. pc'[u] \notin Reading
    BY DEF Alone
  <2>. QED BY <2>1 DEF AtPlace, Reading
<1>. QED BY <1>1

\* The recovery goes on with its blocks, or hands what it read back to the batch.
LEMMA ContinueKeeps ==
    ASSUME BatchInv, NEW r \in Runs, Alone(r), pc[r] \in Reading,
           NEW stk \in Seq(Blocks), NEW list \in Seq(Sound), NEW read \in SUBSET Sound,
           disabled' \in SUBSET Sensors,
           \A s \in Sensors \ disabled' : Kept(list, s),
           Continue(r, stk, list, read)
    PROVE  BatchInv'
<1>. USE DEF BatchInv
<1>1. todo[r] # <<>> /\ todo[r] \in Seq(Sound)
  BY DEF AtPlace, ListsInv
<1>2. span' \in Spans
  BY DEF Continue, NoSpan, Spans
<1>3. CASE /\ stk # <<>>
           /\ pc' = [pc EXCEPT ![r] = "reread"]
           /\ stack' = stk /\ results' = read /\ groups' = list
           /\ NothingRead
           /\ UNCHANGED <<updating, todo, key, marked>>
  <2>1. known' = known /\ saved' = {}
    BY <1>3 DEF NothingRead
  <2>2. ListsInv' /\ CacheInv' /\ MarkInv'
    BY <1>3, <2>1 DEF ListsInv, CacheInv, MarkInv, WasRead
  <2>3. LostInv'
    BY <1>3, <2>1 DEF LostInv, Kept
  <2>4. RecoveryInv'
    BY <1>2, <1>3 DEF RecoveryInv
  <2>5. pc'[r] = "reread" /\ \A u \in Runs \ {r} : pc'[u] = pc[u]
    BY <1>3 DEF Alone
  <2>6. AtPlace(r)'
    BY <1>1, <1>3, <2>5 DEF AtPlace
  <2>. QED BY <2>2, <2>3, <2>4, <2>5, <2>6, OthersKeep
<1>4. CASE /\ stack' = <<>> /\ results' = {}
           /\ ApplyToCache(read)
           /\ NextGroup(r, Tail(todo[r]), list, marked \cup Marks(read))
  <2>. DEFINE done == marked \cup Marks(read)
  <2>1. /\ known \subseteq known' /\ CacheInv'
        /\ Marks(read) \subseteq Sound /\ \A g \in Marks(read) : WasRead(g)'
    BY <1>4, ApplyIs
  <2>2. Tail(todo[r]) \in Seq(Sound)
    BY <1>1, HeadTailProperties
  <2>3. done \in SUBSET Sound /\ \A g \in done : g \subseteq Once /\ RegistersOf(g) \subseteq known'
    BY <2>1 DEF MarkInv, WasRead
  <2>4. \A s \in Sensors \ disabled' :
           \/ Placed(list, s)
           \/ s \in Once /\ RegsOf[s] \subseteq known' /\ Absent(list, s)
    BY <2>1 DEF Kept
  <2>5. pc \in [Runs -> Places]
    BY DEF Alone
  <2>. HIDE DEF done
  <2>6. NextGroup(r, Tail(todo[r]), list, done)
    BY <1>4 DEF done
  <2>7. /\ ListsInv' /\ MarkInv' /\ LostInv'
        /\ pc'[r] \in {"read", "off"} /\ (pc'[r] = "read" => todo'[r] # <<>>)
        /\ \A u \in Runs \ {r} : pc'[u] = pc[u] /\ todo'[u] = todo[u]
    BY <2>2, <2>3, <2>4, <2>5, <2>6, NextGroupKeeps
  <2>8. RecoveryInv'
    <3>1. <<>> \in Seq(Blocks)
      BY EmptySeq
    <3>. QED BY <1>2, <1>4, <3>1 DEF RecoveryInv
  <2>9. AtPlace(r)'
    BY <2>7 DEF AtPlace, Reading
  <2>. QED BY <2>1, <2>7, <2>8, <2>9, OthersKeep
<1>. QED BY <1>3, <1>4 DEF Continue

\* A register is blamed: whoever is enabled afterwards is where the clusters of the
\* group put it, if the list has the group, or where it was.
LEMMA BlameKeeps ==
    ASSUME BatchInv, NEW r \in Runs, Alone(r), pc[r] \in Reading,
           NEW stk \in Seq(Blocks), stk # <<>>, Head(stk).depth <= MaxDepth,
           NEW bad, Blame(r, stk, bad)
    PROVE  BatchInv'
<1>. DEFINE old == Head(stk)
            left == {s \in old.group : bad \notin RegsOf[s]} \ disabled
            new == Clusters(left)
            parts == [i \in DOMAIN new |-> [group |-> new[i], depth |-> old.depth + 1]]
            list == ReplaceSensorGroup(groups, old.group, new)
<1>1. old \in Blocks /\ Tail(stk) \in Seq(Blocks)
  BY HeadTailProperties
<1>2. old.group \in SUBSET Sensors /\ old.depth \in Nat /\ old.depth + 1 \in 0..(MaxDepth + 1)
  BY <1>1, GroupsAssumption DEF Blocks, Sound, Groups
<1>3. left \in SUBSET Sensors
  BY <1>2
<1>4. /\ disabled' = disabled \cup {s \in old.group : bad \in RegsOf[s]}
      /\ Continue(r, parts \o Tail(stk), list, results)
  BY DEF Blame
<1>5. \A s \in Sensors \ disabled' : s \notin disabled /\ (s \in old.group <=> s \in left)
  BY <1>4
<1>. HIDE DEF old, left
<1>6. /\ new \in Seq(Sound)
      /\ \A s \in left : Placed(new, s)
      /\ \A s : s \notin left => Absent(new, s)
  BY <1>3, ClustersAre
<1>. HIDE DEF new
<1>7. parts \o Tail(stk) \in Seq(Blocks)
  <2>1. Len(new) \in Nat /\ new \in [1..Len(new) -> Sound] /\ DOMAIN new = 1..Len(new)
    BY <1>6, LenProperties
  <2>2. parts \in [1..Len(new) -> Blocks]
    BY <1>2, <2>1 DEF Blocks
  <2>3. parts \in Seq(Blocks)
    BY <2>1, <2>2, SeqDef
  <2>. QED BY <1>1, <2>3, ConcatProperties
<1>8. groups \in Seq(Sound) /\ results \in SUBSET Sound
  BY DEF BatchInv, ListsInv, RecoveryInv
<1>9. /\ list \in Seq(Sound)
      /\ \A s : Placed(groups, s) /\ (s \in old.group => Placed(new, s))
                /\ (s \notin old.group => Absent(new, s))
                => Placed(list, s)
      /\ \A s : Absent(groups, s) /\ (s \notin old.group => Absent(new, s))
                => Absent(list, s)
  BY <1>6, <1>8, ReplaceKeeps
<1>. HIDE DEF parts, list
<1>10. \A s \in Sensors \ disabled' : Kept(list, s)
  <2>. TAKE s \in Sensors \ disabled'
  <2>1. Kept(groups, s)
    BY <1>5 DEF BatchInv, LostInv
  <2>2. /\ s \in old.group => Placed(new, s)
        /\ s \notin old.group => Absent(new, s)
    BY <1>5, <1>6
  <2>. QED BY <1>9, <2>1, <2>2 DEF Kept
<1>11. disabled' \in SUBSET Sensors
  BY <1>2, <1>4 DEF BatchInv, LostInv
<1>. QED BY <1>4, <1>7, <1>8, <1>9, <1>10, <1>11, ContinueKeeps

LEMMA GiveUpKeeps ==
    ASSUME BatchInv, NEW r \in Runs, Alone(r), pc[r] \in Reading,
           NEW stk \in Seq(Blocks), stk # <<>>, GiveUp(r, stk)
    PROVE  BatchInv'
<1>1. Tail(stk) \in Seq(Blocks)
  BY HeadTailProperties
<1>2. disabled' = disabled /\ Continue(r, Tail(stk), groups, results)
  BY DEF GiveUp
<1>3. /\ groups \in Seq(Sound) /\ results \in SUBSET Sound
      /\ disabled' \in SUBSET Sensors /\ \A s \in Sensors \ disabled' : Kept(groups, s)
  BY <1>2 DEF BatchInv, ListsInv, RecoveryInv, LostInv
<1>. QED BY <1>1, <1>2, <1>3, ContinueKeeps

LEMMA IsolateKeeps ==
    ASSUME BatchInv, NEW r \in Runs, Alone(r), pc[r] \in Reading,
           NEW stk \in Seq(Blocks), stk # <<>>, Head(stk).depth <= MaxDepth,
           NEW lo \in Nat, NEW n \in Nat, Isolate(r, stk, lo, n)
    PROVE  BatchInv'
<1>1. CASE Blame(r, stk, lo)
  BY <1>1, BlameKeeps
<1>2. CASE /\ pc' = [pc EXCEPT ![r] = "probe"]
           /\ stack' = stk
           /\ span' = [lo |-> lo, n |-> n, part |-> "left", off |-> 0]
           /\ NothingRead
           /\ UNCHANGED <<groups, disabled, updating, todo, key, results, marked>>
  <2>1. known' = known /\ saved' = {}
    BY <1>2 DEF NothingRead
  <2>2. ListsInv' /\ CacheInv' /\ MarkInv' /\ LostInv'
    BY <1>2, <2>1 DEF BatchInv, ListsInv, CacheInv, MarkInv, WasRead, LostInv, Kept
  <2>3. span' \in Spans /\ span'.part = "left"
    BY <1>2 DEF Spans
  <2>4. RecoveryInv'
    BY <1>2, <2>3 DEF BatchInv, RecoveryInv
  <2>5. pc'[r] = "probe" /\ \A u \in Runs \ {r} : pc'[u] = pc[u]
    BY <1>2 DEF Alone
  <2>6. todo'[r] # <<>>
    BY <1>2 DEF BatchInv, AtPlace
  <2>7. AtPlace(r)'
    BY <1>2, <2>3, <2>5, <2>6 DEF AtPlace
  <2>8. \A u \in Runs : AtPlace(u)
    BY DEF BatchInv
  <2>. QED BY <2>2, <2>4, <2>5, <2>7, <2>8, OthersKeep DEF BatchInv
<1>. QED BY <1>1, <1>2 DEF Isolate

LEMMA RecoverKeeps ==
    ASSUME BatchInv, NEW r \in Runs, Alone(r), pc[r] \in Reading,
           NEW stk \in Seq(Blocks), stk # <<>>, Recover(r, stk)
    PROVE  BatchInv'
<1>. DEFINE g == Head(stk).group
<1>1. g \in SUBSET Sensors /\ g # {}
  <2>1. Head(stk) \in Blocks
    BY HeadTailProperties
  <2>2. g \in Sound
    BY <2>1 DEF Blocks
  <2>. QED BY <2>2, SoundIs
<1>2. StartRegister(g) \in Nat /\ RegistrarCount(g) \in Nat
  BY <1>1, StartIs, CountPositive
<1>3. CASE GiveUp(r, stk)
  BY <1>3, GiveUpKeeps
<1>4. CASE /\ Head(stk).depth <= MaxDepth
           /\ Isolate(r, stk, StartRegister(g), RegistrarCount(g))
  BY <1>2, <1>4, IsolateKeeps
<1>. QED BY <1>3, <1>4 DEF Recover

LEMMA NarrowKeeps ==
    ASSUME BatchInv, NEW r \in Runs, Alone(r), pc[r] = "probe", Narrow(r)
    PROVE  BatchInv'
<1>1. stack \in Seq(Blocks) /\ stack # <<>> /\ Head(stack).depth <= MaxDepth
  BY DEF BatchInv, RecoveryInv, AtPlace
<1>2. pc[r] \in Reading
  BY DEF Reading
<1>3. /\ span.lo \in Nat /\ span.n \in Nat /\ span.off \in Nat
      /\ HalfOf(span.n) \in Nat /\ span.n - HalfOf(span.n) \in Nat
  BY DEF BatchInv, RecoveryInv, Spans, HalfOf
<1>4. CASE Isolate(r, stack, span.lo, HalfOf(span.n))
  BY <1>1, <1>2, <1>3, <1>4, IsolateKeeps
<1>5. CASE Isolate(r, stack, span.lo + HalfOf(span.n), span.n - HalfOf(span.n))
  <2>1. span.lo + HalfOf(span.n) \in Nat
    BY <1>3
  <2>. QED BY <1>1, <1>2, <1>3, <1>5, <2>1, IsolateKeeps
<1>6. CASE Blame(r, stack, span.lo + span.off)
  BY <1>1, <1>2, <1>6, BlameKeeps
<1>. QED BY <1>4, <1>5, <1>6 DEF Narrow

LEMMA WidenKeeps ==
    ASSUME BatchInv, NEW r \in Runs, Alone(r), pc[r] = "probe", Widen(r)
    PROVE  BatchInv'
<1>1. stack \in Seq(Blocks) /\ stack # <<>> /\ pc[r] \in Reading
  BY DEF BatchInv, RecoveryInv, AtPlace, Reading
<1>2. CASE GiveUp(r, stack)
  BY <1>1, <1>2, GiveUpKeeps
<1>. DEFINE next == [left |-> [span EXCEPT !.part = "right"],
                     right |-> [span EXCEPT !.part = "one"],
                     one |-> [span EXCEPT !.off = @ + 1]][span.part]
<1>3. CASE /\ span' = next
           /\ NothingRead
           /\ UNCHANGED <<groups, disabled, runVars, stack, results, marked>>
  <2>1. span \in Spans /\ span.part # "none"
    BY DEF BatchInv, RecoveryInv, AtPlace
  <2>2. next \in Spans /\ next.part # "none"
    <3>1. CASE span.part = "left"
      BY <2>1, <3>1 DEF Spans
    <3>2. CASE span.part = "right"
      BY <2>1, <3>2 DEF Spans
    <3>3. CASE span.part = "one"
      BY <2>1, <3>3 DEF Spans
    <3>. QED BY <2>1, <3>1, <3>2, <3>3 DEF Spans
  <2>. HIDE DEF next
  <2>3. known' = known /\ saved' = {}
    BY <1>3 DEF NothingRead
  <2>4. UNCHANGED <<groups, disabled, pc, todo, stack, results, marked>>
    BY <1>3 DEF runVars
  <2>5. ListsInv' /\ CacheInv' /\ MarkInv' /\ LostInv'
    BY <2>3, <2>4 DEF BatchInv, ListsInv, CacheInv, MarkInv, WasRead, LostInv, Kept
  <2>6. RecoveryInv'
    BY <1>3, <2>2, <2>4 DEF BatchInv, RecoveryInv
  <2>7. \A u \in Runs : AtPlace(u)'
    BY <1>3, <2>2, <2>4 DEF BatchInv, AtPlace
  <2>. QED BY <2>5, <2>6, <2>7 DEF BatchInv
<1>. QED BY <1>2, <1>3 DEF Widen

LEMMA GetLockKeeps ==
    ASSUME BatchInv, NEW r \in Runs, Alone(r), GetLock(r)
    PROVE  BatchInv'
<1>1. /\ NextGroup(r, todo[r], groups, {}) /\ known' = known /\ saved' = {}
      /\ UNCHANGED <<disabled, stack, span, results>>
  BY DEF GetLock, NothingRead
<1>2. /\ ListsInv /\ groups \in Seq(Sound) /\ todo[r] \in Seq(Sound)
      /\ disabled' \subseteq Sensors /\ pc \in [Runs -> Places]
      /\ \A u \in Runs : AtPlace(u)
  BY <1>1 DEF BatchInv, ListsInv, LostInv, Alone
<1>3. \A s \in Sensors \ disabled' :
         Placed(groups, s) \/ (s \in Once /\ RegsOf[s] \subseteq known /\ Absent(groups, s))
  BY <1>1 DEF BatchInv, LostInv, Kept
<1>4. {} \in SUBSET Sound /\ \A g \in {} : g \subseteq Once /\ RegistersOf(g) \subseteq known
  OBVIOUS
<1>5. /\ ListsInv' /\ MarkInv' /\ LostInv'
      /\ pc'[r] \in {"read", "off"} /\ (pc'[r] = "read" => todo'[r] # <<>>)
      /\ \A u \in Runs \ {r} : pc'[u] = pc[u] /\ todo'[u] = todo[u]
  BY <1>1, <1>2, <1>3, <1>4, NextGroupKeeps
<1>6. CacheInv' /\ RecoveryInv'
  BY <1>1 DEF BatchInv, CacheInv, RecoveryInv
<1>7. AtPlace(r)'
  BY <1>5 DEF AtPlace, Reading
<1>. QED BY <1>2, <1>5, <1>6, <1>7, OthersKeep DEF BatchInv

LEMMA ReadReturnsKeeps ==
    ASSUME BatchInv, NEW r \in Runs, Alone(r), ReadReturns(r)
    PROVE  BatchInv'
<1>. DEFINE g == Head(todo[r])
<1>1. /\ pc[r] = "read" /\ pc[r] \in Reading
      /\ todo[r] # <<>> /\ todo[r] \in Seq(Sound) /\ ListsInv /\ groups \in Seq(Sound)
      /\ CacheInv /\ pc \in [Runs -> Places] /\ \A u \in Runs : AtPlace(u)
  BY DEF ReadReturns, BatchInv, AtPlace, ListsInv, Reading, Alone
<1>2. g \in Sound /\ Tail(todo[r]) \in Seq(Sound)
  BY <1>1, HeadTailProperties
<1>. HIDE DEF g
<1>3. ASSUME NEW done \in SUBSET Sound, NextGroup(r, Tail(todo[r]), groups, done),
             known \subseteq known', CacheInv', \A h \in done : WasRead(h)',
             UNCHANGED <<disabled, stack, span, results>>
      PROVE  BatchInv'
  <2>1. disabled' \subseteq Sensors
    BY <1>3 DEF BatchInv, LostInv
  <2>2. \A s \in Sensors \ disabled' :
           Placed(groups, s) \/ (s \in Once /\ RegsOf[s] \subseteq known' /\ Absent(groups, s))
    BY <1>3 DEF BatchInv, LostInv, Kept
  <2>3. \A h \in done : h \subseteq Once /\ RegistersOf(h) \subseteq known'
    BY <1>3 DEF WasRead
  <2>4. /\ ListsInv' /\ MarkInv' /\ LostInv'
        /\ pc'[r] \in {"read", "off"} /\ (pc'[r] = "read" => todo'[r] # <<>>)
        /\ \A u \in Runs \ {r} : pc'[u] = pc[u] /\ todo'[u] = todo[u]
    BY <1>1, <1>2, <1>3, <2>1, <2>2, <2>3, NextGroupKeeps
  <2>5. RecoveryInv'
    BY <1>3 DEF BatchInv, RecoveryInv
  <2>6. AtPlace(r)'
    BY <2>4 DEF AtPlace, Reading
  <2>. QED BY <1>1, <1>3, <2>4, <2>5, <2>6, OthersKeep DEF BatchInv
<1>4. CASE /\ ApplyToCache({g})
           /\ NextGroup(r, Tail(todo[r]), groups, marked \cup Marks({g}))
           /\ UNCHANGED <<disabled, stack, span, results>>
  <2>1. {g} \in SUBSET Sound
    BY <1>2
  <2>2. /\ known \subseteq known' /\ CacheInv'
        /\ Marks({g}) \subseteq Sound /\ \A h \in Marks({g}) : WasRead(h)'
    BY <1>1, <1>4, <2>1, ApplyIs
  <2>3. marked \subseteq Sound /\ \A h \in marked : WasRead(h)'
    BY <2>2 DEF BatchInv, MarkInv, WasRead
  <2>. QED BY <1>3, <1>4, <2>2, <2>3
<1>5. CASE Recover(r, <<[group |-> g, depth |-> 0]>>)
  <2>. DEFINE b == [group |-> g, depth |-> 0]
  <2>1. b \in Blocks
    BY <1>2, GroupsAssumption DEF Blocks
  <2>. HIDE DEF b
  <2>2. <<b>> \in Seq(Blocks) /\ <<b>> # <<>>
    BY <2>1
  <2>. QED BY <1>1, <1>5, <2>2, RecoverKeeps DEF b
<1>6. CASE /\ NothingRead
           /\ NextGroup(r, Tail(todo[r]), groups, marked)
           /\ UNCHANGED <<disabled, stack, span, results>>
  <2>1. known' = known /\ saved' = {}
    BY <1>6 DEF NothingRead
  <2>2. known \subseteq known' /\ CacheInv'
    BY <1>1, <2>1 DEF CacheInv
  <2>3. marked \subseteq Sound /\ \A h \in marked : WasRead(h)'
    BY <2>1 DEF BatchInv, MarkInv, WasRead
  <2>. QED BY <1>3, <1>6, <2>2, <2>3
<1>. QED BY <1>4, <1>5, <1>6 DEF ReadReturns, g

LEMMA RereadReturnsKeeps ==
    ASSUME BatchInv, NEW r \in Runs, Alone(r), RereadReturns(r)
    PROVE  BatchInv'
<1>. DEFINE g == Head(stack).group
<1>1. /\ pc[r] \in Reading /\ stack \in Seq(Blocks) /\ stack # <<>>
      /\ groups \in Seq(Sound) /\ results \in SUBSET Sound
  BY DEF RereadReturns, BatchInv, AtPlace, ListsInv, RecoveryInv, Reading
<1>2. Head(stack) \in Blocks /\ Tail(stack) \in Seq(Blocks)
  BY <1>1, HeadTailProperties
<1>3. g \in Sound
  BY <1>2 DEF Blocks
<1>. HIDE DEF g
<1>4. ASSUME NEW read \in SUBSET Sound, Continue(r, Tail(stack), groups, read),
             UNCHANGED disabled
      PROVE  BatchInv'
  <2>1. disabled' \in SUBSET Sensors /\ \A s \in Sensors \ disabled' : Kept(groups, s)
    BY <1>4 DEF BatchInv, LostInv
  <2>. QED BY <1>1, <1>2, <1>4, <2>1, ContinueKeeps
<1>5. CASE Continue(r, Tail(stack), groups, results \cup {g}) /\ UNCHANGED disabled
  <2>1. results \cup {g} \in SUBSET Sound
    BY <1>1, <1>3
  <2>. QED BY <1>4, <1>5, <2>1
<1>6. CASE Recover(r, stack)
  BY <1>1, <1>6, RecoverKeeps
<1>7. CASE Continue(r, Tail(stack), groups, results) /\ UNCHANGED disabled
  BY <1>1, <1>4, <1>7
<1>. QED BY <1>5, <1>6, <1>7 DEF RereadReturns, g

-----------------------------------------------------------------------------
(***************************************************************************)
(* The invariant of the groups, and what follows from it.                  *)
(***************************************************************************)
LEMMA HashIs ==
    ASSUME NEW gs \in Seq(Sound)
    PROVE  GroupHash(gs) \subseteq Registers
<1>1. \A i \in DOMAIN gs : gs[i] \in Sound
  OBVIOUS
<1>2. \A i \in DOMAIN gs : StartRegister(gs[i]) \in Registers
  BY <1>1, SoundIs, StartIs
<1>. QED BY <1>2 DEF GroupHash

LEMMA StartRunKeeps ==
    ASSUME BatchInv, KeysInv, NEW r \in Runs, pc \in [Runs -> Places], StartRun(r)
    PROVE  BatchInv' /\ KeysInv'
<1>. DEFINE hash == GroupHash(groups)
            place == IF \A u \in Runs : pc[u] = "off" THEN "read" ELSE "lock"
<1>1. /\ pc[r] = "off" /\ groups # <<>> /\ groups \in Seq(Sound)
      /\ updating' = updating \cup {hash} /\ key' = [key EXCEPT ![r] = hash]
      /\ todo' = [todo EXCEPT ![r] = groups] /\ pc' = [pc EXCEPT ![r] = place]
      /\ known' = known /\ saved' = {}
      /\ UNCHANGED <<groups, disabled, stack, span, results, marked>>
  BY DEF StartRun, Queue, NothingRead, recoveryVars, BatchInv, ListsInv
<1>2. hash \in SUBSET Registers
  BY <1>1, HashIs
<1>. HIDE DEF hash, place
<1>3. place \in {"read", "lock"}
  BY DEF place
<1>4. KeysInv'
  BY <1>1, <1>2 DEF KeysInv
<1>5. ListsInv'
  BY <1>1 DEF BatchInv, ListsInv
<1>6. CacheInv' /\ MarkInv' /\ LostInv' /\ RecoveryInv'
  BY <1>1 DEF BatchInv, CacheInv, MarkInv, WasRead, LostInv, Kept, RecoveryInv
<1>7. ASSUME NEW u \in Runs
      PROVE  AtPlace(u)'
  <2>1. CASE u = r
    <3>1. pc'[u] \in {"read", "lock"} /\ todo'[u] = groups
      BY <1>1, <1>3, <2>1 DEF BatchInv, ListsInv
    <3>. QED BY <1>1, <3>1 DEF AtPlace
  <2>2. CASE u # r
    <3>1. pc'[u] = pc[u] /\ todo'[u] = todo[u]
      BY <1>1, <2>2 DEF BatchInv, ListsInv
    <3>2. AtPlace(u)
      BY DEF BatchInv
    <3>. QED BY <1>1, <3>1, <3>2 DEF AtPlace
  <2>. QED BY <2>1, <2>2
<1>. QED BY <1>4, <1>5, <1>6, <1>7 DEF BatchInv

LEMMA InitPlaced ==
    ASSUME NEW s \in Sensors
    PROVE  Placed(InitialGroups, s)
<1>. DEFINE I == {i \in DOMAIN InitialGroups : s \in InitialGroups[i]}
<1>1. InitialGroups \in Seq(Groups)
  BY GroupsAssumption DEF Groups
<1>2. /\ Len(InitialGroups) \in Nat
      /\ DOMAIN InitialGroups = 1..Len(InitialGroups)
  BY <1>1, LenProperties
<1>3. Cardinality(I) = 1
  BY GroupsAssumption
<1>4. IsFiniteSet(I)
  <2>1. I \in SUBSET (1..Len(InitialGroups))
    BY <1>2
  <2>2. IsFiniteSet(1..Len(InitialGroups))
    BY <1>2, FS_Interval
  <2>. QED BY <2>1, <2>2, FS_Subset
<1>. HIDE DEF I
<1>5. PICK k : I = {k}
  BY <1>3, <1>4, FS_Singleton
<1>6. k \in 1..Len(InitialGroups)
      /\ \A j \in 1..Len(InitialGroups) : s \in InitialGroups[j] <=> j = k
  BY <1>2, <1>5 DEF I
<1>. QED BY <1>6 DEF Placed, PlacedAmong

LEMMA InitGroups == Init => GroupsInv
<1>. SUFFICES ASSUME Init
              PROVE  GroupsInv
  OBVIOUS
<1>1. InitialGroups \in Seq(Sound)
  <2>1. InitialGroups \in Seq(Groups)
    BY GroupsAssumption DEF Groups
  <2>2. /\ Len(InitialGroups) \in Nat /\ InitialGroups \in [1..Len(InitialGroups) -> Groups]
        /\ DOMAIN InitialGroups = 1..Len(InitialGroups)
    BY <2>1, LenProperties
  <2>3. InitialGroups \in [1..Len(InitialGroups) -> Sound]
    BY <2>2, OnceAssumption DEF Sound
  <2>. QED BY <2>2, <2>3, SeqDef
<1>2. <<>> \in Seq(Sound) /\ <<>> \in Seq(Blocks)
  BY EmptySeq
<1>3. ListsInv /\ CacheInv /\ MarkInv
  BY <1>1, <1>2 DEF Init, ListsInv, CacheInv, MarkInv
<1>4. LostInv
  BY InitPlaced DEF Init, LostInv, Kept
<1>5. RecoveryInv
  BY <1>2 DEF Init, RecoveryInv, NoSpan, Spans
<1>6. \A r \in Runs : AtPlace(r)
  BY DEF Init, AtPlace, Reading
<1>7. KeysInv /\ WorldInv
  BY GroupsAssumption DEF Init, KeysInv, WorldInv
<1>. QED BY <1>3, <1>4, <1>5, <1>6, <1>7, InitGuard DEF GroupsInv, BatchInv

LEMMA KeysKept ==
    ASSUME KeysInv, NEW r \in Runs, GoesOn(r) \/ Ends(r)
    PROVE  KeysInv'
BY DEF KeysInv, GoesOn, Ends

LEMMA NextGroups == GroupsInv /\ [Next]_vars => GroupsInv'
<1>. SUFFICES ASSUME GroupsInv, [Next]_vars
              PROVE  GroupsInv'
  OBVIOUS
<1>1. GuardInv'
  BY NextGuard DEF GroupsInv
<1>2. BatchInv /\ KeysInv /\ WorldInv /\ pc \in [Runs -> Places] /\ OneReader
  BY DEF GroupsInv, GuardInv
<1>3. ASSUME UNCHANGED <<groups, disabled, known, updating, pc, todo, key, stack, span,
                         results, marked>>,
             saved' = {} \/ UNCHANGED saved
      PROVE  BatchInv' /\ KeysInv'
  <2>1. ListsInv' /\ CacheInv' /\ MarkInv' /\ LostInv' /\ RecoveryInv'
    BY <1>2, <1>3 DEF BatchInv, ListsInv, CacheInv, MarkInv, WasRead, LostInv, Kept, RecoveryInv
  <2>2. \A u \in Runs : AtPlace(u)'
    BY <1>2, <1>3 DEF BatchInv, AtPlace
  <2>3. KeysInv'
    BY <1>2, <1>3 DEF KeysInv
  <2>. QED BY <2>1, <2>2, <2>3 DEF BatchInv
<1>4. CASE World
  <2>1. BatchInv' /\ KeysInv'
    BY <1>3, <1>4 DEF World, NothingRead, runVars, recoveryVars
  <2>2. WorldInv'
    BY <1>2, <1>4 DEF World, WorldInv
  <2>. QED BY <1>1, <2>1, <2>2 DEF GroupsInv
<1>5. ASSUME NEW r \in Runs, StartRun(r)
      PROVE  GroupsInv'
  <2>1. BatchInv' /\ KeysInv'
    BY <1>2, <1>5, StartRunKeeps
  <2>2. WorldInv'
    BY <1>2, <1>5 DEF StartRun, worldVars, WorldInv
  <2>. QED BY <1>1, <2>1, <2>2 DEF GroupsInv
<1>6. ASSUME NEW r \in Runs, RunStep(r)
      PROVE  GroupsInv'
  <2>1. GoesOn(r) \/ Ends(r)
    BY <1>6, StepMoves
  <2>2. Alone(r)
    <3>1. pc[r] \in Reading \/ (pc[r] = "lock" /\ LockFree)
      BY <1>6, StepMoves
    <3>. QED BY <1>2, <3>1 DEF Alone, OneReader, LockFree
  <2>3. KeysInv'
    BY <1>2, <2>1, KeysKept
  <2>4. UNCHANGED worldVars
    BY <1>6 DEF RunStep, GetLock, ReadReturns, ProbeReturns, RereadReturns
  <2>5. WorldInv'
    BY <1>2, <2>4 DEF worldVars, WorldInv
  <2>6. BatchInv'
    <3>1. CASE GetLock(r)
      BY <1>2, <2>2, <3>1, GetLockKeeps
    <3>2. CASE ReadReturns(r)
      BY <1>2, <2>2, <3>2, ReadReturnsKeeps
    <3>3. CASE ProbeReturns(r)
      BY <1>2, <2>2, <3>3, NarrowKeeps, WidenKeeps DEF ProbeReturns
    <3>4. CASE RereadReturns(r)
      BY <1>2, <2>2, <3>4, RereadReturnsKeeps
    <3>. QED BY <1>6, <3>1, <3>2, <3>3, <3>4 DEF RunStep
  <2>. QED BY <1>1, <2>3, <2>5, <2>6 DEF GroupsInv
<1>7. CASE UNCHANGED vars
  <2>1. BatchInv' /\ KeysInv'
    BY <1>3, <1>7 DEF vars, cacheVars, runVars, recoveryVars
  <2>2. WorldInv'
    BY <1>2, <1>7 DEF vars, worldVars, WorldInv
  <2>. QED BY <1>1, <2>1, <2>2 DEF GroupsInv
<1>. QED BY <1>4, <1>5, <1>6, <1>7 DEF Next

\* The inductive invariant: beside the guard, every group is sound (what is read once has
\* no gap), the recovery works on sound groups within its depth, what is marked for
\* removal has been read, and every enabled sensor is placed once or read for good.
THEOREM GroupsInvariant == Spec => []GroupsInv
BY InitGroups, NextGroups, PTL DEF Spec

LEMMA TypesFollow == GroupsInv => TypeOK
<1>. SUFFICES ASSUME GroupsInv
              PROVE  TypeOK
  OBVIOUS
<1>1. Sound \subseteq (SUBSET Sensors) \ {{}}
  BY DEF Sound, Groups
<1>2. ASSUME NEW gs \in Seq(Sound)
      PROVE  gs \in Seq((SUBSET Sensors) \ {{}})
  <2>1. Len(gs) \in Nat /\ gs \in [1..Len(gs) -> Sound]
    BY LenProperties
  <2>2. gs \in [1..Len(gs) -> (SUBSET Sensors) \ {{}}]
    BY <1>1, <2>1
  <2>. QED BY <2>1, <2>2, SeqDef
<1>3. stack \in Seq([group : (SUBSET Sensors) \ {{}}, depth : 0..(MaxDepth + 1)])
  <2>. DEFINE B == [group : (SUBSET Sensors) \ {{}}, depth : 0..(MaxDepth + 1)]
  <2>1. Blocks \subseteq B
    BY <1>1 DEF Blocks
  <2>2. Len(stack) \in Nat /\ stack \in [1..Len(stack) -> Blocks]
    BY LenProperties DEF GroupsInv, BatchInv, RecoveryInv
  <2>. HIDE DEF B
  <2>3. stack \in [1..Len(stack) -> B]
    BY <2>1, <2>2
  <2>4. stack \in Seq(B)
    BY <2>2, <2>3, SeqDef
  <2>. QED BY <2>4 DEF B
<1>4. groups \in Seq((SUBSET Sensors) \ {{}})
  BY <1>2 DEF GroupsInv, BatchInv, ListsInv
<1>5. todo \in [Runs -> Seq((SUBSET Sensors) \ {{}})]
  BY <1>2 DEF GroupsInv, BatchInv, ListsInv
<1>6. span.lo \in Nat /\ span.n \in Nat /\ span.off \in Nat
      /\ span.part \in {"none", "left", "right", "one"}
  BY DEF GroupsInv, BatchInv, RecoveryInv, Spans
<1>7. results \subseteq SUBSET Sensors /\ marked \subseteq SUBSET Sensors
  BY <1>1 DEF GroupsInv, BatchInv, RecoveryInv, MarkInv
<1>8. pc \in [Runs -> Reading \cup {"off", "lock"}]
  BY DEF GroupsInv, GuardInv, Places
<1>9. disabled \subseteq Sensors /\ known \subseteq Registers /\ saved \subseteq known
  BY DEF GroupsInv, BatchInv, LostInv, CacheInv
<1>10. /\ \A k \in updating : k \subseteq Registers
       /\ key \in [Runs -> SUBSET Registers]
       /\ link \in {"up", "busy", "down"} /\ polling \in BOOLEAN /\ refused \subseteq Registers
  BY DEF GroupsInv, KeysInv, WorldInv
<1>. QED BY <1>3, <1>4, <1>5, <1>6, <1>7, <1>8, <1>9, <1>10 DEF TypeOK

\* Every variable stays of its type: the groups never become empty sets of sensors, and
\* the recovery never goes deeper than one level below its bound.
THEOREM TypesHold == Spec => []TypeOK
BY GroupsInvariant, TypesFollow, PTL

LEMMA PlacedCounts ==
    ASSUME ListsInv, NEW s
    PROVE  /\ Placed(groups, s) => Cardinality(Grouped(s)) = 1
           /\ Absent(groups, s) => Grouped(s) = {}
<1>1. DOMAIN groups = 1..Len(groups)
  BY LenProperties DEF ListsInv
<1>2. ASSUME Placed(groups, s)
      PROVE  Cardinality(Grouped(s)) = 1
  <2>1. PICK i \in 1..Len(groups) : \A j \in 1..Len(groups) : s \in groups[j] <=> j = i
    BY <1>2 DEF Placed, PlacedAmong
  <2>2. Grouped(s) = {i}
    BY <1>1, <2>1 DEF Grouped
  <2>. QED BY <2>2, FS_Singleton
<1>3. ASSUME Absent(groups, s)
      PROVE  Grouped(s) = {}
  BY <1>1, <1>3 DEF Absent, AbsentAmong, Grouped
<1>. QED BY <1>2, <1>3

\* Splitting and replacing groups loses no enabled sensor and polls none twice, whatever
\* the inverter refuses, however the runs overlap, and for any table of groups: it is in
\* exactly one group of the list, or was in a group read once and has all its values.
THEOREM NoneIsLost == Spec => []NoSensorLost
<1>1. GroupsInv => NoSensorLost
  <2>. SUFFICES ASSUME GroupsInv, NEW s \in Sensors \ disabled
                PROVE  \/ Cardinality(Grouped(s)) = 1
                       \/ s \in Once /\ RegsOf[s] \subseteq known /\ Grouped(s) = {}
    BY DEF NoSensorLost
  <2>1. ListsInv /\ Kept(groups, s)
    BY DEF GroupsInv, BatchInv, LostInv
  <2>. QED BY <2>1, PlacedCounts DEF Kept
<1>. QED BY <1>1, GroupsInvariant, PTL

-----------------------------------------------------------------------------
(***************************************************************************)
(* Who is blamed.                                                          *)
(***************************************************************************)
Fair == disabled' \ disabled \subseteq RefusedSensors

LEMMA BlameFair ==
    ASSUME NEW r \in Runs, NEW stk \in Seq(Blocks), stk # <<>>,
           NEW bad \in refused, Blame(r, stk, bad)
    PROVE  Fair
<1>1. Head(stk) \in Blocks
  BY HeadTailProperties
<1>2. Head(stk).group \subseteq Sensors
  BY <1>1 DEF Blocks, Sound, Groups
<1>3. disabled' = disabled \cup {s \in Head(stk).group : bad \in RegsOf[s]}
  BY DEF Blame
<1>. QED BY <1>2, <1>3 DEF Fair, RefusedSensors

\* An interval of one register that meets the refused ones is refused.
LEMMA IsolateFair ==
    ASSUME NEW r \in Runs, NEW stk \in Seq(Blocks), stk # <<>>,
           NEW lo \in Nat, NEW n \in Nat, Interval(lo, n) \cap refused # {},
           Isolate(r, stk, lo, n)
    PROVE  Fair
<1>1. CASE n = 1 /\ Blame(r, stk, lo)
  <2>1. lo + n - 1 = lo
    BY <1>1
  <2>2. Interval(lo, n) = {lo}
    BY <2>1 DEF Interval
  <2>. QED BY <1>1, <2>2, BlameFair
<1>2. CASE UNCHANGED <<groups, disabled, updating, todo, key, results, marked>>
  BY <1>2 DEF Fair
<1>. QED BY <1>1, <1>2 DEF Isolate

LEMMA RecoverFair ==
    ASSUME NEW r \in Runs, NEW stk \in Seq(Blocks), stk # <<>>,
           Block(Head(stk).group) \cap refused # {}, Recover(r, stk)
    PROVE  Fair
<1>. DEFINE g == Head(stk).group
<1>1. g \in Sound
  <2>1. Head(stk) \in Blocks
    BY HeadTailProperties
  <2>. QED BY <2>1 DEF Blocks
<1>2. StartRegister(g) \in Nat /\ RegistrarCount(g) \in Nat
  BY <1>1, SoundIs, StartIs, CountPositive
<1>3. Interval(StartRegister(g), RegistrarCount(g)) \cap refused # {}
  BY DEF Block
<1>4. CASE GiveUp(r, stk)
  BY <1>4 DEF GiveUp, Fair
<1>5. CASE Isolate(r, stk, StartRegister(g), RegistrarCount(g))
  BY <1>2, <1>3, <1>5, IsolateFair
<1>. QED BY <1>4, <1>5 DEF Recover

LEMMA NarrowFair ==
    ASSUME BatchInv, NEW r \in Runs, pc[r] = "probe", Probed \cap refused # {}, Narrow(r)
    PROVE  Fair
<1>1. stack \in Seq(Blocks) /\ stack # <<>>
  BY DEF BatchInv, RecoveryInv, AtPlace
<1>2. /\ span.lo \in Nat /\ span.n \in Nat /\ span.off \in Nat
      /\ HalfOf(span.n) \in Nat /\ span.n - HalfOf(span.n) \in Nat
  BY DEF BatchInv, RecoveryInv, Spans, HalfOf
<1>3. CASE span.part = "left" /\ Isolate(r, stack, span.lo, HalfOf(span.n))
  <2>1. Interval(span.lo, HalfOf(span.n)) \cap refused # {}
    BY <1>3 DEF Probed
  <2>. QED BY <1>1, <1>2, <1>3, <2>1, IsolateFair
<1>4. CASE /\ span.part = "right"
           /\ Isolate(r, stack, span.lo + HalfOf(span.n), span.n - HalfOf(span.n))
  <2>1. Interval(span.lo + HalfOf(span.n), span.n - HalfOf(span.n)) \cap refused # {}
    BY <1>4 DEF Probed
  <2>2. span.lo + HalfOf(span.n) \in Nat
    BY <1>2
  <2>. QED BY <1>1, <1>2, <1>4, <2>1, <2>2, IsolateFair
<1>5. CASE span.part = "one" /\ Blame(r, stack, span.lo + span.off)
  <2>1. {span.lo + span.off} \cap refused # {}
    BY <1>5 DEF Probed
  <2>. QED BY <1>1, <1>5, <2>1, BlameFair
<1>. QED BY <1>3, <1>4, <1>5 DEF Narrow

LEMMA StepFair ==
    ASSUME GroupsInv, [Next]_vars, link = "up"
    PROVE  Fair
<1>1. BatchInv
  BY DEF GroupsInv
<1>2. CASE UNCHANGED disabled
  BY <1>2 DEF Fair
<1>3. ASSUME NEW r \in Runs, ReadReturns(r)
      PROVE  Fair
  <2>. DEFINE g == Head(todo[r])
              b == [group |-> g, depth |-> 0]
  <2>1. CASE Recoverable(Block(g)) /\ Recover(r, <<b>>)
    <3>1. todo[r] # <<>> /\ todo[r] \in Seq(Sound)
      BY <1>1, <1>3 DEF ReadReturns, BatchInv, AtPlace, ListsInv, Reading
    <3>2. b \in Blocks
      BY <3>1, HeadTailProperties, GroupsAssumption DEF Blocks
    <3>3. Block(g) \cap refused # {}
      BY <2>1 DEF Recoverable, IsRefused
    <3>4. b.group = g
      OBVIOUS
    <3>. HIDE DEF b, g
    <3>5. <<b>> \in Seq(Blocks) /\ <<b>> # <<>> /\ Head(<<b>>) = b
      BY <3>2
    <3>6. Block(Head(<<b>>).group) \cap refused # {}
      BY <3>3, <3>4, <3>5
    <3>. QED BY <2>1, <3>5, <3>6, RecoverFair
  <2>. QED BY <1>2, <1>3, <2>1 DEF ReadReturns
<1>4. ASSUME NEW r \in Runs, ProbeReturns(r)
      PROVE  Fair
  <2>1. CASE Widen(r)
    BY <1>2, <2>1 DEF Widen, GiveUp
  <2>2. CASE ~Reads(Probed) /\ Narrow(r)
    BY <1>1, <1>4, <2>2, NarrowFair DEF Reads, ProbeReturns
  <2>. QED BY <1>4, <2>1, <2>2 DEF ProbeReturns
<1>5. ASSUME NEW r \in Runs, RereadReturns(r)
      PROVE  Fair
  <2>1. CASE Recoverable(Block(Head(stack).group)) /\ Recover(r, stack)
    <3>1. stack \in Seq(Blocks) /\ stack # <<>>
      BY <1>1, <1>5 DEF RereadReturns, BatchInv, RecoveryInv, AtPlace
    <3>2. Block(Head(stack).group) \cap refused # {}
      BY <2>1 DEF Recoverable, IsRefused
    <3>. QED BY <2>1, <3>1, <3>2, RecoverFair
  <2>. QED BY <1>2, <1>5, <2>1 DEF RereadReturns
<1>6. CASE World \/ (\E r \in Runs : StartRun(r) \/ GetLock(r)) \/ UNCHANGED vars
  BY <1>2, <1>6 DEF World, StartRun, GetLock, vars
<1>. QED BY <1>3, <1>4, <1>5, <1>6 DEF Next, RunStep

\* The bisection is fair while the inverter answers: what it disables has a register the
\* inverter refuses, for any groups, any length of a block and any set of refused
\* registers.  The finding on link losses is about the other case.
THEOREM OnlyRefusedBlamed == Spec => BlameIsFair
<1>1. GroupsInv /\ [Next]_vars => [link = "up" => disabled' \ disabled \subseteq RefusedSensors]_vars
  BY StepFair DEF Fair
<1>. QED BY <1>1, GroupsInvariant, PTL DEF Spec, BlameIsFair
=============================================================================
