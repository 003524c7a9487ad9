----------------------- MODULE EntryLifecycle_proofs ------------------------
(***************************************************************************)
(* Proofs about module EntryLifecycle, for any entries, brands, clients    *)
(* and runs, and any number of set-ups.                                    *)
(***************************************************************************)
EXTENDS EntryLifecycle, TLAPS, FiniteSetTheorems

-----------------------------------------------------------------------------
(***************************************************************************)
(* The inductive invariant.                                                *)
(***************************************************************************)
Users == {e \in Entries : client[e] # None}

\* Each user has the client of the registry, and a reference; only an entry whose set-up
\* failed may have more of them.
CountInv ==
    /\ \A e \in Users : client[e] = current
    /\ refs >= Cardinality(Users)
    /\ pinned = {} => refs = Cardinality(Users)
    /\ current = None <=> refs = 0

Held == {"setup", "loaded", "failed_unload", "stopping"}

\* An entry has a client from its set-up to its unload, and beyond if it is pinned.
StateInv ==
    \A e \in Entries : /\ state[e] \in Held => client[e] # None
                       /\ client[e] # None => state[e] \in Held \/ e \in pinned

IndInv == TypeOK /\ CountInv /\ StateInv

-----------------------------------------------------------------------------
(***************************************************************************)
(* The port.                                                               *)
(***************************************************************************)
LEMMA CloseTypes ==
    ASSUME ProxyTypeOK, NEW cl \in Clients, Close(cl), UNCHANGED <<open, waits>>
    PROVE  ProxyTypeOK'
BY DEF ProxyTypeOK, Close

LEMMA SameTypes ==
    ASSUME ProxyTypeOK, UNCHANGED proxyVars
    PROVE  ProxyTypeOK'
BY DEF ProxyTypeOK, proxyVars

LEMMA TeardownTypes ==
    ASSUME ProxyTypeOK, NEW t \in Tasks, TeardownEnds(t)
    PROVE  ProxyTypeOK'
<1>1. tearing[t] \in Clients
  BY DEF ProxyTypeOK, TeardownEnds
<1>2. open' \in [Clients -> BOOLEAN] /\ tearing' \in [Tasks -> Clients \cup {None}]
  BY <1>1 DEF ProxyTypeOK, TeardownEnds
<1>3. own' \in [Clients -> Tasks \cup {None}] /\ pending' \in Tasks \cup {None}
  BY DEF ProxyTypeOK, TeardownEnds
<1>4. waits' \in [Runs -> SUBSET Tasks]
  BY DEF ProxyTypeOK, TeardownEnds
<1>. QED BY <1>2, <1>3, <1>4 DEF ProxyTypeOK

-----------------------------------------------------------------------------
(***************************************************************************)
(* References.                                                             *)
(***************************************************************************)
LEMMA UserFacts ==
    /\ IsFiniteSet(Users) /\ Cardinality(Users) \in Nat
    /\ Users = {} <=> Cardinality(Users) = 0
<1>1. IsFiniteSet(Users)
  BY FS_Subset, EntryAssumption DEF Users
<1>. QED BY <1>1, FS_CardinalityType, FS_EmptySet

\* A set-up takes the client of the registry, or a new one when there is no user.
LEMMA Taken ==
    ASSUME IndInv, NEW e \in Entries, state[e] \notin Held, TakeReference(e), pinned' = pinned
    PROVE  /\ refs' \in Nat /\ current' \in Clients
           /\ client' = [client EXCEPT ![e] = current']
           /\ CountInv'
<1>1. /\ client' = [client EXCEPT ![e] = current'] /\ refs' = refs + 1 /\ refs \in Nat
      /\ client \in [Entries -> Clients \cup {None}]
  BY DEF TakeReference, IndInv, TypeOK
<1>2. current' \in Clients
  BY DEF TakeReference, Fresh, IndInv, TypeOK
<1>3. Users' = Users \cup {e}
  BY <1>1, <1>2, ProxyAssumption DEF Users
<1>4. \A d \in Users' : client'[d] = current'
  <2>1. CASE current = None
    <3>1. Users = {}
      BY <2>1, UserFacts DEF IndInv, CountInv
    <3>. QED BY <1>1, <1>3, <3>1
  <2>2. CASE current # None
    <3>1. current' = current
      BY <2>2 DEF TakeReference
    <3>. QED BY <1>1, <1>3, <3>1 DEF IndInv, CountInv, Users
  <2>. QED BY <2>1, <2>2
<1>5. \/ e \in Users /\ Cardinality(Users') = Cardinality(Users)
      \/ e \notin Users /\ Cardinality(Users') = Cardinality(Users) + 1
  <2>1. CASE e \in Users
    <3>1. Users' = Users
      BY <1>3, <2>1
    <3>. QED BY <2>1, <3>1
  <2>2. CASE e \notin Users
    BY <1>3, <2>2, UserFacts, FS_AddElement
  <2>. QED BY <2>1, <2>2
<1>6. pinned = {} => e \notin Users
  BY DEF IndInv, StateInv, Users
<1>7. current' # None
  BY <1>2, ProxyAssumption
<1>8. refs' # 0 /\ refs' \in Nat
  BY <1>1
<1>9. refs' >= Cardinality(Users') /\ (pinned' = {} => refs' = Cardinality(Users'))
  BY <1>1, <1>5, <1>6, UserFacts DEF IndInv, CountInv
<1>. QED BY <1>1, <1>2, <1>4, <1>7, <1>8, <1>9 DEF CountInv

\* An entry that gives its reference back is no longer a user; the last one closes the client.
LEMMA GivenBack ==
    ASSUME IndInv, NEW e \in Entries, client[e] # None, ReleaseReference(e), pinned' = pinned
    PROVE  /\ refs' \in Nat /\ current' \in Clients \cup {None}
           /\ client' = [client EXCEPT ![e] = None]
           /\ CountInv' /\ ProxyTypeOK'
           /\ run' \in [Runs -> [step : Steps, kind : {"connect", "request"},
                                 entry : Entries \cup {None}, client : Clients \cup {None},
                                 closed : BOOLEAN]]
           /\ \A r \in Runs : run'[r].step # "idle" => run'[r].client \in Clients
<1>1. /\ client' = [client EXCEPT ![e] = None] /\ refs' = refs - 1
      /\ refs \in Nat /\ current \in Clients \cup {None}
      /\ client \in [Entries -> Clients \cup {None}] /\ e \in Users
  BY DEF ReleaseReference, IndInv, TypeOK, Users
<1>2. Users' = Users \ {e}
  BY <1>1 DEF Users
<1>3. Cardinality(Users') = Cardinality(Users) - 1 /\ IsFiniteSet(Users')
  BY <1>1, <1>2, UserFacts, FS_RemoveElement
<1>4. refs >= 1 /\ Cardinality(Users) >= 1 /\ Cardinality(Users) \in Nat
  BY <1>1, UserFacts DEF IndInv, CountInv
<1>5. refs' >= Cardinality(Users') /\ (pinned' = {} => refs' = Cardinality(Users'))
  BY <1>1, <1>3, <1>4 DEF IndInv, CountInv
<1>6. \/ refs = 1 /\ refs' = 0 /\ current' = None /\ Users' = {}
      \/ refs # 1 /\ refs' # 0 /\ current' = current /\ current # None
  <2>1. CASE refs = 1
    <3>1. Cardinality(Users') = 0
      BY <1>1, <1>3, <1>4, <2>1 DEF IndInv, CountInv
    <3>2. Users' = {}
      BY <1>3, <3>1, FS_EmptySet
    <3>. QED BY <1>1, <2>1, <3>2 DEF ReleaseReference
  <2>2. CASE refs # 1
    BY <1>1, <1>4, <2>2 DEF ReleaseReference, IndInv, CountInv
  <2>. QED BY <2>1, <2>2
<1>7. \A d \in Users' : client'[d] = current'
  BY <1>1, <1>2, <1>6 DEF IndInv, CountInv, Users
<1>8. CountInv'
  BY <1>5, <1>6, <1>7 DEF CountInv
<1>9. ProxyTypeOK'
  <2>1. ProxyTypeOK /\ client[e] \in Clients /\ UNCHANGED <<open, waits>>
    BY <1>1 DEF IndInv, TypeOK, ReleaseReference
  <2>2. CASE refs = 1
    BY <2>1, <2>2, CloseTypes DEF ReleaseReference
  <2>3. CASE refs # 1
    BY <2>1, <2>3 DEF ReleaseReference, ProxyTypeOK, teardownVars
  <2>. QED BY <2>2, <2>3
<1>10. /\ run' \in [Runs -> [step : Steps, kind : {"connect", "request"},
                             entry : Entries \cup {None}, client : Clients \cup {None},
                             closed : BOOLEAN]]
       /\ \A r \in Runs : run'[r].step # "idle" => run'[r].client \in Clients
  BY DEF ReleaseReference, IndInv, TypeOK
<1>11. refs' \in Nat
  BY <1>1, <1>4
<1>. QED BY <1>1, <1>6, <1>8, <1>9, <1>10, <1>11

-----------------------------------------------------------------------------
(***************************************************************************)
(* Runs.                                                                   *)
(***************************************************************************)
RunTypeOK ==
    /\ run \in [Runs -> [step : Steps, kind : {"connect", "request"}, entry : Entries \cup {None},
                         client : Clients \cup {None}, closed : BOOLEAN]]
    /\ \A r \in Runs : run[r].step # "idle" => run[r].client \in Clients

LEMMA EndsTypes ==
    ASSUME RunTypeOK, NEW r \in Runs, Ends(r)
    PROVE  RunTypeOK'
BY DEF RunTypeOK, Ends, AtRest, Steps

LEMMA GoesTypes ==
    ASSUME RunTypeOK, NEW r \in Runs, NEW step \in Steps, run[r].step # "idle", Goes(r, step)
    PROVE  RunTypeOK'
<1>1. run' = [run EXCEPT ![r] = [run[r] EXCEPT !.step = step]]
  BY DEF Goes
<1>. QED BY <1>1 DEF RunTypeOK

\* A step of a run, or of the port, leaves the entries alone and keeps the types.
LEMMA RunStepTypes ==
    ASSUME TypeOK, NEW r \in Runs, RunStep(r)
    PROVE  ProxyTypeOK' /\ RunTypeOK' /\ UNCHANGED entryVars
<1>1. ProxyTypeOK /\ RunTypeOK
  BY DEF TypeOK, RunTypeOK
<1>2. CASE GetsLock(r)
  <2>1. run[r].client \in Clients /\ run[r].step # "idle" /\ UNCHANGED entryVars
    BY <1>1, <1>2 DEF GetsLock, RunTypeOK
  <2>2. CASE Ends(r) /\ UNCHANGED proxyVars
    BY <1>1, <2>1, <2>2, EndsTypes, SameTypes
  <2>3. CASE /\ Goes(r, "teardown") /\ AwaitTeardown(r, run[r].client)
             /\ UNCHANGED <<open, teardownVars>>
    <3>1. RunTypeOK'
      BY <1>1, <2>1, <2>3, GoesTypes DEF Steps
    <3>2. ProxyTypeOK'
      BY <1>1, <2>1, <2>3 DEF ProxyTypeOK, AwaitTeardown, teardownVars
    <3>. QED BY <2>1, <3>1, <3>2
  <2>. QED BY <1>2, <2>2, <2>3 DEF GetsLock
<1>3. CASE Opens(r)
  <2>1. run[r].step # "idle" /\ Goes(r, "opening") /\ UNCHANGED <<proxyVars, entryVars>>
    BY <1>3 DEF Opens
  <2>. QED BY <1>1, <2>1, GoesTypes, SameTypes DEF Steps
<1>4. CASE Opened(r) \/ OpenFails(r)
  <2>1. /\ run[r].client \in Clients /\ Ends(r)
        /\ UNCHANGED <<waits, entryVars>>
    BY <1>1, <1>4 DEF Opened, OpenFails, RunTypeOK
  <2>2. open' \in [Clients -> BOOLEAN]
    BY <1>1, <1>4, <2>1 DEF Opened, OpenFails, Open, ProxyTypeOK
  <2>3. Close(run[r].client) \/ UNCHANGED teardownVars
    BY <1>4 DEF Opened, OpenFails, CloseIfReleased
  <2>4. ProxyTypeOK'
    <3>1. CASE Close(run[r].client)
      BY <1>1, <2>1, <2>2, <3>1 DEF Close, ProxyTypeOK
    <3>2. CASE UNCHANGED teardownVars
      BY <1>1, <2>1, <2>2, <3>2 DEF teardownVars, ProxyTypeOK
    <3>. QED BY <2>3, <3>1, <3>2
  <2>. QED BY <1>1, <2>1, <2>4, EndsTypes
<1>. QED BY <1>2, <1>3, <1>4 DEF RunStep

-----------------------------------------------------------------------------
(***************************************************************************)
(* The invariant.                                                          *)
(***************************************************************************)
\* A step that leaves the entries alone keeps what is said of them.
LEMMA SameEntries ==
    ASSUME IndInv, ProxyTypeOK', RunTypeOK', UNCHANGED entryVars
    PROVE  IndInv'
BY DEF IndInv, TypeOK, RunTypeOK, CountInv, StateInv, Users, entryVars

LEMMA InitIndInv ==
    ASSUME Init
    PROVE  IndInv
<1>1. Users = {}
  BY DEF Init, Users
<1>2. TypeOK
  BY DEF Init, ProxyInit, TypeOK, ProxyTypeOK, AtRest, States, Steps
<1>3. CountInv
  BY <1>1, UserFacts DEF Init, CountInv
<1>4. StateInv
  BY DEF Init, StateInv, Held
<1>. QED BY <1>2, <1>3, <1>4 DEF IndInv

LEMMA EntryStepIndInv ==
    ASSUME IndInv, NEW e \in Entries, EntryStep(e)
    PROVE  IndInv'
<1>0. TypeOK /\ CountInv /\ StateInv /\ ProxyTypeOK /\ RunTypeOK
  BY DEF IndInv, TypeOK, RunTypeOK
<1>1. CASE Setup(e)
  <2>1. state[e] \notin Held /\ TakeReference(e) /\ UNCHANGED <<proxyVars, pinned, run>>
        /\ state' = [state EXCEPT ![e] = "setup"]
    BY <1>1 DEF Setup, Enters, Held
  <2>2. /\ refs' \in Nat /\ current' \in Clients /\ CountInv'
        /\ client' = [client EXCEPT ![e] = current']
    BY <2>1, Taken
  <2>3. TypeOK'
    BY <1>0, <2>1, <2>2, SameTypes DEF TypeOK, States
  <2>4. StateInv'
    BY <1>0, <2>1, <2>2, ProxyAssumption DEF StateInv, TypeOK, Held
  <2>. QED BY <2>2, <2>3, <2>4 DEF IndInv
<1>2. ASSUME client[e] # None, ReleaseReference(e), pinned' = pinned,
             NEW s \in {"setup_error", "not_loaded"}, state' = [state EXCEPT ![e] = s]
      PROVE  IndInv'
  <2>1. /\ refs' \in Nat /\ current' \in Clients \cup {None}
        /\ client' = [client EXCEPT ![e] = None]
        /\ CountInv' /\ ProxyTypeOK' /\ RunTypeOK'
    BY <1>2, GivenBack DEF RunTypeOK
  <2>2. TypeOK'
    BY <1>0, <1>2, <2>1 DEF TypeOK, RunTypeOK, States
  <2>3. StateInv'
    BY <1>0, <1>2, <2>1 DEF StateInv, TypeOK, Held
  <2>. QED BY <2>1, <2>2, <2>3 DEF IndInv
<1>3. ASSUME UNCHANGED <<client, refs, current>>, pinned' \in {pinned, pinned \cup {e}},
             ProxyTypeOK', RunTypeOK', NEW s \in States, state' = [state EXCEPT ![e] = s],
             client[e] # None, s \in Held \/ e \in pinned'
      PROVE  IndInv'
  <2>1. TypeOK'
    BY <1>0, <1>3 DEF TypeOK, RunTypeOK
  <2>2. CountInv'
    BY <1>0, <1>3 DEF CountInv, Users
  <2>3. StateInv'
    BY <1>0, <1>3 DEF StateInv, TypeOK
  <2>. QED BY <2>1, <2>2, <2>3 DEF IndInv
<1>4. ASSUME UNCHANGED <<proxyVars, run>> PROVE ProxyTypeOK' /\ RunTypeOK'
  BY <1>0, <1>4, SameTypes DEF RunTypeOK
<1>5. CASE SetupSucceeds(e)
  <2>1. client[e] # None
    BY <1>0, <1>5 DEF SetupSucceeds, StateInv, Held
  <2>. QED BY <1>3, <1>4, <1>5, <2>1 DEF SetupSucceeds, Enters, States, Held
<1>6. CASE SetupFails(e)
  <2>1. client[e] # None /\ state' = [state EXCEPT ![e] = "setup_error"]
    BY <1>0, <1>6 DEF SetupFails, StateInv, Held, Enters
  <2>2. CASE ReleaseReference(e) /\ UNCHANGED pinned
    BY <1>2, <2>1, <2>2
  <2>3. CASE pinned' = pinned \cup {e} /\ UNCHANGED <<proxyVars, client, refs, current, run>>
    BY <1>3, <1>4, <2>1, <2>3 DEF States
  <2>. QED BY <1>6, <2>2, <2>3 DEF SetupFails
<1>7. CASE Unload(e)
  <2>1. client[e] # None
    BY <1>0, <1>7 DEF Unload, StateInv, Held
  <2>. QED BY <1>3, <1>4, <1>7, <2>1 DEF Unload, Enters, States, Held
<1>8. CASE Stopped(e)
  <2>1. client[e] # None
    BY <1>0, <1>8 DEF Stopped, StateInv, Held
  <2>. QED BY <1>2, <1>8, <2>1 DEF Stopped, Enters
<1>9. CASE ForceClose(e)
  <2>1. client[e] \in Clients
    BY <1>0, <1>9 DEF ForceClose, Polls, StateInv, Held, TypeOK
  <2>2. ProxyTypeOK' /\ RunTypeOK' /\ UNCHANGED entryVars
    BY <1>0, <1>9, <2>1, CloseTypes DEF ForceClose, RunTypeOK
  <2>. QED BY <2>2, SameEntries
<1>. QED BY <1>1, <1>5, <1>6, <1>7, <1>8, <1>9 DEF EntryStep

LEMMA NextIndInv ==
    ASSUME IndInv, [Next]_vars
    PROVE  IndInv'
<1>0. TypeOK /\ StateInv /\ ProxyTypeOK /\ RunTypeOK
  BY DEF IndInv, TypeOK, RunTypeOK
<1>1. CASE \E e \in Entries : EntryStep(e)
  BY <1>1, EntryStepIndInv
<1>2. CASE \E r \in Runs, e \in Entries, kind \in Kinds : StartRun(r, e, kind)
  <2>1. PICK r \in Runs, e \in Entries, kind \in Kinds : StartRun(r, e, kind)
    BY <1>2
  <2>2. client[e] \in Clients /\ kind \in {"connect", "request"}
    BY <1>0, <2>1, EntryAssumption DEF StartRun, Polls, StateInv, Held, TypeOK
  <2>3. RunTypeOK'
    BY <1>0, <2>1, <2>2 DEF StartRun, RunTypeOK, Steps
  <2>. QED BY <1>0, <2>1, <2>3, SameTypes, SameEntries DEF StartRun
<1>3. CASE \E r \in Runs : RunStep(r)
  BY <1>0, <1>3, RunStepTypes, SameEntries
<1>4. CASE \E t \in Tasks : Teardown(t)
  <2>1. PICK t \in Tasks : TeardownEnds(t) /\ UNCHANGED <<entryVars, run>>
    BY <1>4 DEF Teardown
  <2>2. RunTypeOK'
    BY <1>0, <2>1 DEF RunTypeOK
  <2>. QED BY <1>0, <2>1, <2>2, TeardownTypes, SameEntries
<1>5. CASE \E cl \in Clients : PortGoes(cl)
  <2>1. PICK cl \in Clients : PortLost(cl) /\ UNCHANGED <<entryVars, run>>
    BY <1>5 DEF PortGoes
  <2>2. ProxyTypeOK' /\ RunTypeOK'
    BY <1>0, <2>1 DEF RunTypeOK, ProxyTypeOK, PortLost, teardownVars
  <2>. QED BY <2>1, <2>2, SameEntries
<1>6. CASE UNCHANGED vars
  <2>1. UNCHANGED <<proxyVars, entryVars, run>>
    BY <1>6 DEF vars
  <2>2. RunTypeOK'
    BY <1>0, <2>1 DEF RunTypeOK
  <2>. QED BY <1>0, <2>1, <2>2, SameTypes, SameEntries
<1>. QED BY <1>1, <1>2, <1>3, <1>4, <1>5, <1>6 DEF Next

\* In every behaviour the reference count is at least the number of entries that use the
\* client, exact while no set-up of another brand than Solis has failed, and 0 when the
\* registry has no client (set-up, unload and close_connection in any order).
THEOREM References == Spec => []IndInv
<1>1. Init => IndInv
  BY InitIndInv
<1>2. IndInv /\ [Next]_vars => IndInv'
  BY NextIndInv
<1>. QED BY <1>1, <1>2, PTL DEF Spec

\* Every variable of entries, runs and port keeps its type (set-up, unload and the runs of
\* the poller).
THEOREM TypeCorrect == Spec => []TypeOK
<1>1. IndInv => TypeOK
  BY DEF IndInv
<1>. QED BY <1>1, References, PTL

\* An entry that polls has the client of the registry, and without entries and failed set-ups
\* the registry has none (async_unload_entry and the set-up paths, in any order).
THEOREM ClientsFollow == Spec => []ClientFollowsEntries
<1>1. IndInv => ClientFollowsEntries
  <2>1. SUFFICES ASSUME IndInv PROVE ClientFollowsEntries
    OBVIOUS
  <2>2. \A e \in Entries : Polls(e) => client[e] = current
    BY <2>1 DEF IndInv, StateInv, CountInv, Users, Polls, Held
  <2>3. ASSUME \A e \in Entries : state[e] \in {"not_loaded", "setup_error"}, pinned = {}
        PROVE  current = None
    <3>1. Users = {}
      BY <2>1, <2>3 DEF IndInv, StateInv, Users, Held
    <3>. QED BY <2>1, <2>3, <3>1, UserFacts DEF IndInv, CountInv
  <2>. QED BY <2>2, <2>3 DEF ClientFollowsEntries
<1>. QED BY <1>1, References, PTL

-----------------------------------------------------------------------------
(***************************************************************************)
(* The port of a client that was released.                                 *)
(***************************************************************************)
\* A run whose controller is open belongs to an entry that polls, on the client of that entry.
OpenRuns ==
    \A r \in Runs : run[r].step # "idle" /\ ~run[r].closed =>
        /\ run[r].entry \in Entries /\ Polls(run[r].entry)
        /\ client[run[r].entry] = run[r].client

PortInv == OpenRuns /\ PortIsGivenBack

\* A step that leaves open alone, tears down no less, and keeps the registry's client unless
\* it is torn down from now on.
LEMMA SamePorts ==
    ASSUME IndInv, PortIsGivenBack, open' = open, current' = current \/ current = None,
           UNCHANGED tearing \/ \E cl \in Clients : Close(cl)
    PROVE  PortIsGivenBack'
<1>1. \A t \in Tasks : tearing[t] # None => tearing'[t] = tearing[t]
  BY DEF Close, IndInv, TypeOK, ProxyTypeOK
<1>. QED BY <1>1, ProxyAssumption DEF PortIsGivenBack

LEMMA ReleaseKeepsPorts ==
    ASSUME IndInv, PortInv, NEW e \in Entries, client[e] # None, ReleaseReference(e),
           NEW s \in {"setup_error", "not_loaded"}, state' = [state EXCEPT ![e] = s]
    PROVE  PortInv'
<1>1. OpenRuns'
  <2>. SUFFICES ASSUME NEW r \in Runs, run'[r].step # "idle", ~run'[r].closed
                PROVE  /\ run'[r].entry \in Entries /\ Polls(run[r].entry)'
                       /\ client'[run'[r].entry] = run'[r].client
    BY DEF OpenRuns, Polls
  <2>1. run'[r] = run[r] /\ run[r].entry # e
    BY DEF ReleaseReference, IndInv, TypeOK
  <2>. QED BY <2>1 DEF PortInv, OpenRuns, ReleaseReference, IndInv, TypeOK, Polls
<1>2. PortIsGivenBack'
  <2>1. CASE refs = 1
    <3>1. client[e] = current /\ client[e] \in Clients
      BY DEF IndInv, CountInv, Users, TypeOK
    <3>2. PICK t \in Tasks : tearing[t] = None /\ tearing' = [tearing EXCEPT ![t] = current]
      BY <2>1, <3>1 DEF ReleaseReference, Close
    <3>3. open' = open /\ tearing \in [Tasks -> Clients \cup {None}]
      BY DEF ReleaseReference, IndInv, TypeOK, ProxyTypeOK
    <3>. QED BY <3>2, <3>3, ProxyAssumption DEF PortInv, PortIsGivenBack
  <2>2. CASE refs # 1
    BY <2>2, SamePorts DEF ReleaseReference, teardownVars, PortInv
  <2>. QED BY <2>1, <2>2
<1>. QED BY <1>1, <1>2 DEF PortInv

\* The open controllers and their runs stay as they are.
LEMMA SameOpenRuns ==
    ASSUME IndInv, OpenRuns, run' = run,
           \A e \in Entries : Polls(e) => Polls(e)' /\ client'[e] = client[e]
    PROVE  OpenRuns'
BY DEF OpenRuns

LEMMA EntryStepKeepsPorts ==
    ASSUME IndInv, PortInv, NEW e \in Entries, EntryStep(e)
    PROVE  PortInv'
<1>0. TypeOK /\ StateInv /\ OpenRuns /\ PortIsGivenBack
  BY DEF IndInv, PortInv
<1>1. CASE Setup(e)
  <2>1. OpenRuns'
    <3>1. run' = run
      BY <1>1 DEF Setup
    <3>2. \A d \in Entries : Polls(d) => Polls(d)' /\ client'[d] = client[d]
      BY <1>0, <1>1 DEF Setup, Enters, TakeReference, Polls, TypeOK
    <3>. QED BY <1>0, <3>1, <3>2, SameOpenRuns
  <2>2. open' = open /\ UNCHANGED tearing /\ (current' = current \/ current = None)
    BY <1>1 DEF Setup, TakeReference, proxyVars
  <2>. QED BY <1>0, <2>1, <2>2, SamePorts DEF PortInv
<1>2. ASSUME UNCHANGED <<proxyVars, client, current, run>>,
             NEW s \in States, state' = [state EXCEPT ![e] = s],
             Polls(e) => s \in {"failed_unload", "stopping"}
      PROVE  PortInv'
  <2>1. \A d \in Entries : Polls(d) => Polls(d)'
    BY <1>0, <1>2 DEF Polls, TypeOK
  <2>2. OpenRuns'
    BY <1>0, <1>2, <2>1, SameOpenRuns
  <2>. QED BY <1>0, <1>2, <2>2, SamePorts DEF PortInv, proxyVars, teardownVars
<1>3. CASE SetupSucceeds(e)
  BY <1>2, <1>3 DEF SetupSucceeds, Enters, Polls, States
<1>4. CASE Unload(e)
  BY <1>2, <1>4 DEF Unload, Enters, States
<1>5. CASE SetupFails(e)
  <2>1. client[e] # None /\ state' = [state EXCEPT ![e] = "setup_error"] /\ ~Polls(e)
    BY <1>0, <1>5 DEF SetupFails, StateInv, Held, Enters, Polls
  <2>2. CASE ReleaseReference(e)
    BY <2>1, <2>2, ReleaseKeepsPorts
  <2>3. CASE UNCHANGED <<proxyVars, client, refs, current, run>>
    BY <1>2, <2>1, <2>3 DEF States
  <2>. QED BY <1>5, <2>2, <2>3 DEF SetupFails
<1>6. CASE Stopped(e)
  <2>1. client[e] # None
    BY <1>0, <1>6 DEF Stopped, StateInv, Held
  <2>. QED BY <1>6, <2>1, ReleaseKeepsPorts DEF Stopped, Enters
<1>7. CASE ForceClose(e)
  <2>1. client[e] \in Clients
    BY <1>0, <1>7 DEF ForceClose, Polls, StateInv, Held, TypeOK
  <2>2. OpenRuns'
    BY <1>0, <1>7, SameOpenRuns DEF ForceClose, entryVars, Polls
  <2>. QED BY <1>0, <1>7, <2>1, <2>2, SamePorts DEF ForceClose, PortInv, entryVars
<1>. QED BY <1>1, <1>3, <1>4, <1>5, <1>6, <1>7 DEF EntryStep

\* A run that opens the client of a closed controller tears it down again, if it is no stray
\* request.
LEMMA RunStepKeepsPorts ==
    ASSUME IndInv, PortInv, NoStray, NEW r \in Runs, RunStep(r)
    PROVE  PortInv'
<1>0. RunTypeOK /\ OpenRuns /\ PortIsGivenBack /\ UNCHANGED entryVars
  BY RunStepTypes DEF IndInv, TypeOK, RunTypeOK, PortInv
<1>1. CASE Ends(r)
  <2>1. OpenRuns'
    BY <1>0, <1>1 DEF OpenRuns, Ends, AtRest, RunTypeOK, entryVars, Polls
  <2>2. CASE Opened(r)
    <3>1. /\ run[r].step # "idle" /\ run[r].client \in Clients
          /\ open' = [open EXCEPT ![run[r].client] = TRUE]
      BY <1>0, <2>2 DEF Opened, Open, RunTypeOK
    <3>2. CASE run[r].client = current
      <4>1. UNCHANGED tearing
        BY <2>2, <3>2 DEF Opened, CloseIfReleased, teardownVars
      <4>. QED
        BY <1>0, <2>1, <3>1, <3>2, <4>1
        DEF PortInv, PortIsGivenBack, entryVars, IndInv, TypeOK, ProxyTypeOK
    <3>3. CASE run[r].client # current
      <4>1. run[r].closed
        BY <1>0, <3>1, <3>3 DEF OpenRuns, IndInv, CountInv, StateInv, Users, Polls, Held
      <4>2. run[r].kind = "connect"
        BY <1>0, <4>1 DEF NoStray, Stray, RunTypeOK
      <4>3. Close(run[r].client)
        BY <2>2, <3>3, <4>1, <4>2 DEF Opened, CloseIfReleased
      <4>4. PICK t \in Tasks : /\ tearing[t] = None
                               /\ tearing' = [tearing EXCEPT ![t] = run[r].client]
        BY <4>3 DEF Close
      <4>. QED
        BY <1>0, <2>1, <3>1, <4>4, ProxyAssumption
        DEF PortInv, PortIsGivenBack, entryVars, IndInv, TypeOK, ProxyTypeOK
    <3>. QED BY <3>2, <3>3
  <2>3. CASE GetsLock(r)
    <3>1. UNCHANGED <<open, tearing>>
      BY <2>3 DEF GetsLock, proxyVars, teardownVars
    <3>. QED BY <1>0, <2>1, <3>1, SamePorts DEF PortInv, entryVars
  <2>4. CASE OpenFails(r)
    <3>1. run[r].client \in Clients
      BY <1>0, <2>4 DEF OpenFails, RunTypeOK
    <3>2. open' = open /\ (UNCHANGED tearing \/ Close(run[r].client))
      BY <2>4 DEF OpenFails, CloseIfReleased, teardownVars
    <3>. QED BY <1>0, <2>1, <3>1, <3>2, SamePorts DEF PortInv, entryVars
  <2>5. CASE Opens(r)
    BY <1>0, <2>1, <2>5, SamePorts DEF Opens, PortInv, entryVars, proxyVars
  <2>. QED BY <2>2, <2>3, <2>4, <2>5 DEF RunStep
<1>2. CASE ~Ends(r)
  <2>1. UNCHANGED <<open, tearing>> /\ \E step \in Steps : Goes(r, step) /\ run[r].step # "idle"
    BY <1>2 DEF RunStep, GetsLock, Opens, Opened, OpenFails, Steps, proxyVars, teardownVars
  <2>2. OpenRuns'
    BY <1>0, <2>1 DEF OpenRuns, Goes, RunTypeOK, entryVars, Polls
  <2>. QED BY <1>0, <2>1, <2>2, SamePorts DEF PortInv, entryVars
<1>. QED BY <1>1, <1>2

LEMMA NextKeepsPorts ==
    ASSUME IndInv, PortInv, NoStray, [Next]_vars
    PROVE  PortInv'
<1>0. TypeOK /\ StateInv /\ RunTypeOK /\ OpenRuns /\ PortIsGivenBack
  BY DEF IndInv, TypeOK, RunTypeOK, PortInv
<1>1. CASE \E e \in Entries : EntryStep(e)
  BY <1>1, EntryStepKeepsPorts
<1>2. CASE \E r \in Runs, e \in Entries, kind \in Kinds : StartRun(r, e, kind)
  <2>1. PICK r \in Runs, e \in Entries, kind \in Kinds : StartRun(r, e, kind)
    BY <1>2
  <2>2. OpenRuns'
    BY <1>0, <2>1 DEF StartRun, OpenRuns, RunTypeOK, entryVars, Polls
  <2>. QED BY <1>0, <2>1, <2>2, SamePorts DEF StartRun, PortInv, entryVars, proxyVars
<1>3. CASE \E r \in Runs : RunStep(r)
  BY <1>3, RunStepKeepsPorts
<1>4. CASE \E t \in Tasks : Teardown(t)
  <2>1. PICK t \in Tasks : TeardownEnds(t) /\ UNCHANGED <<entryVars, run>>
    BY <1>4 DEF Teardown
  <2>2. OpenRuns'
    BY <1>0, <2>1 DEF OpenRuns, entryVars, Polls
  <2>3. PortIsGivenBack'
    <3>. SUFFICES ASSUME NEW cl \in Clients, open'[cl], cl # current'
                  PROVE  \E u \in Tasks : tearing'[u] = cl
      BY DEF PortIsGivenBack
    <3>1. open[cl] /\ cl # tearing[t] /\ cl # current
      BY <2>1 DEF TeardownEnds, entryVars, IndInv, TypeOK, ProxyTypeOK
    <3>2. PICK u \in Tasks : tearing[u] = cl
      BY <1>0, <3>1 DEF PortIsGivenBack
    <3>. QED BY <2>1, <3>1, <3>2 DEF TeardownEnds, IndInv, TypeOK, ProxyTypeOK
  <2>. QED BY <2>2, <2>3 DEF PortInv
<1>5. CASE \E cl \in Clients : PortGoes(cl)
  <2>1. PICK cl \in Clients : PortLost(cl) /\ UNCHANGED <<entryVars, run>>
    BY <1>5 DEF PortGoes
  <2>2. OpenRuns'
    BY <1>0, <2>1 DEF OpenRuns, entryVars, Polls
  <2>3. PortIsGivenBack'
    BY <1>0, <2>1
    DEF PortIsGivenBack, PortLost, teardownVars, entryVars, IndInv, TypeOK, ProxyTypeOK
  <2>. QED BY <2>2, <2>3 DEF PortInv
<1>6. CASE UNCHANGED vars
  <2>1. OpenRuns'
    BY <1>0, <1>6 DEF OpenRuns, vars, entryVars, Polls
  <2>. QED BY <1>0, <1>6, <2>1, SamePorts DEF PortInv, vars, entryVars, proxyVars
<1>. QED BY <1>1, <1>2, <1>3, <1>4, <1>5, <1>6 DEF Next

\* No client that the registry let go of keeps the port, unless a request waited for the lock
\* across the unload of its entry (close, close_if_released and the teardown task).
THEOREM NoLeakedPort == Spec => ReleasedPortIsClosed
<1>1. Init => PortInv
  BY DEF Init, ProxyInit, AtRest, PortInv, OpenRuns, PortIsGivenBack
<1>2. IndInv /\ PortInv /\ NoStray /\ [Next]_vars => PortInv'
  BY NextKeepsPorts
<1>3. PortInv => PortIsGivenBack
  BY DEF PortInv
<1>. QED BY <1>1, <1>2, <1>3, References, PTL DEF Spec, ReleasedPortIsClosed
=============================================================================
