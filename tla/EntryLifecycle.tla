--------------------------- MODULE EntryLifecycle ---------------------------
(***************************************************************************)
(* Set-up and unload of entries that share one serial proxy port.          *)
(*                                                                         *)
(* A set-up takes a reference to the client of the port, in the constructor*)
(* of its controller, and awaits the platforms.  When that fails, only the *)
(* set-up of the Solis brand gives the reference back.  An unload awaits   *)
(* the platforms, stops the poller and gives the reference back, and the   *)
(* last one closes the client.  Runs of the poller go on through all this. *)
(***************************************************************************)
EXTENDS SerialProxy

CONSTANTS
    Entries,
    Guarded,      \* the entries of the Solis brand
    Kinds,        \* what runs do: "connect", "request"
    MaxSetups     \* bound: set-ups of all entries

ASSUME EntryAssumption ==
    /\ Guarded \subseteq Entries /\ Kinds \subseteq {"connect", "request"}
    /\ IsFiniteSet(Entries) /\ MaxSetups \in Nat

States == {"not_loaded", "setup", "setup_error", "loaded", "failed_unload", "stopping"}
Steps == {"idle", "lock", "teardown", "opening"}

VARIABLES
    state,      \* the states of the entries
    client,     \* the client of an entry's controller
    refs,       \* ref_count of the registry
    current,    \* the client in the registry
    pinned,     \* entries of other brands whose set-up failed
    run,        \* the runs
    setups

entryVars == <<state, client, refs, current, pinned>>
vars == <<proxyVars, entryVars, run, setups>>

AtRest == [step |-> "idle", kind |-> "connect", entry |-> None, client |-> None, closed |-> FALSE]

TypeOK ==
    /\ ProxyTypeOK
    /\ state \in [Entries -> States]
    /\ client \in [Entries -> Clients \cup {None}]
    /\ refs \in Nat
    /\ current \in Clients \cup {None}
    /\ pinned \subseteq Entries
    /\ run \in [Runs -> [step : Steps, kind : {"connect", "request"}, entry : Entries \cup {None},
                         client : Clients \cup {None}, closed : BOOLEAN]]
    /\ \A r \in Runs : run[r].step # "idle" => run[r].client \in Clients

Init ==
    /\ ProxyInit
    /\ state = [e \in Entries |-> "not_loaded"]
    /\ client = [e \in Entries |-> None]
    /\ refs = 0 /\ current = None /\ pinned = {} /\ setups = 0
    /\ run = [r \in Runs |-> AtRest]

Enters(e, s) == state' = [state EXCEPT ![e] = s]

-----------------------------------------------------------------------------
(***************************************************************************)
(* Entries.                                                                *)
(***************************************************************************)
\* A client that was released is not used again.
Fresh == {cl \in Clients : ~open[cl] /\ \A t \in Tasks : tearing[t] # cl
                           /\ \A r \in Runs : run[r].client # cl}

\* get_serial_client
TakeReference(e) ==
    /\ refs' = refs + 1
    /\ current' \in IF current = None THEN Fresh ELSE {current}
    /\ client' = [client EXCEPT ![e] = current']

Setup(e) ==
    /\ state[e] \in {"not_loaded", "setup_error"} /\ setups < MaxSetups
    /\ setups' = setups + 1
    /\ Enters(e, "setup") /\ TakeReference(e)
    /\ UNCHANGED <<proxyVars, pinned, run>>

\* close_connection: the runs of the controller go on, on a closed controller.
ReleaseReference(e) ==
    /\ refs' = refs - 1
    /\ IF refs = 1
       THEN Close(client[e]) /\ current' = None
       ELSE UNCHANGED <<teardownVars, current>>
    /\ client' = [client EXCEPT ![e] = None]
    /\ run' = [r \in Runs |-> IF run[r].entry = e THEN [run[r] EXCEPT !.closed = TRUE] ELSE run[r]]
    /\ UNCHANGED <<open, waits, setups>>

SetupSucceeds(e) ==
    /\ state[e] = "setup" /\ Enters(e, "loaded")
    /\ UNCHANGED <<proxyVars, client, refs, current, pinned, run, setups>>

\* Variant with a defect, to test the properties: no except branch.
SetupFailsUnguarded(e) ==
    /\ state[e] = "setup" /\ Enters(e, "setup_error")
    /\ UNCHANGED <<proxyVars, client, refs, current, pinned, run, setups>>

SetupFails(e) ==
    /\ state[e] = "setup" /\ Enters(e, "setup_error")
    /\ \/ /\ e \in Guarded
          /\ ReleaseReference(e) /\ UNCHANGED pinned
       \/ /\ e \notin Guarded
          /\ pinned' = pinned \cup {e}
          /\ UNCHANGED <<proxyVars, client, refs, current, run, setups>>

\* The platforms are unloaded; when one of them is not, nothing else happens.
Unload(e) ==
    /\ state[e] = "loaded"
    /\ Enters(e, "stopping") \/ Enters(e, "failed_unload")
    /\ UNCHANGED <<proxyVars, client, refs, current, pinned, run, setups>>

\* async_stop is over, and the connection is closed.
Stopped(e) ==
    /\ state[e] = "stopping" /\ Enters(e, "not_loaded")
    /\ ReleaseReference(e)
    /\ UNCHANGED pinned

-----------------------------------------------------------------------------
(***************************************************************************)
(* Runs.  connect() looks at the controller again under the lock of the    *)
(* link; a request that waits for the lock does not.                       *)
(***************************************************************************)
Polls(e) == state[e] \in {"loaded", "failed_unload", "stopping"}

StartRun(r, e, kind) ==
    /\ run[r] = AtRest /\ Polls(e)
    /\ Connected(client[e]) = (kind = "request")
    /\ run' = [run EXCEPT ![r] = [step |-> "lock", kind |-> kind, entry |-> e,
                                  client |-> client[e], closed |-> FALSE]]
    /\ UNCHANGED <<proxyVars, entryVars, setups>>

LockFree(cl) ==
    \A r \in Runs : run[r].client = cl => run[r].step \notin {"teardown", "opening"}

Ends(r) == run' = [run EXCEPT ![r] = AtRest]
Goes(r, step) == run' = [run EXCEPT ![r].step = step]

GetsLock(r) ==
    LET cl == run[r].client
    IN  /\ run[r].step = "lock" /\ LockFree(cl)
        /\ IF run[r].kind = "connect" /\ (run[r].closed \/ Connected(cl))
           THEN Ends(r) /\ UNCHANGED proxyVars
           ELSE /\ Goes(r, "teardown") /\ AwaitTeardown(r, cl)
                /\ UNCHANGED <<open, teardownVars>>
        /\ UNCHANGED <<entryVars, setups>>

Opens(r) ==
    /\ run[r].step = "teardown" /\ waits[r] = {}
    /\ Goes(r, "opening")
    /\ UNCHANGED <<proxyVars, entryVars, setups>>

\* Variant with a defect, to test the properties: the client of a new set-up counts as its own.
CloseIfUnregistered(r) ==
    IF run[r].kind = "connect" /\ run[r].closed /\ current = None
    THEN Close(run[r].client) ELSE UNCHANGED teardownVars

\* The attempt of a controller that was closed meanwhile closes a released client again.
CloseIfReleased(r) ==
    IF run[r].kind = "connect" /\ run[r].closed /\ current # run[r].client
    THEN Close(run[r].client) ELSE UNCHANGED teardownVars

\* Variant with a defect, to test the properties: the controller is not looked at again.
OpenedForNobody(r) ==
    /\ run[r].step = "opening" /\ Open(run[r].client) /\ Ends(r)
    /\ UNCHANGED <<waits, teardownVars, entryVars, setups>>

\* A request opens the port too, if it is not.
Opened(r) ==
    /\ run[r].step = "opening" /\ Open(run[r].client)
    /\ CloseIfReleased(r) /\ Ends(r)
    /\ UNCHANGED <<waits, entryVars, setups>>

\* A request that raises closes the client, if it is connected.
OpenFails(r) ==
    /\ run[r].step = "opening"
    /\ IF run[r].kind = "request" /\ Connected(run[r].client)
       THEN Close(run[r].client) ELSE CloseIfReleased(r)
    /\ Ends(r)
    /\ UNCHANGED <<open, waits, entryVars, setups>>

\* force_close of the watchdog on a link that looks connected and answers nothing.
ForceClose(e) ==
    /\ Polls(e) /\ Connected(client[e]) /\ Close(client[e])
    /\ UNCHANGED <<open, waits, entryVars, run, setups>>

EntryStep(e) ==
    \/ Setup(e) \/ SetupSucceeds(e) \/ SetupFails(e)
    \/ Unload(e) \/ Stopped(e) \/ ForceClose(e)

RunStep(r) == GetsLock(r) \/ Opens(r) \/ Opened(r) \/ OpenFails(r)

Teardown(t) == TeardownEnds(t) /\ UNCHANGED <<entryVars, run, setups>>
PortGoes(cl) == PortLost(cl) /\ UNCHANGED <<entryVars, run, setups>>

Next ==
    \/ \E e \in Entries : EntryStep(e)
    \/ \E r \in Runs, e \in Entries, kind \in Kinds : StartRun(r, e, kind)
    \/ \E r \in Runs : RunStep(r)
    \/ \E t \in Tasks : Teardown(t)
    \/ \E cl \in Clients : PortGoes(cl)

\* Awaits end, timers start runs, the lock is served in turn, and an attempt on a port
\* that is free succeeds now and then.
Fairness ==
    /\ WF_vars(\E e \in Entries : SetupSucceeds(e) \/ SetupFails(e) \/ Stopped(e))
    /\ \A e \in Entries : SF_vars(\E r \in Runs : StartRun(r, e, "connect"))
    /\ \A r \in Runs : SF_vars(GetsLock(r)) /\ SF_vars(Opened(r)) /\ WF_vars(RunStep(r))
    /\ \A t \in Tasks : WF_vars(Teardown(t))

Spec == Init /\ [][Next]_vars
FairSpec == Spec /\ Fairness

-----------------------------------------------------------------------------
(***************************************************************************)
(* Properties.                                                             *)
(***************************************************************************)
\* The client of an entry whose poller runs is the one in the registry: no unload or
\* failing set-up of another entry takes it away, and no two entries use two clients.
\* When no entry is loaded the registry has no client, unless a set-up of another brand
\* than Solis failed, which keeps its reference for good.
ClientFollowsEntries ==
    /\ \A e \in Entries : Polls(e) => client[e] = current
    /\ (\A e \in Entries : state[e] \in {"not_loaded", "setup_error"}) /\ pinned = {}
           => current = None

\* A request that waits for the link while its controller is closed.
Stray(r) == run[r].closed /\ run[r].kind = "request"

NoStray == \A r \in Runs : ~Stray(r)

PortIsGivenBack ==
    \A cl \in Clients : open[cl] /\ cl # current => \E t \in Tasks : tearing[t] = cl

\* No client that the registry let go of keeps the port: a connection that comes up on a
\* controller which was closed meanwhile is torn down again, except that of a stray request.
ReleasedPortIsClosed == []NoStray => []PortIsGivenBack

\* An entry that stays loaded is connected again and again.
Reconnects ==
    \A e \in Entries : <>[](state[e] = "loaded") => []<>(current # None /\ Connected(current))

\* So it is at least when no request waits for the link at an unload: no attempt to connect,
\* and no teardown, of a client that was released keeps the port from it.
ReconnectsUnlessStray == []NoStray => Reconnects
=============================================================================
