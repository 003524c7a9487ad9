---------------------------- MODULE SerialProxy -----------------------------
(***************************************************************************)
(* The Modbus client for a serial port that only the serial library of     *)
(* Home Assistant can open.  close() is synchronous and its teardown a     *)
(* task; whoever opens the port next waits for the teardowns it knows of:  *)
(* the last one of its own client, and the last one of any client.         *)
(***************************************************************************)
EXTENDS Naturals, FiniteSets

CONSTANTS
    Clients,        \* the client objects of one port
    Runs,           \* calls of connect() and of requests, which may overlap
    None,
    MaxTeardowns    \* bound: teardowns that run at a time

ASSUME ProxyAssumption == MaxTeardowns \in Nat \ {0} /\ None \notin Clients

Tasks == 1..MaxTeardowns

VARIABLES
    open,       \* whether the connection of a client has the port open
    own,        \* _teardown of the clients
    pending,    \* _PENDING_TEARDOWNS of the port
    tearing,    \* the client whose connection a task disconnects
    waits       \* the tasks a run waits for

proxyVars == <<open, own, pending, tearing, waits>>
teardownVars == <<own, pending, tearing>>

ProxyTypeOK ==
    /\ open \in [Clients -> BOOLEAN]
    /\ own \in [Clients -> Tasks \cup {None}]
    /\ pending \in Tasks \cup {None}
    /\ tearing \in [Tasks -> Clients \cup {None}]
    /\ waits \in [Runs -> SUBSET Tasks]

ProxyInit ==
    /\ open = [cl \in Clients |-> FALSE]
    /\ own = [cl \in Clients |-> None]
    /\ pending = None
    /\ tearing = [t \in Tasks |-> None]
    /\ waits = [r \in Runs |-> {}]

Connected(cl) == own[cl] = None /\ open[cl]

Close(cl) ==
    \E t \in Tasks :
        /\ tearing[t] = None /\ \A u \in Tasks : u < t => tearing[u] # None
        /\ tearing' = [tearing EXCEPT ![t] = cl]
        /\ own' = [own EXCEPT ![cl] = t]
        /\ pending' = t

\* _disconnect, and _teardown_done, which forgets the task unless a later one took its place.
TeardownEnds(t) ==
    /\ tearing[t] # None
    /\ open' = [open EXCEPT ![tearing[t]] = FALSE]
    /\ tearing' = [tearing EXCEPT ![t] = None]
    /\ own' = [cl \in Clients |-> IF own[cl] = t THEN None ELSE own[cl]]
    /\ pending' = IF pending = t THEN None ELSE pending
    /\ waits' = [r \in Runs |-> waits[r] \ {t}]

AwaitTeardown(r, cl) == waits' = [waits EXCEPT ![r] = {own[cl], pending} \ {None}]

\* A port is open once: the attempt fails while another client has it.
PortFree(cl) == \A other \in Clients \ {cl} : ~open[other]

Open(cl) == PortFree(cl) /\ open' = [open EXCEPT ![cl] = TRUE]

\* The proxy, or its network, goes.
PortLost(cl) ==
    /\ open[cl] /\ open' = [open EXCEPT ![cl] = FALSE]
    /\ UNCHANGED <<teardownVars, waits>>
=============================================================================
