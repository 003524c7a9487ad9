-------------------------- MODULE ModbusController --------------------------
(***************************************************************************)
(* The controllers of one Modbus link (modbus_controller.py) on top of the *)
(* client registry they share (module ClientManager).                      *)
(*                                                                         *)
(* A controller is one ModbusController object: one inverter (slave) of    *)
(* one config entry, from its construction to close_connection; a reload   *)
(* makes a new one.  Its methods are coroutines on one event loop.  A task *)
(* <<c, k>> is a coroutine running a method of controller c: for k in      *)
(* Callers a poll batch, a service handler or the connection watchdog, for *)
(* k = Writer the process_write_queue loop.  A step of the model runs one  *)
(* task from one suspension point (await) to the next; pc names the point  *)
(* where a task is suspended.                                              *)
(*                                                                         *)
(* Who calls the methods, and when, is left open: every method may be      *)
(* called at any time it makes sense to.                                   *)
(***************************************************************************)
EXTENDS ClientManager, Sequences, FiniteSets

CONSTANTS
    Controllers,      \* the controller objects
    Callers,          \* the concurrent callers of one controller
    Writer,           \* the write-queue task of a controller
    NoTask,           \* the holder of a free lock
    ConnectionType,   \* "tcp" or "serial"
    MaxWrites,        \* bound: writes queued per controller
    FailureCap        \* bound: connect_failures saturates here

Tasks == Controllers \X (Callers \cup {Writer})

ASSUME ControllerAssumption ==
    /\ IsFiniteSet(Controllers)
    /\ Writer \notin Callers
    /\ NoTask \notin Tasks
    /\ ConnectionType \in {"tcp", "serial"}
    /\ MaxWrites \in Nat
    /\ FailureCap \in Nat

VARIABLES
    life,      \* per controller: "new", "active", "closed" (_closed)
    clientOf,  \* per controller: its client, and with it its poll_lock
    failures,  \* per controller: connect_failures
    pending,   \* per controller: the writes of write_queue not yet task_done
    puts,      \* per controller: how many writes were queued so far
    dropped,   \* per controller: the writes done without reaching the link
    device,    \* per inverter: the last of the queued writes it applied
    pc,        \* per task: where it is suspended
    op,        \* per task: the method a caller runs
    holder,    \* per client: the task that holds the entry's asyncio.Lock
    wire       \* on the present entry, a frame less than MIN_INTER_FRAME_MS ago

writeVars == <<pending, puts, dropped, device>>
objectVars == <<life, clientOf, made>>
vars == <<entry, refCount, stamped, link, objectVars, failures, writeVars,
          pc, op, holder, wire>>

Waiting == {"connLock", "reqLock"}
Opening == {"connecting", "established"}
Framing == {"spacing", "spaced", "request", "broken"}
Holding == Opening \cup Framing
CallerPlaces == {"idle"} \cup Waiting \cup Holding
WriterPlaces == {"off", "get", "waitLink", "reqLock", "cancelled"} \cup Framing

Ops == {"none", "read", "connect"}

Owner(t) == t[1]
IsWriter(t) == t[2] = Writer
ClientOf(t) == clientOf[Owner(t)]
Active == {c \in Controllers : life[c] = "active"}

TypeOK ==
    /\ ManagerTypeOK
    /\ life \in [Controllers -> {"new", "active", "closed"}]
    /\ clientOf \in [Controllers -> Clients \cup {NoClient}]
    /\ failures \in [Controllers -> Nat]
    /\ pending \in [Controllers -> Seq(Nat)]
    /\ puts \in [Controllers -> Nat]
    /\ dropped \in [Controllers -> SUBSET Nat]
    /\ device \in [Controllers -> Nat]
    /\ pc \in [Tasks -> CallerPlaces \cup WriterPlaces]
    /\ \A t \in Tasks : pc[t] \in IF IsWriter(t) THEN WriterPlaces ELSE CallerPlaces
    /\ op \in [Tasks -> Ops]
    /\ holder \in [Clients -> Tasks \cup {NoTask}]
    /\ wire \in BOOLEAN

Init ==
    /\ ManagerInit
    /\ life = [c \in Controllers |-> "new"]
    /\ clientOf = [c \in Controllers |-> NoClient]
    /\ failures = [c \in Controllers |-> 0]
    /\ pending = [c \in Controllers |-> <<>>]
    /\ puts = [c \in Controllers |-> 0]
    /\ dropped = [c \in Controllers |-> {}]
    /\ device = [c \in Controllers |-> 0]
    /\ pc = [t \in Tasks |-> IF IsWriter(t) THEN "off" ELSE "idle"]
    /\ op = [t \in Tasks |-> "none"]
    /\ holder = [cl \in Clients |-> NoTask]
    /\ wire = FALSE

-----------------------------------------------------------------------------
(***************************************************************************)
(* The lock of the entry.  asyncio.Lock.acquire does not suspend when the  *)
(* lock is free and nobody waits for it.  A task that must wait is granted *)
(* the lock later; waiters are served in an arbitrary order here, in FIFO  *)
(* order by asyncio.                                                       *)
(***************************************************************************)
Waiters(cl) == {u \in Tasks : pc[u] \in Waiting /\ ClientOf(u) = cl}

\* Variant with a defect, to test the properties: a lock for each controller instead of a shared one.
FreeForOwnLock(t) ==
    \A u \in Tasks : Owner(u) = Owner(t) /\ u # t => pc[u] \notin Waiting \cup Holding

FreeFor(t) ==
    /\ holder[ClientOf(t)] \in {NoTask, t}
    /\ Waiters(ClientOf(t)) \subseteq {t}

Released(t) == [holder EXCEPT ![ClientOf(t)] = IF @ = t THEN NoTask ELSE @]

\* The method ends: a caller is done, the writer goes back to write_queue.get().
Return(t) ==
    /\ pc' = [pc EXCEPT ![t] = IF IsWriter(t) THEN "get" ELSE "idle"]
    /\ op' = [op EXCEPT ![t] = "none"]
    /\ holder' = Released(t)

\* write_queue.task_done() for the write the writer has in hand.
TaskDone(t) ==
    pending' = IF IsWriter(t)
               THEN [pending EXCEPT ![Owner(t)] = Tail(@)]
               ELSE pending

-----------------------------------------------------------------------------
(***************************************************************************)
(* The frame: lock, inter-frame wait, request.  A request on a client that *)
(* is not connected raises at once: a read returns nothing, a write is     *)
(* logged and acknowledged.                                                *)
(***************************************************************************)
SendFrame(t) ==
    /\ Connected(ClientOf(t))
    /\ wire' = TRUE
    /\ pc' = [pc EXCEPT ![t] = "request"]
    /\ holder' = [holder EXCEPT ![ClientOf(t)] = t]
    /\ UNCHANGED <<op, pending, dropped>>

FrameNotSent(t) ==
    /\ ~Connected(ClientOf(t))
    /\ Return(t)
    /\ TaskDone(t)
    /\ dropped' = IF IsWriter(t)
                  THEN [dropped EXCEPT ![Owner(t)] = @ \cup {Head(pending[Owner(t)])}]
                  ELSE dropped
    /\ UNCHANGED wire

Issue(t) == Stamp /\ (SendFrame(t) \/ FrameNotSent(t))

\* Variant with a defect, to test the properties: writes do not wait for the interval.
EnterFrameWritesFirst(t) ==
    \/ /\ MustSpace /\ ~IsWriter(t)
       /\ pc' = [pc EXCEPT ![t] = "spacing"]
       /\ holder' = [holder EXCEPT ![ClientOf(t)] = t]
       /\ UNCHANGED <<op, stamped, wire, pending, dropped>>
    \/ (~MustSpace \/ IsWriter(t)) /\ Issue(t)

\* The lock is t's: inter_frame_wait, then the request.
EnterFrame(t) ==
    \/ /\ MustSpace
       /\ pc' = [pc EXCEPT ![t] = "spacing"]
       /\ holder' = [holder EXCEPT ![ClientOf(t)] = t]
       /\ UNCHANGED <<op, stamped, wire, pending, dropped>>
    \/ ~MustSpace /\ Issue(t)

\* async with self.poll_lock, around a frame (after releasing it, if t holds it).
AcquireForFrame(t) ==
    \/ FreeFor(t) /\ EnterFrame(t)
    \/ /\ ~FreeFor(t)
       /\ pc' = [pc EXCEPT ![t] = "reqLock"]
       /\ holder' = Released(t)
       /\ UNCHANGED <<op, stamped, wire, pending, dropped>>

\* async with lock, in connect().
AcquireForConnect(t) ==
    \/ /\ FreeFor(t)
       /\ pc' = [pc EXCEPT ![t] = "connecting"]
       /\ holder' = [holder EXCEPT ![ClientOf(t)] = t]
    \/ /\ ~FreeFor(t)
       /\ pc' = [pc EXCEPT ![t] = "connLock"]
       /\ UNCHANGED holder

GrantRequestLock(t) ==
    /\ pc[t] = "reqLock"
    /\ holder[ClientOf(t)] = NoTask
    /\ EnterFrame(t)
    /\ UNCHANGED <<entry, refCount, link, objectVars, failures, puts, device>>

\* The sleep of inter_frame_wait is over.
EndSpacing(t) ==
    /\ pc[t] = "spaced"
    /\ Issue(t)
    /\ UNCHANGED <<entry, refCount, link, objectVars, failures, puts, device>>

-----------------------------------------------------------------------------
(***************************************************************************)
(* connect(): checks before and after taking the lock, then the attempt,   *)
(* which suspends in client.connect().  The transport may come up a while  *)
(* before the awaiting task runs again ("established").                    *)
(***************************************************************************)
ConnectReturnsTrue(t) ==
    IF op[t] = "read"
    THEN AcquireForFrame(t)
    ELSE Return(t) /\ UNCHANGED <<stamped, wire, pending, dropped>>

ConnectReturnsFalse(t) ==
    Return(t) /\ UNCHANGED <<stamped, wire, pending, dropped>>

\* Variant with a defect, to test the properties: _closed is not checked again under the lock.
GrantConnectLockUnchecked(t) ==
    /\ pc[t] = "connLock"
    /\ holder[ClientOf(t)] = NoTask
    /\ \/ Connected(ClientOf(t)) /\ ConnectReturnsTrue(t)
       \/ /\ ~Connected(ClientOf(t))
          /\ pc' = [pc EXCEPT ![t] = "connecting"]
          /\ holder' = [holder EXCEPT ![ClientOf(t)] = t]
          /\ UNCHANGED <<op, stamped, wire, pending, dropped>>
    /\ UNCHANGED <<entry, refCount, link, objectVars, failures, puts, device>>

GrantConnectLock(t) ==
    /\ pc[t] = "connLock"
    /\ holder[ClientOf(t)] = NoTask
    /\ \/ /\ life[Owner(t)] = "closed"
          /\ ConnectReturnsFalse(t)
       \/ /\ life[Owner(t)] # "closed"
          /\ Connected(ClientOf(t))
          /\ ConnectReturnsTrue(t)
       \/ /\ life[Owner(t)] # "closed"
          /\ ~Connected(ClientOf(t))
          /\ pc' = [pc EXCEPT ![t] = "connecting"]
          /\ holder' = [holder EXCEPT ![ClientOf(t)] = t]
          /\ UNCHANGED <<op, stamped, wire, pending, dropped>>
    /\ UNCHANGED <<entry, refCount, link, objectVars, failures, puts, device>>

\* The transport that client.connect() waits for comes up.
Establish(t) ==
    /\ pc[t] = "connecting"
    /\ pc' = [pc EXCEPT ![t] = "established"]
    /\ link' = [link EXCEPT ![ClientOf(t)] = "open"]
    /\ UNCHANGED <<entry, refCount, stamped, objectVars, failures, writeVars,
                   op, holder, wire>>

CountFailures(c, n) ==
    failures' = [failures EXCEPT ![c] = IF @ + n > FailureCap THEN FailureCap ELSE @ + n]

(***************************************************************************)
(* _safe_close: close the client only if it is connected.                  *)
(***************************************************************************)
SafeClose(cl) ==
    link' = IF Connected(cl) THEN [link EXCEPT ![cl] = "closed"] ELSE link

(***************************************************************************)
(* A failed attempt counts once on TCP.  On a serial link the debug        *)
(* message after the first count reads self.port, which a serial           *)
(* controller does not have: the AttributeError lands in the except        *)
(* branch, which counts the same attempt again.                            *)
(***************************************************************************)
FailuresPerAttempt == IF ConnectionType = "serial" THEN 2 ELSE 1

\* Variant with a defect, to test the properties: a closed controller just returns False.
ConnectReturnedLeaky(t) ==
    /\ pc[t] \in Opening
    /\ \/ life[Owner(t)] = "closed" /\ ConnectReturnsFalse(t) /\ UNCHANGED failures
       \/ /\ life[Owner(t)] # "closed" /\ Connected(ClientOf(t))
          /\ failures' = [failures EXCEPT ![Owner(t)] = 0]
          /\ ConnectReturnsTrue(t)
       \/ /\ life[Owner(t)] # "closed" /\ ~Connected(ClientOf(t))
          /\ CountFailures(Owner(t), FailuresPerAttempt)
          /\ ConnectReturnsFalse(t)
    /\ UNCHANGED <<entry, refCount, link, objectVars, puts, device>>

\* client.connect() returned, with or without a transport.
ConnectReturned(t) ==
    /\ pc[t] \in Opening
    /\ \/ /\ life[Owner(t)] = "closed"
          /\ CloseIfReleased(ClientOf(t))
          /\ ConnectReturnsFalse(t)
          /\ UNCHANGED failures
       \/ /\ life[Owner(t)] # "closed"
          /\ Connected(ClientOf(t))
          /\ failures' = [failures EXCEPT ![Owner(t)] = 0]
          /\ ConnectReturnsTrue(t)
          /\ UNCHANGED link
       \/ /\ life[Owner(t)] # "closed"
          /\ ~Connected(ClientOf(t))
          /\ CountFailures(Owner(t), FailuresPerAttempt)
          /\ SafeClose(ClientOf(t))
          /\ ConnectReturnsFalse(t)
    /\ UNCHANGED <<entry, refCount, objectVars, puts, device>>

\* client.connect() raised: there was no transport to be had.
ConnectRaised(t) ==
    /\ pc[t] = "connecting"
    /\ CountFailures(Owner(t), 1)
    /\ SafeClose(ClientOf(t))
    /\ ConnectReturnsFalse(t)
    /\ UNCHANGED <<entry, refCount, objectVars, puts, device>>

-----------------------------------------------------------------------------
(***************************************************************************)
(* The methods.                                                            *)
(***************************************************************************)
\* async_read_{input,holding}_register(s)[_with_exception], async_unit_answers
BeginRead(t) ==
    /\ ~IsWriter(t) /\ pc[t] = "idle"
    /\ life[Owner(t)] = "active"
    /\ Connected(ClientOf(t))
    /\ AcquireForFrame(t)
    /\ UNCHANGED <<entry, refCount, link, objectVars, failures, puts, device>>

\* The same methods, and connect() itself, on a link that is down.
BeginConnect(t, o) ==
    /\ ~IsWriter(t) /\ pc[t] = "idle"
    /\ life[Owner(t)] = "active"
    /\ ~Connected(ClientOf(t))
    /\ o \in {"read", "connect"}
    /\ op' = [op EXCEPT ![t] = o]
    /\ AcquireForConnect(t)
    /\ UNCHANGED <<entry, refCount, stamped, link, objectVars, failures,
                   writeVars, wire>>

\* _async_read_*_raw_detailed called directly by the register recovery: no connect().
BeginRawRead(t) ==
    /\ ~IsWriter(t) /\ pc[t] = "idle"
    /\ life[Owner(t)] # "new"
    /\ AcquireForFrame(t)
    /\ UNCHANGED <<entry, refCount, link, objectVars, failures, puts, device>>

\* async_write_holding_register(s): the queue is unbounded, put never suspends.
PutWrite(c) ==
    /\ life[c] # "new"
    /\ puts[c] < MaxWrites
    /\ puts' = [puts EXCEPT ![c] = @ + 1]
    /\ pending' = [pending EXCEPT ![c] = Append(@, puts[c] + 1)]
    /\ UNCHANGED <<entry, refCount, stamped, link, objectVars, failures,
                   dropped, device, pc, op, holder, wire>>

\* DataRetrieval starts the process_write_queue task.
StartWriter(t) ==
    /\ IsWriter(t) /\ pc[t] = "off"
    /\ life[Owner(t)] = "active"
    /\ pc' = [pc EXCEPT ![t] = "get"]
    /\ UNCHANGED <<entry, refCount, stamped, link, objectVars, failures,
                   writeVars, op, holder, wire>>

\* Variant with a defect, to test the properties: the writer connects instead of waiting.
TakeWriteConnecting(t) ==
    /\ IsWriter(t) /\ pc[t] = "get"
    /\ pending[Owner(t)] # <<>>
    /\ \/ Connected(ClientOf(t)) /\ AcquireForFrame(t)
       \/ /\ ~Connected(ClientOf(t))
          /\ AcquireForConnect(t)
          /\ UNCHANGED <<op, stamped, wire, pending, dropped>>
    /\ UNCHANGED <<entry, refCount, link, objectVars, failures, puts, device>>

(***************************************************************************)
(* process_write_queue takes the next write.  On a connected link it goes  *)
(* on to the lock without suspending (connect() finds the link connected   *)
(* or the controller closed, and its result is not used); otherwise it     *)
(* sleeps until the link is connected.                                     *)
(***************************************************************************)
TakeWrite(t) ==
    /\ IsWriter(t) /\ pc[t] = "get"
    /\ pending[Owner(t)] # <<>>
    /\ \/ Connected(ClientOf(t)) /\ AcquireForFrame(t)
       \/ /\ ~Connected(ClientOf(t))
          /\ pc' = [pc EXCEPT ![t] = "waitLink"]
          /\ UNCHANGED <<op, holder, stamped, wire, pending, dropped>>
    /\ UNCHANGED <<entry, refCount, link, objectVars, failures, puts, device>>

LinkIsBack(t) ==
    /\ pc[t] = "waitLink"
    /\ Connected(ClientOf(t))
    /\ AcquireForFrame(t)
    /\ UNCHANGED <<entry, refCount, link, objectVars, failures, puts, device>>

-----------------------------------------------------------------------------
(***************************************************************************)
(* The end of a request.                                                   *)
(***************************************************************************)
Applied(t) ==
    device' = IF IsWriter(t)
              THEN [device EXCEPT ![Owner(t)] = Head(pending[Owner(t)])]
              ELSE device

EndFrame(t) ==
    /\ Return(t)
    /\ TaskDone(t)
    /\ UNCHANGED <<entry, refCount, stamped, objectVars, failures, puts,
                   dropped, wire>>

\* A normal response: registers, or the echo of a write.
Answer(t) ==
    /\ pc[t] = "request"
    /\ Applied(t)
    /\ EndFrame(t)
    /\ UNCHANGED link

\* Variant with a defect, to test the properties: a refused write is tried again for ever.
RefuseRetries(t) ==
    /\ pc[t] = "request"
    /\ Return(t)
    /\ UNCHANGED <<entry, refCount, stamped, link, objectVars, failures,
                   writeVars, wire>>

\* A Modbus exception response (result.isError()).
Refuse(t) ==
    /\ pc[t] = "request"
    /\ EndFrame(t)
    /\ UNCHANGED <<link, device>>

\* Variant with a defect, to test the properties: a write without an answer is sent again.
FrameRaisesRetry(t) ==
    /\ pc[t] \in {"request", "broken"}
    /\ Applied(t) \/ UNCHANGED device
    /\ Return(t)
    /\ UNCHANGED <<entry, refCount, stamped, link, objectVars, failures, puts,
                   pending, dropped, wire>>

(***************************************************************************)
(* The request raises: no answer in time, or the connection went away.  A  *)
(* write may have been applied nevertheless.  A read, the unit probe and a *)
(* block write close the client; a single write leaves it as it is.        *)
(***************************************************************************)
FrameRaises(t) ==
    /\ pc[t] \in {"request", "broken"}
    /\ Applied(t) \/ UNCHANGED device
    /\ SafeClose(ClientOf(t)) \/ (IsWriter(t) /\ UNCHANGED link)
    /\ EndFrame(t)

-----------------------------------------------------------------------------
(***************************************************************************)
(* Life cycle, and what closes a client under a request in flight: the     *)
(* request will raise.                                                     *)
(***************************************************************************)
BreakFrame(cl) ==
    pc' = [t \in Tasks |-> IF holder[cl] = t /\ pc[t] = "request"
                           THEN "broken" ELSE pc[t]]

\* ModbusController.__init__
Create(c) ==
    /\ life[c] = "new"
    /\ \E cl \in Clients :
          /\ GetClient(cl)
          /\ clientOf' = [clientOf EXCEPT ![c] = cl]
    /\ life' = [life EXCEPT ![c] = "active"]
    /\ wire' = (wire /\ entry # NoClient)
    /\ UNCHANGED <<failures, writeVars, pc, op, holder>>

\* close_connection
CloseConnection(c) ==
    /\ life[c] = "active"
    /\ life' = [life EXCEPT ![c] = "closed"]
    /\ ReleaseClient
    /\ IF link' = link THEN UNCHANGED pc ELSE BreakFrame(clientOf[c])
    /\ UNCHANGED <<clientOf, failures, writeVars, op, holder, wire>>

\* force_close, called by the stale-link watchdog without the lock
ForceClose(c) ==
    /\ life[c] # "new"
    /\ link' = [link EXCEPT ![clientOf[c]] = "closed"]
    /\ BreakFrame(clientOf[c])
    /\ UNCHANGED <<entry, refCount, stamped, objectVars, failures, writeVars,
                   op, holder, wire>>

\* Variant with a defect, to test the properties: a cancelled task keeps the lock.
CancelKeepingLock(t) ==
    /\ life[Owner(t)] = "active"
    /\ pc[t] \notin {"idle", "off", "cancelled"}
    /\ pc' = [pc EXCEPT ![t] = IF IsWriter(t) THEN "cancelled" ELSE "idle"]
    /\ op' = [op EXCEPT ![t] = "none"]
    /\ UNCHANGED <<entry, refCount, stamped, link, objectVars, failures,
                   writeVars, holder, wire>>

(***************************************************************************)
(* async_stop cancels the poll task and the write task, before it closes   *)
(* the controller.  A cancelled task lets go of the lock; the writer       *)
(* acknowledges the write it has in hand and ends.                         *)
(***************************************************************************)
Cancel(t) ==
    /\ life[Owner(t)] = "active"
    /\ pc[t] \notin {"idle", "off", "cancelled"}
    /\ pc' = [pc EXCEPT ![t] = IF IsWriter(t) THEN "cancelled" ELSE "idle"]
    /\ op' = [op EXCEPT ![t] = "none"]
    /\ holder' = Released(t)
    /\ IF pc[t] = "get" THEN UNCHANGED pending ELSE TaskDone(t)
    /\ \/ UNCHANGED device
       \/ pc[t] \in {"request", "broken"} /\ Applied(t)
    /\ UNCHANGED <<entry, refCount, stamped, link, objectVars, failures, puts,
                   dropped, wire>>

-----------------------------------------------------------------------------
(***************************************************************************)
(* The environment: the peer drops the connection, pymodbus re-opens it,   *)
(* and time passes.                                                        *)
(***************************************************************************)
LinkLost(cl) ==
    /\ Connected(cl)
    /\ link' = [link EXCEPT ![cl] = "retrying"]
    /\ BreakFrame(cl)
    /\ UNCHANGED <<entry, refCount, stamped, objectVars, failures, writeVars,
                   op, holder, wire>>

AutoReconnect(cl) ==
    /\ link[cl] = "retrying"
    /\ link' = [link EXCEPT ![cl] = "open"]
    /\ UNCHANGED <<entry, refCount, stamped, objectVars, failures, writeVars,
                   pc, op, holder, wire>>

\* MIN_INTER_FRAME_MS have passed since the last request.
Elapse ==
    /\ stamped \/ wire \/ \E t \in Tasks : pc[t] = "spacing"
    /\ stamped' = FALSE
    /\ wire' = FALSE
    /\ pc' = [t \in Tasks |-> IF pc[t] = "spacing" THEN "spaced" ELSE pc[t]]
    /\ UNCHANGED <<entry, refCount, link, objectVars, failures, writeVars,
                   op, holder>>

-----------------------------------------------------------------------------
Begin(t) == BeginRead(t) \/ (\E o \in Ops : BeginConnect(t, o)) \/ BeginRawRead(t)

Attempt(t) == Establish(t) \/ ConnectReturned(t) \/ ConnectRaised(t)

WriterStep(t) == TakeWrite(t) \/ LinkIsBack(t)

Outcome(t) == Answer(t) \/ Refuse(t) \/ FrameRaises(t)

TaskStep(t) ==
    \/ Begin(t)
    \/ GrantConnectLock(t)
    \/ GrantRequestLock(t)
    \/ EndSpacing(t)
    \/ Attempt(t)
    \/ StartWriter(t)
    \/ WriterStep(t)
    \/ Outcome(t)
    \/ Cancel(t)

ControllerStep(c) ==
    \/ Create(c)
    \/ CloseConnection(c)
    \/ ForceClose(c)
    \/ PutWrite(c)

Next ==
    \/ \E t \in Tasks : TaskStep(t)
    \/ \E c \in Controllers : ControllerStep(c)
    \/ \E cl \in Clients : LinkLost(cl) \/ AutoReconnect(cl)
    \/ Elapse

Spec == Init /\ [][Next]_vars

(***************************************************************************)
(* Fairness.  The event loop resumes every task whose wait is over:        *)
(* asyncio.Lock is FIFO, so a waiter is granted the lock after finitely    *)
(* many others (strong fairness, since the model serves waiters in any     *)
(* order); a pymodbus request or connection attempt ends within its        *)
(* timeout; sleeps end.  Nothing is assumed of callers, peers and the      *)
(* watchdog.                                                               *)
(***************************************************************************)
TaskFairness(t) ==
    /\ SF_vars(GrantConnectLock(t))
    /\ SF_vars(GrantRequestLock(t))
    /\ WF_vars(EndSpacing(t))
    /\ WF_vars(ConnectReturned(t) \/ ConnectRaised(t))
    /\ WF_vars(Outcome(t))
    /\ WF_vars(WriterStep(t))

Fairness == WF_vars(Elapse) /\ \A t \in Tasks : TaskFairness(t)

FairSpec == Spec /\ Fairness

-----------------------------------------------------------------------------
(***************************************************************************)
(* Properties.                                                             *)
(***************************************************************************)

\* The poll_lock of a link is taken around every connection attempt and every
\* frame of all its slaves: no two tasks are ever between taking the lock and
\* letting it go on the same client, and a cancelled task leaves no lock behind.
OneTaskOnTheLink ==
    /\ \A t \in Tasks : pc[t] \in Holding => holder[ClientOf(t)] = t
    /\ \A cl \in Clients : holder[cl] # NoTask =>
          pc[holder[cl]] \in Holding /\ ClientOf(holder[cl]) = cl

\* ref_count is the number of controllers constructed and not yet closed, all
\* of them hold the entry's client, and the entry goes with the last of them.
RefCountIsExact ==
    /\ refCount = Cardinality(Active)
    /\ entry = NoClient <=> Active = {}
    /\ \A c \in Active : clientOf[c] = entry

\* A client the registry no longer holds is closed (and not about to be
\* re-opened by pymodbus), except while the connection attempt of a closed
\* controller still runs, which closes it on return (issue: leaked sockets
\* after a reload during a reconnect).
ReleasedClientIsClosed ==
    \A cl \in Clients \ {entry} : link[cl] # "closed" =>
        \E t \in Tasks : /\ pc[t] = "established"
                         /\ ClientOf(t) = cl
                         /\ life[Owner(t)] = "closed"

\* A controller that was closed starts no connection attempt, whether it was
\* closed before its task asked for the lock or while it waited for it.
ClosedNeverConnects ==
    [][\A t \in Tasks : pc[t] # "connecting" /\ pc'[t] = "connecting" =>
           life[Owner(t)] = "active"]_vars

\* A controller that goes away (close_connection, or the end of an attempt that
\* outlived its controller) leaves the link of the remaining controllers alone.
SharedClientSurvives ==
    [][\A c \in Controllers :
          (\/ life[c] = "active" /\ life'[c] = "closed"
           \/ \E t \in Tasks : /\ Owner(t) = c /\ life[c] = "closed"
                               /\ pc[t] = "established" /\ pc'[t] = "idle")
          => \A d \in Active \ {c} : link'[clientOf[d]] = link[clientOf[d]]]_vars

\* The queued writes of one inverter reach it in the order they were queued: an
\* older write never overwrites a newer one, whatever was lost, broken or
\* cancelled in between.
LastWriteWins ==
    [][\A c \in Controllers : device'[c] >= device[c]]_vars

\* The documented inter-frame interval: no request of any controller goes out within
\* MIN_INTER_FRAME_MS of the one before, as long as the entry of the registry lives.
FramesSpaced ==
    [][\A t \in Tasks : pc[t] # "request" /\ pc'[t] = "request" => ~wire]_vars

\* While its controller lives, a queued write is not acknowledged without having
\* been sent: the reason process_write_queue gives for waiting on the link before
\* it processes a write.
NoSilentDrop == \A c \in Active : dropped[c] = {}

\* Whoever waits for the lock of the link gets it or gives up: no task keeps
\* the lock for ever and no set of tasks waits for one another.
EveryWaitEnds ==
    \A t \in Tasks : pc[t] \in Waiting ~> pc[t] \notin Waiting

\* If from some time on the writer runs and the link is up, all queued writes
\* are done.
WritesAreDone ==
    \A c \in Controllers :
        <>[](pc[<<c, Writer>>] \notin {"off", "cancelled"} /\ Connected(clientOf[c]))
        => <>[](pending[c] = <<>>)

\* A client that was opened after its last controller let go of it is closed
\* in the end.
OrphansAreClosed ==
    \A cl \in Clients : (cl # entry /\ link[cl] # "closed") ~> link[cl] = "closed"

\* The controllers implement the promise of module RegisterWrites: a write is
\* finished when the writer acknowledges it (task_done).
Writes == INSTANCE RegisterWrites
          WITH queued <- puts,
               finished <- [c \in Controllers |-> puts[c] - Len(pending[c])]

\* Every queued write is finished once, in the order of the queue, and reaches the
\* inverter only at that moment, whatever becomes of the link, the lock, the
\* controller and the writer's task.
WritesImplemented == Writes!Spec
-----------------------------------------------------------------------------
(***************************************************************************)
(* The inductive invariant behind the safety properties.                   *)
(***************************************************************************)

\* A controller has a client from its construction on, one the registry made;
\* before that no task of it runs.
ObjectInv ==
    /\ entry # NoClient => entry \in made
    /\ \A c \in Controllers :
          /\ life[c] = "new" <=> clientOf[c] = NoClient
          /\ clientOf[c] # NoClient => clientOf[c] \in made
    /\ \A t \in Tasks : life[Owner(t)] = "new" => pc[t] \in {"idle", "off"}

\* The unfinished writes are the last ones queued, in order; the writer has one
\* in hand wherever it is not waiting for the next; the inverter has applied
\* finished ones only.
QueueInv ==
    /\ \A c \in Controllers :
          /\ Len(pending[c]) <= puts[c]
          /\ \A i \in 1..Len(pending[c]) :
                pending[c][i] = puts[c] - Len(pending[c]) + i
          /\ device[c] <= puts[c] - Len(pending[c])
    /\ \A t \in Tasks :
          IsWriter(t) /\ pc[t] \in {"waitLink", "reqLock"} \cup Framing
          => pending[Owner(t)] # <<>>

\* No client that was never made is open.
UnmadeInv == \A cl \in Clients \ made : link[cl] = "closed"

\* A frame that went out less than the interval ago is stamped in the entry, and who
\* has slept the interval out finds no such frame: it kept the lock meanwhile.
SpacingInv ==
    /\ wire /\ entry # NoClient => stamped
    /\ \A t \in Tasks : pc[t] = "spaced" /\ ClientOf(t) = entry => ~wire

IndInv ==
    /\ TypeOK
    /\ ObjectInv
    /\ RefCountIsExact
    /\ OneTaskOnTheLink
    /\ UnmadeInv
    /\ ReleasedClientIsClosed
    /\ QueueInv
=============================================================================
