---------------------- MODULE ModbusController_proofs ----------------------
(***************************************************************************)
(* Proofs about module ModbusController, for any sets of controllers,      *)
(* callers and clients, any number of queued writes and both connection    *)
(* types.                                                                  *)
(***************************************************************************)
EXTENDS ModbusController, TLAPS, FiniteSetTheorems, SequenceTheorems

-----------------------------------------------------------------------------
\* A task belongs to one controller, and a controller has one writer task.
LEMMA TaskOwner ==
    /\ \A t \in Tasks : Owner(t) \in Controllers
    /\ \A t, u \in Tasks : IsWriter(t) /\ IsWriter(u) /\ Owner(t) = Owner(u) => t = u
BY DEF Tasks, Owner, IsWriter

\* A task that is not at rest has a client of the registry's making.
LEMMA TaskClient ==
    ASSUME TypeOK, ObjectInv, NEW t \in Tasks, life[Owner(t)] # "new"
    PROVE  ClientOf(t) \in Clients /\ ClientOf(t) \in made
BY TaskOwner, ClientAssumption DEF TypeOK, ManagerTypeOK, ObjectInv, ClientOf

-----------------------------------------------------------------------------
(***************************************************************************)
(* What the composite steps do to the places of the tasks, the lock and    *)
(* the queue.                                                              *)
(***************************************************************************)
\* Task t moves to place p; it holds the lock there or not, and nobody else is
\* touched.
Moves(t, p) ==
    /\ pc' = [pc EXCEPT ![t] = p]
    /\ holder' = IF p \in Holding
                 THEN [holder EXCEPT ![ClientOf(t)] = t]
                 ELSE Released(t)

Rest(t) == IF IsWriter(t) THEN "get" ELSE "idle"

\* The write in hand is given up.
Drops(t) ==
    dropped' = [dropped EXCEPT ![Owner(t)] = @ \cup {Head(pending[Owner(t)])}]

\* A frame begins, waits for its turn, or ends unsent.
FrameMove(t) ==
    /\ op' \in {op, [op EXCEPT ![t] = "none"]}
    /\ stamped' \in BOOLEAN
    /\ wire' \in {wire, TRUE}
    /\ \/ \E p \in {"reqLock", "spacing", "request"} :
             /\ Moves(t, p)
             /\ p \in Holding => holder[ClientOf(t)] \in {NoTask, t}
             /\ UNCHANGED <<pending, dropped>>
       \/ /\ Moves(t, Rest(t))
          /\ TaskDone(t)
          /\ dropped' = dropped \/ (IsWriter(t) /\ Drops(t))

LEMMA EnterFrameMoves ==
    ASSUME TypeOK, NEW t \in Tasks, EnterFrame(t), holder[ClientOf(t)] \in {NoTask, t}
    PROVE  FrameMove(t)
<1>1. CASE MustSpace
  BY <1>1, TaskOwner DEF EnterFrame, FrameMove, Moves, Holding, Framing, TypeOK, ManagerTypeOK
<1>2. CASE ~MustSpace
  <2>1. Issue(t) BY <1>2 DEF EnterFrame
  <2>2. stamped' \in BOOLEAN BY <2>1 DEF Issue, Stamp, TypeOK, ManagerTypeOK
  <2>3. CASE SendFrame(t)
    BY <2>2, <2>3 DEF SendFrame, FrameMove, Moves, Holding, Framing
  <2>4. CASE FrameNotSent(t)
    BY <2>2, <2>4, TaskOwner DEF FrameNotSent, Drops, FrameMove, Moves, Return, Rest, Holding,
       Framing, Opening, TypeOK
  <2>. QED BY <2>1, <2>3, <2>4 DEF Issue
<1>. QED BY <1>1, <1>2

LEMMA AcquireMoves ==
    ASSUME TypeOK, NEW t \in Tasks, AcquireForFrame(t)
    PROVE  FrameMove(t)
BY EnterFrameMoves DEF AcquireForFrame, FreeFor, FrameMove, Moves, Holding, Framing, Opening,
   TypeOK, ManagerTypeOK

\* The places a task can be in.
Places(t) == IF IsWriter(t) THEN WriterPlaces ELSE CallerPlaces

\* A step of task t: t moves to one of its places, and to a place where it holds
\* the lock only from one where the lock was free or its own.
TaskMove(t) ==
    /\ \E p \in Places(t) :
          /\ Moves(t, p)
          /\ p \in Holding => holder[ClientOf(t)] \in {NoTask, t}
    /\ life[Owner(t)] # "new"
    /\ UNCHANGED <<entry, refCount, life, clientOf, made>>

\* Task t moves to place p.
LEMMA MoveTo ==
    ASSUME NEW t \in Tasks, NEW p \in Places(t), Moves(t, p),
           p \in Holding => holder[ClientOf(t)] \in {NoTask, t},
           life[Owner(t)] # "new",
           UNCHANGED <<entry, refCount, life, clientOf, made>>
    PROVE  TaskMove(t)
BY DEF TaskMove

\* Places of the writer and of the callers.
LEMMA PlaceNames ==
    ASSUME NEW t \in Tasks
    PROVE  /\ {"reqLock", "spacing", "request"} \subseteq Places(t)
           /\ Rest(t) \in Places(t) /\ Rest(t) \notin Holding
           /\ IsWriter(t) => {"get", "waitLink", "cancelled"} \subseteq Places(t)
           /\ ~IsWriter(t) => {"idle", "connLock"} \cup Opening \subseteq Places(t)
BY DEF Places, CallerPlaces, WriterPlaces, Rest, Waiting, Holding, Framing, Opening

\* A task that begins a frame, waits for its turn or ends moves to one of its places.
LEMMA FrameMovePlaces ==
    ASSUME TypeOK, NEW t \in Tasks, FrameMove(t), life[Owner(t)] # "new",
           UNCHANGED <<entry, refCount, life, clientOf, made>>
    PROVE  TaskMove(t)
<1>1. CASE Moves(t, Rest(t))
  BY <1>1, PlaceNames, MoveTo
<1>2. CASE \E p \in {"reqLock", "spacing", "request"} :
             Moves(t, p) /\ (p \in Holding => holder[ClientOf(t)] \in {NoTask, t})
  BY <1>2, PlaceNames, MoveTo
<1>. QED BY <1>1, <1>2 DEF FrameMove

\* A method that ends lets go of the lock and rests.
LEMMA ReturnMoves ==
    ASSUME TypeOK, NEW t \in Tasks, Return(t), life[Owner(t)] # "new",
           UNCHANGED <<entry, refCount, life, clientOf, made>>
    PROVE  TaskMove(t)
<1>1. Moves(t, Rest(t))
  BY PlaceNames DEF Return, Moves, Rest
<1>. QED BY <1>1, PlaceNames, MoveTo

\* connect() found the link up: a reader goes on to its frame, connect() itself ends.
LEMMA ConnectedMoves ==
    ASSUME TypeOK, NEW t \in Tasks, ConnectReturnsTrue(t), life[Owner(t)] # "new",
           UNCHANGED <<entry, refCount, life, clientOf, made>>
    PROVE  TaskMove(t)
BY ReturnMoves, AcquireMoves, FrameMovePlaces DEF ConnectReturnsTrue

\* Every step of a task moves it and the lock only.
LEMMA TaskStepMoves ==
    ASSUME TypeOK, ObjectInv, OneTaskOnTheLink, NEW t \in Tasks, TaskStep(t)
    PROVE  TaskMove(t)
<1> DEFINE same == UNCHANGED <<entry, refCount, life, clientOf, made>>
<1> USE DEF objectVars
<1>0. /\ Owner(t) \in Controllers
      /\ pc[t] \notin {"idle", "off"} => life[Owner(t)] # "new"
      /\ life[Owner(t)] # "new" => ClientOf(t) \in Clients
      /\ pc[t] \in Holding => holder[ClientOf(t)] = t
      /\ \A cl \in Clients : holder[cl] = t => pc[t] \in Holding /\ ClientOf(t) = cl
      /\ pc[t] \in Places(t)
      /\ NoTask \notin Tasks
  BY TaskOwner, TaskClient, ControllerAssumption DEF ObjectInv, OneTaskOnTheLink, TypeOK, Places
<1>1. CASE BeginRead(t)
  BY <1>0, <1>1, AcquireMoves, FrameMovePlaces DEF BeginRead
<1>2. ASSUME NEW o \in Ops, BeginConnect(t, o) PROVE TaskMove(t)
  BY <1>0, <1>2 DEF BeginConnect, AcquireForConnect, FreeFor, TaskMove, Moves, Places, Released,
     CallerPlaces, Waiting, Holding, Opening, Framing, TypeOK
<1>3. CASE BeginRawRead(t)
  BY <1>0, <1>3, AcquireMoves, FrameMovePlaces DEF BeginRawRead
<1>4. CASE GrantConnectLock(t)
  <2>0. /\ same
        /\ life[Owner(t)] # "new"
        /\ ~IsWriter(t)
    BY <1>0, <1>4 DEF GrantConnectLock, Places, WriterPlaces, Framing
  <2>1. CASE ConnectReturnsFalse(t)
    BY <2>0, <2>1, ReturnMoves DEF ConnectReturnsFalse
  <2>2. CASE ConnectReturnsTrue(t)
    BY <2>0, <2>2, ConnectedMoves
  <2>3. CASE /\ pc' = [pc EXCEPT ![t] = "connecting"]
             /\ holder' = [holder EXCEPT ![ClientOf(t)] = t]
    BY <1>4, <2>0, <2>3 DEF GrantConnectLock, TaskMove, Moves, Places, CallerPlaces, Holding,
       Opening
  <2>. QED BY <1>4, <2>1, <2>2, <2>3 DEF GrantConnectLock
<1>5. CASE GrantRequestLock(t)
  BY <1>0, <1>5, EnterFrameMoves, FrameMovePlaces DEF GrantRequestLock
<1>6. CASE EndSpacing(t)
  <2>0. same /\ life[Owner(t)] # "new" /\ holder[ClientOf(t)] = t
    BY <1>0, <1>6 DEF EndSpacing, Holding, Framing
  <2>1. CASE SendFrame(t)
    BY <2>0, <2>1 DEF SendFrame, TaskMove, Moves, Places, CallerPlaces, WriterPlaces, Holding,
       Framing
  <2>2. CASE FrameNotSent(t)
    BY <2>0, <2>2, ReturnMoves DEF FrameNotSent
  <2>. QED BY <1>6, <2>1, <2>2 DEF EndSpacing, Issue
<1>7. CASE Establish(t)
  BY <1>0, <1>7 DEF Establish, TaskMove, Moves, Places, CallerPlaces, WriterPlaces, Holding,
     Opening, Framing, Waiting, TypeOK
<1>8. CASE ConnectReturned(t)
  <2>0. same /\ life[Owner(t)] # "new"
    BY <1>0, <1>8 DEF ConnectReturned, Opening
  <2>1. CASE ConnectReturnsFalse(t)
    BY <2>0, <2>1, ReturnMoves DEF ConnectReturnsFalse
  <2>2. CASE ConnectReturnsTrue(t)
    BY <2>0, <2>2, ConnectedMoves
  <2>. QED BY <1>8, <2>1, <2>2 DEF ConnectReturned
<1>9. CASE ConnectRaised(t)
  BY <1>0, <1>9, ReturnMoves DEF ConnectRaised, ConnectReturnsFalse
<1>10. CASE StartWriter(t)
  <2>1. Released(t) = holder
    BY <1>0, <1>10 DEF StartWriter, Released, Holding, Opening, Framing, TypeOK
  <2>. QED BY <1>0, <1>10, <2>1 DEF StartWriter, TaskMove, Moves, Places, WriterPlaces, Holding,
       Opening, Framing
<1>11. CASE TakeWrite(t)
  <2>0. same /\ life[Owner(t)] # "new" /\ IsWriter(t)
    BY <1>0, <1>11 DEF TakeWrite
  <2>1. CASE AcquireForFrame(t)
    BY <2>0, <2>1, AcquireMoves, FrameMovePlaces
  <2>2. CASE pc' = [pc EXCEPT ![t] = "waitLink"] /\ UNCHANGED holder
    <3>1. Released(t) = holder
      BY <1>0, <1>11 DEF TakeWrite, Released, Holding, Opening, Framing, TypeOK
    <3>2. "waitLink" \in Places(t) /\ "waitLink" \notin Holding
      BY <2>0, PlaceNames DEF Holding, Opening, Framing
    <3>3. Moves(t, "waitLink")
      BY <2>2, <3>1, <3>2 DEF Moves
    <3>. QED BY <2>0, <3>2, <3>3, MoveTo
  <2>. QED BY <1>11, <2>1, <2>2 DEF TakeWrite
<1>12. CASE LinkIsBack(t)
  BY <1>0, <1>12, AcquireMoves, FrameMovePlaces DEF LinkIsBack
<1>13. CASE Outcome(t)
  BY <1>0, <1>13, ReturnMoves DEF Outcome, Answer, Refuse, FrameRaises, EndFrame
<1>14. CASE Cancel(t)
  <2> DEFINE p == IF IsWriter(t) THEN "cancelled" ELSE "idle"
  <2>0. same /\ life[Owner(t)] # "new"
    BY <1>0, <1>14 DEF Cancel
  <2>1. p \in Places(t) /\ p \notin Holding
    BY PlaceNames DEF Holding, Opening, Framing
  <2>2. Moves(t, p)
    BY <1>14, <2>1 DEF Cancel, Moves
  <2>. QED BY <2>0, <2>1, <2>2, MoveTo
<1>. QED BY <1>1, <1>2, <1>3, <1>4, <1>5, <1>6, <1>7, <1>8, <1>9, <1>10, <1>11, <1>12,
     <1>13, <1>14 DEF TaskStep, Begin, Attempt, WriterStep

-----------------------------------------------------------------------------
(***************************************************************************)
(* The lock.                                                               *)
(***************************************************************************)
\* A step that is no task's leaves the lock alone; it breaks requests in flight
\* or ends waits for the interval, and no more.
EnvMove ==
    /\ holder' = holder
    /\ pc' \in [Tasks -> CallerPlaces \cup WriterPlaces]
    /\ \A u \in Tasks : \/ pc'[u] = pc[u]
                        \/ pc[u] = "request" /\ pc'[u] = "broken"
                        \/ pc[u] = "spacing" /\ pc'[u] = "spaced"

EnvStep ==
    \/ \E c \in Controllers : ControllerStep(c)
    \/ \E cl \in Clients : LinkLost(cl) \/ AutoReconnect(cl)
    \/ Elapse

\* What breaks requests is such a step.
LEMMA BreakFrameMoves ==
    ASSUME TypeOK, NEW cl, BreakFrame(cl), holder' = holder
    PROVE  EnvMove
BY DEF BreakFrame, EnvMove, TypeOK, WriterPlaces, Framing

\* The steps of the environment and of the controllers' life cycle.
LEMMA EnvStepMoves ==
    ASSUME TypeOK, EnvStep
    PROVE  EnvMove
<1>0. UNCHANGED <<pc, holder>> => EnvMove
  BY DEF EnvMove, TypeOK
<1>1. ASSUME NEW c \in Controllers, ControllerStep(c) PROVE EnvMove
  BY <1>0, <1>1, BreakFrameMoves DEF ControllerStep, Create, CloseConnection, ForceClose, PutWrite
<1>2. ASSUME NEW cl \in Clients, LinkLost(cl) \/ AutoReconnect(cl) PROVE EnvMove
  BY <1>0, <1>2, BreakFrameMoves DEF LinkLost, AutoReconnect
<1>3. CASE Elapse
  BY <1>3 DEF Elapse, EnvMove, TypeOK, WriterPlaces, Framing
<1>. QED BY <1>1, <1>2, <1>3 DEF EnvStep

\* Such a step changes none of the distinctions the invariants draw.
LEMMA EnvPlaces ==
    ASSUME TypeOK, EnvMove, NEW u \in Tasks
    PROVE  /\ pc'[u] \in Places(u)
           /\ pc'[u] \in Holding <=> pc[u] \in Holding
           /\ pc'[u] \in {"idle", "off"} <=> pc[u] \in {"idle", "off"}
           /\ pc'[u] = "established" <=> pc[u] = "established"
           /\ pc'[u] = "waitLink" <=> pc[u] = "waitLink"
           /\ pc'[u] = "reqLock" <=> pc[u] = "reqLock"
           /\ pc'[u] \in Framing <=> pc[u] \in Framing
<1>1. pc[u] \in Places(u)
  BY DEF TypeOK, Places
<1>. QED BY <1>1 DEF EnvMove, Places, CallerPlaces, WriterPlaces, Holding, Framing, Opening

\* A task at work belongs to a controller with a client, whose client stays.
LEMMA ClientStays ==
    ASSUME TypeOK, ObjectInv, EnvStep, NEW u \in Tasks, life[Owner(u)] # "new"
    PROVE  ClientOf(u)' = ClientOf(u) /\ life'[Owner(u)] # "new"
BY TaskOwner DEF TypeOK, EnvStep, ControllerStep, Create, CloseConnection, ForceClose, PutWrite,
   LinkLost, AutoReconnect, Elapse, ClientOf, objectVars

\* The lock is kept by one task at a time, whatever task moves ...
LEMMA LockTaskStep ==
    ASSUME TypeOK, ObjectInv, OneTaskOnTheLink, NEW t \in Tasks, TaskMove(t)
    PROVE  OneTaskOnTheLink'
<1>1. PICK p \in Places(t) :
        Moves(t, p) /\ (p \in Holding => holder[ClientOf(t)] \in {NoTask, t})
  BY DEF TaskMove
<1>2. /\ ClientOf(t) \in Clients
      /\ \A u \in Tasks : ClientOf(u)' = ClientOf(u)
      /\ NoTask \notin Tasks
  BY TaskClient, ControllerAssumption DEF TaskMove, ClientOf
<1>3. /\ pc'[t] = p
      /\ \A u \in Tasks \ {t} : pc'[u] = pc[u]
      /\ \A cl \in Clients \ {ClientOf(t)} : holder'[cl] = holder[cl]
      /\ holder'[ClientOf(t)] = IF p \in Holding THEN t
                               ELSE IF holder[ClientOf(t)] = t THEN NoTask
                               ELSE holder[ClientOf(t)]
  BY <1>1, <1>2 DEF Moves, Released, TypeOK
<1>4. \A u \in Tasks : pc[u] \in Holding => life[Owner(u)] # "new"
  BY DEF ObjectInv, Holding, Opening, Framing
<1>5. ASSUME NEW u \in Tasks, pc'[u] \in Holding PROVE holder'[ClientOf(u)] = u
  <2>1. CASE u = t
    BY <1>3, <1>5, <2>1
  <2>2. CASE u # t
    <3>1. pc[u] \in Holding /\ holder[ClientOf(u)] = u
      BY <1>3, <1>5, <2>2 DEF OneTaskOnTheLink
    <3>2. ClientOf(u) \in Clients
      BY <1>4, <3>1, TaskClient
    <3>. QED BY <1>1, <1>2, <1>3, <2>2, <3>1, <3>2
  <2>. QED BY <2>1, <2>2
<1>6. ASSUME NEW cl \in Clients, holder'[cl] # NoTask
      PROVE  pc'[holder'[cl]] \in Holding /\ ClientOf(holder'[cl]) = cl
  <2>1. CASE holder'[cl] = t
    <3>1. cl = ClientOf(t) /\ p \in Holding
      BY <1>1, <1>2, <1>3, <1>6, <2>1 DEF OneTaskOnTheLink
    <3>. QED BY <1>3, <2>1, <3>1
  <2>2. CASE holder'[cl] # t
    <3>1. holder'[cl] = holder[cl] /\ holder[cl] \in Tasks \ {t}
      BY <1>2, <1>3, <1>6, <2>2 DEF TypeOK
    <3>. QED BY <1>3, <1>6, <3>1 DEF OneTaskOnTheLink
  <2>. QED BY <2>1, <2>2
<1>7. \A cl \in Clients : holder'[cl] # NoTask => holder'[cl] \in Tasks
  BY <1>2, <1>3 DEF TypeOK
<1>. QED BY <1>2, <1>5, <1>6, <1>7 DEF OneTaskOnTheLink, ClientOf, TaskMove

\* ... and whatever else happens.
LEMMA LockEnvStep ==
    ASSUME TypeOK, ObjectInv, OneTaskOnTheLink, EnvStep
    PROVE  OneTaskOnTheLink'
<1>1. EnvMove BY EnvStepMoves
<1>2. \A u \in Tasks : pc[u] \in Holding => ClientOf(u)' = ClientOf(u)
  BY ClientStays DEF ObjectInv, Holding, Opening, Framing
<1>3. \A u \in Tasks : pc'[u] \in Holding <=> pc[u] \in Holding
  BY <1>1, EnvPlaces
<1>4. ASSUME NEW u \in Tasks, pc'[u] \in Holding PROVE holder'[ClientOf(u)'] = u
  BY <1>1, <1>2, <1>3, <1>4 DEF OneTaskOnTheLink, EnvMove
<1>5. ASSUME NEW cl \in Clients, holder'[cl] # NoTask
      PROVE  pc'[holder'[cl]] \in Holding /\ clientOf'[Owner(holder'[cl])] = cl
  <2>1. holder'[cl] = holder[cl] /\ holder[cl] \in Tasks
    BY <1>1, <1>5 DEF EnvMove, TypeOK
  <2>2. pc[holder[cl]] \in Holding /\ ClientOf(holder[cl]) = cl
    BY <1>5, <2>1 DEF OneTaskOnTheLink
  <2>. QED BY <1>2, <1>3, <2>1, <2>2 DEF ClientOf
<1>. QED BY <1>4, <1>5 DEF OneTaskOnTheLink, ClientOf

-----------------------------------------------------------------------------
(***************************************************************************)
(* What the steps of a task do to the data: the queue, the transport and   *)
(* the rest, of which only the types matter.                               *)
(***************************************************************************)
\* The places where the writer has a write in hand.
InHand == {"waitLink", "reqLock"} \cup Framing

\* The queue is left alone, or the writer is done with its first write.
QueueMove(t) ==
    \/ /\ UNCHANGED <<pending, device, dropped>>
       /\ IsWriter(t) /\ pc'[t] \in InHand => pending[Owner(t)] # <<>>
    \/ /\ IsWriter(t) /\ pending[Owner(t)] # <<>> /\ pc'[t] \notin InHand
       /\ TaskDone(t)
       /\ Applied(t) \/ UNCHANGED device
       /\ Drops(t) \/ UNCHANGED dropped

\* The transport is left alone, closed, or brought up by the attempt of t.  When
\* the attempt of a closed controller ends, a client nobody holds is closed.
LinkMove(t) ==
    \/ /\ link' = link
       /\ ~(/\ pc[t] = "established" /\ life[Owner(t)] = "closed"
            /\ ClientOf(t) # entry)
    \/ link' = [link EXCEPT ![ClientOf(t)] = "closed"]
    \/ link' = [link EXCEPT ![ClientOf(t)] = "open"] /\ pc'[t] = "established"

PlainMove ==
    /\ puts' = puts
    /\ failures' \in [Controllers -> Nat]
    /\ op' \in [Tasks -> Ops]
    /\ stamped' \in BOOLEAN
    /\ wire' \in BOOLEAN

\* The writer has a write in hand where it should.
LEMMA WriteInHand ==
    ASSUME QueueInv, NEW t \in Tasks, IsWriter(t), pc[t] \in InHand
    PROVE  pending[Owner(t)] # <<>>
BY DEF QueueInv, InHand

\* The place of a task that rests is not one with a write in hand.
LEMMA RestPlace ==
    ASSUME TypeOK, NEW t \in Tasks, Return(t)
    PROVE  pc'[t] \notin InHand
BY DEF Return, TypeOK, InHand, Framing

\* A frame that begins, waits or ends unsent, seen from the queue.
LEMMA FrameQueue ==
    ASSUME TypeOK, NEW t \in Tasks, FrameMove(t), UNCHANGED device,
           IsWriter(t) => pending[Owner(t)] # <<>>
    PROVE  QueueMove(t)
<1>1. CASE UNCHANGED <<pending, dropped>>
  BY <1>1 DEF QueueMove
<1>2. CASE /\ Moves(t, Rest(t))
           /\ TaskDone(t)
           /\ dropped' = dropped \/ (IsWriter(t) /\ Drops(t))
  <2>1. pc'[t] \notin InHand
    BY <1>2 DEF Moves, Rest, TypeOK, InHand, Framing
  <2>. QED BY <1>2, <2>1 DEF QueueMove, TaskDone
<1>. QED BY <1>1, <1>2 DEF FrameMove

\* A method that ends, seen from the queue.
LEMMA ReturnQueue ==
    ASSUME TypeOK, NEW t \in Tasks, Return(t), UNCHANGED <<pending, device, dropped>>
    PROVE  QueueMove(t)
BY RestPlace DEF QueueMove

\* A request that ends, seen from the queue.
LEMMA OutcomeQueue ==
    ASSUME TypeOK, QueueInv, NEW t \in Tasks, pc[t] \in InHand, Return(t), TaskDone(t),
           Applied(t) \/ UNCHANGED device, UNCHANGED dropped
    PROVE  QueueMove(t)
<1>1. CASE IsWriter(t)
  BY <1>1, RestPlace, WriteInHand DEF QueueMove
<1>2. CASE ~IsWriter(t)
  BY <1>2 DEF QueueMove, TaskDone, Applied
<1>. QED BY <1>1, <1>2

\* The writer is at one of its places, a caller at one of its own.
LEMMA PlaceKinds ==
    ASSUME TypeOK, NEW t \in Tasks
    PROVE  /\ pc[t] \in {"connLock"} \cup Opening => ~IsWriter(t)
           /\ IsWriter(t) => pc[t] \in {"off", "get", "cancelled"} \cup InHand
BY DEF TypeOK, WriterPlaces, Opening, Framing, InHand

\* Every step of a task leaves the queue alone, or is the end of one write.
LEMMA TaskStepQueue ==
    ASSUME TypeOK, QueueInv, NEW t \in Tasks, TaskStep(t)
    PROVE  QueueMove(t)
<1> USE DEF writeVars
<1>1. CASE Begin(t)
  <2>1. CASE AcquireForFrame(t) /\ ~IsWriter(t) /\ UNCHANGED device
    BY <2>1, AcquireMoves, FrameQueue
  <2>2. CASE ~IsWriter(t) /\ UNCHANGED writeVars
    BY <2>2 DEF QueueMove
  <2>. QED BY <1>1, <2>1, <2>2 DEF Begin, BeginRead, BeginConnect, BeginRawRead
<1>2. ASSUME pc[t] \in {"connLock"} \cup Opening, UNCHANGED device,
             ConnectReturnsTrue(t) \/ ConnectReturnsFalse(t)
      PROVE  QueueMove(t)
  <2>1. CASE AcquireForFrame(t)
    BY <1>2, <2>1, AcquireMoves, FrameQueue, PlaceKinds
  <2>2. CASE UNCHANGED <<pending, dropped>>
    BY <1>2, <2>2, PlaceKinds DEF QueueMove, ConnectReturnsTrue, ConnectReturnsFalse
  <2>. QED BY <1>2, <2>1, <2>2 DEF ConnectReturnsTrue, ConnectReturnsFalse
<1>3. CASE GrantConnectLock(t)
  <2>1. CASE ConnectReturnsTrue(t) \/ ConnectReturnsFalse(t)
    BY <1>2, <1>3, <2>1 DEF GrantConnectLock
  <2>2. CASE UNCHANGED <<pending, dropped>>
    BY <1>3, <2>2, PlaceKinds DEF GrantConnectLock, QueueMove
  <2>. QED BY <1>3, <2>1, <2>2 DEF GrantConnectLock
<1>4. CASE GrantRequestLock(t)
  <2>1. pc[t] \in InHand
    BY <1>4 DEF GrantRequestLock, InHand
  <2>. QED BY <1>4, <2>1, EnterFrameMoves, FrameQueue, WriteInHand DEF GrantRequestLock
<1>5. CASE EndSpacing(t)
  <2>1. pc[t] \in InHand
    BY <1>5 DEF EndSpacing, InHand, Framing
  <2>2. CASE SendFrame(t)
    BY <1>5, <2>1, <2>2, WriteInHand DEF EndSpacing, SendFrame, QueueMove
  <2>3. CASE FrameNotSent(t)
    <3>1. CASE IsWriter(t)
      BY <1>5, <2>1, <2>3, <3>1, RestPlace, WriteInHand DEF EndSpacing, FrameNotSent, QueueMove,
         Drops
    <3>2. CASE ~IsWriter(t)
      BY <1>5, <2>3, <3>2 DEF EndSpacing, FrameNotSent, QueueMove, TaskDone
    <3>. QED BY <3>1, <3>2
  <2>. QED BY <1>5, <2>2, <2>3 DEF EndSpacing, Issue
<1>6. CASE Attempt(t)
  <2>1. CASE Establish(t)
    BY <2>1, PlaceKinds DEF Establish, QueueMove, Opening
  <2>2. CASE ConnectReturned(t)
    BY <1>2, <2>2 DEF ConnectReturned
  <2>3. CASE ConnectRaised(t)
    BY <1>2, <2>3 DEF ConnectRaised, Opening
  <2>. QED BY <1>6, <2>1, <2>2, <2>3 DEF Attempt
<1>7. CASE StartWriter(t)
  BY <1>7 DEF StartWriter, QueueMove, InHand, Framing, TypeOK
<1>8. CASE WriterStep(t)
  <2>1. IsWriter(t) /\ pending[Owner(t)] # <<>> /\ UNCHANGED device
    <3>1. CASE TakeWrite(t)
      BY <3>1 DEF TakeWrite
    <3>2. CASE LinkIsBack(t)
      <4>1. pc[t] \in InHand /\ IsWriter(t)
        BY <3>2 DEF LinkIsBack, InHand, TypeOK, CallerPlaces, Waiting, Holding, Opening, Framing
      <4>. QED BY <3>2, <4>1, WriteInHand DEF LinkIsBack
    <3>. QED BY <1>8, <3>1, <3>2 DEF WriterStep
  <2>2. CASE AcquireForFrame(t)
    BY <2>1, <2>2, AcquireMoves, FrameQueue
  <2>3. CASE UNCHANGED <<pending, dropped>>
    BY <2>1, <2>3 DEF QueueMove
  <2>. QED BY <1>8, <2>2, <2>3 DEF WriterStep, TakeWrite, LinkIsBack
<1>9. CASE Outcome(t)
  <2>1. pc[t] \in InHand
    BY <1>9 DEF Outcome, Answer, Refuse, FrameRaises, InHand, Framing
  <2>. QED BY <1>9, <2>1, OutcomeQueue DEF Outcome, Answer, Refuse, FrameRaises, EndFrame
<1>10. CASE Cancel(t)
  <2>1. pc'[t] \notin InHand
    BY <1>10 DEF Cancel, TypeOK, InHand, Framing
  <2>2. CASE ~IsWriter(t)
    BY <1>10, <2>2 DEF Cancel, QueueMove, TaskDone, Applied
  <2>3. CASE IsWriter(t) /\ pc[t] = "get"
    BY <1>10, <2>1, <2>3 DEF Cancel, QueueMove
  <2>4. CASE IsWriter(t) /\ pc[t] # "get"
    <3>1. pending[Owner(t)] # <<>>
      BY <1>10, <2>4, PlaceKinds, WriteInHand DEF Cancel
    <3>. QED BY <1>10, <2>1, <2>4, <3>1 DEF Cancel, QueueMove
  <2>. QED BY <2>2, <2>3, <2>4
<1>. QED BY <1>1, <1>3, <1>4, <1>5, <1>6, <1>7, <1>8, <1>9, <1>10 DEF TaskStep

\* A frame that begins keeps the types of the plain data.
LEMMA FramePlain ==
    ASSUME TypeOK, NEW t \in Tasks, FrameMove(t)
    PROVE  op' \in [Tasks -> Ops] /\ stamped' \in BOOLEAN /\ wire' \in BOOLEAN
BY DEF TypeOK, FrameMove, Ops

\* The end of a method keeps the types of the plain data.
LEMMA ConnectPlain ==
    ASSUME TypeOK, NEW t \in Tasks, ConnectReturnsTrue(t) \/ ConnectReturnsFalse(t)
    PROVE  op' \in [Tasks -> Ops] /\ stamped' \in BOOLEAN /\ wire' \in BOOLEAN
<1>1. CASE AcquireForFrame(t)
  BY <1>1, AcquireMoves, FramePlain
<1>2. CASE Return(t) /\ UNCHANGED <<stamped, wire>>
  BY <1>2 DEF Return, TypeOK, ManagerTypeOK, Ops
<1>. QED BY <1>1, <1>2 DEF ConnectReturnsTrue, ConnectReturnsFalse

\* Counting failures keeps the counters numbers.
LEMMA FailuresPlain ==
    ASSUME TypeOK, NEW t \in Tasks,
           \/ UNCHANGED failures
           \/ CountFailures(Owner(t), 1)
           \/ CountFailures(Owner(t), FailuresPerAttempt)
           \/ failures' = [failures EXCEPT ![Owner(t)] = 0]
    PROVE  failures' \in [Controllers -> Nat]
<1>1. failures \in [Controllers -> Nat] /\ FailureCap \in Nat
  BY ControllerAssumption DEF TypeOK
<1>2. ASSUME NEW n \in Nat, CountFailures(Owner(t), n)
      PROVE  failures' \in [Controllers -> Nat]
  <2>1. ASSUME NEW c \in Controllers
        PROVE  (IF failures[c] + n > FailureCap THEN FailureCap ELSE failures[c] + n) \in Nat
    BY <1>1
  <2>. QED BY <1>1, <1>2, <2>1, TaskOwner DEF CountFailures
<1>3. FailuresPerAttempt \in Nat
  BY DEF FailuresPerAttempt
<1>. QED BY <1>1, <1>2, <1>3

\* Every step of a task keeps the types of the plain data.
LEMMA TaskStepPlain ==
    ASSUME TypeOK, NEW t \in Tasks, TaskStep(t)
    PROVE  PlainMove
<1> USE DEF writeVars
<1>0. op' \in [Tasks -> Ops] /\ stamped' \in BOOLEAN /\ wire' \in BOOLEAN
  <2>0. UNCHANGED <<stamped, wire>> => stamped' \in BOOLEAN /\ wire' \in BOOLEAN
    BY DEF TypeOK, ManagerTypeOK
  <2>1. (\E o \in Ops : op' = [op EXCEPT ![t] = o]) \/ UNCHANGED op => op' \in [Tasks -> Ops]
    BY DEF TypeOK
  <2>2. CASE AcquireForFrame(t)
    BY <2>2, AcquireMoves, FramePlain
  <2>3. CASE ConnectReturnsTrue(t) \/ ConnectReturnsFalse(t)
    BY <2>3, ConnectPlain
  <2>4. CASE GrantRequestLock(t)
    BY <2>4, EnterFrameMoves, FramePlain DEF GrantRequestLock
  <2>5. CASE EndSpacing(t)
    BY <2>5 DEF EndSpacing, Issue, Stamp, SendFrame, FrameNotSent, Return, TypeOK, ManagerTypeOK,
       Ops
  <2>6. CASE Return(t) /\ UNCHANGED <<stamped, wire>>
    BY <2>0, <2>1, <2>6 DEF Return, Ops
  <2>7. CASE Cancel(t)
    BY <2>0, <2>1, <2>7 DEF Cancel, Ops
  <2>8. CASE /\ (\E o \in Ops : op' = [op EXCEPT ![t] = o]) \/ UNCHANGED op
             /\ UNCHANGED <<stamped, wire>>
    BY <2>0, <2>1, <2>8
  <2>9. CASE Begin(t)
    BY <2>2, <2>8, <2>9 DEF Begin, BeginRead, BeginConnect, BeginRawRead, Ops
  <2>10. CASE GrantConnectLock(t)
    BY <2>3, <2>8, <2>10 DEF GrantConnectLock
  <2>11. CASE Attempt(t)
    BY <2>3, <2>8, <2>11 DEF Attempt, Establish, ConnectReturned, ConnectRaised
  <2>12. CASE StartWriter(t) \/ WriterStep(t)
    BY <2>2, <2>8, <2>12 DEF StartWriter, WriterStep, TakeWrite, LinkIsBack
  <2>13. CASE Outcome(t)
    BY <2>6, <2>13 DEF Outcome, Answer, Refuse, FrameRaises, EndFrame
  <2>. QED BY <2>4, <2>5, <2>7, <2>9, <2>10, <2>11, <2>12, <2>13 DEF TaskStep
<1>1. /\ puts' = puts
      /\ failures' \in [Controllers -> Nat]
  <2>1. puts' = puts
    BY DEF TaskStep, Begin, BeginRead, BeginConnect, BeginRawRead, GrantConnectLock,
       GrantRequestLock, EndSpacing, Attempt, Establish, ConnectReturned, ConnectRaised,
       StartWriter, WriterStep, TakeWrite, LinkIsBack, Outcome, Answer, Refuse, FrameRaises,
       EndFrame, Cancel
  <2>2. CASE UNCHANGED failures
    BY <2>1, <2>2 DEF TypeOK
  <2>3. CASE Attempt(t)
    BY <2>1, <2>2, <2>3, FailuresPlain DEF Attempt, Establish, ConnectReturned, ConnectRaised
  <2>. QED BY <2>1, <2>2, <2>3 DEF TaskStep, Begin, BeginRead, BeginConnect, BeginRawRead,
         GrantConnectLock, GrantRequestLock, EndSpacing, StartWriter, WriterStep, TakeWrite,
         LinkIsBack, Outcome, Answer, Refuse, FrameRaises, EndFrame, Cancel
<1>. QED BY <1>0, <1>1 DEF PlainMove

\* Every step of a task treats the transport as LinkMove says.
LEMMA TaskStepLink ==
    ASSUME TypeOK, NEW t \in Tasks, TaskStep(t)
    PROVE  LinkMove(t)
<1>1. CASE link' = link /\ pc[t] # "established"
  BY <1>1 DEF LinkMove
<1>2. CASE Establish(t)
  BY <1>2 DEF Establish, LinkMove, TypeOK
<1>3. CASE ConnectReturned(t)
  <2>1. CASE life[Owner(t)] = "closed"
    BY <1>3, <2>1 DEF ConnectReturned, CloseIfReleased, LinkMove
  <2>2. CASE life[Owner(t)] # "closed"
    BY <1>3, <2>2 DEF ConnectReturned, SafeClose, LinkMove
  <2>. QED BY <2>1, <2>2
<1>4. CASE ConnectRaised(t)
  BY <1>4 DEF ConnectRaised, SafeClose, LinkMove
<1>5. CASE Outcome(t)
  BY <1>5 DEF Outcome, Answer, Refuse, FrameRaises, SafeClose, LinkMove
<1>6. CASE Cancel(t)
  BY <1>6 DEF Cancel, LinkMove
<1>7. CASE Begin(t)
  BY <1>1, <1>7 DEF Begin, BeginRead, BeginConnect, BeginRawRead
<1>8. CASE GrantConnectLock(t) \/ GrantRequestLock(t) \/ EndSpacing(t)
  BY <1>1, <1>8 DEF GrantConnectLock, GrantRequestLock, EndSpacing
<1>9. CASE StartWriter(t) \/ WriterStep(t)
  BY <1>1, <1>9 DEF StartWriter, WriterStep, TakeWrite, LinkIsBack
<1>. QED BY <1>2, <1>3, <1>4, <1>5, <1>6, <1>7, <1>8, <1>9 DEF TaskStep, Attempt

-----------------------------------------------------------------------------
(***************************************************************************)
(* The steps of the tasks preserve the inductive invariant.                *)
(***************************************************************************)
\* What a step of task t does to the places, stated for each task.
LEMMA MovedPlaces ==
    ASSUME TypeOK, NEW t \in Tasks, TaskMove(t)
    PROVE  /\ pc' \in [Tasks -> CallerPlaces \cup WriterPlaces]
           /\ pc'[t] \in Places(t)
           /\ \A u \in Tasks \ {t} : pc'[u] = pc[u]
           /\ holder' \in [Clients -> Tasks \cup {NoTask}]
BY DEF TaskMove, Moves, Released, TypeOK, Places

\* A step of a task keeps the types.
LEMMA TypeTaskStep ==
    ASSUME TypeOK, ObjectInv, NEW t \in Tasks, TaskMove(t), QueueMove(t), LinkMove(t),
           PlainMove
    PROVE  TypeOK'
<1>1. ManagerTypeOK'
  BY TaskClient DEF TypeOK, ManagerTypeOK, TaskMove, LinkMove, PlainMove, LinkStates
<1>2. \A u \in Tasks : pc'[u] \in IF IsWriter(u) THEN WriterPlaces ELSE CallerPlaces
  BY MovedPlaces DEF TypeOK, Places
<1>3. /\ pending' \in [Controllers -> Seq(Nat)]
      /\ dropped' \in [Controllers -> SUBSET Nat]
      /\ device' \in [Controllers -> Nat]
  <2>1. CASE UNCHANGED <<pending, device, dropped>>
    BY <2>1 DEF TypeOK
  <2>2. CASE /\ IsWriter(t) /\ pending[Owner(t)] # <<>> /\ TaskDone(t)
             /\ Applied(t) \/ UNCHANGED device
             /\ Drops(t) \/ UNCHANGED dropped
    <3>1. /\ pending[Owner(t)] \in Seq(Nat)
          /\ Head(pending[Owner(t)]) \in Nat
          /\ Tail(pending[Owner(t)]) \in Seq(Nat)
      BY <2>2, TaskOwner DEF TypeOK
    <3>2. pending' \in [Controllers -> Seq(Nat)]
      BY <2>2, <3>1 DEF TypeOK, TaskDone
    <3>3. dropped' \in [Controllers -> SUBSET Nat]
      <4>1. dropped[Owner(t)] \cup {Head(pending[Owner(t)])} \in SUBSET Nat
        BY <3>1, TaskOwner DEF TypeOK
      <4>. QED BY <2>2, <4>1 DEF TypeOK, Drops
    <3>4. device' \in [Controllers -> Nat]
      BY <2>2, <3>1 DEF TypeOK, Applied
    <3>. QED BY <3>2, <3>3, <3>4
  <2>. QED BY <2>1, <2>2 DEF QueueMove
<1>. QED BY <1>1, <1>2, <1>3, MovedPlaces DEF TypeOK, TaskMove, PlainMove

\* A step of a task keeps the objects.
LEMMA ObjectTaskStep ==
    ASSUME TypeOK, ObjectInv, NEW t \in Tasks, TaskMove(t)
    PROVE  ObjectInv'
<1>1. \A u \in Tasks : life[Owner(u)] = "new" => pc'[u] \in {"idle", "off"}
  BY MovedPlaces DEF ObjectInv, TaskMove
<1>. QED BY <1>1 DEF ObjectInv, TaskMove

\* A step of a task keeps the transport of the clients nobody holds.
LEMMA LinkTaskStep ==
    ASSUME TypeOK, ObjectInv, RefCountIsExact, UnmadeInv, ReleasedClientIsClosed,
           NEW t \in Tasks, TaskMove(t), LinkMove(t)
    PROVE  UnmadeInv' /\ ReleasedClientIsClosed'
<1>1. /\ ClientOf(t) \in made /\ ClientOf(t) \in Clients
      /\ link \in [Clients -> LinkStates]
      /\ UNCHANGED <<entry, made, life, clientOf>>
      /\ life[Owner(t)] \in {"active", "closed"}
      /\ life[Owner(t)] = "active" => ClientOf(t) = entry
  BY TaskClient, TaskOwner DEF TypeOK, ManagerTypeOK, TaskMove, RefCountIsExact, Active, ClientOf
<1>2. UnmadeInv'
  BY <1>1 DEF UnmadeInv, LinkMove
<1>3. ASSUME NEW cl \in Clients \ {entry}, link'[cl] # "closed"
      PROVE  \E u \in Tasks : /\ pc'[u] = "established" /\ ClientOf(u) = cl
                             /\ life[Owner(u)] = "closed"
  <2>1. CASE link[cl] = "closed"
    <3>1. ClientOf(t) = cl /\ pc'[t] = "established"
      BY <1>1, <1>3, <2>1 DEF LinkMove
    <3>. QED BY <1>1, <3>1
  <2>2. CASE link[cl] # "closed"
    <3>1. PICK u \in Tasks : /\ pc[u] = "established" /\ ClientOf(u) = cl
                             /\ life[Owner(u)] = "closed"
      BY <1>3, <2>2 DEF ReleasedClientIsClosed
    <3>2. CASE u # t
      BY <3>1, <3>2, MovedPlaces
    <3>3. CASE u = t
      BY <1>1, <1>3, <3>1, <3>3 DEF LinkMove
    <3>. QED BY <3>2, <3>3
  <2>. QED BY <2>1, <2>2
<1>. QED BY <1>1, <1>2, <1>3 DEF ReleasedClientIsClosed, ClientOf

\* What PutWrite does to the queue.
LEMMA AppendedWrite ==
    ASSUME NEW q \in Seq(Nat), NEW m \in Nat
    PROVE  /\ Len(Append(q, m)) = Len(q) + 1
           /\ \A i \in 1..Len(q) : Append(q, m)[i] = q[i]
           /\ Append(q, m)[Len(q) + 1] = m
           /\ Append(q, m) # <<>>
           /\ Len(q) \in Nat
<1>1. Len(q) \in Nat
  BY LenProperties
<1>2. /\ Append(q, m) \in Seq(Nat)
      /\ Len(Append(q, m)) = Len(q) + 1
      /\ \A i \in 1..Len(q) : Append(q, m)[i] = q[i]
      /\ Append(q, m)[Len(q) + 1] = m
  BY AppendProperties
<1>3. Append(q, m) # <<>>
  BY <1>1, <1>2, EmptySeq
<1>. QED BY <1>1, <1>2, <1>3

\* A sequence of the last n numbers up to m, and what is left of it.
LEMMA TailOfWrites ==
    ASSUME NEW q \in Seq(Nat), NEW m \in Nat, q # <<>>, Len(q) <= m,
           \A i \in 1..Len(q) : q[i] = m - Len(q) + i
    PROVE  /\ Head(q) = m - Len(q) + 1
           /\ Len(Tail(q)) = Len(q) - 1
           /\ \A i \in 1..Len(Tail(q)) : Tail(q)[i] = m - Len(Tail(q)) + i
<1>1. Len(q) \in Nat \ {0}
  BY EmptySeq
<1>2. Head(q) = q[1] /\ Len(Tail(q)) = Len(q) - 1
  BY HeadTailProperties
<1>3. \A i \in 1..Len(Tail(q)) : Tail(q)[i] = q[i+1]
  BY HeadTailProperties
<1>. QED BY <1>1, <1>2, <1>3

\* A step of a task keeps the queue.
LEMMA QueueTaskStep ==
    ASSUME TypeOK, QueueInv, NEW t \in Tasks, TaskMove(t), QueueMove(t), PlainMove
    PROVE  QueueInv'
<1> DEFINE inHand(u) == pc'[u] \in {"waitLink", "reqLock"} \cup Framing
<1>1. puts' = puts /\ \A c \in Controllers : puts[c] \in Nat /\ pending[c] \in Seq(Nat)
  BY DEF PlainMove, TypeOK
<1>2. CASE /\ UNCHANGED <<pending, device, dropped>>
           /\ IsWriter(t) /\ pc'[t] \in InHand => pending[Owner(t)] # <<>>
  <2>1. \A u \in Tasks : IsWriter(u) /\ inHand(u) => pending[Owner(u)] # <<>>
    BY <1>2, MovedPlaces DEF QueueInv, InHand
  <2>. QED BY <1>1, <1>2, <2>1 DEF QueueInv
<1>3. CASE /\ IsWriter(t) /\ pending[Owner(t)] # <<>> /\ pc'[t] \notin InHand
           /\ TaskDone(t)
           /\ Applied(t) \/ UNCHANGED device
  <2> DEFINE o == Owner(t)
  <2>1. /\ o \in Controllers
        /\ pending' = [pending EXCEPT ![o] = Tail(@)]
        /\ device' = device \/ device' = [device EXCEPT ![o] = Head(pending[o])]
    BY <1>3, TaskOwner DEF TaskDone, Applied
  <2>2. /\ pending'[o] = Tail(pending[o])
        /\ \A c \in Controllers \ {o} : pending'[c] = pending[c] /\ device'[c] = device[c]
        /\ device'[o] \in {device[o], Head(pending[o])}
    BY <2>1 DEF TypeOK
  <2>3. /\ Head(pending[o]) = puts[o] - Len(pending[o]) + 1
        /\ Len(pending'[o]) = Len(pending[o]) - 1
        /\ \A i \in 1..Len(pending'[o]) : pending'[o][i] = puts[o] - Len(pending'[o]) + i
    <3>1. /\ pending[o] \in Seq(Nat) /\ puts[o] \in Nat /\ pending[o] # <<>>
          /\ Len(pending[o]) <= puts[o]
          /\ \A i \in 1..Len(pending[o]) : pending[o][i] = puts[o] - Len(pending[o]) + i
      BY <1>1, <1>3, <2>1 DEF QueueInv
    <3>2. /\ Head(pending[o]) = puts[o] - Len(pending[o]) + 1
          /\ Len(Tail(pending[o])) = Len(pending[o]) - 1
          /\ \A i \in 1..Len(Tail(pending[o])) :
                Tail(pending[o])[i] = puts[o] - Len(Tail(pending[o])) + i
      BY <3>1, TailOfWrites
    <3>. QED BY <2>2, <3>2
  <2>4. /\ Len(pending'[o]) <= puts[o]
        /\ device'[o] <= puts[o] - Len(pending'[o])
    BY <1>1, <2>1, <2>2, <2>3 DEF QueueInv, TypeOK
  <2>5. \A u \in Tasks : IsWriter(u) /\ inHand(u) => pending'[Owner(u)] # <<>>
    BY <1>3, <2>2, MovedPlaces, TaskOwner DEF QueueInv, InHand
  <2>6. ASSUME NEW c \in Controllers
        PROVE  /\ Len(pending'[c]) <= puts'[c]
               /\ \A i \in 1..Len(pending'[c]) : pending'[c][i] = puts'[c] - Len(pending'[c]) + i
               /\ device'[c] <= puts'[c] - Len(pending'[c])
    <3>1. CASE c = o
      BY <1>1, <2>3, <2>4, <3>1
    <3>2. CASE c # o
      BY <1>1, <2>2, <3>2 DEF QueueInv
    <3>. QED BY <3>1, <3>2
  <2>. QED BY <2>5, <2>6 DEF QueueInv
<1>. QED BY <1>2, <1>3 DEF QueueMove

-----------------------------------------------------------------------------
(***************************************************************************)
(* The other steps preserve it.                                            *)
(***************************************************************************)
\* Active controllers are finitely many, and there is one as long as there is an
\* entry.
LEMMA ActiveFacts ==
    ASSUME TypeOK, RefCountIsExact
    PROVE  /\ IsFiniteSet(Active) /\ Cardinality(Active) \in Nat
           /\ Active = {} <=> refCount = 0
           /\ entry = NoClient <=> refCount = 0
<1>1. IsFiniteSet(Active)
  BY FS_Subset, ControllerAssumption DEF Active
<1>2. Cardinality(Active) \in Nat
  BY <1>1, FS_CardinalityType
<1>3. Active = {} <=> Cardinality(Active) = 0
  BY <1>1, FS_EmptySet
<1>. QED BY <1>1, <1>2, <1>3 DEF RefCountIsExact

\* A new controller is counted, and shares the entry's client.
LEMMA RefCountCreate ==
    ASSUME TypeOK, RefCountIsExact, NEW c \in Controllers, Create(c)
    PROVE  RefCountIsExact'
<1>1. PICK cl \in Clients : GetClient(cl) /\ clientOf' = [clientOf EXCEPT ![c] = cl]
  BY DEF Create
<1>2. life[c] = "new" /\ life' = [life EXCEPT ![c] = "active"]
  BY DEF Create
<1>3. Active' = Active \cup {c} /\ c \notin Active
  BY <1>2 DEF Active, TypeOK
<1>4. Cardinality(Active') = Cardinality(Active) + 1
  BY <1>3, ActiveFacts, FS_AddElement
<1>5. entry' = cl /\ refCount' = refCount + 1
  BY <1>1, ActiveFacts DEF GetClient, RefCountIsExact
<1>6. \A d \in Active' : clientOf'[d] = entry'
  <2>1. \A d \in Active : clientOf[d] = cl
    BY <1>1 DEF GetClient, RefCountIsExact
  <2>. QED BY <1>1, <1>3, <1>5, <2>1 DEF TypeOK, Active
<1>7. entry' # NoClient /\ Active' # {}
  BY <1>3, <1>5, ClientAssumption
<1>. QED BY <1>4, <1>5, <1>6, <1>7 DEF RefCountIsExact

\* A controller that is closed is no longer counted; the last one takes the entry
\* with it.
LEMMA RefCountClose ==
    ASSUME TypeOK, RefCountIsExact, NEW c \in Controllers, CloseConnection(c)
    PROVE  RefCountIsExact'
<1>1. /\ life[c] = "active" /\ life' = [life EXCEPT ![c] = "closed"]
      /\ ReleaseClient /\ clientOf' = clientOf
  BY DEF CloseConnection
<1>2. Active' = Active \ {c} /\ c \in Active
  BY <1>1 DEF Active, TypeOK
<1>3. Cardinality(Active') = Cardinality(Active) - 1 /\ IsFiniteSet(Active')
  BY <1>2, ActiveFacts, FS_RemoveElement
<1>4. refCount = Cardinality(Active) /\ refCount \in Nat /\ refCount > 0 /\ entry # NoClient
  BY <1>2, ActiveFacts DEF RefCountIsExact
<1>5. CASE refCount > 1
  <2>1. entry' = entry /\ refCount' = refCount - 1
    BY <1>1, <1>4, <1>5 DEF ReleaseClient
  <2>2. Active' # {}
    BY <1>3, <1>4, <1>5, FS_EmptySet
  <2>. QED BY <1>1, <1>2, <1>3, <1>4, <2>1, <2>2 DEF RefCountIsExact
<1>6. CASE refCount <= 1
  <2>1. entry' = NoClient /\ refCount' = 0
    BY <1>1, <1>4, <1>6 DEF ReleaseClient
  <2>2. Cardinality(Active') = 0
    BY <1>3, <1>4, <1>6
  <2>3. Active' = {}
    BY <1>3, <2>2, FS_EmptySet
  <2>. QED BY <2>1, <2>2, <2>3 DEF RefCountIsExact
<1>. QED BY <1>4, <1>5, <1>6

\* Everything else leaves the registry's count alone.
LEMMA RefCountSame ==
    ASSUME RefCountIsExact, UNCHANGED <<entry, refCount, life, clientOf>>
    PROVE  RefCountIsExact'
BY DEF RefCountIsExact, Active

\* The steps of the environment keep the types ...
LEMMA TypeEnvStep ==
    ASSUME TypeOK, ObjectInv, RefCountIsExact, EnvStep
    PROVE  TypeOK'
<1> USE DEF objectVars, writeVars
<1>0. EnvMove
  BY EnvStepMoves
<1>1. /\ pc' \in [Tasks -> CallerPlaces \cup WriterPlaces]
      /\ \A u \in Tasks : pc'[u] \in IF IsWriter(u) THEN WriterPlaces ELSE CallerPlaces
      /\ holder' \in [Clients -> Tasks \cup {NoTask}]
  BY <1>0, EnvPlaces DEF EnvMove, Places, TypeOK
<1>8. ASSUME ManagerTypeOK',
             life' \in [Controllers -> {"new", "active", "closed"}],
             clientOf' \in [Controllers -> Clients \cup {NoClient}],
             UNCHANGED <<failures, pending, puts, dropped, device, op>>,
             wire' \in BOOLEAN
      PROVE  TypeOK'
  BY <1>1, <1>8 DEF TypeOK
<1>2. CASE \E c \in Controllers : Create(c)
  <2>1. PICK c \in Controllers, cl \in Clients :
          Create(c) /\ GetClient(cl) /\ clientOf' = [clientOf EXCEPT ![c] = cl]
    BY <1>2 DEF Create
  <2>2. ManagerTypeOK'
    <3>1. entry' = cl /\ made' \in {made, made \cup {cl}} /\ link' = link
      BY <2>1 DEF GetClient
    <3>2. /\ refCount' = 1 \/ refCount' = refCount + 1
          /\ stamped' = FALSE \/ stamped' = stamped
      BY <2>1 DEF GetClient
    <3>3. ManagerTypeOK
      BY DEF TypeOK
    <3>4. refCount' \in Nat
      BY <3>2, <3>3 DEF ManagerTypeOK
    <3>5. stamped' \in BOOLEAN
      BY <3>2, <3>3 DEF ManagerTypeOK
    <3>. QED BY <3>1, <3>3, <3>4, <3>5 DEF ManagerTypeOK
  <2>. QED BY <1>8, <2>1, <2>2 DEF Create, TypeOK
<1>3. CASE \E c \in Controllers : CloseConnection(c)
  <2>1. PICK c \in Controllers : CloseConnection(c)
    BY <1>3
  <2>2. ManagerTypeOK'
    <3>1. ReleaseClient
      BY <2>1 DEF CloseConnection
    <3>2. entry' \in {entry, NoClient} /\ made' = made /\ stamped' \in {FALSE, stamped}
      BY <3>1 DEF ReleaseClient
    <3>3. refCount' = refCount \/ (refCount > 1 /\ refCount' = refCount - 1) \/ refCount' = 0
      BY <3>1 DEF ReleaseClient
    <3>4. link' = link \/ link' = [link EXCEPT ![entry] = "closed"]
      BY <3>1 DEF ReleaseClient
    <3>5. ManagerTypeOK
      BY DEF TypeOK
    <3>6. refCount' \in Nat
      BY <3>3, <3>5 DEF ManagerTypeOK
    <3>7. stamped' \in BOOLEAN /\ link' \in [Clients -> LinkStates]
      BY <3>2, <3>4, <3>5 DEF ManagerTypeOK, LinkStates
    <3>. QED BY <3>2, <3>5, <3>6, <3>7 DEF ManagerTypeOK
  <2>. QED BY <1>8, <2>1, <2>2 DEF CloseConnection, TypeOK
<1>4. CASE \E c \in Controllers : ForceClose(c)
  <2>1. ManagerTypeOK'
    BY <1>4 DEF ForceClose, TypeOK, ManagerTypeOK, LinkStates
  <2>. QED BY <1>4, <1>8, <2>1 DEF ForceClose, TypeOK
<1>5. CASE \E c \in Controllers : PutWrite(c)
  <2>1. PICK c \in Controllers : PutWrite(c)
    BY <1>5
  <2>2. Append(pending[c], puts[c] + 1) \in Seq(Nat)
    BY DEF TypeOK
  <2>. QED BY <1>1, <2>1, <2>2 DEF PutWrite, TypeOK, ManagerTypeOK
<1>6. CASE \E cl \in Clients : LinkLost(cl) \/ AutoReconnect(cl)
  BY <1>1, <1>6 DEF LinkLost, AutoReconnect, TypeOK, ManagerTypeOK, LinkStates
<1>7. CASE Elapse
  BY <1>1, <1>7 DEF Elapse, TypeOK, ManagerTypeOK
<1>. QED BY <1>2, <1>3, <1>4, <1>5, <1>6, <1>7 DEF EnvStep, ControllerStep

\* ... the objects ...
LEMMA ObjectEnvStep ==
    ASSUME TypeOK, ObjectInv, EnvStep
    PROVE  ObjectInv'
<1> USE DEF objectVars
<1>1. \A u \in Tasks : pc'[u] \in {"idle", "off"} <=> pc[u] \in {"idle", "off"}
  BY EnvStepMoves, EnvPlaces
<1>2. \A u \in Tasks : life'[Owner(u)] = "new" => life[Owner(u)] = "new"
  BY ClientStays DEF ObjectInv
<1>3. \A u \in Tasks : life'[Owner(u)] = "new" => pc'[u] \in {"idle", "off"}
  BY <1>1, <1>2 DEF ObjectInv
<1>4. CASE UNCHANGED <<entry, made, life, clientOf>>
  BY <1>3, <1>4 DEF ObjectInv
<1>5. CASE \E c \in Controllers : Create(c)
  BY <1>3, <1>5, ClientAssumption DEF Create, GetClient, ObjectInv, TypeOK
<1>6. CASE \E c \in Controllers : CloseConnection(c)
  BY <1>3, <1>6 DEF CloseConnection, ReleaseClient, ObjectInv, TypeOK
<1>. QED BY <1>4, <1>5, <1>6 DEF EnvStep, ControllerStep, ForceClose, PutWrite, LinkLost,
       AutoReconnect, Elapse

\* ... the transports: what nobody made or nobody holds stays closed ...
LEMMA LinkEnvStep ==
    ASSUME TypeOK, ObjectInv, RefCountIsExact, UnmadeInv, ReleasedClientIsClosed, EnvStep
    PROVE  UnmadeInv' /\ ReleasedClientIsClosed'
<1> USE DEF objectVars
<1> DEFINE outlived(u, cl) == pc[u] = "established" /\ ClientOf(u) = cl
                              /\ life[Owner(u)] = "closed"
<1>0. link \in [Clients -> LinkStates] /\ made \in SUBSET Clients
  BY DEF TypeOK, ManagerTypeOK
<1>1. ASSUME NEW u \in Tasks, pc[u] = "established", life[Owner(u)] = "closed"
      PROVE  /\ pc'[u] = "established" /\ life'[Owner(u)] = "closed"
             /\ ClientOf(u)' = ClientOf(u)
  <2>1. pc'[u] = "established"
    BY <1>1, EnvStepMoves, EnvPlaces
  <2>2. life'[Owner(u)] = "closed"
    BY <1>1, TaskOwner DEF TypeOK, EnvStep, ControllerStep, Create, CloseConnection, ForceClose,
       PutWrite, LinkLost, AutoReconnect, Elapse
  <2>. QED BY <1>1, <2>1, <2>2, ClientStays
<1>2. ASSUME NEW cl \in Clients, cl # entry, link[cl] # "closed"
      PROVE  \E u \in Tasks : /\ pc'[u] = "established" /\ clientOf'[Owner(u)] = cl
                             /\ life'[Owner(u)] = "closed"
  BY <1>1, <1>2 DEF ReleasedClientIsClosed, ClientOf
<1>3. ASSUME entry' = entry, made' = made,
             \A cl \in Clients : link[cl] = "closed" => link'[cl] = "closed"
      PROVE  UnmadeInv' /\ ReleasedClientIsClosed'
  BY <1>2, <1>3 DEF UnmadeInv, ReleasedClientIsClosed, ClientOf
<1>4. CASE \E c \in Controllers : Create(c)
  <2>1. PICK c \in Controllers, n \in Clients : GetClient(n)
    BY <1>4 DEF Create
  <2>2. link' = link /\ made \subseteq made' /\ entry' = n
    BY <2>1 DEF GetClient
  <2>3. UnmadeInv'
    BY <2>2 DEF UnmadeInv
  <2>4. \A cl \in Clients \ {n} : link'[cl] # "closed" => cl # entry
    <3>1. entry = NoClient \/ entry = n
      BY <2>1 DEF GetClient
    <3>. QED BY <3>1, ClientAssumption
  <2>. QED BY <1>2, <2>2, <2>3, <2>4 DEF ReleasedClientIsClosed, ClientOf
<1>5. CASE \E c \in Controllers : CloseConnection(c)
  <2>1. ReleaseClient
    BY <1>5 DEF CloseConnection
  <2>2. CASE entry' = entry /\ link' = link /\ made' = made
    BY <1>3, <2>2
  <2>3. CASE /\ entry' = NoClient /\ link' = [link EXCEPT ![entry] = "closed"]
             /\ made' = made
    BY <1>0, <1>2, <2>3 DEF UnmadeInv, ReleasedClientIsClosed, ClientOf
  <2>. QED BY <2>1, <2>2, <2>3 DEF ReleaseClient
<1>6. CASE \E c \in Controllers : ForceClose(c)
  BY <1>0, <1>3, <1>6 DEF ForceClose
<1>7. CASE (\E c \in Controllers : PutWrite(c)) \/ Elapse
  BY <1>3, <1>7 DEF PutWrite, Elapse
<1>8. CASE \E cl \in Clients : LinkLost(cl) \/ AutoReconnect(cl)
  BY <1>0, <1>3, <1>8 DEF LinkLost, AutoReconnect, Connected
<1>. QED BY <1>4, <1>5, <1>6, <1>7, <1>8 DEF EnvStep, ControllerStep

\* ... and the queue, to which writes are added at the end.
LEMMA QueueEnvStep ==
    ASSUME TypeOK, QueueInv, EnvStep
    PROVE  QueueInv'
<1> USE DEF writeVars
<1>1. \A u \in Tasks : pc'[u] \in {"waitLink", "reqLock"} \cup Framing
                      <=> pc[u] \in {"waitLink", "reqLock"} \cup Framing
  BY EnvStepMoves, EnvPlaces
<1>2. CASE UNCHANGED <<pending, puts, device>>
  <2>1. \A u \in Tasks : IsWriter(u) /\ pc'[u] \in {"waitLink", "reqLock"} \cup Framing
                        => pending[Owner(u)] # <<>>
    BY <1>1 DEF QueueInv
  <2>. QED BY <1>2, <2>1 DEF QueueInv
<1>3. CASE \E c \in Controllers : PutWrite(c)
  <2>1. PICK c \in Controllers : PutWrite(c)
    BY <1>3
  <2>2. /\ pending[c] \in Seq(Nat) /\ puts[c] \in Nat /\ puts[c] + 1 \in Nat
        /\ puts'[c] = puts[c] + 1
        /\ pending'[c] = Append(pending[c], puts[c] + 1)
        /\ \A d \in Controllers \ {c} : puts'[d] = puts[d] /\ pending'[d] = pending[d]
        /\ device' = device /\ device[c] \in Nat
    BY <2>1 DEF PutWrite, TypeOK
  <2>3. /\ Len(pending'[c]) = Len(pending[c]) + 1
        /\ \A i \in 1..Len(pending[c]) : pending'[c][i] = pending[c][i]
        /\ pending'[c][Len(pending[c]) + 1] = puts[c] + 1
        /\ pending'[c] # <<>>
        /\ Len(pending[c]) \in Nat
    BY <2>2, AppendedWrite
  <2>4. ASSUME NEW d \in Controllers
        PROVE  /\ Len(pending'[d]) <= puts'[d]
               /\ \A i \in 1..Len(pending'[d]) : pending'[d][i] = puts'[d] - Len(pending'[d]) + i
               /\ device'[d] <= puts'[d] - Len(pending'[d])
    <3>1. CASE d = c
      <4>1. /\ Len(pending[c]) <= puts[c]
            /\ \A i \in 1..Len(pending[c]) : pending[c][i] = puts[c] - Len(pending[c]) + i
            /\ device[c] <= puts[c] - Len(pending[c])
        BY DEF QueueInv
      <4>2. ASSUME NEW i \in 1..Len(pending'[c])
            PROVE  pending'[c][i] = puts'[c] - Len(pending'[c]) + i
        <5>1. puts'[c] - Len(pending'[c]) = puts[c] - Len(pending[c])
          BY <2>2, <2>3
        <5>2. CASE i \in 1..Len(pending[c])
          BY <2>3, <4>1, <5>1, <5>2
        <5>3. CASE i = Len(pending[c]) + 1
          BY <2>2, <2>3, <5>1, <5>3
        <5>. QED BY <2>3, <5>2, <5>3
      <4>3. Len(pending'[c]) <= puts'[c] /\ device'[c] <= puts'[c] - Len(pending'[c])
        BY <2>2, <2>3, <4>1
      <4>. QED BY <3>1, <4>2, <4>3
    <3>2. CASE d # c
      BY <2>2, <3>2 DEF QueueInv
    <3>. QED BY <3>1, <3>2
  <2>5. \A u \in Tasks : IsWriter(u) /\ pc'[u] \in {"waitLink", "reqLock"} \cup Framing
                        => pending'[Owner(u)] # <<>>
    BY <1>1, <2>2, <2>3, TaskOwner DEF QueueInv
  <2>. QED BY <2>4, <2>5 DEF QueueInv
<1>. QED BY <1>2, <1>3 DEF EnvStep, ControllerStep, Create, CloseConnection, ForceClose, LinkLost,
       AutoReconnect, Elapse

-----------------------------------------------------------------------------
(***************************************************************************)
(* The theorems.                                                           *)
(***************************************************************************)
\* The state at start-up satisfies the invariant.
LEMMA InitIndInv == Init => IndInv
<1> SUFFICES ASSUME Init PROVE IndInv
  OBVIOUS
<1> USE DEF Init, ManagerInit
<1>1. TypeOK
  <2>1. ManagerTypeOK
    BY DEF ManagerTypeOK, LinkStates
  <2>2. /\ pc \in [Tasks -> CallerPlaces \cup WriterPlaces]
        /\ \A t \in Tasks : pc[t] \in IF IsWriter(t) THEN WriterPlaces ELSE CallerPlaces
    BY DEF CallerPlaces, WriterPlaces
  <2>3. op \in [Tasks -> Ops] /\ holder \in [Clients -> Tasks \cup {NoTask}]
    BY DEF Ops
  <2>4. pending \in [Controllers -> Seq(Nat)] /\ dropped \in [Controllers -> SUBSET Nat]
    OBVIOUS
  <2>5. /\ failures \in [Controllers -> Nat]
        /\ puts \in [Controllers -> Nat]
        /\ device \in [Controllers -> Nat]
    OBVIOUS
  <2>. QED BY <2>1, <2>2, <2>3, <2>4, <2>5 DEF TypeOK
<1>2. ObjectInv
  BY TaskOwner DEF ObjectInv
<1>3. RefCountIsExact
  <2>1. Active = {}
    BY DEF Active
  <2>. QED BY <2>1, FS_EmptySet DEF RefCountIsExact
<1>4. OneTaskOnTheLink
  BY DEF OneTaskOnTheLink, Holding, Opening, Framing
<1>5. UnmadeInv /\ ReleasedClientIsClosed
  BY DEF UnmadeInv, ReleasedClientIsClosed
<1>6. QueueInv
  BY TaskOwner DEF QueueInv, Framing
<1>. QED BY <1>1, <1>2, <1>3, <1>4, <1>5, <1>6 DEF IndInv

\* Every step preserves the invariant.
LEMMA NextIndInv == IndInv /\ [Next]_vars => IndInv'
<1> SUFFICES ASSUME IndInv, [Next]_vars PROVE IndInv'
  OBVIOUS
<1> USE DEF IndInv
<1>1. ASSUME NEW t \in Tasks, TaskStep(t) PROVE IndInv'
  <2>1. TaskMove(t) /\ QueueMove(t) /\ LinkMove(t) /\ PlainMove
    BY <1>1, TaskStepMoves, TaskStepQueue, TaskStepLink, TaskStepPlain
  <2>2. RefCountIsExact'
    BY <2>1, RefCountSame DEF TaskMove
  <2>. QED BY <2>1, <2>2, TypeTaskStep, ObjectTaskStep, LockTaskStep, LinkTaskStep, QueueTaskStep
<1>2. CASE EnvStep
  <2>1. RefCountIsExact'
    BY <1>2, RefCountCreate, RefCountClose, RefCountSame DEF EnvStep, ControllerStep, ForceClose,
       PutWrite, LinkLost, AutoReconnect, Elapse, objectVars
  <2>. QED BY <1>2, <2>1, TypeEnvStep, ObjectEnvStep, LockEnvStep, LinkEnvStep, QueueEnvStep
<1>3. CASE UNCHANGED vars
  BY <1>3 DEF vars, objectVars, writeVars, TypeOK, ManagerTypeOK, ObjectInv, RefCountIsExact,
     Active, OneTaskOnTheLink, ClientOf, UnmadeInv, ReleasedClientIsClosed, QueueInv
<1>. QED BY <1>1, <1>2, <1>3 DEF Next, EnvStep

\* The inductive invariant holds in every reachable state.
THEOREM Inductive == Spec => []IndInv
BY InitIndInv, NextIndInv, PTL DEF Spec

\* The variables keep their types.
THEOREM TypeCorrect == Spec => []TypeOK
BY Inductive, PTL DEF IndInv

\* Whatever is connected, read, written, cancelled, closed or lost in whatever
\* order, at most one task is on the link of a client, and it holds the lock.
THEOREM Exclusion == Spec => []OneTaskOnTheLink
BY Inductive, PTL DEF IndInv

\* The registry counts exactly the controllers in use, and they share its client.
THEOREM ExactCount == Spec => []RefCountIsExact
BY Inductive, PTL DEF IndInv

\* No socket of a released client stays open behind the back of a reload, but for
\* the time an attempt that outlived its controller takes to return.
THEOREM NoLeakedLink == Spec => []ReleasedClientIsClosed
BY Inductive, PTL DEF IndInv

\* Writes reach the inverter in the order they were queued.
THEOREM WritesInOrder == Spec => LastWriteWins
<1>1. IndInv /\ [Next]_vars => [\A c \in Controllers : device'[c] >= device[c]]_vars
  <2> SUFFICES ASSUME IndInv, Next PROVE \A c \in Controllers : device'[c] >= device[c]
    OBVIOUS
  <2> USE DEF IndInv
  <2>1. ASSUME NEW t \in Tasks, TaskStep(t), NEW c \in Controllers
        PROVE  device'[c] >= device[c]
    <3>1. CASE UNCHANGED device
      BY <3>1 DEF TypeOK
    <3>2. CASE /\ IsWriter(t) /\ pending[Owner(t)] # <<>>
               /\ device' = [device EXCEPT ![Owner(t)] = Head(pending[Owner(t)])]
      <4> DEFINE o == Owner(t)
      <4>1. /\ o \in Controllers /\ pending[o] \in Seq(Nat) /\ puts[o] \in Nat
            /\ device \in [Controllers -> Nat]
        BY TaskOwner DEF TypeOK
      <4>2. Head(pending[o]) = puts[o] - Len(pending[o]) + 1
        BY <3>2, <4>1, TailOfWrites DEF QueueInv
      <4>3. device[o] <= puts[o] - Len(pending[o]) /\ Len(pending[o]) \in Nat
        BY <4>1, LenProperties DEF QueueInv
      <4>. QED BY <3>2, <4>1, <4>2, <4>3
    <3>. QED BY <2>1, <3>1, <3>2, TaskStepQueue DEF QueueMove, Applied
  <2>2. CASE EnvStep
    BY <2>2 DEF EnvStep, ControllerStep, Create, CloseConnection, ForceClose, PutWrite, LinkLost,
       AutoReconnect, Elapse, writeVars, TypeOK
  <2>. QED BY <2>1, <2>2 DEF Next, EnvStep
<1>. QED BY <1>1, Inductive, PTL DEF Spec, LastWriteWins

\* The controllers implement module RegisterWrites.
THEOREM WritesRefine == Spec => WritesImplemented
<1> DEFINE done == [c \in Controllers |-> puts[c] - Len(pending[c])]
<1>1. Init => Writes!Init
  BY DEF Init, Writes!Init
<1>2. IndInv /\ [Next]_vars => [Writes!Next]_(Writes!vars)
  <2> SUFFICES ASSUME IndInv, [Next]_vars
               PROVE  Writes!Next \/ UNCHANGED <<puts, done, device>>
    BY DEF Writes!vars
  <2> USE DEF IndInv
  <2>0. /\ puts \in [Controllers -> Nat]
        /\ device \in [Controllers -> Nat]
        /\ \A c \in Controllers : pending[c] \in Seq(Nat) /\ Len(pending[c]) \in Nat
    BY LenProperties DEF TypeOK
  <2>1. UNCHANGED <<puts, pending, device>> => UNCHANGED <<puts, done, device>>
    OBVIOUS
  <2>2. ASSUME NEW t \in Tasks, TaskStep(t) PROVE Writes!Next \/ UNCHANGED <<puts, done, device>>
    <3> DEFINE o == Owner(t)
    <3>1. puts' = puts /\ o \in Controllers
      BY <2>2, TaskStepPlain, TaskOwner DEF PlainMove
    <3>2. CASE /\ IsWriter(t) /\ pending[o] # <<>> /\ TaskDone(t)
               /\ Applied(t) \/ UNCHANGED device
      <4>1. /\ Head(pending[o]) = puts[o] - Len(pending[o]) + 1
            /\ Len(Tail(pending[o])) = Len(pending[o]) - 1
            /\ Len(pending[o]) # 0 /\ Len(pending[o]) <= puts[o]
        BY <2>0, <3>1, <3>2, TailOfWrites, EmptySeq DEF QueueInv
      <4>2. pending' = [pending EXCEPT ![o] = Tail(@)]
        BY <3>2 DEF TaskDone
      <4>3. done[o] < puts[o] /\ done' = [done EXCEPT ![o] = @ + 1] /\ done'[o] = Head(pending[o])
        <5>1. Len(pending'[o]) = Len(pending[o]) - 1
          BY <3>1, <4>1, <4>2 DEF TypeOK
        <5>2. \A c \in Controllers \ {o} : pending'[c] = pending[c]
          BY <4>2 DEF TypeOK
        <5>3. puts[o] - Len(pending'[o]) = (puts[o] - Len(pending[o])) + 1
          BY <2>0, <3>1, <5>1
        <5>4. done' = [done EXCEPT ![o] = @ + 1]
          BY <3>1, <5>2, <5>3
        <5>. QED BY <2>0, <3>1, <4>1, <5>4
      <4>4. device' = [device EXCEPT ![o] = done'[o]] \/ UNCHANGED device
        BY <3>2, <4>3 DEF Applied
      <4>5. Writes!Finish(o)
        BY <3>1, <4>3, <4>4 DEF Writes!Finish
      <4>. QED BY <3>1, <4>5 DEF Writes!Next
    <3>3. CASE UNCHANGED <<pending, device>>
      BY <2>1, <3>1, <3>3
    <3>. QED BY <2>2, <3>2, <3>3, TaskStepQueue DEF QueueMove
  <2>3. ASSUME NEW c \in Controllers, PutWrite(c) PROVE Writes!Next
    <3>1. /\ puts' = [puts EXCEPT ![c] = @ + 1] /\ device' = device /\ puts[c] < MaxWrites
          /\ pending' = [pending EXCEPT ![c] = Append(@, puts[c] + 1)]
      BY <2>3 DEF PutWrite
    <3>2. Len(pending'[c]) = Len(pending[c]) + 1
      BY <2>0, <3>1, AppendProperties DEF TypeOK
    <3>3. done' = done
      BY <2>0, <3>1, <3>2 DEF TypeOK
    <3>4. Writes!Put(c)
      BY <3>1, <3>3 DEF Writes!Put
    <3>. QED BY <3>4 DEF Writes!Next
  <2>4. CASE UNCHANGED <<puts, pending, device>>
    BY <2>1, <2>4
  <2>. QED BY <2>2, <2>3, <2>4 DEF Next, ControllerStep, Create, CloseConnection, ForceClose,
         LinkLost, AutoReconnect, Elapse, vars, writeVars
<1>. QED BY <1>1, <1>2, Inductive, PTL DEF Spec, WritesImplemented, Writes!Spec

\* Once closed, a controller attempts no connection, though its tasks may run on.
THEOREM ClosedStaysDown == Spec => ClosedNeverConnects
<1> DEFINE starts(t) == pc[t] # "connecting" /\ pc'[t] = "connecting"
<1>1. IndInv /\ [Next]_vars =>
        [\A t \in Tasks : starts(t) => life[Owner(t)] = "active"]_vars
  <2> SUFFICES ASSUME IndInv, Next, NEW u \in Tasks, starts(u) PROVE life[Owner(u)] = "active"
    OBVIOUS
  <2> USE DEF IndInv
  <2>1. ASSUME NEW t \in Tasks, TaskStep(t) PROVE life[Owner(u)] = "active"
    <3>1. u = t
      BY <2>1, TaskStepMoves, MovedPlaces
    <3>2. pc'[t] = "connecting"
      BY <3>1
    <3>3. ASSUME FrameMove(t) PROVE FALSE
      BY <3>2, <3>3 DEF FrameMove, Moves, Rest, TypeOK
    <3>4. ASSUME Return(t) PROVE FALSE
      BY <3>2, <3>4 DEF Return, TypeOK
    <3>5. ~ConnectReturnsTrue(t) /\ ~ConnectReturnsFalse(t) /\ ~AcquireForFrame(t)
      BY <3>3, <3>4, AcquireMoves DEF ConnectReturnsTrue, ConnectReturnsFalse
    <3>6. CASE Begin(t)
      BY <3>1, <3>5, <3>6 DEF Begin, BeginRead, BeginConnect, BeginRawRead
    <3>7. CASE GrantConnectLock(t)
      BY <3>1, <3>5, <3>7, TaskOwner DEF GrantConnectLock, ObjectInv, TypeOK
    <3>8. ~GrantRequestLock(t)
      BY <3>3, EnterFrameMoves DEF GrantRequestLock
    <3>9. ~EndSpacing(t)
      BY <3>2, <3>4 DEF EndSpacing, Issue, SendFrame, FrameNotSent, TypeOK
    <3>10. ~Attempt(t)
      BY <3>2, <3>5 DEF Attempt, Establish, ConnectReturned, ConnectRaised, TypeOK
    <3>11. ~StartWriter(t) /\ ~WriterStep(t)
      BY <3>2, <3>5 DEF StartWriter, WriterStep, TakeWrite, LinkIsBack, TypeOK
    <3>12. ~Outcome(t)
      BY <3>4 DEF Outcome, Answer, Refuse, FrameRaises, EndFrame
    <3>13. ~Cancel(t)
      BY <3>2 DEF Cancel, TypeOK
    <3>. QED BY <2>1, <3>6, <3>7, <3>8, <3>9, <3>10, <3>11, <3>12, <3>13 DEF TaskStep
  <2>2. ~EnvStep
    BY EnvStepMoves DEF EnvMove
  <2>. QED BY <2>1, <2>2 DEF Next, EnvStep
<1>. QED BY <1>1, Inductive, PTL DEF Spec, ClosedNeverConnects

-----------------------------------------------------------------------------
(***************************************************************************)
(* The interval between frames.                                            *)
(***************************************************************************)
\* Task t sends no frame, and no stamp is lost ...
Silent(t) ==
    /\ wire' = wire
    /\ stamped => stamped'
    /\ pc'[t] # "spaced"
    /\ pc'[t] = "request" => pc[t] = "request"

\* ... or it sends one, under the lock, with the interval kept as the entry knows it.
Sends(t) ==
    /\ pc'[t] = "request"
    /\ stamped' = (stamped \/ entry # NoClient)
    /\ Connected(ClientOf(t))
    /\ holder[ClientOf(t)] \in {NoTask, t}
    /\ pc[t] = "spaced" \/ ~MustSpace

\* A method that ends sends nothing.
LEMMA ReturnSilent ==
    ASSUME TypeOK, NEW t \in Tasks, Return(t), UNCHANGED wire, stamped => stamped'
    PROVE  Silent(t)
BY DEF Return, Silent, TypeOK

\* A request under the lock, sent or not.
LEMMA IssueSpacing ==
    ASSUME TypeOK, NEW t \in Tasks, Issue(t), holder[ClientOf(t)] \in {NoTask, t},
           pc[t] = "spaced" \/ ~MustSpace
    PROVE  Silent(t) \/ Sends(t)
<1>1. stamped' = (stamped \/ entry # NoClient)
  BY DEF Issue, Stamp
<1>2. CASE SendFrame(t)
  BY <1>1, <1>2 DEF SendFrame, Sends, TypeOK
<1>3. CASE FrameNotSent(t)
  BY <1>1, <1>3, ReturnSilent DEF FrameNotSent
<1>. QED BY <1>2, <1>3 DEF Issue

\* The wait for the interval, or the request.
LEMMA EnterSpacing ==
    ASSUME TypeOK, NEW t \in Tasks, EnterFrame(t), holder[ClientOf(t)] \in {NoTask, t}
    PROVE  Silent(t) \/ Sends(t)
<1>1. CASE MustSpace
  BY <1>1 DEF EnterFrame, Silent, TypeOK
<1>2. CASE ~MustSpace
  BY <1>2, IssueSpacing DEF EnterFrame
<1>. QED BY <1>1, <1>2

\* The same behind the lock.
LEMMA AcquireSpacing ==
    ASSUME TypeOK, NEW t \in Tasks, AcquireForFrame(t)
    PROVE  Silent(t) \/ Sends(t)
<1>1. CASE FreeFor(t) /\ EnterFrame(t)
  BY <1>1, EnterSpacing DEF FreeFor
<1>2. CASE pc' = [pc EXCEPT ![t] = "reqLock"] /\ UNCHANGED <<stamped, wire>>
  BY <1>2 DEF Silent, TypeOK
<1>. QED BY <1>1, <1>2 DEF AcquireForFrame

\* A task that sends is on the client of the entry: the others are closed.
LEMMA SenderIsCurrent ==
    ASSUME IndInv, NEW t \in Tasks, life[Owner(t)] # "new", Connected(ClientOf(t)),
           holder[ClientOf(t)] \in {NoTask, t},
           pc[t] = "established" => life[Owner(t)] # "closed"
    PROVE  ClientOf(t) = entry /\ entry \in Clients
<1>1. ClientOf(t) \in Clients
  BY TaskClient DEF IndInv
<1>2. ASSUME ClientOf(t) # entry PROVE FALSE
  <2>1. PICK u \in Tasks : /\ pc[u] = "established" /\ ClientOf(u) = ClientOf(t)
                           /\ life[Owner(u)] = "closed"
    BY <1>1, <1>2 DEF IndInv, ReleasedClientIsClosed, Connected
  <2>2. holder[ClientOf(t)] = u
    BY <2>1 DEF IndInv, OneTaskOnTheLink, Holding, Opening
  <2>. QED BY <2>1, <2>2, ControllerAssumption
<1>. QED BY <1>1, <1>2

\* Every step of a task is silent or sends, and then on the client of the entry.
LEMMA TaskStepSpacing ==
    ASSUME IndInv, NEW t \in Tasks, TaskStep(t)
    PROVE  Silent(t) \/ (Sends(t) /\ ClientOf(t) = entry /\ entry \in Clients)
<1> USE DEF IndInv
<1>0. TaskMove(t)
  BY TaskStepMoves
<1>1. ASSUME pc[t] = "established" => life[Owner(t)] # "closed", Silent(t) \/ Sends(t)
      PROVE  Silent(t) \/ (Sends(t) /\ ClientOf(t) = entry /\ entry \in Clients)
  BY <1>0, <1>1, SenderIsCurrent DEF TaskMove, Sends
<1>2. CASE Begin(t)
  <2>1. CASE AcquireForFrame(t)
    BY <1>1, <1>2, <2>1, AcquireSpacing DEF Begin, BeginRead, BeginConnect, BeginRawRead
  <2>2. ASSUME NEW o \in Ops, BeginConnect(t, o) PROVE Silent(t)
    BY <2>2 DEF BeginConnect, AcquireForConnect, Silent, TypeOK
  <2>. QED BY <1>2, <2>1, <2>2 DEF Begin, BeginRead, BeginRawRead
<1>3. CASE pc[t] # "established" /\ ConnectReturnsTrue(t)
  BY <1>1, <1>3, AcquireSpacing, ReturnSilent DEF ConnectReturnsTrue
<1>4. ConnectReturnsFalse(t) => Silent(t)
  BY ReturnSilent DEF ConnectReturnsFalse
<1>5. CASE GrantConnectLock(t)
  <2>1. CASE pc' = [pc EXCEPT ![t] = "connecting"] /\ UNCHANGED <<stamped, wire>>
    BY <2>1 DEF Silent, TypeOK
  <2>. QED BY <1>3, <1>4, <1>5, <2>1 DEF GrantConnectLock
<1>6. CASE GrantRequestLock(t)
  BY <1>1, <1>6, EnterSpacing DEF GrantRequestLock
<1>7. CASE EndSpacing(t)
  <2>1. holder[ClientOf(t)] = t
    BY <1>7 DEF EndSpacing, OneTaskOnTheLink, Holding, Framing
  <2>. QED BY <1>1, <1>7, <2>1, IssueSpacing DEF EndSpacing
<1>8. CASE Establish(t)
  BY <1>8 DEF Establish, Silent, TypeOK
<1>9. CASE ConnectReturned(t)
  <2>1. CASE life[Owner(t)] # "closed" /\ ConnectReturnsTrue(t)
    BY <1>1, <2>1, AcquireSpacing, ReturnSilent DEF ConnectReturnsTrue
  <2>. QED BY <1>4, <1>9, <2>1 DEF ConnectReturned
<1>10. CASE ConnectRaised(t)
  BY <1>4, <1>10 DEF ConnectRaised
<1>11. CASE StartWriter(t)
  BY <1>11 DEF StartWriter, Silent, TypeOK
<1>12. CASE WriterStep(t)
  <2>1. CASE pc[t] # "established" /\ AcquireForFrame(t)
    BY <1>1, <2>1, AcquireSpacing
  <2>2. CASE pc' = [pc EXCEPT ![t] = "waitLink"] /\ UNCHANGED <<stamped, wire>>
    BY <2>2 DEF Silent, TypeOK
  <2>. QED BY <1>12, <2>1, <2>2 DEF WriterStep, TakeWrite, LinkIsBack
<1>13. CASE Outcome(t)
  BY <1>13, ReturnSilent DEF Outcome, Answer, Refuse, FrameRaises, EndFrame
<1>14. CASE Cancel(t)
  BY <1>14 DEF Cancel, Silent, TypeOK
<1>. QED BY <1>2, <1>5, <1>6, <1>7, <1>8, <1>9, <1>10, <1>11, <1>12, <1>13, <1>14
       DEF TaskStep, Attempt

\* A step of a task keeps the interval known.
LEMMA SpacingTaskStep ==
    ASSUME IndInv, SpacingInv, NEW t \in Tasks, TaskStep(t)
    PROVE  SpacingInv'
<1> USE DEF IndInv
<1>1. /\ UNCHANGED <<entry, clientOf>>
      /\ \A u \in Tasks \ {t} : pc'[u] = pc[u]
      /\ \A u \in Tasks : ClientOf(u)' = ClientOf(u)
  BY TaskStepMoves, MovedPlaces DEF TaskMove, ClientOf
<1>2. CASE Silent(t)
  BY <1>1, <1>2 DEF SpacingInv, Silent
<1>3. CASE Sends(t) /\ ClientOf(t) = entry /\ entry \in Clients
  <2>1. stamped'
    BY <1>3, ClientAssumption DEF Sends
  <2>2. ASSUME NEW u \in Tasks, pc'[u] = "spaced", ClientOf(u) = entry PROVE FALSE
    <3>1. u # t /\ pc[u] = "spaced"
      BY <1>1, <1>3, <2>2 DEF Sends
    <3>2. holder[entry] = u
      BY <2>2, <3>1 DEF OneTaskOnTheLink, Holding, Framing
    <3>. QED BY <1>3, <3>1, <3>2, ControllerAssumption DEF Sends
  <2>. QED BY <1>1, <2>1, <2>2 DEF SpacingInv
<1>. QED BY <1>2, <1>3, TaskStepSpacing

\* So does everything else: a new entry starts without a frame, and time clears both.
LEMMA SpacingEnvStep ==
    ASSUME IndInv, SpacingInv, EnvStep
    PROVE  SpacingInv'
<1> USE DEF IndInv
<1>1. CASE Elapse
  BY <1>1 DEF Elapse, SpacingInv
<1>2. ~Elapse => \A u \in Tasks : pc'[u] = "spaced" => pc[u] = "spaced"
  BY DEF EnvStep, ControllerStep, Create, CloseConnection, ForceClose, PutWrite, LinkLost,
     AutoReconnect, BreakFrame, TypeOK
<1>3. \A u \in Tasks : pc[u] = "spaced" => ClientOf(u)' = ClientOf(u)
  BY ClientStays DEF ObjectInv
<1>4. CASE ~Elapse /\ UNCHANGED <<entry, stamped, wire>>
  BY <1>2, <1>3, <1>4 DEF SpacingInv
<1>5. ASSUME ~Elapse, NEW c \in Controllers, Create(c) PROVE SpacingInv'
  <2>1. CASE entry = NoClient
    <3>1. ~wire'
      BY <1>5, <2>1 DEF Create
    <3>. QED BY <3>1 DEF SpacingInv
  <2>2. CASE entry # NoClient
    <3>1. UNCHANGED <<entry, stamped>> /\ wire' = wire
      BY <1>5, <2>2 DEF Create, GetClient, TypeOK
    <3>. QED BY <1>4, <1>5, <3>1
  <2>. QED BY <2>1, <2>2
<1>6. ASSUME ~Elapse, NEW c \in Controllers, CloseConnection(c) PROVE SpacingInv'
  <2>1. CASE UNCHANGED <<entry, stamped>>
    BY <1>4, <1>6, <2>1 DEF CloseConnection
  <2>2. CASE entry' = NoClient
    <3>1. \A u \in Tasks : pc'[u] = "spaced" => ClientOf(u) # NoClient
      BY <1>2, <1>6, TaskClient, ClientAssumption DEF ObjectInv
    <3>. QED BY <1>2, <1>3, <1>6, <2>2, <3>1 DEF SpacingInv
  <2>. QED BY <1>6, <2>1, <2>2 DEF CloseConnection, ReleaseClient
<1>. QED BY <1>1, <1>4, <1>5, <1>6 DEF EnvStep, ControllerStep, ForceClose, PutWrite, LinkLost,
       AutoReconnect

\* As long as an entry of the registry lives, any two frames on its link, of whatever
\* controllers, callers and writers, are MIN_INTER_FRAME_MS apart.
THEOREM FramesApart == Spec => FramesSpaced
<1> DEFINE goesOut(t) == pc[t] # "request" /\ pc'[t] = "request"
<1>1. Init => SpacingInv
  BY TaskOwner DEF Init, SpacingInv
<1>2. IndInv /\ SpacingInv /\ [Next]_vars => SpacingInv'
  <2>1. UNCHANGED vars /\ SpacingInv => SpacingInv'
    BY DEF vars, objectVars, SpacingInv, ClientOf
  <2>. QED BY <2>1, SpacingTaskStep, SpacingEnvStep DEF Next, EnvStep
<1>3. IndInv /\ SpacingInv /\ [Next]_vars => [\A t \in Tasks : goesOut(t) => ~wire]_vars
  <2> SUFFICES ASSUME IndInv, SpacingInv, Next, NEW u \in Tasks, goesOut(u) PROVE ~wire
    OBVIOUS
  <2> USE DEF IndInv
  <2>1. ASSUME NEW t \in Tasks, TaskStep(t) PROVE ~wire
    <3>1. u = t
      BY <2>1, TaskStepMoves, MovedPlaces
    <3>2. Sends(t) /\ ClientOf(t) = entry /\ entry \in Clients
      BY <2>1, <3>1, TaskStepSpacing DEF Silent
    <3>. QED BY <3>2, ClientAssumption DEF Sends, MustSpace, SpacingInv
  <2>2. ~EnvStep
    BY EnvStepMoves DEF EnvMove
  <2>. QED BY <2>1, <2>2 DEF Next, EnvStep
<1>. QED BY <1>1, <1>2, <1>3, Inductive, PTL DEF Spec, FramesSpaced

-----------------------------------------------------------------------------
(***************************************************************************)
(* The link of those who stay.                                             *)
(***************************************************************************)
\* While two controllers are open, a close gives a reference back and touches no client.
LEMMA CloseSpares ==
    ASSUME TypeOK, RefCountIsExact, NEW c \in Controllers, CloseConnection(c),
           NEW d \in Active \ {c}
    PROVE  link' = link
<1>1. c \in Active /\ ReleaseClient
  BY DEF CloseConnection, Active
<1>2. IsFiniteSet(Active) /\ Cardinality(Active) \in Nat
  BY ActiveFacts
<1>3. Cardinality({c, d}) = 2
  <2>1. IsFiniteSet({c}) /\ Cardinality({c}) = 1 /\ d \notin {c}
    BY FS_Singleton
  <2>2. Cardinality({c} \cup {d}) = Cardinality({c}) + 1
    BY <2>1, FS_AddElement
  <2>3. {c} \cup {d} = {c, d}
    OBVIOUS
  <2>. QED BY <2>1, <2>2, <2>3
<1>4. Cardinality({c, d}) <= Cardinality(Active)
  BY <1>1, <1>2, FS_Subset
<1>5. refCount > 1 /\ refCount \in Nat /\ entry # NoClient
  BY <1>1, <1>2, <1>3, <1>4 DEF RefCountIsExact
<1>. QED BY <1>1, <1>5 DEF ReleaseClient

\* The attempt of a closed controller ends: it closes a client nobody holds, or none.
LEMMA OrphanSpares ==
    ASSUME TypeOK, ObjectInv, RefCountIsExact, NEW t \in Tasks, TaskStep(t),
           life[Owner(t)] = "closed", pc[t] = "established",
           NEW d \in Active
    PROVE  link'[clientOf[d]] = link[clientOf[d]]
<1>1. ConnectReturned(t)
  BY DEF TaskStep, Begin, BeginRead, BeginConnect, BeginRawRead, GrantConnectLock,
     GrantRequestLock, EndSpacing, Attempt, Establish, ConnectRaised, StartWriter, WriterStep,
     TakeWrite, LinkIsBack, Outcome, Answer, Refuse, FrameRaises, Cancel
<1>2. CloseIfReleased(ClientOf(t))
  BY <1>1 DEF ConnectReturned
<1>3. clientOf[d] = entry
  BY DEF RefCountIsExact
<1>4. CASE entry = ClientOf(t)
  BY <1>2, <1>4 DEF CloseIfReleased
<1>5. CASE entry # ClientOf(t)
  BY <1>2, <1>3, <1>5 DEF CloseIfReleased, TypeOK, ManagerTypeOK
<1>. QED BY <1>4, <1>5

\* Closing one controller, or the late end of its connection attempt, leaves the link of
\* every other open controller as it is, for any number of controllers on the link.
THEOREM OthersKeepTheirLink == Spec => SharedClientSurvives
<1> DEFINE closes(c) == life[c] = "active" /\ life'[c] = "closed"
           ends(c) == \E t \in Tasks : /\ Owner(t) = c /\ life[c] = "closed"
                                       /\ pc[t] = "established" /\ pc'[t] = "idle"
<1>1. IndInv /\ [Next]_vars =>
        [\A c \in Controllers :
            (\/ life[c] = "active" /\ life'[c] = "closed"
             \/ \E t \in Tasks : /\ Owner(t) = c /\ life[c] = "closed"
                                 /\ pc[t] = "established" /\ pc'[t] = "idle")
            => \A d \in Active \ {c} : link'[clientOf[d]] = link[clientOf[d]]]_vars
  <2> SUFFICES ASSUME IndInv, Next, NEW c \in Controllers, closes(c) \/ ends(c),
                      NEW d \in Active \ {c}
               PROVE  link'[clientOf[d]] = link[clientOf[d]]
    OBVIOUS
  <2> USE DEF IndInv
  <2>1. CASE closes(c)
    <3>1. CloseConnection(c)
      <4>1. ASSUME NEW t \in Tasks, TaskStep(t) PROVE FALSE
        BY <2>1, <4>1, TaskStepMoves DEF TaskMove
      <4>2. ASSUME NEW e \in Controllers, Create(e) \/ ForceClose(e) \/ PutWrite(e) PROVE FALSE
        BY <2>1, <4>2 DEF Create, ForceClose, PutWrite, objectVars, TypeOK
      <4>3. ASSUME NEW cl \in Clients, LinkLost(cl) \/ AutoReconnect(cl) PROVE FALSE
        BY <2>1, <4>3 DEF LinkLost, AutoReconnect, objectVars
      <4>4. ~Elapse
        BY <2>1 DEF Elapse, objectVars
      <4>5. ASSUME NEW e \in Controllers, CloseConnection(e) PROVE e = c
        BY <2>1, <4>5 DEF CloseConnection, TypeOK
      <4>. QED BY <4>1, <4>2, <4>3, <4>4, <4>5 DEF Next, ControllerStep
    <3>. QED BY <3>1, CloseSpares
  <2>2. CASE ends(c)
    <3>1. PICK u \in Tasks : /\ Owner(u) = c /\ life[c] = "closed"
                             /\ pc[u] = "established" /\ pc'[u] = "idle"
      BY <2>2
    <3>2. ~EnvStep
      BY <3>1, EnvStepMoves DEF EnvMove
    <3>3. PICK t \in Tasks : TaskStep(t)
      BY <3>2 DEF Next, EnvStep
    <3>4. t = u
      BY <3>1, <3>3, TaskStepMoves, MovedPlaces
    <3>. QED BY <3>1, <3>3, <3>4, OrphanSpares
  <2>. QED BY <2>1, <2>2
<1>. QED BY <1>1, Inductive, PTL DEF Spec, SharedClientSurvives
=============================================================================
