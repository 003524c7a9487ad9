-------------------------- MODULE DispatchServices --------------------------
(***************************************************************************)
(* The services of remote dispatch, beside the switches and selects.       *)
(*                                                                         *)
(* A dispatch writes whole blocks, which hold two words the caller may     *)
(* omit: reserve and PV limit.  These are read back and written again as   *)
(* they were.  Writes are queued and reads are not, so a call holds the    *)
(* dispatch lock of the inverter while it waits for the queue to be empty, *)
(* reads, and queues its blocks.  dispatch_stop takes no lock.             *)
(***************************************************************************)
EXTENDS RegisterCache

CONSTANTS
    Requests    \* the calls: where they write, the mode (of a period: whether it is
                \* enabled), and the two words or Unknown

Master == 44100
Failsafe == 44101
Mode == 44105
Function == 44108
ScheduleBase == 44116

\* The two words, in the realtime block and in the block of the first period.
ReserveOf(c) == IF c.schedule THEN ScheduleBase + 9 ELSE 44111
Reserves(c) == {ReserveOf(c), ReserveOf(c) + 1}

DispatchRegisters ==
    {Master, Failsafe, Mode, Function, ScheduleBase} \cup UNION {Reserves(c) : c \in Requests}

ASSUME DispatchAssumption ==
    /\ \A c \in Requests :
          /\ c.schedule \in BOOLEAN /\ c.mode \in Words
          /\ Reserves(c) \subseteq Registers
          /\ c.given \in [{0, 1} -> Words \cup {Unknown}]
    /\ {Master, Failsafe, Mode, Function, ScheduleBase} \subseteq Registers
    /\ \A k \in Controls :
          ({k.register, k.target} \cup ToSet(k.companions)) \cap DispatchRegisters = {}

Phases == {"new", "lock", "flush", "read", "done", "failed"}

VARIABLES
    phase          \* where each call is

vars == <<cacheVars, phase>>

DispatchTypeOK == TypeOK /\ phase \in [Requests -> Phases]

-----------------------------------------------------------------------------
Goes(c, p) == phase' = [phase EXCEPT ![c] = p]

Given(c, n, current) == IF c.given[n] = Unknown THEN current[ReserveOf(c) + n] ELSE c.given[n]

ReserveWords(c, current) == [r \in Reserves(c) |-> Given(c, r - ReserveOf(c), current)]

\* A block that holds another word.
With(words, r, word) ==
    [q \in DOMAIN words \cup {r} |-> IF q = r THEN word ELSE words[q]]

\* The period of a schedule is one block; when it is enabled dispatch is switched on then.
Blocks(c, current) ==
    LET period == With(ReserveWords(c, current), ScheduleBase, c.mode)
    IN  CASE ~c.schedule ->
               <<With(Single(Master, {0}), Failsafe, {0}),
                 With(With(ReserveWords(c, current), Mode, c.mode), Function, {0})>>
          [] c.schedule /\ c.mode # {} ->
               <<period, Single(Failsafe, {}), Single(Master, {0})>>
          [] OTHER -> <<period>>

Omits(c) == \E n \in {0, 1} : c.given[n] = Unknown

\* Capability and version are looked at before anything else.
Begin(c) ==
    /\ phase[c] = "new" /\ calls < MaxCalls
    /\ calls' = calls + 1
    /\ Goes(c, "lock") \/ Goes(c, "failed")
    /\ UNCHANGED <<device, cache, queue, frame, link, entityVars, failures, resets>>

\* Variant with a defect, to test the properties: no dispatch lock.
Unlocked == TRUE

\* A call holds the lock while it waits for the queue and for its read-back.
LockFree == \A c \in Requests : phase[c] \notin {"flush", "read"}

\* A call that gives both words queues its blocks at once.
TakeLock(c) ==
    /\ phase[c] = "lock" /\ LockFree
    /\ \/ /\ Omits(c)
          /\ Goes(c, "flush") /\ UNCHANGED queue
       \/ /\ ~Omits(c)
          /\ Goes(c, "done") /\ queue' = queue \o Blocks(c, device)
    /\ UNCHANGED <<device, cache, frame, link, entityVars, countVars>>

\* write_queue.join: nothing is queued, and nothing that was taken is unfinished.
Flushed == queue = <<>> /\ frame.kind # "write"

FlushEnds(c) ==
    /\ phase[c] = "flush" /\ Flushed
    /\ Goes(c, "read")
    /\ UNCHANGED cacheVars

\* Variant with a defect, to test the properties: the wait has no limit.
FlushNeverTimesOut(c) == FALSE /\ UNCHANGED vars

FlushTimesOut(c) ==
    /\ phase[c] = "flush" /\ ~Flushed
    /\ Goes(c, "failed")
    /\ UNCHANGED cacheVars

ReadBackStarts(c) ==
    /\ phase[c] = "read" /\ Sends
    /\ frame' = Frame("readback", [r \in Reserves(c) |-> device[r]], {c})
    /\ UNCHANGED <<device, cache, queue, link, entityVars, countVars, phase>>

ReadBackGivesUp(c) ==
    /\ phase[c] = "read" /\ frame = Idle /\ ~link
    /\ Goes(c, "failed")
    /\ UNCHANGED cacheVars

ReadBackReturns(c) ==
    /\ frame.kind = "readback" /\ c \in frame.waiting
    /\ frame' = Idle
    /\ queue' = queue \o Blocks(c, frame.words)
    /\ Goes(c, "done")
    /\ UNCHANGED <<device, cache, link, entityVars, countVars>>

\* Dispatch ends whatever else is queued.
DispatchStop ==
    /\ calls < MaxCalls /\ calls' = calls + 1
    /\ queue' = queue \o <<Single(Mode, {0}), Single(Function, {0}), Single(Master, {})>>
    /\ UNCHANGED <<device, cache, frame, link, entityVars, failures, resets, phase>>

\* A read-back that fails ends its call.
AnyFrameFails ==
    /\ FrameFails
    /\ IF frame.kind = "readback" THEN \A c \in frame.waiting : Goes(c, "failed")
       ELSE UNCHANGED phase

DispatchInit == Init /\ phase = [c \in Requests |-> "new"]

CallStep(c) ==
    \/ Begin(c) \/ TakeLock(c) \/ FlushEnds(c) \/ FlushTimesOut(c)
    \/ ReadBackStarts(c) \/ ReadBackGivesUp(c) \/ ReadBackReturns(c)

DispatchNext ==
    \/ CacheStep /\ UNCHANGED phase
    \/ AnyFrameFails
    \/ \E c \in Requests : CallStep(c)
    \/ DispatchStop

\* Every await of a call ends: the wait for the queue has a limit of 30 seconds.
DispatchFairness ==
    /\ WF_vars(\E c \in Requests : TakeLock(c) \/ FlushEnds(c) \/ FlushTimesOut(c)
                                  \/ ReadBackGivesUp(c) \/ ReadBackReturns(c))
    /\ SF_vars(\E c \in Requests : ReadBackStarts(c))

DispatchSpec == DispatchInit /\ [][DispatchNext]_vars
FairSpec == DispatchSpec /\ CacheFairness /\ DispatchFairness

-----------------------------------------------------------------------------
(***************************************************************************)
(* Properties.                                                             *)
(***************************************************************************)
\* The word a register will hold when all that is queued has been written.
Upcoming(r) ==
    LET writers == {i \in DOMAIN queue : r \in DOMAIN queue[i]}
    IN  IF writers # {} THEN queue[Max(writers)][r]
        ELSE IF frame.kind = "write" /\ r \in DOMAIN frame.words THEN frame.words[r]
        ELSE device[r]

\* A word the caller omitted is queued as it will be then: overlapping calls do not undo
\* each other's reserve and limit, however long the queue is.
OmittedIsKept ==
    [][\A c \in Requests : phase[c] # "done" /\ phase'[c] = "done" =>
          \A n \in {0, 1} : c.given[n] = Unknown =>
              LET r == ReserveOf(c) + n IN Upcoming(r)' = Upcoming(r)]_vars

\* No call waits for ever, and none keeps the dispatch lock from the others.
CallsEnd == []<>(\A c \in Requests : phase[c] \notin {"lock", "flush", "read"})
=============================================================================
