--------------------------- MODULE DataRetrieval ---------------------------
(***************************************************************************)
(* The poller of one config entry (data_retrieval.py): how polling starts, *)
(* the watchdog that reconnects (check_connection), the repair issues it   *)
(* raises, and the stop on unload, which __init__.py follows by closing    *)
(* the controller.                                                         *)
(*                                                                         *)
(* A run is a coroutine inside check_connection: Poll for the one that     *)
(* poll_controller makes, Ticks for those of the two-minute timer, which   *)
(* fires whether or not an earlier run has ended.  pc is the await a run   *)
(* is suspended at.  The poll batches of the timers and the write queue    *)
(* are here only as far as they touch the link and the watchdog's data;    *)
(* module ModbusController has the frames and the lock.                    *)
(***************************************************************************)
EXTENDS Naturals, FiniteSets

CONSTANTS
    Ticks,           \* timer runs of check_connection that may overlap
    Poll,            \* the run poll_controller makes
    StartedBy,       \* "task": created by __init__; "event": on Home Assistant's start
    SerialSlave,     \* a serial entry whose slave ID is not 1
    SuppressNight,   \* the option that suppresses the issue at night
    IssueAfter,      \* _ISSUE_AFTER_FAILURES
    MaxWrites        \* bound: writes waiting in the queue

Runs == Ticks \cup {Poll}

ASSUME RetrievalAssumption ==
    /\ Poll \notin Ticks
    /\ StartedBy \in {"task", "event"}
    /\ SerialSlave \in BOOLEAN
    /\ SuppressNight \in BOOLEAN
    /\ IssueAfter \in Nat \ {0}
    /\ MaxWrites \in Nat

VARIABLES
    stopping,      \* _stopping
    checking,      \* connection_check, the re-entrancy guard
    firstPoll,     \* first_poll
    armed,         \* _startup_unsub: the start event is still awaited
    listening,     \* the four interval timers run (_unsub_listeners)
    writers,       \* process_write_queue tasks that run
    pc,            \* per run: where it is suspended
    stop,          \* where async_stop is; "closed": done, and the controller closed
    issue,         \* the "datalogger unreachable" repair issue is shown
    issueRaised,   \* _issue_raised: "unknown", "yes" or "no"
    slaveIssue,    \* the "serial slave ID" repair issue is shown
    slaveRaised,   \* _slave_id_issue_raised
    slaveChecked,  \* _slave_id_checked
    link,          \* the controller's client is connected
    failures,      \* connect_failures, up to IssueAfter
    enabled,       \* the controller's enabled flag
    stale,         \* the last successful read is too long ago (_link_is_stale)
    answered,      \* has_answered
    queued,        \* writes waiting in the queue
    reachable,     \* the inverter accepts connections and answers
    night,         \* it is night, as _expected_offline_at_night sees it
    neighbour,     \* another entry of the bus has slave ID 1
    probeDue       \* _SLAVE_PROBE_AFTER has passed since polling began

taskVars == <<listening, writers, pc>>
issueVars == <<issue, issueRaised>>
slaveVars == <<slaveIssue, slaveRaised, slaveChecked>>
readVars == <<stale, answered>>
worldVars == <<enabled, queued, reachable, night, neighbour, probeDue>>
vars == <<stopping, checking, firstPoll, armed, taskVars, stop, issueVars,
          slaveVars, link, failures, readVars, worldVars>>

Suspended == {"probing", "updating", "connecting", "backoff"}

TypeOK ==
    /\ stopping \in BOOLEAN /\ checking \in BOOLEAN /\ firstPoll \in BOOLEAN
    /\ armed \in BOOLEAN /\ listening \in BOOLEAN
    /\ writers \in Nat
    /\ pc \in [Runs -> Suspended \cup {"off", "done", "cancelled"}]
    /\ stop \in {"no", "poll", "write", "closed"}
    /\ issue \in BOOLEAN /\ issueRaised \in {"unknown", "yes", "no"}
    /\ slaveIssue \in BOOLEAN /\ slaveRaised \in BOOLEAN /\ slaveChecked \in BOOLEAN
    /\ link \in BOOLEAN /\ failures \in 0..IssueAfter /\ enabled \in BOOLEAN
    /\ stale \in BOOLEAN /\ answered \in BOOLEAN
    /\ queued \in 0..MaxWrites
    /\ reachable \in BOOLEAN /\ night \in BOOLEAN
    /\ neighbour \in BOOLEAN /\ probeDue \in BOOLEAN

\* A repair issue of an earlier run of the entry may still be shown.
Init ==
    /\ stopping = FALSE /\ checking = FALSE /\ firstPoll = TRUE
    /\ armed = (StartedBy = "event")
    /\ listening = FALSE /\ writers = 0
    /\ pc = [r \in Runs |-> "off"]
    /\ stop = "no"
    /\ issue \in BOOLEAN /\ issueRaised = "unknown"
    /\ slaveIssue = FALSE /\ slaveRaised = FALSE /\ slaveChecked = FALSE
    /\ link = FALSE /\ failures = 0 /\ enabled = TRUE
    /\ stale = FALSE /\ answered = FALSE
    /\ queued = 0
    /\ reachable \in BOOLEAN /\ night \in {FALSE, SuppressNight}
    /\ neighbour = FALSE /\ probeDue = FALSE

Closed == stop = "closed"

\* _can_poll
CanPoll == ~stopping /\ enabled /\ link

-----------------------------------------------------------------------------
(***************************************************************************)
(* _update_connection_issue.  At night an issue is not raised, and one     *)
(* that may be left from before dusk is cleared.                           *)
(***************************************************************************)
ClearIssue == issue' = FALSE /\ issueRaised' = "no"

\* Variant with a defect, to test the properties: an issue from before dusk is not cleared.
RaiseIssueByDayOnly ==
    \/ SuppressNight /\ night /\ UNCHANGED issueVars
    \/ /\ ~(SuppressNight /\ night)
       /\ issue' = TRUE
       /\ issueRaised' = "yes"

\* Variant with a defect, to test the properties: a raised issue is not noted.
RaiseIssueForgetful ==
    \/ /\ SuppressNight /\ night
       /\ issue' = (issue /\ issueRaised = "no")
       /\ issueRaised' = "no"
    \/ /\ ~(SuppressNight /\ night)
       /\ issue' = TRUE
       /\ UNCHANGED issueRaised

RaiseIssue ==
    \/ /\ SuppressNight /\ night
       /\ issue' = (issue /\ issueRaised = "no")
       /\ issueRaised' = "no"
    \/ /\ ~(SuppressNight /\ night)
       /\ issue' = TRUE
       /\ issueRaised' = "yes"

-----------------------------------------------------------------------------
(***************************************************************************)
(* check_connection, from its last await on.                               *)
(***************************************************************************)
\* The run is over: poll_controller goes on to start the timers and the writer.
Return(r) ==
    IF r = Poll
    THEN /\ pc' = [pc EXCEPT ![r] = "done"]
         /\ listening' = TRUE
         /\ writers' = writers + 1
    ELSE /\ pc' = [pc EXCEPT ![r] = "off"]
         /\ UNCHANGED <<listening, writers>>

Suspend(r, place) ==
    /\ pc' = [pc EXCEPT ![r] = place]
    /\ UNCHANGED <<listening, writers>>

\* Variant with a defect, to test the properties: the guard is not released.
FinishKeepingGuard(r) == Return(r) /\ checking' = TRUE

\* The finally clause.
Finish(r) == Return(r) /\ checking' = FALSE

\* The head of the loop: while not connected and not stopping.
Reconnect(r, up) ==
    \/ (up \/ stopping) /\ Finish(r)
    \/ ~up /\ ~stopping /\ Suspend(r, "connecting") /\ checking' = TRUE

\* Variant with a defect, to test the properties: only a new connection clears the issue.
CheckFreshnessUncleared(r, up, old) ==
    \/ ~old /\ UNCHANGED issueVars /\ Finish(r) /\ link' = up
    \/ old /\ RaiseIssue /\ Reconnect(r, FALSE) /\ link' = FALSE

(***************************************************************************)
(* After the first poll, or right away: a link that is up, but has been    *)
(* silent for too long, is closed and opened again.                        *)
(***************************************************************************)
CheckFreshness(r, up, old) ==
    \/ ~old /\ ClearIssue /\ Finish(r) /\ link' = up
    \/ old /\ RaiseIssue /\ Reconnect(r, FALSE) /\ link' = FALSE

\* What follows _check_serial_slave_id, with the link as it is then.
CheckLink(r, up) ==
    \/ /\ up /\ firstPoll /\ ~stopping /\ enabled
       /\ Suspend(r, "updating") /\ checking' = TRUE
       /\ link' = up
       /\ UNCHANGED <<firstPoll, issueVars>>
    \/ /\ up /\ ~(firstPoll /\ ~stopping /\ enabled)
       /\ firstPoll' = FALSE
       /\ CheckFreshness(r, up, stale)
    \/ /\ ~up
       /\ Reconnect(r, FALSE)
       /\ link' = up
       /\ UNCHANGED <<firstPoll, issueVars>>

\* _check_serial_slave_id asks unit 1 while the configured slave is silent ...
MustProbe ==
    /\ SerialSlave /\ ~slaveChecked /\ ~answered /\ ~neighbour
    /\ ~slaveRaised /\ probeDue

\* ... and settles the matter, forgets about it, or waits.
NoProbe ==
    \/ slaveChecked /\ UNCHANGED slaveVars
    \/ /\ ~slaveChecked /\ SerialSlave /\ ~answered /\ ~neighbour
       /\ (slaveRaised \/ ~probeDue)
       /\ UNCHANGED slaveVars
    \/ /\ ~slaveChecked /\ (~SerialSlave \/ answered)
       /\ slaveIssue' = FALSE /\ slaveChecked' = TRUE
       /\ UNCHANGED slaveRaised
    \/ /\ ~slaveChecked /\ SerialSlave /\ ~answered /\ neighbour
       /\ slaveIssue' = FALSE /\ slaveRaised' = FALSE
       /\ UNCHANGED slaveChecked

\* Variant with a defect, to test the properties: the guard is set after the slave ID check.
CheckGuardLate(r) ==
    /\ \/ /\ checking
          /\ Return(r)
          /\ UNCHANGED <<checking, firstPoll, issueVars, slaveVars, link>>
       \/ /\ ~checking /\ MustProbe
          /\ Suspend(r, "probing")
          /\ UNCHANGED <<checking, firstPoll, issueVars, slaveVars, link>>
       \/ ~checking /\ ~MustProbe /\ NoProbe /\ CheckLink(r, link)
    /\ UNCHANGED <<stopping, stop, failures, readVars, worldVars>>

\* check_connection, up to its first await.
Check(r) ==
    /\ \/ /\ checking
          /\ Return(r)
          /\ UNCHANGED <<checking, firstPoll, issueVars, slaveVars, link>>
       \/ /\ ~checking /\ MustProbe
          /\ Suspend(r, "probing") /\ checking' = TRUE
          /\ UNCHANGED <<firstPoll, issueVars, slaveVars, link>>
       \/ ~checking /\ ~MustProbe /\ NoProbe /\ CheckLink(r, link)
    /\ UNCHANGED <<stopping, stop, failures, readVars, worldVars>>

\* poll_controller begins: its task runs for the first time, or Home Assistant starts.
PollStarts ==
    /\ pc[Poll] = "off"
    /\ IF StartedBy = "task" THEN stop = "no" ELSE armed
    /\ armed' = FALSE
    /\ Check(Poll)

TimerFires(r) ==
    /\ r \in Ticks /\ pc[r] = "off"
    /\ listening
    /\ Check(r)
    /\ UNCHANGED armed

\* A task that async_stop cancelled takes no more steps of its own.
Resumes(r, place) ==
    /\ pc[r] = place
    /\ r = Poll /\ StartedBy = "task" => stop # "poll"

\* One failed attempt is one failure; a serial attempt may count twice.
Counts == IF SerialSlave THEN {1, 2} ELSE {1}

CountFailures ==
    \E n \in Counts :
        failures' = IF failures + n > IssueAfter THEN IssueAfter ELSE failures + n

(***************************************************************************)
(* async_unit_answers(1) returns.  It connects if need be, and closes the  *)
(* link when its read raises.                                              *)
(***************************************************************************)
ProbeReturns(r) ==
    /\ Resumes(r, "probing")
    /\ \/ /\ ~Closed /\ (link \/ reachable)
          /\ slaveRaised' = TRUE /\ slaveIssue' = TRUE
          /\ failures' \in IF link THEN {failures} ELSE {0}
          /\ CheckLink(r, TRUE)
       \/ /\ ~Closed /\ link
          /\ UNCHANGED <<slaveRaised, slaveIssue, failures>>
          /\ \E up \in BOOLEAN : CheckLink(r, up)
       \/ /\ ~Closed /\ ~link
          /\ CountFailures
          /\ UNCHANGED <<slaveRaised, slaveIssue>>
          /\ CheckLink(r, FALSE)
       \/ /\ Closed
          /\ UNCHANGED <<slaveRaised, slaveIssue, failures>>
          /\ CheckLink(r, link)
    /\ UNCHANGED <<stopping, armed, stop, slaveChecked, readVars, worldVars>>

\* modbus_update_all returns: something was read, nothing was, or the link was closed.
UpdateReturns(r) ==
    /\ Resumes(r, "updating")
    /\ firstPoll' = FALSE
    /\ \/ /\ reachable
          /\ stale' = FALSE /\ answered' = TRUE
          /\ CheckFreshness(r, link, FALSE)
       \/ /\ UNCHANGED readVars
          /\ \E up \in {FALSE, link} : CheckFreshness(r, up, stale)
    /\ UNCHANGED <<stopping, armed, stop, slaveVars, failures, worldVars>>

\* connect() returns True: the link is up, by this attempt or otherwise.
Connects(r) ==
    /\ Resumes(r, "connecting")
    /\ ~Closed /\ (link \/ reachable)
    /\ link' = TRUE
    /\ failures' \in IF link THEN {0, failures} ELSE {0}
    /\ ClearIssue
    /\ Finish(r)
    /\ UNCHANGED <<stopping, firstPoll, armed, stop, slaveVars, readVars,
                   worldVars>>

\* connect() returns False, or raises.
FailsToConnect(r) ==
    /\ Resumes(r, "connecting")
    /\ \/ ~Closed /\ ~link /\ ~reachable /\ CountFailures
       \/ Closed /\ UNCHANGED failures
    /\ \/ failures' = IssueAfter /\ RaiseIssue
       \/ failures' # IssueAfter /\ UNCHANGED issueVars
    /\ \/ stopping /\ Finish(r)
       \/ ~stopping /\ Suspend(r, "backoff") /\ checking' = TRUE
    /\ UNCHANGED <<stopping, firstPoll, armed, stop, slaveVars, link, readVars,
                   worldVars>>

BackoffEnds(r) ==
    /\ Resumes(r, "backoff")
    /\ Reconnect(r, link)
    /\ UNCHANGED <<stopping, firstPoll, armed, stop, issueVars, slaveVars, link,
                   failures, readVars, worldVars>>

Resume(r) ==
    ProbeReturns(r) \/ UpdateReturns(r) \/ Connects(r) \/ FailsToConnect(r) \/ BackoffEnds(r)

-----------------------------------------------------------------------------
(***************************************************************************)
(* async_stop, and close_connection right after it.                        *)
(***************************************************************************)
AfterPoll == IF writers > 0 THEN "write" ELSE "closed"

\* Variant with a defect, to test the properties: the poll task is not cancelled.
StopLeavingPoll ==
    /\ stop = "no"
    /\ stopping' = TRUE
    /\ ClearIssue
    /\ slaveIssue' = FALSE
    /\ armed' = FALSE /\ listening' = FALSE /\ checking' = FALSE
    /\ stop' = AfterPoll
    /\ UNCHANGED <<firstPoll, writers, pc, slaveRaised, slaveChecked, link,
                   failures, readVars, worldVars>>

\* Variant with a defect, to test the properties: runs in flight are not told to stop.
StopUnsignalled ==
    /\ stop = "no"
    /\ ClearIssue
    /\ slaveIssue' = FALSE
    /\ armed' = FALSE /\ listening' = FALSE /\ checking' = FALSE
    /\ stop' = IF StartedBy = "task" /\ pc[Poll] # "done" THEN "poll" ELSE AfterPoll
    /\ UNCHANGED <<stopping, firstPoll, writers, pc, slaveRaised, slaveChecked,
                   link, failures, readVars, worldVars>>

\* async_stop up to the first task it awaits.
Stop ==
    /\ stop = "no"
    /\ stopping' = TRUE
    /\ ClearIssue
    /\ slaveIssue' = FALSE
    /\ armed' = FALSE /\ listening' = FALSE /\ checking' = FALSE
    /\ stop' = IF StartedBy = "task" /\ pc[Poll] # "done" THEN "poll" ELSE AfterPoll
    /\ UNCHANGED <<firstPoll, writers, pc, slaveRaised, slaveChecked, link,
                   failures, readVars, worldVars>>

\* The cancelled poll_controller ends; it releases the guard if it holds it.
PollCancelled ==
    /\ stop = "poll"
    /\ pc' = [pc EXCEPT ![Poll] = "cancelled"]
    /\ checking' = IF pc[Poll] \in Suspended THEN FALSE ELSE checking
    /\ stop' = AfterPoll
    /\ UNCHANGED <<stopping, firstPoll, armed, listening, writers, issueVars,
                   slaveVars, link, failures, readVars, worldVars>>

\* The cancelled process_write_queue ends.
WriterCancelled ==
    /\ stop = "write"
    /\ writers' = writers - 1
    /\ stop' = "closed"
    /\ UNCHANGED <<stopping, checking, firstPoll, armed, listening, pc,
                   issueVars, slaveVars, link, failures, readVars, worldVars>>

-----------------------------------------------------------------------------
(***************************************************************************)
(* The poll batches of the timers and the writes, as the watchdog and the  *)
(* enable switch see them.                                                 *)
(***************************************************************************)
watchdogVars == <<stopping, checking, firstPoll, armed, taskVars, stop,
                  issueVars, slaveVars, failures>>

BatchSucceeds ==
    /\ listening /\ CanPoll /\ reachable
    /\ stale' = FALSE /\ answered' = TRUE
    /\ UNCHANGED <<watchdogVars, link, worldVars>>

BatchFails ==
    /\ listening /\ CanPoll /\ ~reachable
    /\ link' = FALSE
    /\ UNCHANGED <<watchdogVars, readVars, worldVars>>

PutWrite ==
    /\ queued < MaxWrites
    /\ queued' = queued + 1
    /\ UNCHANGED <<watchdogVars, link, readVars, enabled, reachable, night,
                   neighbour, probeDue>>

\* process_write_queue looks at the link, not at the enabled flag.
SendWrite ==
    /\ writers > 0 /\ stop # "write"
    /\ queued > 0 /\ link
    /\ queued' = queued - 1
    /\ UNCHANGED <<watchdogVars, link, readVars, enabled, reachable, night,
                   neighbour, probeDue>>

\* enable_connection, disable_connection
Switch ==
    /\ enabled' = ~enabled
    /\ UNCHANGED <<watchdogVars, link, readVars, queued, reachable, night,
                   neighbour, probeDue>>

(***************************************************************************)
(* The world: the inverter comes and goes, the link drops (by the peer, or *)
(* by the controller of another inverter that shares it) and comes up      *)
(* again by itself, time passes.                                           *)
(***************************************************************************)
LinkChanges ==
    /\ link \/ reachable
    /\ link' = ~link
    /\ UNCHANGED <<watchdogVars, readVars, worldVars>>

ReadsStop ==
    /\ ~(listening /\ CanPoll /\ reachable)
    /\ stale' = TRUE
    /\ UNCHANGED <<watchdogVars, link, answered, worldVars>>

WorldChanges ==
    /\ \/ reachable' = ~reachable /\ UNCHANGED <<night, neighbour, probeDue>>
       \/ SuppressNight /\ night' = ~night /\ UNCHANGED <<reachable, neighbour, probeDue>>
       \/ SerialSlave /\ neighbour' = ~neighbour /\ UNCHANGED <<reachable, night, probeDue>>
       \/ /\ SerialSlave /\ pc[Poll] # "off"
          /\ probeDue' = TRUE
          /\ UNCHANGED <<reachable, night, neighbour>>
    /\ UNCHANGED <<watchdogVars, link, readVars, enabled, queued>>

-----------------------------------------------------------------------------
RunStep(r) == TimerFires(r) \/ Resume(r)

StopStep == Stop \/ PollCancelled \/ WriterCancelled

World == LinkChanges \/ ReadsStop \/ WorldChanges \/ Switch \/ PutWrite

Next ==
    \/ PollStarts
    \/ \E r \in Runs : RunStep(r)
    \/ StopStep
    \/ BatchSucceeds \/ BatchFails \/ SendWrite
    \/ World

Spec == Init /\ [][Next]_vars

(***************************************************************************)
(* Fairness: Home Assistant starts, timers fire, every await ends, and the *)
(* poll batches, which run every few seconds, get a turn on a link that is *)
(* up again and again.                                                     *)
(***************************************************************************)
Fairness ==
    /\ WF_vars(PollStarts)
    /\ \A r \in Runs : WF_vars(TimerFires(r)) /\ WF_vars(Resume(r))
    /\ WF_vars(PollCancelled) /\ WF_vars(WriterCancelled)
    /\ SF_vars(BatchSucceeds)

FairSpec == Spec /\ Fairness

-----------------------------------------------------------------------------
(***************************************************************************)
(* Properties.                                                             *)
(***************************************************************************)
Inside == {r \in Runs : pc[r] \in Suspended}

\* The re-entrancy guard is exact while the poller runs, and no two runs are ever
\* inside check_connection, not even when async_stop has reset the guard under a run.
OneCheck ==
    /\ \A r, u \in Inside : r = u
    /\ ~stopping => (checking <=> Inside # {})

\* After async_stop nothing of the poller is left: no timer, no writer, no start.
QuietAfterStop == Closed => ~listening /\ ~armed /\ writers = 0

\* _issue_raised = False, which lets the night pass skip the delete, is only ever
\* true of an entry whose issue is not shown.
IssueFlagHonest == issueRaised = "no" => ~issue

\* With the option set no issue lasts through the night, and none comes back: be it left
\* from before dusk or from before a restart, be the inverter asleep, the link half-open or
\* a reconnect loop at work since the day.
DuskClears ==
    <>[](SuppressNight /\ night /\ stop = "no") => <>[]~issue

\* The watchdog never dies: if the inverter stays within reach, the link comes up
\* again and again, whatever closed it.
WatchdogReconnects ==
    <>[](reachable /\ stop = "no") => []<>link

\* Nor does it cry wolf for ever: the issue does not stay up.
IssueClears ==
    <>[](reachable /\ stop = "no") => []<>~issue

\* A run in flight when the poller is stopped ends, even while the inverter is
\* offline, and async_stop with it.
StopEnds == stop # "no" ~> (Closed /\ Inside = {})
=============================================================================
