------------------------ MODULE DataRetrieval_proofs ------------------------
(***************************************************************************)
(* Proofs about the poller and its watchdog, for any number of overlapping *)
(* timer runs, either kind of link and every option.                       *)
(***************************************************************************)
EXTENDS DataRetrieval, TLAPS

(***************************************************************************)
(* What a step of a run does to the guard and to the tasks: a run that     *)
(* finds the guard taken returns; any other goes on to the next await with *)
(* the guard taken, or returns and releases it.                            *)
(***************************************************************************)
MayStart(r) ==
    IF r = Poll THEN (IF StartedBy = "task" THEN stop = "no" ELSE armed) ELSE listening

RunMove(r) ==
    /\ \/ pc[r] = "off" /\ checking /\ checking' /\ Return(r)
       \/ /\ (pc[r] = "off" /\ ~checking) \/ pc[r] \in Suspended
          /\ \/ Return(r) /\ checking' = FALSE
             \/ checking' = TRUE /\ \E p \in Suspended : Suspend(r, p)
    /\ pc[r] = "off" => MayStart(r)
    /\ pc[r] # "off" /\ r = Poll /\ StartedBy = "task" => stop # "poll"
    /\ armed' = (armed /\ ~(pc[r] = "off" /\ r = Poll))
    /\ UNCHANGED <<stopping, stop>>

\* A step of one of the runs of check_connection.
StepOf(r) == (r = Poll /\ PollStarts) \/ TimerFires(r) \/ Resume(r)

\* Every step that is none of a run's and none of async_stop's.
OtherStep == BatchSucceeds \/ BatchFails \/ SendWrite \/ World

-----------------------------------------------------------------------------
\* The outcomes of the code after the slave ID check, as a move of the guard.
LEMMA CheckLinkMoves ==
    ASSUME NEW r \in Runs, NEW up \in BOOLEAN, CheckLink(r, up)
    PROVE  \/ Return(r) /\ checking' = FALSE
           \/ checking' = TRUE /\ \E p \in Suspended : Suspend(r, p)
BY DEF CheckLink, CheckFreshness, Reconnect, Finish, Suspended

\* The beginning of check_connection, as a move of the guard.
LEMMA CheckMoves ==
    ASSUME TypeOK, NEW r \in Runs, Check(r)
    PROVE  /\ \/ checking /\ checking' /\ Return(r)
              \/ /\ ~checking
                 /\ \/ Return(r) /\ checking' = FALSE
                    \/ checking' = TRUE /\ \E p \in Suspended : Suspend(r, p)
           /\ UNCHANGED <<stopping, stop>>
<1>1. link \in BOOLEAN
  BY DEF TypeOK
<1>2. CASE checking
  BY <1>2 DEF Check
<1>3. CASE ~checking /\ MustProbe /\ Suspend(r, "probing") /\ checking' = TRUE
  BY <1>3 DEF Check, Suspended
<1>4. CASE ~checking /\ CheckLink(r, link)
  BY <1>1, <1>4, CheckLinkMoves DEF Check
<1>. QED BY <1>2, <1>3, <1>4 DEF Check

\* A resumption of check_connection, as a move of the guard.
LEMMA ResumeMoves ==
    ASSUME TypeOK, NEW r \in Runs, Resume(r)
    PROVE  /\ pc[r] \in Suspended
           /\ \/ Return(r) /\ checking' = FALSE
              \/ checking' = TRUE /\ \E p \in Suspended : Suspend(r, p)
           /\ r = Poll /\ StartedBy = "task" => stop # "poll"
           /\ UNCHANGED <<stopping, stop, armed>>
<1>1. link \in BOOLEAN
  BY DEF TypeOK
<1>2. CASE ProbeReturns(r)
  <2>1. \E up \in BOOLEAN : CheckLink(r, up)
    BY <1>1, <1>2 DEF ProbeReturns
  <2>. QED BY <1>2, <2>1, CheckLinkMoves DEF ProbeReturns, Resumes, Suspended
<1>3. CASE UpdateReturns(r)
  BY <1>3 DEF UpdateReturns, CheckFreshness, Reconnect, Finish, Resumes, Suspended
<1>4. CASE Connects(r)
  BY <1>4 DEF Connects, Finish, Resumes, Suspended
<1>5. CASE FailsToConnect(r)
  BY <1>5 DEF FailsToConnect, Finish, Resumes, Suspended
<1>6. CASE BackoffEnds(r)
  BY <1>6 DEF BackoffEnds, Reconnect, Finish, Resumes, Suspended
<1>. QED BY <1>2, <1>3, <1>4, <1>5, <1>6 DEF Resume

\* Every step of a run is a move of the guard.
LEMMA RunMoves ==
    ASSUME TypeOK, NEW r \in Runs, StepOf(r)
    PROVE  RunMove(r)
<1>1. CASE r = Poll /\ PollStarts
  <2>1. Check(r) /\ pc[r] = "off" /\ MayStart(r) /\ armed' = FALSE
    BY <1>1 DEF PollStarts, MayStart
  <2>. QED BY <1>1, <2>1, CheckMoves DEF RunMove
<1>2. CASE TimerFires(r)
  <2>1. Check(r) /\ pc[r] = "off" /\ MayStart(r) /\ r # Poll /\ armed' = armed
    BY <1>2, RetrievalAssumption DEF TimerFires, MayStart
  <2>2. armed \in BOOLEAN
    BY DEF TypeOK
  <2>. QED BY <2>1, <2>2, CheckMoves DEF RunMove
<1>3. CASE Resume(r)
  <2>1. armed \in BOOLEAN /\ "off" \notin Suspended
    BY DEF TypeOK, Suspended
  <2>. QED BY <1>3, <2>1, ResumeMoves DEF RunMove
<1>. QED BY <1>1, <1>2, <1>3 DEF StepOf

\* The poll batches, the writes and the world leave guard, tasks and stop alone.
LEMMA OtherStepMoves ==
    ASSUME OtherStep
    PROVE  UNCHANGED <<stopping, checking, armed, listening, writers, pc, stop>>
BY DEF OtherStep, BatchSucceeds, BatchFails, SendWrite, World, LinkChanges, ReadsStop,
       WorldChanges, Switch, PutWrite, watchdogVars, taskVars

\* The next-state relation in these terms.
LEMMA NextCases ==
    ASSUME Next
    PROVE  (\E r \in Runs : StepOf(r)) \/ StopStep \/ OtherStep
BY DEF Next, RunStep, StepOf, OtherStep, Runs

-----------------------------------------------------------------------------
(***************************************************************************)
(* The inductive invariant.                                                *)
(***************************************************************************)
Exact == checking <=> Inside # {}

\* async_stop released the guard under a run; then nothing can start another one.
Late == stopping /\ ~checking /\ ~listening

GuardInv ==
    /\ \A r, u \in Inside : r = u
    /\ Exact \/ Late
    /\ \A r \in Ticks : pc[r] # "off" => pc[Poll] = "done"
    /\ listening => pc[Poll] = "done"

StopInv ==
    /\ stopping <=> stop # "no"
    /\ stop # "no" => ~armed
    /\ stop = "poll" => StartedBy = "task" /\ pc[Poll] # "done"
    /\ stop = "write" => writers = 1
    /\ writers \in {0, 1} /\ (writers = 1 => pc[Poll] = "done")

\* A poller started as a task is quiet once async_stop has got that far.
TaskInv ==
    StartedBy = "task" =>
        /\ stop # "no" => ~listening
        /\ stop \in {"write", "closed"} => pc[Poll] \in {"done", "cancelled"}
        /\ stop = "closed" => writers = 0

PollerInv == TypeOK /\ GuardInv /\ StopInv /\ TaskInv

-----------------------------------------------------------------------------
\* Where a run is, after a step of it.
LEMMA RunPlaces ==
    ASSUME TypeOK, NEW r \in Runs, RunMove(r)
    PROVE  /\ pc[r] \in Suspended \cup {"off"}
           /\ pc' \in [Runs -> Suspended \cup {"off", "done", "cancelled"}]
           /\ \A u \in Runs \ {r} : pc'[u] = pc[u]
           /\ r = Poll => pc'[r] \in Suspended \cup {"done"}
           /\ r # Poll => pc'[r] \in Suspended \cup {"off"}
           /\ pc'[r] \in Suspended \/ Return(r)
           /\ pc'[r] \in Suspended => UNCHANGED <<listening, writers>>
           /\ r # Poll => UNCHANGED <<listening, writers>>
           /\ r = Poll /\ pc'[r] = "done" => listening' = TRUE /\ writers' = writers + 1
BY DEF TypeOK, RunMove, Return, Suspend, Suspended

\* A step of a run keeps the guard: it starts only where no other run is inside.
LEMMA GuardRunStep ==
    ASSUME TypeOK, GuardInv, StopInv, NEW r \in Runs, RunMove(r)
    PROVE  GuardInv'
<1> USE DEF Inside
<1>1. /\ pc[r] \in Suspended \cup {"off"}
      /\ \A u \in Runs \ {r} : pc'[u] = pc[u]
      /\ r = Poll => pc'[r] \in Suspended \cup {"done"}
      /\ r # Poll => pc'[r] \in Suspended \cup {"off"}
      /\ r # Poll => UNCHANGED listening
      /\ pc'[r] \in Suspended => UNCHANGED listening
      /\ Poll \in Runs /\ Ticks \subseteq Runs
      /\ "off" \notin Suspended /\ "done" \notin Suspended
  BY RunPlaces DEF Runs, Suspended
<1>2. /\ \A u, v \in Inside' : u = v
      /\ Exact' \/ Late'
  <2>1. CASE pc[r] = "off" /\ checking /\ checking' /\ Return(r)
    <3>1. pc'[r] \notin Suspended
      BY <2>1, <1>1 DEF Return, TypeOK
    <3>2. Inside' = Inside
      BY <1>1, <2>1, <3>1
    <3>. QED BY <2>1, <3>2 DEF GuardInv, Exact, Late
  <2>2. CASE ((pc[r] = "off" /\ ~checking) \/ pc[r] \in Suspended)
             /\ (\/ Return(r) /\ checking' = FALSE
                 \/ checking' = TRUE /\ \E p \in Suspended : Suspend(r, p))
    <3>1. \A u \in Runs \ {r} : pc[u] \notin Suspended
      <4>1. CASE pc[r] \in Suspended
        BY <4>1 DEF GuardInv
      <4>2. CASE pc[r] = "off" /\ ~checking
        <5>1. ~Late
          BY <4>2, <1>1 DEF Late, RunMove, MayStart, StopInv
        <5>. QED BY <4>2, <5>1 DEF GuardInv, Exact
      <4>. QED BY <2>2, <4>1, <4>2
    <3>2. \A u \in Runs \ {r} : pc'[u] \notin Suspended
      BY <1>1, <3>1
    <3>3. checking' <=> pc'[r] \in Suspended
      BY <2>2, <1>1 DEF Return, Suspend, TypeOK
    <3>. QED BY <3>2, <3>3 DEF Exact
  <2>. QED BY <2>1, <2>2 DEF RunMove
<1>3. \A u \in Ticks : pc'[u] # "off" => pc'[Poll] = "done"
  <2>1. CASE r = Poll
    BY <2>1, <1>1, RetrievalAssumption DEF GuardInv
  <2>2. CASE r # Poll
    <3>1. pc[Poll] = "done"
      BY <2>2, <1>1 DEF GuardInv, RunMove, MayStart, Runs
    <3>. QED BY <2>2, <3>1, <1>1
  <2>. QED BY <2>1, <2>2
<1>4. listening' => pc'[Poll] = "done"
  <2>1. CASE r = Poll
    BY <2>1, <1>1 DEF GuardInv
  <2>2. CASE r # Poll
    BY <2>2, <1>1 DEF GuardInv
  <2>. QED BY <2>1, <2>2
<1>. QED BY <1>2, <1>3, <1>4 DEF GuardInv

\* A step of a run keeps what holds of the stop.
LEMMA StopRunStep ==
    ASSUME TypeOK, GuardInv, StopInv, TaskInv, NEW r \in Runs, RunMove(r)
    PROVE  StopInv' /\ TaskInv'
<1>1. /\ pc[r] \in Suspended \cup {"off"}
      /\ \A u \in Runs \ {r} : pc'[u] = pc[u]
      /\ r = Poll => pc'[r] \in Suspended \cup {"done"}
      /\ r # Poll => UNCHANGED <<listening, writers>>
      /\ pc'[r] \in Suspended => UNCHANGED <<listening, writers>>
      /\ r = Poll /\ pc'[r] = "done" => writers' = writers + 1
      /\ Poll \in Runs
      /\ "off" \notin Suspended /\ "done" \notin Suspended /\ "cancelled" \notin Suspended
      /\ UNCHANGED <<stopping, stop>>
      /\ armed' => armed
  BY RunPlaces DEF Runs, Suspended, RunMove
<1>2. CASE r # Poll
  BY <1>1, <1>2 DEF StopInv, TaskInv
<1>3. CASE r = Poll
  <2>1. pc[Poll] # "done" /\ writers = 0 /\ stop # "write"
    BY <1>1, <1>3 DEF StopInv
  <2>2. StartedBy = "task" => stop = "no"
    <3>1. StartedBy = "task" => stop # "poll"
      BY <1>1, <1>3 DEF RunMove, MayStart
    <3>2. StartedBy = "task" => stop # "closed"
      BY <1>1, <1>3 DEF TaskInv
    <3>. QED BY <2>1, <3>1, <3>2 DEF TypeOK
  <2>3. stop # "poll"
    BY <2>2 DEF StopInv
  <2>4. writers' \in {0, 1} /\ (writers' = 1 => pc'[Poll] = "done")
    BY <1>1, <1>3, <2>1
  <2>. QED BY <1>1, <2>1, <2>2, <2>3, <2>4 DEF StopInv, TaskInv
<1>. QED BY <1>2, <1>3

\* async_stop keeps both.
LEMMA StopStepInv ==
    ASSUME TypeOK, GuardInv, StopInv, TaskInv, StopStep
    PROVE  GuardInv' /\ StopInv' /\ TaskInv'
<1> USE DEF Inside
<1>0. Poll \in Runs /\ Ticks \subseteq Runs /\ Poll \notin Ticks
  BY RetrievalAssumption DEF Runs
<1>1. CASE Stop
  <2>1. /\ stop = "no" /\ stopping' = TRUE /\ armed' = FALSE /\ listening' = FALSE
        /\ checking' = FALSE /\ UNCHANGED <<pc, writers>>
        /\ stop' = IF StartedBy = "task" /\ pc[Poll] # "done" THEN "poll" ELSE AfterPoll
    BY <1>1 DEF Stop
  <2>2. GuardInv'
    BY <2>1 DEF GuardInv, Exact, Late
  <2>3. StopInv' /\ TaskInv'
    BY <2>1 DEF StopInv, TaskInv, AfterPoll
  <2>. QED BY <2>2, <2>3
<1>2. CASE PollCancelled
  <2>1. /\ stop = "poll" /\ stop' = AfterPoll /\ UNCHANGED <<stopping, armed, listening, writers>>
        /\ pc' = [pc EXCEPT ![Poll] = "cancelled"]
        /\ checking' = IF pc[Poll] \in Suspended THEN FALSE ELSE checking
    BY <1>2 DEF PollCancelled
  <2>2. pc'[Poll] = "cancelled" /\ \A u \in Ticks : pc'[u] = pc[u]
    BY <1>0, <2>1 DEF TypeOK
  <2>3. \A u \in Ticks : pc[u] = "off"
    BY <2>1 DEF GuardInv, StopInv
  <2>4. Inside' = {} /\ "cancelled" \notin Suspended
    BY <2>2, <2>3 DEF Runs, Suspended
  <2>5. ~checking'
    <3>1. CASE pc[Poll] \in Suspended
      BY <2>1, <3>1
    <3>2. CASE pc[Poll] \notin Suspended
      <4>1. Inside = {}
        BY <2>3, <3>2 DEF Runs, Suspended
      <4>. QED BY <2>1, <3>2, <4>1 DEF GuardInv, Exact, Late
    <3>. QED BY <3>1, <3>2
  <2>6. GuardInv'
    BY <2>1, <2>2, <2>3, <2>4, <2>5 DEF GuardInv, Exact, StopInv
  <2>7. StopInv' /\ TaskInv'
    BY <2>1, <2>2 DEF StopInv, TaskInv, AfterPoll
  <2>. QED BY <2>6, <2>7
<1>3. CASE WriterCancelled
  <2>1. /\ stop = "write" /\ stop' = "closed" /\ writers' = writers - 1
        /\ UNCHANGED <<stopping, checking, armed, listening, pc>>
    BY <1>3 DEF WriterCancelled
  <2>2. writers' = 0
    BY <2>1 DEF StopInv
  <2>3. GuardInv'
    BY <2>1 DEF GuardInv, Exact, Late
  <2>4. StopInv' /\ TaskInv'
    BY <2>1, <2>2 DEF StopInv, TaskInv
  <2>. QED BY <2>3, <2>4
<1>. QED BY <1>1, <1>2, <1>3 DEF StopStep

-----------------------------------------------------------------------------
(***************************************************************************)
(* Types, and the flag that remembers the unreachable issue.               *)
(***************************************************************************)
IssueType == issue \in BOOLEAN /\ issueRaised \in {"unknown", "yes", "no"}

SlaveType == slaveIssue \in BOOLEAN /\ slaveRaised \in BOOLEAN /\ slaveChecked \in BOOLEAN

\* What a step of a run may do to the issue: nothing, clear it, or raise it.
IssueMove == UNCHANGED issueVars \/ ClearIssue \/ RaiseIssue

\* A move of the issue keeps its types and keeps the flag honest.
LEMMA IssueMoves ==
    ASSUME IssueType, IssueFlagHonest, IssueMove
    PROVE  IssueType' /\ IssueFlagHonest'
<1> USE DEF IssueType, IssueFlagHonest
<1>1. CASE UNCHANGED issueVars
  BY <1>1 DEF issueVars
<1>2. CASE ClearIssue
  BY <1>2 DEF ClearIssue
<1>3. CASE RaiseIssue
  <2>1. CASE SuppressNight /\ night /\ issue' = (issue /\ issueRaised = "no") /\ issueRaised' = "no"
    <3>1. issue' \in BOOLEAN /\ ~issue'
      BY <2>1
    <3>. QED BY <2>1, <3>1
  <2>2. CASE ~(SuppressNight /\ night) /\ issue' = TRUE /\ issueRaised' = "yes"
    BY <2>2
  <2>. QED BY <1>3, <2>1, <2>2 DEF RaiseIssue
<1>. QED BY <1>1, <1>2, <1>3 DEF IssueMove

\* What follows the slave ID check, with respect to data.
LEMMA CheckLinkData ==
    ASSUME TypeOK, NEW r \in Runs, NEW up \in BOOLEAN, CheckLink(r, up)
    PROVE  IssueMove /\ link' \in BOOLEAN /\ firstPoll' \in BOOLEAN
<1>0. firstPoll \in BOOLEAN
  BY DEF TypeOK
<1>1. CASE UNCHANGED <<firstPoll, issueVars>> /\ link' = up
  BY <1>0, <1>1 DEF IssueMove
<1>2. CASE firstPoll' = FALSE /\ CheckFreshness(r, up, stale)
  BY <1>2 DEF CheckFreshness, IssueMove
<1>. QED BY <1>1, <1>2 DEF CheckLink

\* Data of a step of a run.
LEMMA RunData ==
    ASSUME TypeOK, NEW r \in Runs, StepOf(r)
    PROVE  /\ IssueMove /\ link' \in BOOLEAN /\ firstPoll' \in BOOLEAN
           /\ SlaveType' /\ failures' \in 0..IssueAfter
           /\ stale' \in BOOLEAN /\ answered' \in BOOLEAN
           /\ UNCHANGED worldVars
<1>0. /\ link \in BOOLEAN /\ firstPoll \in BOOLEAN /\ SlaveType /\ failures \in 0..IssueAfter
      /\ stale \in BOOLEAN /\ answered \in BOOLEAN /\ IssueAfter \in Nat
  BY RetrievalAssumption DEF TypeOK, SlaveType
<1>1. CountFailures => failures' \in 0..IssueAfter
  BY <1>0 DEF CountFailures, Counts
<1>2. CASE Check(r)
  <2>1. CASE UNCHANGED <<firstPoll, issueVars, slaveVars, link>>
    BY <1>0, <1>2, <2>1 DEF Check, IssueMove, SlaveType, slaveVars, readVars
  <2>2. CASE NoProbe /\ CheckLink(r, link)
    BY <1>0, <1>2, <2>2, CheckLinkData DEF Check, NoProbe, SlaveType, slaveVars, readVars
  <2>. QED BY <1>2, <2>1, <2>2 DEF Check
<1>3. CASE ProbeReturns(r)
  <2>1. \E up \in BOOLEAN : CheckLink(r, up)
    BY <1>0, <1>3 DEF ProbeReturns
  <2>2. CountFailures \/ UNCHANGED failures \/ failures' \in {0, failures}
    BY <1>3 DEF ProbeReturns
  <2>3. failures' \in 0..IssueAfter
    BY <1>0, <1>1, <2>2
  <2>. QED BY <1>0, <1>3, <2>1, <2>3, CheckLinkData DEF ProbeReturns, SlaveType, readVars
<1>4. CASE UpdateReturns(r)
  BY <1>0, <1>4 DEF UpdateReturns, CheckFreshness, IssueMove, SlaveType, slaveVars, readVars
<1>5. CASE Connects(r)
  BY <1>0, <1>5 DEF Connects, IssueMove, SlaveType, slaveVars, readVars
<1>6. CASE FailsToConnect(r)
  <2>1. failures' \in 0..IssueAfter
    BY <1>0, <1>1, <1>6 DEF FailsToConnect
  <2>. QED BY <1>0, <1>6, <2>1 DEF FailsToConnect, IssueMove, SlaveType, slaveVars, readVars
<1>7. CASE BackoffEnds(r)
  BY <1>0, <1>7 DEF BackoffEnds, IssueMove, SlaveType, slaveVars, readVars
<1>. QED BY <1>2, <1>3, <1>4, <1>5, <1>6, <1>7 DEF StepOf, PollStarts, TimerFires, Resume

\* A step of a run keeps the types.
LEMMA TypeRunStep ==
    ASSUME PollerInv, IssueFlagHonest, NEW r \in Runs, StepOf(r)
    PROVE  TypeOK'
<1>1. RunMove(r) /\ TypeOK
  BY RunMoves DEF PollerInv
<1>2. pc' \in [Runs -> Suspended \cup {"off", "done", "cancelled"}]
  BY <1>1, RunPlaces
<1>3. writers' \in Nat
  BY <1>1, StopRunStep DEF PollerInv, StopInv
<1>4. stopping' \in BOOLEAN /\ stop' \in {"no", "poll", "write", "closed"} /\ armed' \in BOOLEAN
  BY <1>1 DEF RunMove, TypeOK
<1>5. checking' \in BOOLEAN /\ listening' \in BOOLEAN
  <2>1. checking' \in BOOLEAN
    BY <1>1 DEF RunMove, TypeOK
  <2>2. listening' \in BOOLEAN
    BY <1>1 DEF RunMove, Return, Suspend, TypeOK
  <2>. QED BY <2>1, <2>2
<1>6. IssueType'
  BY <1>1, RunData, IssueMoves DEF TypeOK, IssueType
<1>. QED BY <1>1, <1>2, <1>3, <1>4, <1>5, <1>6, RunData DEF TypeOK, SlaveType, IssueType, worldVars

\* async_stop keeps the types.
LEMMA TypeStopStep ==
    ASSUME PollerInv, StopStep
    PROVE  TypeOK'
<1>1. CASE Stop
  <2>1. stop' \in {"no", "poll", "write", "closed"}
    BY <1>1 DEF Stop, AfterPoll
  <2>2. /\ stopping' \in BOOLEAN /\ issue' \in BOOLEAN /\ slaveIssue' \in BOOLEAN
        /\ issueRaised' \in {"unknown", "yes", "no"}
        /\ armed' \in BOOLEAN /\ listening' \in BOOLEAN /\ checking' \in BOOLEAN
    BY <1>1 DEF Stop, ClearIssue
  <2>3. UNCHANGED <<firstPoll, writers, pc, slaveRaised, slaveChecked, link, failures, readVars,
                    worldVars>>
    BY <1>1 DEF Stop
  <2>. QED BY <2>1, <2>2, <2>3 DEF PollerInv, TypeOK, readVars, worldVars
<1>2. CASE PollCancelled
  <2>1. pc' \in [Runs -> Suspended \cup {"off", "done", "cancelled"}]
    BY <1>2 DEF PollCancelled, PollerInv, TypeOK
  <2>2. checking' \in BOOLEAN /\ stop' \in {"no", "poll", "write", "closed"}
    BY <1>2 DEF PollCancelled, PollerInv, TypeOK, AfterPoll
  <2>3. UNCHANGED <<stopping, firstPoll, armed, listening, writers, issueVars, slaveVars, link,
                    failures, readVars, worldVars>>
    BY <1>2 DEF PollCancelled
  <2>. QED BY <2>1, <2>2, <2>3 DEF PollerInv, TypeOK, issueVars, slaveVars, readVars, worldVars
<1>3. CASE WriterCancelled
  <2>1. writers' \in Nat
    BY <1>3 DEF WriterCancelled, PollerInv, StopInv
  <2>. QED BY <1>3, <2>1 DEF WriterCancelled, PollerInv, TypeOK, issueVars, slaveVars, readVars,
         worldVars
<1>. QED BY <1>1, <1>2, <1>3 DEF StopStep

\* The poll batches, the writes and the world keep the types.
LEMMA TypeOtherStep ==
    ASSUME TypeOK, OtherStep
    PROVE  TypeOK' /\ UNCHANGED issueVars
<1> DEFINE WorldType == /\ link \in BOOLEAN /\ stale \in BOOLEAN /\ answered \in BOOLEAN
                        /\ enabled \in BOOLEAN /\ queued \in 0..MaxWrites
                        /\ reachable \in BOOLEAN /\ night \in BOOLEAN
                        /\ neighbour \in BOOLEAN /\ probeDue \in BOOLEAN
<1>0. WorldType /\ MaxWrites \in Nat
  BY RetrievalAssumption DEF TypeOK
<1>1. ASSUME BatchSucceeds \/ BatchFails \/ LinkChanges \/ ReadsStop
      PROVE  WorldType' /\ UNCHANGED watchdogVars
  BY <1>0, <1>1 DEF BatchSucceeds, BatchFails, LinkChanges, ReadsStop, readVars, worldVars
<1>2. ASSUME SendWrite \/ PutWrite
      PROVE  WorldType' /\ UNCHANGED watchdogVars
  <2>1. queued' \in 0..MaxWrites
    BY <1>0, <1>2 DEF SendWrite, PutWrite
  <2>. QED BY <1>0, <1>2, <2>1 DEF SendWrite, PutWrite, readVars
<1>3. ASSUME WorldChanges \/ Switch
      PROVE  WorldType' /\ UNCHANGED watchdogVars
  BY <1>0, <1>3 DEF WorldChanges, Switch, readVars
<1>4. WorldType' /\ UNCHANGED watchdogVars
  BY <1>1, <1>2, <1>3 DEF OtherStep, World
<1>5. UNCHANGED <<stopping, checking, firstPoll, armed, listening, writers, pc, stop, issue, issueRaised,
                  slaveIssue, slaveRaised, slaveChecked, failures>>
  BY <1>4 DEF watchdogVars, taskVars, issueVars, slaveVars
<1>. QED BY <1>4, <1>5 DEF TypeOK, issueVars

-----------------------------------------------------------------------------
(***************************************************************************)
(* The theorems.                                                           *)
(***************************************************************************)
\* The poller begins in the invariant.
LEMMA InitPoller == Init => PollerInv /\ IssueFlagHonest
<1> SUFFICES ASSUME Init PROVE PollerInv /\ IssueFlagHonest
  OBVIOUS
<1>1. TypeOK
  <2>1. armed \in BOOLEAN /\ night \in BOOLEAN
    BY RetrievalAssumption DEF Init
  <2>2. failures \in 0..IssueAfter /\ queued \in 0..MaxWrites /\ writers \in Nat
    BY RetrievalAssumption DEF Init
  <2>3. pc \in [Runs -> Suspended \cup {"off", "done", "cancelled"}]
    BY DEF Init
  <2>. QED BY <2>1, <2>2, <2>3 DEF Init, TypeOK
<1>2. GuardInv /\ StopInv /\ TaskInv
  BY RetrievalAssumption DEF Init, GuardInv, StopInv, TaskInv, Exact, Inside, Suspended, Runs
<1>3. IssueFlagHonest
  BY DEF Init, IssueFlagHonest
<1>. QED BY <1>1, <1>2, <1>3 DEF PollerInv

\* Every step keeps it.
LEMMA NextPoller == PollerInv /\ IssueFlagHonest /\ [Next]_vars => PollerInv' /\ IssueFlagHonest'
<1> SUFFICES ASSUME PollerInv, IssueFlagHonest, [Next]_vars PROVE PollerInv' /\ IssueFlagHonest'
  OBVIOUS
<1>1. ASSUME NEW r \in Runs, StepOf(r)
      PROVE  PollerInv' /\ IssueFlagHonest'
  <2>1. RunMove(r)
    BY <1>1, RunMoves DEF PollerInv
  <2>2. GuardInv' /\ StopInv' /\ TaskInv' /\ TypeOK'
    BY <1>1, <2>1, GuardRunStep, StopRunStep, TypeRunStep DEF PollerInv
  <2>3. IssueFlagHonest'
    BY <1>1, RunData, IssueMoves DEF PollerInv, TypeOK, IssueType
  <2>. QED BY <2>2, <2>3 DEF PollerInv
<1>2. CASE StopStep
  <2>1. IssueFlagHonest'
    BY <1>2 DEF StopStep, Stop, PollCancelled, WriterCancelled, ClearIssue, IssueFlagHonest, issueVars
  <2>. QED BY <1>2, <2>1, StopStepInv, TypeStopStep DEF PollerInv
<1>3. CASE OtherStep
  <2>1. GuardInv' /\ StopInv' /\ TaskInv'
    BY <1>3, OtherStepMoves DEF PollerInv, GuardInv, StopInv, TaskInv, Exact, Late, Inside
  <2>. QED BY <1>3, <2>1, TypeOtherStep DEF PollerInv, IssueFlagHonest, issueVars
<1>4. CASE UNCHANGED vars
  BY <1>4 DEF vars, taskVars, issueVars, slaveVars, readVars, worldVars, PollerInv, TypeOK, GuardInv,
     StopInv, TaskInv, Exact, Late, Inside, IssueFlagHonest
<1>. QED BY <1>1, <1>2, <1>3, <1>4, NextCases

\* The invariant of the poller: the guard is exact, or was released by async_stop under
\* a run after which no other can start.
THEOREM PollerInvariant == Spec => [](PollerInv /\ IssueFlagHonest)
BY InitPoller, NextPoller, PTL DEF Spec

\* Every variable of the poller keeps its type.
THEOREM PollerTypes == Spec => []TypeOK
<1>1. PollerInv /\ IssueFlagHonest => TypeOK
  BY DEF PollerInv
<1>. QED BY <1>1, PollerInvariant, PTL

\* No two runs of the watchdog are inside check_connection at a time, however many timer
\* runs overlap, and the guard says whether one is.
THEOREM OneCheckAtATime == Spec => []OneCheck
<1>1. PollerInv /\ IssueFlagHonest => OneCheck
  BY DEF PollerInv, GuardInv, Exact, Late, OneCheck
<1>. QED BY <1>1, PollerInvariant, PTL

\* async_stop leaves no timer, no writer and no start behind, if __init__ started the
\* poller as a task; run start_event_leak shows that it does otherwise.
THEOREM StopIsQuiet ==
    ASSUME StartedBy = "task"
    PROVE  Spec => []QuietAfterStop
<1>1. PollerInv /\ IssueFlagHonest => QuietAfterStop
  BY DEF PollerInv, StopInv, TaskInv, QuietAfterStop, Closed
<1>. QED BY <1>1, PollerInvariant, PTL

\* The poller believes that no issue is shown only when none is.
THEOREM FlagIsHonest == Spec => []IssueFlagHonest
BY PollerInvariant, PTL
=============================================================================
