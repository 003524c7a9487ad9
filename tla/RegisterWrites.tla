--------------------------- MODULE RegisterWrites ---------------------------
(***************************************************************************)
(* What a controller promises about the writes handed to it, without the   *)
(* link, the lock and the tasks.  The writes of one inverter are numbered  *)
(* in the order they are queued.  They are finished one by one, in that    *)
(* order; a write that is finished has been applied once, at that moment,  *)
(* or was lost.                                                            *)
(***************************************************************************)
EXTENDS Naturals

CONSTANTS Controllers,   \* the controllers, one per inverter
          MaxWrites      \* bound: writes queued per controller

VARIABLES queued,        \* per controller: the writes queued
          finished,      \* per controller: the writes done with
          device         \* per controller: the last write applied

vars == <<queued, finished, device>>

Init ==
    /\ queued = [c \in Controllers |-> 0]
    /\ finished = [c \in Controllers |-> 0]
    /\ device = [c \in Controllers |-> 0]

Put(c) ==
    /\ queued[c] < MaxWrites
    /\ queued' = [queued EXCEPT ![c] = @ + 1]
    /\ UNCHANGED <<finished, device>>

Finish(c) ==
    /\ finished[c] < queued[c]
    /\ finished' = [finished EXCEPT ![c] = @ + 1]
    /\ \/ device' = [device EXCEPT ![c] = finished'[c]]
       \/ UNCHANGED device
    /\ UNCHANGED queued

Next == \E c \in Controllers : Put(c) \/ Finish(c)

Spec == Init /\ [][Next]_vars
=============================================================================
