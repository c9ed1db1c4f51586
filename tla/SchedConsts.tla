---------------------------- MODULE SchedConsts -----------------------------
(***************************************************************************)
(* The parameters of the scheduler, shared by the abstract run queue       *)
(* (RoundRobin) and the linked ring that implements it (SchedRobin).       *)
(***************************************************************************)
EXTENDS Integers

CONSTANTS Proc,      \* processes, named by their pid, never reused (next_pid++)
          NONE,      \* the NULL process pointer
          MaxSleep   \* bound: the longest sleep, in scheduler ticks

ASSUME RRAssumption == /\ NONE \notin Proc
                       /\ MaxSleep \in Nat
=============================================================================
