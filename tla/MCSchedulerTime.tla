-------------------------- MODULE MCSchedulerTime --------------------------
(***************************************************************************)
(* SchedulerTime with one worker and two threads of programs.  The         *)
(* kernel's 20 ms to 3 us are scaled down to 7 : 3.                        *)
(***************************************************************************)
EXTENDS SchedulerTime, TLC

CONSTANTS worker, a, b

MCUsers == {a, b}
MCWorkers == {worker}
MCBoot == <<worker, a, b>>
=============================================================================
