---------------------------- MODULE BusyCounters ----------------------------
(***************************************************************************)
(* What the readers of CPU_TIME (cpu_state_tick, refresh_cpu_time_record)  *)
(* rely on: counters that start at zero, of which a step moves at most     *)
(* one, and only forward.  CpuAccounting implements it, CpuStateTick uses  *)
(* it as its source of work.                                               *)
(***************************************************************************)
EXTENDS Naturals

CONSTANT Cpu

VARIABLE CPU_TIME

Init == CPU_TIME = [c \in Cpu |-> 0]

Grow(c) ==
  /\ CPU_TIME'[c] >= CPU_TIME[c]
  /\ CPU_TIME' = [CPU_TIME EXCEPT ![c] = CPU_TIME'[c]]

Next == \E c \in Cpu : Grow(c)

Spec == Init /\ [][Next]_CPU_TIME
=============================================================================
