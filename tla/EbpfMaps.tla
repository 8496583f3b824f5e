------------------------------ MODULE EbpfMaps ------------------------------
(***************************************************************************)
(* The map of the eBPF object (scaphandre-ebpf/src/main.rs) that the       *)
(* accounting programs write and cpu_state_tick reads.                     *)
(***************************************************************************)
VARIABLE CPU_TIME   \* CPU -> accumulated non-idle time
=============================================================================
