----------------------------- MODULE MCAppMain -----------------------------
(***************************************************************************)
(* AppMain for TLC: one unit is about 512 bytes of heap, and what is       *)
(* smaller takes one unit.  Stacks are multiples of                        *)
(* configMINIMAL_STACK_SIZE words (520 bytes); the IP task has 20 of them. *)
(***************************************************************************)
EXTENDS AppMain

SizeInUnits ==
    [xStreamBuffer |-> 4, xLoggingSemaphore |-> 1, Logger |-> 10, IP |-> 21,
     xQueue |-> 1, Rx |-> 3, Tx |-> 3, Idle |-> 1, Timer |-> 3,
     ucRxData |-> 1]
==============================================================================
