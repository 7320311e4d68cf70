------------------------------- MODULE Random -------------------------------
(***************************************************************************)
(* The pseudo random numbers of the network stack: vSetupHardware          *)
(* (src/app-hardware.c) draws a seed from the hardware generator, uxRand   *)
(* (src/app-network.c), the IP task's ipconfigRAND32, makes the numbers.   *)
(* Each file has a static variable ulNextRand of its own.  Words are Width *)
(* bits wide instead of 32.  AppMain says when these steps are taken.      *)
(***************************************************************************)
EXTENDS Naturals

CONSTANTS
    Width, Shift, OutBits,   \* 32, 16 and 15 in the source
    HardwareNumbers          \* what the hardware generator may produce

ASSUME WidthAssumption ==
    /\ Width \in Nat /\ Shift \in Nat /\ OutBits \in Nat
    /\ Shift + OutBits <= Width
    /\ HardwareNumbers \subseteq 0 .. 2^Width - 1

\* A fact of arithmetic.
ASSUME PowerAssumption == {2^Width, 2^Shift, 2^OutBits} \subseteq Nat \ {0}

Period  == 2^Width
Outputs == 0 .. 2^OutBits - 1

ulMultiplier == 22695477 % Period        \* 0x015a4e35

IncrementForgotten == 0

ulIncrement == 1

VARIABLES
    ulSeed,          \* the globals of app-hardware.c
    ulInitialSeed,
    hwNextRand,      \* ulNextRand of app-hardware.c
    ulNextRand,      \* ulNextRand of app-network.c
    calls, tally     \* history: calls of uxRand, and how often each result came

seedVars   == <<ulSeed, ulInitialSeed, hwNextRand>>
randomVars == <<seedVars, ulNextRand, calls, tally>>
------------------------------------------------------------------------------
\* HAL_RNG_GenerateRandomNumber stores a number, or fails; nobody looks which.
Store ==
    /\ ulSeed' \in HardwareNumbers \cup {ulSeed}
    /\ UNCHANGED <<ulInitialSeed, hwNextRand, ulNextRand, calls, tally>>

\* The ulNextRand of prvSRand is the one of its own file.
prvSRand(seed) == hwNextRand' = seed /\ UNCHANGED ulNextRand

ResultTopBits(x) == (x \div 2^(Width - 1)) % 2^OutBits

Result(x) == (x \div 2^Shift) % 2^OutBits

\* Calls are counted up to one period only.
uxRand ==
    /\ calls < Period
    /\ ulNextRand' = (ulMultiplier * ulNextRand + ulIncrement) % Period
    /\ tally' = [tally EXCEPT ![Result(ulNextRand')] = @ + 1]
    /\ calls' = calls + 1
    /\ UNCHANGED seedVars

\* The start-up code zeroes the static variables.
Zeroed ==
    /\ ulSeed = 0 /\ ulInitialSeed = 0 /\ hwNextRand = 0 /\ ulNextRand = 0
    /\ calls = 0 /\ tally = [o \in Outputs |-> 0]
------------------------------------------------------------------------------
\* uxRand runs through all words before one comes back: 0, where it starts after
\* every boot, comes back after exactly one period; and over that period it has
\* returned every number it can return equally often.
Uniform ==
    /\ calls \in 1 .. Period => (ulNextRand = 0 <=> calls = Period)
    /\ calls = Period => \A o \in Outputs : tally[o] = 2^(Width - OutBits)
==============================================================================
