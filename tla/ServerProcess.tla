--------------------------- MODULE ServerProcess ----------------------------
(***************************************************************************)
(* What every service of the emulator shares: the one process they run in  *)
(* (internal/server/server.go, cmd/localgcp/main.go), which exits and is   *)
(* started again, and whether it was given a data directory.               *)
(***************************************************************************)
EXTENDS Naturals

CONSTANTS
    MaxExits,   \* bound: exits of the process
    DataDir     \* TRUE if the server was started with a data directory

ASSUME ProcessAssumption == MaxExits \in Nat /\ DataDir \in BOOLEAN

VARIABLES
    up,         \* the process is running
    exits       \* how often it has exited

process == <<up, exits>>

(* By a signal or a kill: the requests in progress end where they are.     *)
Stops ==
    /\ up
    /\ exits < MaxExits
    /\ up' = FALSE
    /\ exits' = exits + 1

Starts ==
    /\ ~up
    /\ up' = TRUE
    /\ UNCHANGED exits

ProcessInit == up = TRUE /\ exits = 0

ProcessTypeOK == up \in BOOLEAN /\ exits \in 0..MaxExits
=============================================================================
