---------------------------- MODULE MC_Dispatch ----------------------------
(* One trip, two drivers, two workers, two waves and one retry: waves of   *)
(* two generations run side by side and one of them can be redelivered.    *)
EXTENDS Dispatch, TLC

\* Drivers, workers and processes are interchangeable (safety runs only).
Interchangeable == Permutations(Drivers) \cup Permutations(Workers) \cup Permutations(Procs)
=============================================================================
