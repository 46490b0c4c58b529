----------------------------- MODULE MCNodeDrain -----------------------------
(* Instances of NodeDrain for TLC. *)
EXTENDS NodeDrain

AllOptions == Option

\* Everything unlocked, eviction left enabled: what the runs on interleavings need.
Unlocked ==
  {[force |-> TRUE, delete_emptydir_data |-> TRUE, disable_eviction |-> FALSE]}

=============================================================================
