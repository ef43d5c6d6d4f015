-------------------------- MODULE MCDutyCheckpoint --------------------------
EXTENDS DutyCheckpoint

Config(inventory, mode, goal, policy) ==
  [inventory |-> inventory, mode |-> mode, target |-> goal, policy |-> policy]

\* The same runtime in shadow and in gated mode.
MCModes == {Config(1, mode, 1, 1) : mode \in {"shadow", "gated"}}

\* And restarted with another target and policy, or with other senders.
MCMigrations == MCModes \cup {Config(1, "gated", 2, 2), Config(2, "gated", 1, 1)}
=============================================================================
