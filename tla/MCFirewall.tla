----------------------------- MODULE MCFirewall -----------------------------
(* The conditions for the runs of Firewall. *)
EXTENDS Firewall

World(faulty, disturbances) == [faulty |-> faulty, disturbances |-> disturbances]

\* -C and -D report what the table holds, every other command may fail; netd
\* resets FORWARD, the hook chain or the whole table, but neither copies our
\* jump nor empties a payload chain.
ReliableWorld == World(Commands \ {"C", "D"}, DisturbanceKinds \ {"flushPayload", "dupJump"})
\* Every command but -C may fail, and everything happens to the table.
CheckedWorld == World(Commands \ {"C"}, DisturbanceKinds)
\* Nobody else changes the table, every command but -R and -S may fail.
SwapWorld == World(Commands \ {"R", "S"}, {})

\* Everything fails and happens: what SelfHeal is about.
HostileWorld == World(Commands, DisturbanceKinds)

\* Nobody else changes the table, every command but -C may fail.
AloneWorld == World(Commands \ {"C"}, {})

AllWorlds == {ReliableWorld, CheckedWorld, SwapWorld, HostileWorld, AloneWorld}
DeleteFails == {World({"D"}, {})}
=============================================================================
