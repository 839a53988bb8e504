---------------------------- MODULE MCLifecycle ----------------------------
(***************************************************************************)
(* Lifecycle for TLC: two sessions, the configured port and two ephemeral  *)
(* ones, three processes of the daemon.                                    *)
(***************************************************************************)
EXTENDS Lifecycle
CONSTANTS s1, s2, cfg, e1, e2

MCSessions == {s1, s2}
MCPorts == {cfg, e1, e2}
=============================================================================
