------------------------------- MODULE MCDaemon -------------------------------
(* Two processes may be daemons after the one that died, for two sessions. *)
EXTENDS Daemon

CONSTANTS p1, p2, c1, c2
MCProcess == {p1, p2}
MCClient == {c1, c2}
=============================================================================
