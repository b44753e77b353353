----------------------------- MODULE MCFileLock -----------------------------
(* Two processes, one of them with two FileLock values (the MCP server: its  *)
(* own CodeGraph and the one its watcher opens for a sync).                  *)
EXTENDS FileLock

CONSTANTS engine, watcher, cli, server, command

MCHandle == {engine, watcher, cli}
MCProcess == {server, command}
MCPidOf == [h \in MCHandle |-> IF h = cli THEN command ELSE server]

\* One handle in each process: the server and a command that contend.
RivalHandle == {engine, cli}
RivalPidOf == [h \in RivalHandle |-> MCPidOf[h]]

=============================================================================
