-------------------------- MODULE MCServiceRegistry --------------------------
(* ServiceRegistry for TLC. *)
EXTENDS ServiceRegistry

\* -1 is what the Docker manager reports for a container without a port binding.
MCPorts == {-1, 8080, 8081}
=============================================================================
