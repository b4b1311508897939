------------------------------- MODULE MCNode -------------------------------
(* Node for TLC. *)
EXTENDS Node

Run(file, flags) == [file |-> file, flags |-> flags]

\* A node as configured by default and one that looks for the central node; a
\* central node, by its file or by a flag that overrules it; an unreadable file.
MCConfigs ==
    {Run(NoFile, <<>>),
     Run([EnableDiscovery |-> TRUE, CentralNodeHostname |-> ""], [EnableDebugMode |-> TRUE]),
     Run([EnableCentralMode |-> TRUE, EnableDiscovery |-> TRUE], <<>>),
     Run(BadFile, <<>>)}

MCPackets ==
    {[magic |-> FALSE, body |-> "bad"], [magic |-> TRUE, body |-> "bad"],
     [magic |-> TRUE, body |-> "none"], [magic |-> TRUE, body |-> "central"], NewBroadcastMessage}
=============================================================================
