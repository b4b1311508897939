------------------------------ MODULE MCCentral ------------------------------
(* Central for TLC. *)
EXTENDS Central, TLC

MCCallers == {"watch", "main"}
MCContents == {"a", "b", "bad"}
MCImagesIn == ("a" :> 1) @@ ("b" :> 0)

Actual(states, images) == [type |-> "ACTUAL", states |-> states, images |-> images]

\* Nodes that start, run and stop, two that start, and the echo of
\* a desired state.
MCMessages ==
    {Actual("n1" :> "starting", 0), Actual("n1" :> "stopped", 0), Actual("n1" :> "running", 1),
     Actual("n1" :> "starting" @@ "n2" :> "starting", 0),
     [type |-> "DESIRED", states |-> <<>>, images |-> 1]}
=============================================================================
