----------------------------- MODULE MCBrokerTest -----------------------------
(***************************************************************************)
(* The program of TestBrokerWithMultipleReaders (broker_test.go:12-57):    *)
(* the readers call Read, and one writer that has waited for all of them   *)
(* to return from Read ("wait until readers are present before writing",   *)
(* line 39) calls Write MaxMessages times.  Nobody calls Stop.             *)
(***************************************************************************)
EXTENDS Broker

ReadersPresent == \A r \in Readers : r \in Asked \ BlockedReads

TestWrite == ReadersPresent /\ Write

TestNext ==
    \/ \E r \in Readers : Read(r) \/ Receive(r)
    \/ TestWrite
    \/ SelectDestination
    \/ SelectSource
    \/ \E r \in Readers : Offer(r)

\* Every goroutine of the test is scheduled; no step is put off forever.
TestSpec ==
    /\ Init
    /\ [][TestNext]_vars
    /\ SF_vars(SelectDestination) /\ SF_vars(SelectSource) /\ WF_vars(TestWrite)
    /\ \A r \in Readers : WF_vars(Read(r)) /\ WF_vars(Receive(r)) /\ WF_vars(Offer(r))

\* broker_test.go:22, "three readers that receive three messages makes nine
\* reads": every reader present before the first Write gets every message.
EveryReaderGetsEveryMessage ==
    <>(\A r \in Readers : Len(received[r]) = MaxMessages)
=============================================================================
