---------------------------- MODULE StatusManager ----------------------------
(***************************************************************************)
(* The web sockets of carisma-status-manager (app.go:42-175).  Each has    *)
(* three goroutines: readMessages, which obeys the peer's commands,        *)
(* sendStatus and sendPing.  There is nothing but the connection to tell   *)
(* them that the others have ended.                                        *)
(*                                                                         *)
(* gorilla/websocket (external): once a close frame has been sent, which   *)
(* ReadMessage does in reply to the peer's or when a message is too big,   *)
(* every write returns ErrCloseSent.                                       *)
(***************************************************************************)
EXTENDS Naturals

CONSTANTS
    Connections,
    MaxCommands    \* bound: commands of the peers

VARIABLES
    containers,    \* the engine's containers, see NodeRun
    touched,       \* history: a command has changed a container
    link,          \* connection -> "none", "up", "closing" or "gone" (the peer closes or is
                   \* lost), "closeSent" or "closed" (by readMessages)
    running,       \* connection -> its goroutines that have not ended
    commands       \* bound: commands so far

webVars == <<link, running, commands>>
Goroutines == {"sendStatus", "readMessages", "sendPing"}

InitWeb ==
    /\ link = [c \in Connections |-> "none"]
    /\ running = [c \in Connections |-> {}]
    /\ commands = 0

Quiet == UNCHANGED <<containers, touched, commands>>
Ends(c, goroutine) == running' = [running EXCEPT ![c] = @ \ {goroutine}]

handleWebSocket(c) ==
    /\ link[c] = "none"
    /\ link' = [link EXCEPT ![c] = "up"]
    /\ running' = [running EXCEPT ![c] = Goroutines]
    /\ Quiet

\* The peer closes the connection or sends too much, or it is lost.
PeerLeaves(c, how) ==
    /\ link[c] = "up"
    /\ link' = [link EXCEPT ![c] = how]
    /\ Quiet /\ UNCHANGED running

\* ReadMessage returns an error, at the latest when no pong has come for pongWait.
readMessagesEnds(c) ==
    /\ "readMessages" \in running[c]
    /\ link[c] \in {"closing", "gone"}
    /\ link' = [link EXCEPT ![c] = IF @ = "closing" THEN "closeSent" ELSE "closed"]
    /\ Ends(c, "readMessages")
    /\ Quiet

\* A write returns ErrCloseSent; it returns another error.  Before the reader
\* has noticed that the peer is lost, a write may still succeed.
CloseSent(c) == link[c] = "closeSent"
WriteFails(c) == link[c] \in {"gone", "closed"}

\* ErrCloseSent is taken for success.
sendStatusEnds(c) ==
    /\ "sendStatus" \in running[c]
    /\ WriteFails(c)
    /\ Ends(c, "sendStatus")
    /\ Quiet /\ UNCHANGED link

\* Faulty variant: sendPing does the same.
sendPingEndsLate(c) ==
    /\ "sendPing" \in running[c]
    /\ WriteFails(c)
    /\ Ends(c, "sendPing")
    /\ Quiet /\ UNCHANGED link

sendPingEnds(c) ==
    /\ "sendPing" \in running[c]
    /\ WriteFails(c) \/ CloseSent(c)
    /\ Ends(c, "sendPing")
    /\ Quiet /\ UNCHANGED link

-----------------------------------------------------------------------------
(* Commands.  The ID is of a container that the peer has been shown at some *)
(* time.  An error is only logged: the container has been removed, or       *)
(* another one uses its ports.                                              *)

StatusAfter(id, action) ==
    LET status == containers[id].status
        free   == \A other \in DOMAIN containers : other # id => containers[other].status # "Up"
    IN  CASE action = "start" /\ status \in {"Created", "Exited"} /\ free -> "Up"
          [] action = "stop" /\ status = "Up" -> "Exited"
          [] OTHER -> status

Command(c, id, action) ==
    /\ "readMessages" \in running[c] /\ link[c] = "up"
    /\ commands < MaxCommands
    /\ commands' = commands + 1
    /\ containers' = [containers EXCEPT ![id].status = StatusAfter(id, action)]
    /\ touched' = (touched \/ containers' # containers)
    /\ UNCHANGED <<link, running>>

NextWeb ==
    \E c \in Connections :
        \/ handleWebSocket(c)
        \/ \E how \in {"closing", "gone"} : PeerLeaves(c, how)
        \/ readMessagesEnds(c) \/ sendStatusEnds(c) \/ sendPingEnds(c)
        \/ \E id \in DOMAIN containers, action \in {"start", "stop"} : Command(c, id, action)

\* Tickers tick and goroutines are scheduled.  sendStatus writes only when the
\* engine's list of containers succeeds (app.go:50-52): that it does again and
\* again while a connection lasts is assumed here.
FairWeb ==
    \A c \in Connections :
        /\ WF_<<containers, touched, webVars>>(readMessagesEnds(c))
        /\ WF_<<containers, touched, webVars>>(sendStatusEnds(c))
        /\ WF_<<containers, touched, webVars>>(sendPingEnds(c))

\* When a connection has ended, however it did, so do its goroutines.  The only
\* exception is sendStatus after a close frame: it ticks forever (app.go:62).
\* (It would also do so as long as the engine's list of containers fails.)
SocketsEnd ==
    \A c \in Connections :
        link[c] \notin {"none", "up"} ~>
            running[c] \subseteq (IF CloseSent(c) THEN {"sendStatus"} ELSE {})
=============================================================================
