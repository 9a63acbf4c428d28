------------------------------- MODULE MCLinks -------------------------------
(* Links for TLC, one at a time: part says whether a behaviour runs a        *)
(* QueuedUartLink (UartLink); a Sender's TCP link until the Controller is    *)
(* stopped, or one both of whose frame handlers may raise, or one that is    *)
(* sent more than its queue holds (TcpLink); or a spoke of the hub           *)
(* (HubSpoke).  The others stay as they are at the start.                    *)
EXTENDS Links

VARIABLE part

tcpVars == <<client, current, serving, online, writer, wire, cut, last, stop, shut,
             tcpQueue, tcpSent, tcpFaults>>
spokeVars == <<spokeLine, fifo, rx, age, stalled, out, read, due, wrote>>
linksVars == <<part, uartVars, tcpVars, spokeVars>>

\* Tcp is a Sender at a configured address; this is one that its first frame
\* identifies; frame 1 is refused by it, any frame by the Controller.
Raising == INSTANCE TcpLink WITH
  Unknown <- TRUE, Refused <- {1}, Refuses <- TRUE, Stops <- FALSE,
  MaxQueue <- TcpQueue, MaxFrames <- TcpFrames, MaxFaults <- TcpFaults,
  queue <- tcpQueue, sent <- tcpSent, faults <- tcpFaults

\* This one gets a frame more than its queue has room for.
Crowded == INSTANCE TcpLink WITH
  Unknown <- FALSE, Refused <- {}, Refuses <- FALSE, Stops <- FALSE,
  MaxQueue <- TcpQueue, MaxFrames <- TcpQueue + 1, MaxFaults <- 1,
  queue <- tcpQueue, sent <- tcpSent, faults <- tcpFaults

ASSUME LinksAssumed ==
  /\ Tcp!TcpLinkAssumption /\ Raising!TcpLinkAssumption /\ Crowded!TcpLinkAssumption
  /\ Spoke!HubSpokeAssumption

LinksInit ==
  /\ part \in {"uart", "tcp", "raising", "crowded", "spoke"}
  /\ Init /\ Tcp!Init /\ Spoke!Init

UartStep == part = "uart" /\ Next /\ UNCHANGED <<part, tcpVars, spokeVars>>
TcpStep ==
  /\ \/ part = "tcp" /\ Tcp!Next
     \/ part = "raising" /\ Raising!Next
     \/ part = "crowded" /\ Crowded!Next
  /\ UNCHANGED <<part, uartVars, spokeVars>>
SpokeStep == part = "spoke" /\ Spoke!Next /\ UNCHANGED <<part, uartVars, tcpVars>>

LinksNext == UartStep \/ TcpStep \/ SpokeStep

\* The fairness of UartFairness and TcpFairness, for the part that runs.
LinksSpec ==
  /\ LinksInit /\ [][LinksNext]_linksVars
  /\ WF_uartVars(part = "uart" /\ Open) /\ WF_uartVars(part = "uart" /\ Disconnect)
  /\ WF_uartVars(part = "uart" /\ Transmit) /\ WF_uartVars(part = "uart" /\ Receive)
  /\ WF_tcpVars(part = "tcp" /\ Tcp!Connect) /\ WF_tcpVars(part = "tcp" /\ Tcp!Receive)
  /\ WF_tcpVars(part = "tcp" /\ Tcp!Drop) /\ WF_tcpVars(part = "tcp" /\ Tcp!LinksStopped)
  /\ WF_tcpVars(part = "tcp" /\ Tcp!ServerStopped)
  /\ \A c \in Conns :
       /\ WF_tcpVars(part = "tcp" /\ Tcp!Identify(c))
       /\ WF_tcpVars(part = "tcp" /\ Tcp!Transmit(c))
       /\ WF_tcpVars(part = "tcp" /\ (stop = "no" \/ c \in shut) /\ Tcp!EndRun(c))
       /\ WF_tcpVars(part = "tcp" /\ Tcp!FinishRun(c))

MCOneRefused == {2}
MCNoneRefused == {}
MCConns == {1, 2, 3}

\* While the device is there the UART is open again and again, whatever the
\* frame handler does.
UartReopens == part = "uart" => Reopens

\* As long as no handler raises, a Sender always comes back to a connection the
\* Controller serves; and a Controller that is stopped stops, however connections
\* broke and overlapped before, once none is open but the one its link closed.
TcpSettles == part = "tcp" => Tcp!Reattached /\ Tcp!StopEnds

=============================================================================
