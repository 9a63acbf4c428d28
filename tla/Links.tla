------------------------------- MODULE Links -------------------------------
(* The kinds of link side by side: the serial link of the Controller to the  *)
(* hub and to a flight computer (UartLink), the TCP link of a Sender with    *)
(* its many short-lived connections (TcpLink), and a spoke of the hub byte   *)
(* by byte (HubSpoke).  They share no state.                                 *)
EXTENDS UartLink

CONSTANTS
  Conns, Unknown, TcpRefused, Refuses, Stops, TcpQueue, TcpFrames, TcpFaults,
  FrameBytes, Cap, Idle, Hardware, SpokeFrames, SpokeTexts, SpokeStalls

VARIABLES
  client, current, serving, online, writer, wire, cut, last, stop, shut,
  tcpQueue, tcpSent, tcpFaults,
  spokeLine, fifo, rx, age, stalled, out, read, due, wrote

Tcp == INSTANCE TcpLink WITH
  Refused <- TcpRefused, MaxQueue <- TcpQueue, MaxFrames <- TcpFrames,
  MaxFaults <- TcpFaults, queue <- tcpQueue, sent <- tcpSent, faults <- tcpFaults

\* Frames reach the Sender in the order they were sent and never twice, also
\* when handlers raise and leave connections behind.
ArriveInOrder == Tcp!ArriveInOrder

Spoke == INSTANCE HubSpoke WITH
  MaxFrames <- SpokeFrames, MaxTexts <- SpokeTexts, MaxStalls <- SpokeStalls,
  line <- spokeLine

\* Every byte that a spoke has read is routed, on USB or still gathered; frames
\* are routed in order, and every frame that began at a boundary while the loop
\* goes round is routed, whatever text, noise and stalls came before.
SpokeRight == Spoke!BytesAccounted /\ Spoke!FramesRouted

=============================================================================
