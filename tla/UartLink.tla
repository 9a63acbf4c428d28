------------------------------ MODULE UartLink ------------------------------
(***************************************************************************)
(* One serial link of a Controller or Sender: QueuedUartLink and the loop  *)
(* that holds its device, run_uart_link (arc/uart_link.py,                 *)
(* arc/runtime.py).  The device may be pulled out and put back, a frame    *)
(* from the far end may be garbled, and the handler of a frame may raise.  *)
(*                                                                         *)
(* Frames are numbered from 1 in the order each side sends them; what      *)
(* cannot be decoded (bad COBS, CRC or length) is 0.  What is written to   *)
(* the open transport counts as sent: the line is much faster than the     *)
(* reconnect delay.                                                        *)
(***************************************************************************)
EXTENDS Naturals, Sequences, FiniteSets

CONSTANTS
  Refused,    \* frames of the far end that make on_frame raise
  MaxQueue,   \* max_queue
  MaxFrames,  \* bound: frames given to send
  MaxHeard,   \* bound: frames the far end sends
  MaxFaults   \* bound: times the device is pulled out

ASSUME UartLinkAssumption ==
  /\ Refused \subseteq Nat \ {0} /\ MaxQueue \in Nat \ {0}
  /\ MaxFrames \in Nat /\ MaxHeard \in Nat /\ MaxFaults \in Nat

VARIABLES
  mode,         \* run_uart_link: "closed" between tries, "open", or "dead"
                \* when it holds a device that is gone
  plugged,      \* the device is there
  stale,        \* transports left open by a run that ended in an exception
  queue,        \* link.queue
  sent,         \* frames given to send
  dropped,      \* link.dropped
  written,      \* frames written, in order
  lost,         \* frames taken off the queue and not written
  disconnects,  \* link.disconnects
  line,         \* what the far end sent and nobody has read
  spoken,       \* frames the far end has sent
  heard,        \* frames given to on_frame, in order
  faults

txVars == <<queue, sent, dropped, written, lost>>
rxVars == <<line, spoken, heard>>
uartVars == <<mode, plugged, stale, txVars, disconnects, rxVars, faults>>

Init ==
  /\ mode = "closed" /\ plugged = TRUE /\ stale = 0
  /\ queue = <<>> /\ sent = 0 /\ dropped = 0 /\ written = <<>> /\ lost = 0
  /\ disconnects = 0
  /\ line = <<>> /\ spoken = 0 /\ heard = <<>> /\ faults = 0

-----------------------------------------------------------------------------
(* Transmission.                                                           *)

Send ==
  /\ sent < MaxFrames /\ sent' = sent + 1
  /\ IF Len(queue) < MaxQueue
       THEN queue' = Append(queue, sent') /\ UNCHANGED dropped
       ELSE dropped' = dropped + 1 /\ UNCHANGED queue
  /\ UNCHANGED <<mode, plugged, stale, written, lost, disconnects, rxVars, faults>>

\* _tx_loop takes the oldest frame and writes it in one go.
Transmit ==
  /\ mode = "open" /\ queue # <<>>
  /\ queue' = Tail(queue)
  /\ written' = Append(written, Head(queue))
  /\ UNCHANGED <<mode, plugged, stale, sent, dropped, lost, disconnects, rxVars, faults>>

-----------------------------------------------------------------------------
(* Opening and closing.                                                    *)

OpenExclusive ==
  /\ mode = "closed" /\ plugged /\ stale = 0
  /\ mode' = "open"
  /\ line' = <<>>
  /\ UNCHANGED <<plugged, stale, txVars, disconnects, spoken, heard, faults>>

\* Opening flushes what the line holds; a device that is not there is tried
\* again (OSError), with no effect.
Open ==
  /\ mode = "closed" /\ plugged
  /\ mode' = "open"
  /\ line' = <<>>
  /\ UNCHANGED <<plugged, stale, txVars, disconnects, spoken, heard, faults>>

DisconnectRequeues ==
  /\ mode = "dead" /\ mode' = "closed"
  /\ disconnects' = disconnects + 1
  /\ \/ UNCHANGED queue
     \/ queue # <<>> /\ queue' = Append(Tail(queue), Head(queue))
  /\ UNCHANGED <<plugged, stale, sent, dropped, written, lost, rxVars, faults>>

\* A loop finds its device gone and run_connected cleans up.  _tx_loop finds
\* it by losing the frame it is writing.
Disconnect ==
  /\ mode = "dead" /\ mode' = "closed"
  /\ disconnects' = disconnects + 1
  /\ \/ UNCHANGED <<queue, lost>>
     \/ queue # <<>> /\ queue' = Tail(queue) /\ lost' = lost + 1
  /\ UNCHANGED <<plugged, stale, sent, dropped, written, rxVars, faults>>

-----------------------------------------------------------------------------
(* Reception.                                                              *)

ReceiveRetries ==
  /\ mode = "open" /\ line # <<>>
  /\ line' = IF Head(line) \in Refused THEN line ELSE Tail(line)
  /\ heard' = IF Head(line) = 0 \/ Len(heard) >= MaxHeard
                THEN heard ELSE Append(heard, Head(line))
  /\ UNCHANGED <<mode, plugged, stale, txVars, disconnects, spoken, faults>>

\* _rx_loop: what cannot be decoded is counted and skipped; a handler that
\* raises ends the run through an exception that the clean-up does not
\* suppress, so that the writer is not closed; run_uart_link catches it.
Receive ==
  /\ mode = "open" /\ line # <<>>
  /\ line' = Tail(line)
  /\ heard' = IF Head(line) = 0 THEN heard ELSE Append(heard, Head(line))
  /\ IF Head(line) \in Refused
       THEN /\ mode' = "closed" /\ stale' = stale + 1
            /\ disconnects' = disconnects + 1
       ELSE UNCHANGED <<mode, stale, disconnects>>
  /\ UNCHANGED <<plugged, txVars, spoken, faults>>

\* A transport left open reads from the same device into a buffer nobody
\* empties: it takes whole frames, or part of one that the open link then
\* cannot decode, until the buffer is full.
StaleTakes ==
  /\ stale > 0 /\ line # <<>>
  /\ \/ line' = Tail(line)
     \/ mode = "open" /\ line' = <<0>> \o Tail(line)
  /\ UNCHANGED <<mode, plugged, stale, txVars, disconnects, spoken, heard, faults>>
StaleFills ==
  /\ stale > 0 /\ stale' = stale - 1
  /\ UNCHANGED <<mode, plugged, txVars, disconnects, rxVars, faults>>

-----------------------------------------------------------------------------
(* The line and the device.                                                *)

\* A frame of the far end arrives whole, garbled or not at all.
Speak ==
  /\ spoken < MaxHeard /\ spoken' = spoken + 1
  /\ line' \in {Append(line, spoken'), Append(line, 0), line}
  /\ UNCHANGED <<mode, plugged, stale, txVars, disconnects, heard, faults>>

\* The device goes, with what it holds and every transport open on it.
Unplug ==
  /\ plugged /\ faults < MaxFaults
  /\ plugged' = FALSE /\ faults' = faults + 1
  /\ mode' = IF mode = "open" THEN "dead" ELSE mode
  /\ stale' = 0 /\ line' = <<>>
  /\ UNCHANGED <<txVars, disconnects, spoken, heard>>
Plug ==
  /\ ~plugged /\ plugged' = TRUE
  /\ UNCHANGED <<mode, stale, txVars, disconnects, rxVars, faults>>

Next ==
  \/ Send \/ Transmit \/ Open \/ Disconnect \/ Receive
  \/ StaleTakes \/ StaleFills \/ Speak \/ Unplug \/ Plug

UartSpec == Init /\ [][Next]_uartVars

\* The event loop runs the link's tasks; nobody has to put the device back.
UartFairness ==
  /\ WF_uartVars(Open) /\ WF_uartVars(Disconnect)
  /\ WF_uartVars(Transmit) /\ WF_uartVars(Receive)
FairUartSpec == UartSpec /\ UartFairness

-----------------------------------------------------------------------------
(* Properties.                                                             *)

\* Types; the queue keeps its bound.
UartTypeOK ==
  /\ mode \in {"closed", "open", "dead"} /\ plugged \in BOOLEAN
  /\ {stale, sent, dropped, lost, disconnects, spoken, faults} \subseteq Nat
  /\ queue \in Seq(1 .. sent) /\ Len(queue) <= MaxQueue
  /\ written \in Seq(1 .. sent)
  /\ line \in Seq(0 .. spoken) /\ heard \in Seq(1 .. spoken)

Increasing(s) == \A i, j \in DOMAIN s : i < j => s[i] < s[j]

\* Frames are written in the order they were sent and never twice, and those
\* still queued come after, over however many disconnections.
WrittenInOrder == Increasing(written \o queue)

\* Every frame given to send is written, queued, counted as dropped or lost to
\* a disconnection, and a disconnection costs one frame at most.
LossAccounted ==
  /\ sent = Len(written) + Len(queue) + dropped + lost
  /\ lost <= disconnects

\* send and the end of a connection between them: what is written rises, what
\* waits comes after it, and what is neither has been counted.
WrittenAccounted == WrittenInOrder /\ LossAccounted

\* The handler gets frames in the order of the far end and none twice, even
\* with transports left open and a frame it raised on.
HeardInOrder ==
  LET all == heard \o line
  IN  \A i, j \in DOMAIN all :
        i < j /\ 0 \notin {all[i], all[j]} => all[i] < all[j]

\* While the device is there the link is open again and again, whatever the
\* handler does.
Reopens == <>[]plugged => []<>(mode = "open")

\* "A background task owns the connection lifetime": no transport is open
\* without one.
ConnectionOwned == stale = 0

=============================================================================
