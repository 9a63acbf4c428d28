------------------------------ MODULE HubSpoke ------------------------------
(***************************************************************************)
(* One ARC spoke of the Teensy hub, byte by byte: hub_link_read cuts what  *)
(* arrives into frames and hands everything else to the USB console        *)
(* (tools/teensy-hub/src/hub_links.cpp, pump_links in main.cpp).           *)
(*                                                                         *)
(* The bytes of frame f are <<f, 1>> .. <<f, FrameBytes>>; text has number *)
(* 0.  One step of the clock is a part of HUB_NON_ARC_USB_IDLE_MS and      *)
(* longer than the longest burst on the line.                              *)
(***************************************************************************)
EXTENDS Naturals, Sequences, SequencesExt

CONSTANTS
  FrameBytes,  \* bytes of a frame without its delimiter
  Cap,         \* sizeof(l->rx): a frame, its delimiter and 4 more
  Idle,        \* HUB_NON_ARC_USB_IDLE_MS in steps of the clock
  Hardware,    \* bytes the serial port keeps for the program
  MaxFrames,   \* bound: frames the device writes
  MaxTexts,    \* bound: bytes of text it writes
  MaxStalls    \* bound: times the program's loop is held up

HubSpokeAssumption ==
  /\ {FrameBytes, Idle, Hardware} \subseteq Nat \ {0}
  /\ Cap \in Nat /\ Cap > FrameBytes + 1
  /\ {MaxFrames, MaxTexts, MaxStalls} \subseteq Nat

VARIABLES
  line,     \* bytes the device has written and the port has not yet got
  fifo,     \* bytes in the port
  rx,       \* l->rx, without the delimiter
  age,      \* since last_rx_byte_ms
  stalled,  \* the loop is held up (the display, a scan of the I2C bus)
  out,      \* history: what went to the router ("frame") and to USB ("usb")
  read,     \* history: the bytes read, without delimiters
  due,      \* history: frames that began at a boundary, the loop going round
  wrote     \* history: frames, bytes of text and stalls so far

spokeVars == <<line, fifo, rx, age, stalled, out, read, due, wrote>>

Delimiter == <<0, 0>>
Text == <<0, 1>>
Bytes(f) == [k \in 1 .. FrameBytes |-> <<f, k>>]

Init ==
  /\ line = <<>> /\ fifo = <<>> /\ rx = <<>> /\ age = 0 /\ stalled = FALSE
  /\ out = <<>> /\ read = <<>> /\ due = {}
  /\ wrote = [frames |-> 0, texts |-> 0, stalls |-> 0]

-----------------------------------------------------------------------------
(* The hub.                                                                *)

Usb(bytes) == [to |-> "usb", bytes |-> bytes]
Routed(bytes) == [to |-> "frame", bytes |-> bytes]
IsFrame(bytes) == bytes # <<>> /\ bytes = Bytes(Head(bytes)[1]) /\ Head(bytes)[1] # 0

\* Before it reads, what has gathered and is old goes to USB, the beginning of
\* a frame whose other bytes are in the port already included.
FlushIdleNever ==
  /\ ~stalled /\ rx # <<>> /\ age >= Idle
  /\ age' = 0
  /\ UNCHANGED <<line, fifo, rx, stalled, out, read, due, wrote>>
FlushIdle ==
  /\ ~stalled /\ rx # <<>> /\ age >= Idle
  /\ rx' = <<>> /\ out' = Append(out, Usb(rx))
  /\ UNCHANGED <<line, fifo, age, stalled, read, due, wrote>>

\* A delimiter ends what has gathered, which is a frame or is not.
EndFrame ==
  /\ Head(fifo) = Delimiter
  /\ rx' = <<>>
  /\ out' = IF rx = <<>> THEN out
            ELSE Append(out, IF IsFrame(rx) THEN Routed(rx) ELSE Usb(rx))
  /\ UNCHANGED read
Gather ==
  /\ Head(fifo) # Delimiter /\ Len(rx) < Cap
  /\ rx' = Append(rx, Head(fifo)) /\ read' = Append(read, Head(fifo))
  /\ UNCHANGED out
\* A byte for which there is no room sends what has gathered to USB.
Overflow ==
  /\ Head(fifo) # Delimiter /\ Len(rx) >= Cap
  /\ rx' = <<Head(fifo)>> /\ read' = Append(read, Head(fifo))
  /\ out' = Append(out, Usb(rx))

\* One turn of the reading loop, which the port's interrupt may fill meanwhile.
ReadByte ==
  /\ ~stalled /\ fifo # <<>>
  /\ rx # <<>> => age < Idle
  /\ fifo' = Tail(fifo) /\ age' = 0
  /\ EndFrame \/ Gather \/ Overflow
  /\ UNCHANGED <<line, stalled, due, wrote>>

IsRouted(f) == \E i \in DOMAIN out : out[i] = Routed(Bytes(f))

Stall ==
  /\ ~stalled /\ wrote.stalls < MaxStalls
  /\ stalled' = TRUE
  /\ due' = {f \in due : IsRouted(f)}
  /\ wrote' = [wrote EXCEPT !.stalls = @ + 1]
  /\ UNCHANGED <<line, fifo, rx, age, out, read>>
Resume ==
  /\ stalled /\ stalled' = FALSE
  /\ UNCHANGED <<line, fifo, rx, age, out, read, due, wrote>>

-----------------------------------------------------------------------------
(* The device on the spoke, the line and the clock.                        *)

\* Nothing unfinished lies ahead of the next byte that is written.
Boundary ==
  LET ahead == fifo \o line
  IN  \/ ahead # <<>> /\ ahead[Len(ahead)] = Delimiter
      \/ ahead = <<>> /\ (rx = <<>> \/ age >= Idle)

WriteFrame ==
  /\ wrote.frames < MaxFrames
  /\ wrote' = [wrote EXCEPT !.frames = @ + 1]
  /\ line' = line \o Append(Bytes(wrote'.frames), Delimiter)
  /\ due' = IF Boundary /\ ~stalled THEN due \cup {wrote'.frames} ELSE due
  /\ UNCHANGED <<fifo, rx, age, stalled, out, read>>
WriteText ==
  /\ wrote.texts < MaxTexts
  /\ wrote' = [wrote EXCEPT !.texts = @ + 1]
  /\ line' = Append(line, Text)
  /\ UNCHANGED <<fifo, rx, age, stalled, out, read, due>>

\* The loop is quick enough for the port unless it is held up; then the port
\* overflows.
Arrive ==
  /\ line # <<>> /\ line' = Tail(line)
  /\ IF Len(fifo) < Hardware THEN fifo' = Append(fifo, Head(line))
     ELSE stalled /\ UNCHANGED fifo
  /\ UNCHANGED <<rx, age, stalled, out, read, due, wrote>>

Tick ==
  /\ line = <<>> /\ (fifo = <<>> \/ stalled)
  /\ age < Idle /\ age' = age + 1
  /\ UNCHANGED <<line, fifo, rx, stalled, out, read, due, wrote>>

Next ==
  FlushIdle \/ ReadByte \/ Stall \/ Resume \/ WriteFrame \/ WriteText \/ Arrive \/ Tick

SpokeSpec == Init /\ [][Next]_spokeVars

-----------------------------------------------------------------------------
(* Properties.                                                             *)

\* "Anything received on an ARC spoke that is not a valid ARC packet is written
\* to the USB console": every byte read is in a routed frame, on USB or still
\* gathered, once and in order.
BytesAccounted == read = FlattenSeq([i \in DOMAIN out |-> out[i].bytes]) \o rx

\* Frames are routed in the order they were written, none twice, and each that
\* was written when nothing unfinished lay ahead, with the loop going round
\* until it had arrived, is routed, whatever text and held-up loops came before.
FramesRouted ==
  /\ \A i, j \in DOMAIN out : i < j /\ out[i].to = "frame" /\ out[j].to = "frame"
       => out[i].bytes[1][1] < out[j].bytes[1][1]
  /\ line = <<>> /\ fifo = <<>> => \A f \in due : IsRouted(f)

\* Every frame is routed as long as no text is written, also when the loop is
\* held up meanwhile.  It does not hold: "enough to overflow the UART RX FIFOs
\* and choke frame routing" (hub_oled.cpp), or to take an old half of a frame
\* for text.
StallsHarmless ==
  line = <<>> /\ fifo = <<>> /\ wrote.texts = 0 =>
    \A f \in 1 .. wrote.frames : IsRouted(f)

=============================================================================
