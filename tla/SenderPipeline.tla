--------------------------- MODULE SenderPipeline ---------------------------
(***************************************************************************)
(* A Sender process and its video pipeline: the flags Sender keeps and     *)
(* reports, and the GStreamer pipeline SenderPipeline builds, gates with   *)
(* two valves and tears down for the same VIDEO commands.                  *)
(*                                                                         *)
(* make_video_command_handler logs a PipelineError and carries on, so the  *)
(* two can come apart.  The pipeline description names both valves, so the *)
(* "missing valve" error cannot be met and is left out.  A GStreamer       *)
(* element may also fail later; nothing reads the sender's bus.            *)
(***************************************************************************)
EXTENDS Naturals

CONSTANTS
  Bitrates,     \* bitrates a SET_BITRATE may carry, 0 among them
  FirstBitrate, \* video.bitrate_bps
  OnBoot,       \* start_stream_on_boot
  Failures,     \* what may go wrong: "setup", "parse", "play", "element"
  MaxClock      \* bound: seconds, the resolution of recording names

PipelineAssumption ==
  /\ Bitrates \subseteq Nat /\ FirstBitrate \in Bitrates \ {0}
  /\ OnBoot \in BOOLEAN /\ MaxClock \in Nat
  /\ Failures \subseteq {"setup", "parse", "play", "element"}

VARIABLES
  transmitting,  \* Sender.transmitting
  recording,     \* Sender.recording
  booted,        \* the boot command, if any, has been applied
  tx,            \* SenderPipeline._transmitting
  rec,           \* SenderPipeline._recording
  pipe,          \* "idle" (no _pipeline), "playing", or "dead" but not None
  txOpen,        \* tx_valve lets frames through
  recOpen,       \* rec_valve lets frames through
  file,          \* _recording_file: its second, or NoFile
  bitrate,       \* _bitrate_bps
  encoding,      \* the bitrate the encoder was built with
  clock

senderVars == <<transmitting, recording, booted>>
valves == <<txOpen, recOpen>>
pipelineVars == <<tx, rec, pipe, valves, file, bitrate, encoding>>
vars == <<senderVars, pipelineVars, clock>>

NoFile == MaxClock + 1
Idle == pipe = "idle"

Boot ==
  /\ transmitting = FALSE /\ recording = TRUE /\ booted = FALSE
  /\ tx = FALSE /\ rec = FALSE /\ pipe = "idle"
  /\ txOpen = FALSE /\ recOpen = FALSE
  /\ file = NoFile /\ bitrate = FirstBitrate /\ encoding = 0
Init == Boot /\ clock = 0

-----------------------------------------------------------------------------
(* SenderPipeline.                                                         *)

OpenBoth ==
  /\ tx' = TRUE /\ rec' = TRUE
  /\ txOpen' = TRUE /\ recOpen' = TRUE

\* start_stream: build and play unless there is a pipeline, then open both
\* valves.  A failure on the way leaves what was assigned before it.
StartStream ==
  \/ /\ ~Idle
     /\ OpenBoth
     /\ UNCHANGED <<pipe, file, bitrate, encoding>>
  \/ /\ Idle
     /\ pipe' = "playing" /\ file' = clock /\ encoding' = bitrate
     /\ OpenBoth
     /\ UNCHANGED bitrate
  \/ /\ Idle /\ "setup" \in Failures
     /\ UNCHANGED pipelineVars
  \/ /\ Idle /\ "parse" \in Failures
     /\ file' = clock
     /\ UNCHANGED <<tx, rec, pipe, valves, bitrate, encoding>>
  \/ /\ Idle /\ "play" \in Failures
     /\ tx' = FALSE /\ rec' = FALSE /\ file' = NoFile
     /\ UNCHANGED <<pipe, valves, bitrate, encoding>>

\* stop_stream: close tx_valve; recording continues.
StopTearsDown ==
  /\ tx' = FALSE
  /\ txOpen' = FALSE /\ recOpen' = FALSE /\ pipe' = "idle" /\ file' = NoFile
  /\ UNCHANGED <<rec, bitrate, encoding>>
StopStream ==
  /\ tx' = FALSE
  /\ txOpen' = FALSE
  /\ UNCHANGED <<rec, pipe, recOpen, file, bitrate, encoding>>

\* hard_stop: with no pipeline only the flags are cleared.
HardStop ==
  /\ tx' = FALSE /\ rec' = FALSE
  /\ IF Idle THEN UNCHANGED <<pipe, valves, file>>
     ELSE /\ pipe' = "idle" /\ file' = NoFile
          /\ txOpen' = FALSE /\ recOpen' = FALSE
  /\ UNCHANGED <<bitrate, encoding>>

\* set_bitrate: zero is refused; the live encoder keeps what it has.
SetBitrate(bps) ==
  /\ bitrate' = IF bps = 0 THEN bitrate ELSE bps
  /\ UNCHANGED <<tx, rec, pipe, valves, file, encoding>>

-----------------------------------------------------------------------------
(* Sender._apply_video_command followed by the pipeline handler.           *)

Start ==
  /\ transmitting' = TRUE /\ recording' = TRUE
  /\ StartStream
Stop ==
  /\ transmitting' = FALSE
  /\ StopStream
  /\ UNCHANGED recording
HardStopped ==
  /\ transmitting' = FALSE /\ recording' = FALSE
  /\ HardStop
Rated(bps) ==
  /\ SetBitrate(bps)
  /\ UNCHANGED <<transmitting, recording>>

\* run applies the boot command before the first frame can arrive.
BootCommand ==
  /\ ~booted /\ booted' = TRUE
  /\ IF OnBoot THEN Start ELSE UNCHANGED <<transmitting, recording, pipelineVars>>
  /\ UNCHANGED clock
Command ==
  /\ booted
  /\ Start \/ Stop \/ HardStopped \/ \E bps \in Bitrates : Rated(bps)
  /\ UNCHANGED <<booted, clock>>

\* The process is stopped (hard_stop in run's finally) and started again.
Restart ==
  /\ booted
  /\ transmitting' = FALSE /\ recording' = TRUE /\ booted' = FALSE
  /\ tx' = FALSE /\ rec' = FALSE /\ pipe' = "idle"
  /\ txOpen' = FALSE /\ recOpen' = FALSE
  /\ file' = NoFile /\ bitrate' = FirstBitrate /\ encoding' = 0
  /\ UNCHANGED clock

\* A pipeline element fails: the pipeline stops flowing, _pipeline stays.
ElementFails ==
  /\ "element" \in Failures /\ pipe = "playing"
  /\ pipe' = "dead"
  /\ UNCHANGED <<senderVars, tx, rec, valves, file, bitrate, encoding, clock>>

Second ==
  /\ clock < MaxClock
  /\ clock' = clock + 1
  /\ UNCHANGED <<senderVars, pipelineVars>>

Next == BootCommand \/ Command \/ Restart \/ ElementFails \/ Second

Spec == Init /\ [][Next]_vars

-----------------------------------------------------------------------------
(* Properties.                                                             *)

\* Types; the pipeline's flags are its valves', and an idle one passes nothing
\* on: a failed start leaves no valve open and no flag set.
PipelineTypeOK ==
  /\ transmitting \in BOOLEAN /\ recording \in BOOLEAN /\ booted \in BOOLEAN
  /\ pipe \in {"idle", "playing", "dead"} /\ file \in 0..NoFile
  /\ bitrate \in Bitrates \ {0} /\ encoding \in Bitrates \cup {0}
  /\ tx = txOpen /\ rec = recOpen
  /\ Idle => ~tx /\ ~rec

\* "The TX-while-not-recording combination is intentionally not exposed": no
\* sequence of commands, failures and restarts transmits without recording.
NoTxOnly == (tx => rec) /\ (transmitting => recording)

\* "Soft stop: close tx_valve; recording continues unchanged": while a
\* recording goes on, whatever is commanded, it goes on in the same file.
RecordingUnbroken == [][rec /\ rec' => file' = file /\ ~Idle']_vars

\* A stop always wins: a sender that has been told to stop has its transmit
\* valve closed, whatever failed before.
StoppedIsSilent == ~transmitting => ~txOpen

\* "State semantics mirror the control-plane VIDEO commands and the
\* Sender.transmitting / Sender.recording flags": what a sender that is up
\* reports is what its pipeline does.
FlagsMirror == booted => transmitting = tx /\ recording = rec

\* "Takes effect on the next start_stream": a START_STREAM that transmits
\* encodes at the bitrate last set.
BitrateTakesEffect == [][Command /\ ~tx /\ tx' => encoding' = bitrate']_vars

\* "Path of the active recording, or None when idle."
FileOnlyWhenActive == Idle => file = NoFile

\* "start_stream -- pipeline PLAYING, both valves open", idempotently: a
\* START_STREAM that opens the valves leaves the pipeline playing.
StreamingPlays == [][Command /\ Start /\ tx' => pipe' = "playing"]_vars

=============================================================================
