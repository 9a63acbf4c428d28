------------------------- MODULE ControllerPipeline -------------------------
(***************************************************************************)
(* The Controller's video pipeline (arc/pipeline_controller.py): what it   *)
(* has recorded for the next build (slot sources, layout, overlay text)    *)
(* and what the live GStreamer graph shows of it, in selector and in       *)
(* rebuild mode, when starting fails at one of its steps.                  *)
(*                                                                         *)
(* The graph's description names every element start looks up, so the      *)
(* "missing element" errors are left out; an unknown startup_layout, which *)
(* the configuration does not check, is not.                               *)
(***************************************************************************)
EXTENDS Naturals

CONSTANTS
  Sources, Local, Empty,
  Layouts,        \* names in [layouts]
  Texts,          \* overlay texts, Callsign first among them
  Callsign,
  StartupLayout,  \* _initial_layout: a name, in Layouts unless misconfigured
  Selector,       \* switch_mode = "selector"
  Failures,       \* what may go wrong in start: "parse", "play"
  None            \* no layout, no text, no live element

Slots == {0, 1}

ASSUME ControllerPipelineAssumption ==
  /\ {Local, Empty} \subseteq Sources /\ Local # Empty
  /\ Callsign \in Texts /\ None \notin Layouts \cup Texts \cup Sources
  /\ StartupLayout # None /\ Selector \in BOOLEAN
  /\ Failures \subseteq {"parse", "play"}

VARIABLES
  slots,     \* _slot_sources
  layout,    \* _current_layout
  text,      \* _overlay_text
  pipe,      \* "none", "playing", or "built": _pipeline set, never PLAYING
  wired,     \* the source each slot of the live graph shows
  mixed,     \* the layout on the live compositor pads
  overlaid,  \* the text of the live textoverlay
  run        \* run's progress: "booting", "up", "down"

recorded == <<slots, layout, text>>
live == <<pipe, wired, mixed, overlaid>>
vars == <<recorded, live, run>>

Dark == [s \in Slots |-> None]
NoGraph ==
  /\ pipe' = "none" /\ wired' = Dark /\ mixed' = None /\ overlaid' = None

Init ==
  /\ slots = [s \in Slots |-> IF s = 0 THEN Local ELSE Empty]
  /\ layout = None /\ text = Callsign
  /\ pipe = "none" /\ wired = Dark /\ mixed = None /\ overlaid = None
  /\ run = "booting"

-----------------------------------------------------------------------------
(* start, from no pipeline, with the slots already assigned: the layout    *)
(* last set, or the startup one, is put on the new compositor.             *)

DesiredLayout == IF layout # None THEN layout ELSE StartupLayout

StartForgetsLayout ==
  /\ pipe' = "playing" /\ wired' = slots'
  /\ layout' = StartupLayout /\ mixed' = StartupLayout /\ overlaid' = text
StartPlays ==
  /\ DesiredLayout \in Layouts
  /\ pipe' = "playing" /\ wired' = slots'
  /\ layout' = DesiredLayout /\ mixed' = DesiredLayout /\ overlaid' = text

\* build_pipeline_description: the graph as it is laid out, in selector mode
\* with no source selected yet.
Built == overlaid' = text /\ wired' = IF Selector THEN Dark ELSE slots'

StartFails ==
  \/ "parse" \in Failures /\ NoGraph /\ UNCHANGED layout
  \/ /\ "play" \in Failures /\ DesiredLayout \in Layouts
     /\ NoGraph
     /\ layout' = DesiredLayout
  \/ /\ DesiredLayout \notin Layouts
     /\ pipe' = "built" /\ Built /\ mixed' = None
     /\ UNCHANGED layout

Start ==
  /\ StartPlays \/ StartFails
  /\ UNCHANGED text

-----------------------------------------------------------------------------

\* _apply_layout_now: what the compositor's pads are set to, if there is one.
Mixed(name) == mixed' = IF pipe = "none" THEN None ELSE name

\* set_layout with a name the callers have looked up.
SetLayout(name) ==
  /\ layout' = name
  /\ Mixed(name)
  /\ UNCHANGED <<slots, text, pipe, wired, overlaid, run>>

SetOverlay(t) ==
  /\ text' = t
  /\ overlaid' = IF pipe = "none" THEN None ELSE t
  /\ UNCHANGED <<slots, layout, pipe, wired, mixed, run>>

\* set_sources: refused in rebuild mode when it would use the one local
\* camera twice; live pads are switched in selector mode; otherwise a running
\* pipeline is stopped and started on the new sources.
SetSourcesAssignsFirst(new) ==
  /\ new # slots /\ slots' = new
  /\ \/ Selector /\ pipe # "none" /\ wired' = new
        /\ UNCHANGED <<layout, text, pipe, mixed, overlaid>>
     \/ pipe = "none" /\ UNCHANGED <<layout, text, live>>
     \/ ~Selector /\ pipe # "none" /\ Start
  /\ UNCHANGED run
SetSourcesOnlyRecords(new) ==
  /\ new # slots /\ slots' = new
  /\ Selector \/ \E s \in Slots : new[s] # Local
  /\ UNCHANGED <<layout, text, live, run>>
SetSources(new) ==
  /\ new # slots /\ slots' = new
  /\ Selector \/ \E s \in Slots : new[s] # Local
  /\ \/ Selector /\ pipe # "none"
        /\ wired' = [s \in Slots |-> IF new[s] # slots[s] THEN new[s] ELSE wired[s]]
        /\ UNCHANGED <<layout, text, pipe, mixed, overlaid>>
     \/ pipe = "none" /\ UNCHANGED <<layout, text, live>>
     \/ ~Selector /\ pipe # "none" /\ Start
  /\ UNCHANGED run

\* run: start once after the initial sources, stop in its finally.
Boot ==
  /\ run = "booting" /\ run' = "up"
  /\ UNCHANGED slots
  /\ Start
Shutdown ==
  /\ run = "up" /\ run' = "down"
  /\ NoGraph
  /\ UNCHANGED recorded

Next ==
  \/ Boot \/ Shutdown
  \/ run # "down" /\ \E new \in [Slots -> Sources] : SetSources(new)
  \/ run = "up" /\ \E name \in Layouts : SetLayout(name)
  \/ run = "up" /\ \E t \in Texts : SetOverlay(t)

Spec == Init /\ [][Next]_vars

-----------------------------------------------------------------------------
(* Properties.                                                             *)

\* Types; nothing is live without a pipeline.
ControllerPipelineTypeOK ==
  /\ slots \in [Slots -> Sources] /\ wired \in [Slots -> Sources \cup {None}]
  /\ layout \in Layouts \cup {None} /\ mixed \in Layouts \cup {None}
  /\ text \in Texts /\ overlaid \in Texts \cup {None}
  /\ pipe \in {"none", "built", "playing"} /\ run \in {"booting", "up", "down"}
  /\ pipe = "none" => wired = Dark /\ mixed = None /\ overlaid = None

\* Whatever was commanded before the pipeline started, while it ran and
\* across its rebuilds, a playing graph shows the recorded sources, layout and
\* overlay.
LiveMatchesRecorded ==
  pipe = "playing" => wired = slots /\ mixed = layout /\ overlaid = text

\* The layout an operator chose survives every change of sources, failed
\* rebuilds included.
LayoutSurvives == [][layout # None /\ slots' # slots => layout' = layout]_vars

\* A playing graph shows what was recorded, and what was recorded of the layout
\* is what the operator chose.
PictureKept == []LiveMatchesRecorded /\ LayoutSurvives

\* What the source switching relies on of set_sources and of the pipeline's
\* existence; two local cameras are never wired in rebuild mode.
Relied == INSTANCE CompositorSources WITH shown <- slots, playing <- pipe # "none"

=============================================================================
