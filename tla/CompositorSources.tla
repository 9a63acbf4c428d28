------------------------- MODULE CompositorSources -------------------------
(***************************************************************************)
(* What the Controller's source switching relies on of its video pipeline: *)
(* which source each compositor slot is set to show, whether there is a    *)
(* pipeline, and what a request for other sources may come to.             *)
(* ControllerPipeline implements it.                                       *)
(***************************************************************************)
EXTENDS Naturals

CONSTANTS
  Local,     \* LOCAL_SOURCE, ADDR_CONTROLLER
  Selector   \* switch_mode = "selector" (FALSE: "rebuild")

VARIABLES
  shown,     \* ControllerPipeline._slot_sources
  playing    \* ControllerPipeline._pipeline is not None

Slots == {0, 1}                          \* SOURCE_SLOT_COUNT
pipelineVars == <<shown, playing>>

AssignsOnceStarted(new) ==
  \/ /\ Selector \/ ~playing
     /\ Selector \/ \E s \in Slots : new[s] # Local
     /\ shown' = new
     /\ UNCHANGED playing
  \/ /\ ~Selector /\ playing
     /\ \E s \in Slots : new[s] # Local
     /\ playing' \in BOOLEAN
     /\ shown' = IF playing' THEN new ELSE shown
  \/ /\ ~Selector
     /\ \A s \in Slots : new[s] = Local
     /\ UNCHANGED pipelineVars
\* ControllerPipeline.set_sources: a live selector switch; in rebuild mode a
\* refusal of two local cameras (PipelineError before any change), else stop,
\* assign and start, where the start of a running pipeline may fail.
SetPipelineSources(new) ==
  \/ /\ shown = new
     /\ UNCHANGED pipelineVars
  \/ /\ shown # new
     /\ Selector \/ ~playing
     /\ Selector \/ \E s \in Slots : new[s] # Local
     /\ shown' = new
     /\ UNCHANGED playing
  \/ /\ shown # new
     /\ ~Selector /\ playing
     /\ \E s \in Slots : new[s] # Local
     /\ shown' = new
     /\ playing' \in BOOLEAN
  \/ /\ ~Selector /\ shown # new
     /\ \A s \in Slots : new[s] = Local
     /\ UNCHANGED pipelineVars

\* run starts the pipeline once, after the first reconcile, and stops it last.
StartOrStop ==
  /\ playing' \in BOOLEAN
  /\ UNCHANGED shown

PipelineNext == StartOrStop \/ SetPipelineSources(shown')

PipelineSpec == ~playing /\ [][PipelineNext]_pipelineVars

=============================================================================
