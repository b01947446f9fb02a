------------------------------ MODULE MCPaneView ------------------------------
(***************************************************************************)
(* What a pane shows, how its text is animated, and the shell's marks with *)
(* the dock derived from them, checked in one run.  A behaviour is one of  *)
(* the single component named by part; the others stay in their initial    *)
(* states.                                                                 *)
(***************************************************************************)
EXTENDS PaneView

MCTexts   == {<<"_", "_", "_">>, <<"W", "s", "a">>}
MCHeights == {1, 2}

VARIABLES
  part,                                                 \* the component that runs
  mode, tracker, schedule, first, frame, shown, asked,  \* those of EffectsModel
  marks, terminal, surface, dock, fresh, steps          \* those of ShellMarks

animated == <<mode, tracker, schedule, first, frame, shown, asked>>
marked   == <<marks, terminal, surface, dock, fresh, steps>>

Effects == INSTANCE EffectsModel WITH
  Heights <- MCHeights, Texts <- MCTexts, NoText <- <<"_", "_", "_">>,
  Duration <- 2, MaxAhead <- 1, Large <- 1, Pauses <- {1}, Region <- {1}

Shell == INSTANCE ShellMarks WITH
  Heights <- {2, 3}, Cols <- 2, Kinds <- {"Right"}, Exits <- {0, 1}, MaxHistory <- 1, MaxSteps <- 6,
  term <- terminal, pane <- surface

\* The user's selection and the element's batches do not meet: a behaviour of
\* the pane has one of the two.
OfPane    == part \in {"drawn", "selected"} /\ UNCHANGED <<part, animated, marked>>
Drawn     == part = "drawn" /\ OfPane
Selected  == part = "selected" /\ OfPane
OfEffects == part = "effects" /\ UNCHANGED <<part, vars, marked>>
OfShell   == part = "shell" /\ UNCHANGED <<part, vars, animated>>

Start ==
  /\ part \in {"drawn", "selected", "effects", "shell"} /\ Init /\ Effects!Init
  /\ IF part = "shell" THEN Shell!Init
     ELSE marks = None /\ terminal = None /\ surface = None /\ dock = None /\ fresh = TRUE /\ steps = 0
  /\ part # "effects" => mode = "streaming" /\ Effects!Height = 1 /\ ~frame.region

PumpBegin       == OfPane /\ PumpBegins
LineFeeds       == OfPane /\ LineFeed
Redraws         == OfPane /\ Redraw
ErasesHistory   == OfPane /\ EraseHistory
ChangesScreen   == OfPane /\ ChangeScreen
PumpEnd         == OfPane /\ PumpEnds
DismissesFetch  == OfPane /\ DismissFetch
Ticks           == OfPane /\ TickAnimation
ScrollsUp       == OfPane /\ ScrollUp
ScrollsDown     == OfPane /\ ScrollDown
Selects         == Selected /\ Select
Drags           == Selected /\ Drag
Deselects       == Selected /\ Deselect
CommitsGeometry == OfPane /\ CommitGeometry
\* Bound: where the startup picture is shown, a size is refused when it has
\* stopped, of a small pane, in one kind of behaviour.
RefusesGeometry ==
  /\ startup = "gone" \/ (startup = "still" /\ Height = 1 /\ part = "selected")
  /\ OfPane /\ RefuseGeometry
Paints          == Drawn /\ Paint
LosesBatches    == Drawn /\ LoseBatches

Write         == OfEffects /\ \E r \in 1..Effects!Height, cells \in MCTexts, full \in BOOLEAN :
                   Effects!Write(r, cells, full)
Scroll        == OfEffects /\ \E cells \in MCTexts : Effects!Scroll(cells)
Clear         == OfEffects /\ Effects!Clear
SwitchesScreen == OfEffects /\ Effects!ChangeScreen
Resize        == OfEffects /\ \E h \in MCHeights : Effects!Resize(h)
PictureEnds   == OfEffects /\ Effects!PictureEnds
ApplyFrame    == OfEffects /\ Effects!Paint(1)
SetConfig     == OfEffects /\ \E to \in {"none", "streaming", "typewriter"} : Effects!SetConfig(to)
NewMetrics    == OfEffects /\ Effects!NewMetrics

Writes          == OfShell /\ Shell!Write
NewLines        == OfShell /\ Shell!NewLine
Alternates      == OfShell /\ Shell!AlternateScreen
ReportsMouse    == OfShell /\ Shell!MouseReports
MarksFreshLine  == OfShell /\ Shell!MarkFreshLine
MarksNewPrompt  == OfShell /\ Shell!MarkNewPrompt
MarksPrompt     == OfShell /\ Shell!MarkPromptStart
MarksInput      == OfShell /\ Shell!MarkInput
MarksOutput     == OfShell /\ Shell!MarkOutput
MarksEnd        == OfShell /\ Shell!MarkEnd
ShowsMarks      == OfShell /\ Shell!PumpEnds
ScrollsBack     == OfShell /\ Shell!ScrollUp
ScrollsForth    == OfShell /\ Shell!ScrollDown
Resizes         == OfShell /\ Shell!Resize
SetsPresentation == OfShell /\ Shell!SetPresentation

Step ==
  \/ PumpBegin \/ LineFeeds \/ Redraws \/ ErasesHistory \/ ChangesScreen \/ PumpEnd \/ DismissesFetch
  \/ Ticks \/ ScrollsUp \/ ScrollsDown \/ Selects \/ Drags \/ Deselects \/ CommitsGeometry
  \/ RefusesGeometry
  \/ Paints \/ LosesBatches
  \/ Write \/ Scroll \/ Clear \/ SwitchesScreen \/ Resize \/ PictureEnds \/ ApplyFrame
  \/ SetConfig \/ NewMetrics
  \/ Writes \/ NewLines \/ Alternates \/ ReportsMouse \/ MarksFreshLine \/ MarksNewPrompt
  \/ MarksPrompt \/ MarksInput \/ MarksOutput \/ MarksEnd \/ ShowsMarks \/ ScrollsBack
  \/ ScrollsForth \/ Resizes \/ SetsPresentation

PaneParts == Start /\ [][Step]_<<part, vars, animated, marked>>

\* Frames are asked for exactly while text is revealed; stated in EffectsModel.
RevealsAreScheduled == Effects!RevealsAreScheduled
\* Only new text is concealed; stated in EffectsModel.
RevealsFollowText == Effects!RevealsFollowText
\* The dock shows what the marks say is input; stated in ShellMarks.
DockFollowsTheMarks == part = "shell" => Shell!DockFollowsTheMarks
=============================================================================
