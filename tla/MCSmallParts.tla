---------------------------- MODULE MCSmallParts ----------------------------
(***************************************************************************)
(* Seven components with small state spaces, checked in one run: pane      *)
(* geometry, the split tree, compact rows, the feeding of output chunks,   *)
(* the start of a pseudo-terminal's child, the settings, and the menu of   *)
(* animations.                                                             *)
(* They do not interact here: a behaviour is one of a single component,    *)
(* the one named by part, and the others stay in their initial states.     *)
(***************************************************************************)
EXTENDS PaneGeometry

MCGrids == {"80x24", "80x40", "100x24"}
MCCells == {"8x16", "9x18"}
MCSizes == {[cols |-> 9, rows |-> 6], [cols |-> 3, rows |-> 8]}

MCWhole == {
  <<"t">>, <<"LF">>, <<"lead", "cont">>, <<"ESC", "[", "t">>,
  <<"ESC", "[", "31m", "ESC", "[", "0m">>, <<"ESC", "[", "16t">>,
  <<"ESC", "]", "1337;", "t", "BEL">>, <<"OSC", "1337;", "t", "ESC", "\\">>,
  <<"ESC", "]", "1337;", "CAN">>,
  <<"ESC", "_", "G", "t", "ESC", "\\">>, <<"APC", "G", "ST">>,
  <<"ESC", "_", "G", "t", "CAN">>, <<"ESC", "_", "t", "ST">>,
  <<"ESC", "P", "t", "G", "ESC", "\\">>,
  <<"ESC", "[", "?2026h", "lead", "cont", "ESC", "[", "t", "ESC", "[", "?2026l">>,
  <<"ESC", "[", "?2026h", "APC", "G", "ST", "ESC", "[", "?2026l">>}
MCUpdates == {<<"ESC", "[", "?2026h">>, <<"ESC", "[", "?2026h", "t", "ESC", "[", "?2026l">>}
MCLookAlikes == {<<"lead", "APC">>, <<"lead", "OSC">>, <<"lead", "ST">>}
MCUnfinished == {<<"ESC", "]", "1337;", "t">>, <<"ESC", "_", "G">>, <<"ESC", "P", "t">>}

MCDocuments == {
  [layer |-> [theme |-> "light", text |-> "none"], bindings |-> "file"],
  [layer |-> [prompt |-> "dock", text |-> "unknown", trail |-> TRUE], bindings |-> "none"]}
MCCommandLines == {[layer |-> [trail |-> FALSE, blink |-> TRUE], bindings |-> "line"]}
MCNames == {"none", "typewriter"}
MCGlobal == [text |-> "streaming", trail |-> FALSE]
MCOverlays == {<<>>, [text |-> "typewriter"]}
MCPresets == {[text |-> "none", trail |-> FALSE]}
MCPresses == {"Up", "Down", "Space", "Replay", "PlayAll", "Quit", "Escape"}
MCFewPresses == {"Replay", "Quit"}

VARIABLES
  part,                                    \* the component that runs
  tree, focused, nextPane, size, crashed,  \* those of SplitTree
  row,                                     \* that of RowWindow
  pieces, pos, pane,                       \* those of ChunkFeed
  pc, ends, process, report, kin, waiter, polls, \* those of SpawnChild
  source, file, cli, runtime, current, lastError, overlay, panes, loaded, chosen, \* those of Settings
  shown, asked, replies, line, menu, menus, keys, base, sets, overrun, pressed, taken, late  \* those of AnimationMenu

splits == <<tree, focused, nextPane, size, crashed>>
fed    == <<pieces, pos, pane>>
begun  == <<pc, ends, process, report, kin, waiter, polls>>
held   == <<source, file, cli, runtime, current, lastError, overlay, panes, loaded, chosen>>
talked == <<shown, asked, replies, line, menu, menus, keys, base, sets, overrun, pressed, taken, late>>

Splits == INSTANCE SplitTree WITH
  MaxPanes <- 4, Sizes <- MCSizes, Deltas <- {20}, panicked <- crashed
Rows == INSTANCE RowWindow WITH
  Widths <- {1, 2, 3}, Texts <- {<<"a">>, <<"a", "b">>, <<"W", "s">>, <<"l">>}
Output == INSTANCE ChunkFeed WITH
  Whole <- MCWhole, LookAlikes <- MCLookAlikes, Unfinished <- MCUnfinished, Updates <- MCUpdates,
  MaxPieces <- 2
Spawn == INSTANCE SpawnChild WITH MaxPolls <- 3, child <- process
Store == INSTANCE Settings WITH
  Documents <- MCDocuments, CommandLines <- MCCommandLines, Names <- MCNames,
  Windows <- {"w", "v"}, Panes <- {"p", "q"}
Menu == INSTANCE AnimationMenu WITH
  Global <- MCGlobal, Overlays <- MCOverlays, Presses <- MCPresses, MaxKeys <- 2, MaxMenus <- 2, MaxSets <- 1, Presets <- MCPresets,
  overlay <- shown

OfGeometry == part = "geometry" /\ UNCHANGED <<part, splits, row, fed, begun, held, talked>>
OfSplits   == part = "splits" /\ UNCHANGED <<part, vars, row, fed, begun, held, talked>>
OfRows     == part = "rows" /\ UNCHANGED <<part, vars, splits, fed, begun, held, talked>>
OfOutput   == part = "output" /\ UNCHANGED <<part, vars, splits, row, begun, held, talked>>
OfSpawn    == part = "spawn" /\ UNCHANGED <<part, vars, splits, row, fed, held, talked>>
OfSettings == part = "settings" /\ UNCHANGED <<part, vars, splits, row, fed, begun, talked>>
OfMenu     == part = "menu" /\ UNCHANGED <<part, vars, splits, row, fed, begun, held>>

Start ==
  /\ part \in {"geometry", "splits", "rows", "output", "spawn", "settings", "menu"}
  /\ Init /\ Splits!Init /\ Rows!Init /\ Spawn!Init /\ Store!Init /\ Menu!Init
  /\ part = "menu" \/ shown = <<>>
  /\ part = "geometry" \/ lifecycle = "Detached"
  /\ part = "settings" \/ source = "Defaults"
  /\ part = "splits" \/ size.cols = 9
  /\ part = "rows" \/ Rows!Cols = 1
  /\ IF part = "output" THEN Output!Init
     ELSE pieces = <<>> /\ pos = 0 /\ pane = Output!New

Commits  == OfGeometry /\ \E g \in [grid : Grids, cell : Cells] : CommitGeometry(g)
Rebuilds == OfGeometry /\ RebuildFrame
Selects  == OfGeometry /\ BeginSelection
Ends     == OfGeometry /\ Shutdown

InsertSplitPane == OfSplits /\ \E axis \in Splits!Axes : Splits!InsertSplitPane(axis)
ClosePane       == OfSplits /\ \E p \in Splits!Pane : Splits!ClosePane(p)
FocusPane       == OfSplits /\ \E p \in Splits!Pane : Splits!FocusPane(p)
CyclePane       == OfSplits /\ \E forward \in BOOLEAN : Splits!CyclePane(forward)
GotoSplit       == OfSplits /\ \E direction \in Splits!Directions : Splits!GotoSplit(direction)
ResizeSplit     == OfSplits /\ \E direction \in Splits!Directions : Splits!ResizeSplit(direction, 20)
Layout          == OfSplits /\ \E measured \in MCSizes : Splits!Layout(measured)

WriteText   == OfRows /\ Rows!WriteText
Blankout    == OfRows /\ Rows!Blankout
EraseSpan   == OfRows /\ Rows!EraseSpan
WrapOver    == OfRows /\ Rows!WrapOver
ShiftRight  == OfRows /\ Rows!ShiftRight
ShiftLeft   == OfRows /\ Rows!ShiftLeft
Sanitize    == OfRows /\ Rows!Sanitize
Reuse       == OfRows /\ Rows!Reuse
Renew       == OfRows /\ Rows!Renew
Recycle     == OfRows /\ Rows!Recycle
ChangeWidth == OfRows /\ Rows!ChangeWidth

FeedChunk == OfOutput /\ Output!FeedChunk

Prepare      == OfSpawn /\ Spawn!Prepare
Fork         == OfSpawn /\ Spawn!Fork
ReadsReport  == OfSpawn /\ Spawn!ReadExecError
KillsChild   == OfSpawn /\ Spawn!KillChild
Reaps        == OfSpawn /\ Spawn!ReapChildBlocking
StartsThread == OfSpawn /\ Spawn!StartThreads
KillsGroup   == OfSpawn /\ Spawn!KillPgid
Polls        == OfSpawn /\ Spawn!Poll
JoinsWaiter  == OfSpawn /\ Spawn!JoinWaiter
WaiterReaps  == OfSpawn /\ Spawn!ExitWaiter
ReaderEnds   == OfSpawn /\ Spawn!ReaderEnds
ReaderFails  == OfSpawn /\ Spawn!ReaderFails
ChildExec    == OfSpawn /\ Spawn!ChildExec
ChildReports == OfSpawn /\ Spawn!ReportExecError
ChildDies    == OfSpawn /\ Spawn!ChildDies
Descends     == OfSpawn /\ \E relation \in Spawn!Relations : Spawn!Descend(relation)
KinDies      == OfSpawn /\ \E relation \in Spawn!Relations : Spawn!KinDies(relation)

NewWindow    == OfSettings /\ \E w \in {"w", "v"}, p \in {"p", "q"} : Store!NewWindow(w, p)
NewPane      == OfSettings /\ \E w \in {"w", "v"}, p \in {"p", "q"} : Store!NewPane(w, p)
LosePane     == OfSettings /\ \E p \in {"p", "q"} : Store!ClosePane(p)
ReloadConfig == OfSettings /\ \E document \in MCDocuments : Store!ReloadConfig(document)
ReloadFails  == OfSettings /\ Store!ReloadFails
SetsText     == OfSettings /\ \E name \in MCNames : Store!SetTextAnimation(name)
TogglesTrail == OfSettings /\ Store!ToggleCursorTrail
ApplyPreset  == OfSettings /\ \E w \in {"w", "v"}, preset \in Store!Offered : Store!ApplyPreset(w, preset)
ApplyState   == OfSettings /\ \E w \in {"w", "v"}, to \in Store!States : Store!ApplyState(w, to)

StartsMenu  == OfMenu /\ Menu!Start
Ingests     == OfMenu /\ Menu!Ingest
EntersMenu  == OfMenu /\ Menu!Enter
TimesOut    == OfMenu /\ Menu!TimesOut
ReadsKey    == OfMenu /\ Menu!ReadKey
GraceEnds   == OfMenu /\ Menu!GraceEnds
Sends       == OfMenu /\ Menu!Send
Handles     == OfMenu /\ Menu!Handle
FlushReply  == OfMenu /\ Menu!FlushReply
ShellReads  == OfMenu /\ Menu!ShellReads
\* Bounds: after a first key come fewer kinds, and beside a preset those
\* that make a menu speak.
PresetSet   == sets > 0 \/ \E i \in DOMAIN asked : asked[i].is = "preset"
MayPress    == IF PresetSet THEN MCFewPresses
               ELSE IF keys = 0 THEN MCPresses ELSE MCFewPresses \cup {"Up"}
Presses     == OfMenu /\ \E key \in MayPress : Menu!Press(key)
EmitsPreset == /\ OfMenu /\ \A i \in DOMAIN pressed : pressed[i] \in MCFewPresses
               /\ \E preset \in MCPresets : Menu!EmitPreset(preset)

Step ==
  \/ Commits \/ Rebuilds \/ Selects \/ Ends
  \/ InsertSplitPane \/ ClosePane \/ FocusPane \/ CyclePane \/ GotoSplit \/ ResizeSplit \/ Layout
  \/ WriteText \/ Blankout \/ EraseSpan \/ WrapOver \/ ShiftRight \/ ShiftLeft \/ Sanitize
  \/ Reuse \/ Renew \/ Recycle \/ ChangeWidth
  \/ FeedChunk
  \/ Prepare \/ Fork \/ ReadsReport \/ KillsChild \/ Reaps \/ StartsThread \/ KillsGroup \/ Polls
  \/ JoinsWaiter \/ WaiterReaps \/ ReaderEnds \/ ReaderFails \/ ChildExec \/ ChildReports \/ ChildDies
  \/ Descends \/ KinDies
  \/ NewWindow \/ NewPane \/ LosePane \/ ReloadConfig \/ ReloadFails \/ SetsText \/ TogglesTrail
  \/ ApplyPreset \/ ApplyState
  \/ StartsMenu \/ Ingests \/ EntersMenu \/ TimesOut \/ ReadsKey \/ GraceEnds \/ Sends
  \/ Handles \/ FlushReply \/ Presses \/ ShellReads \/ EmitsPreset

SmallParts == Start /\ [][Step]_<<part, vars, splits, row, fed, begun, held, talked>>

\* Rectangles tile, a direction leads to one pane at most, closing undoes
\* splitting; stated in SplitTree.
LayoutIsSound == part = "splits" => Splits!LayoutIsSound
\* Panes keep their order, stated in PaneOrder.
OrderKept == Splits!OrderKept
\* A row and its window are a string, stated in PlainRow.
RowsAreStrings == Rows!RowsAreStrings
\* The same output in other chunks is the same, and the image taps agree with
\* the engine; stated in ChunkFeed.
OutputIsReadAlike == part = "output" => Output!OutputIsReadAlike
\* Settings have the value of the first who gives one, in every pane; stated
\* in Settings.
SettingsArrive == part = "settings" => Store!SettingsArrive
\* The animation menu takes every key and every answer for what it is, and
\* leaves the window as it found it; stated in AnimationMenu.
KeysAreTold == part = "menu" => Menu!KeysAreTold
PreviewsAreUndone == part = "menu" => Menu!PreviewsAreUndone
\* What a failed spawn may leave behind; stated in SpawnChild.
SpawnLeavesNothing == part = "spawn" => Spawn!SpawnLeavesNothing
\* The taps agree with the engine on text of any characters.
TapsAgreeOnText == part = "output" => Output!TapsAgreeOnText
\* Text of a synchronized update is printed when the update ends.
UpdatesKeepOrder == part = "output" => Output!UpdatesKeepOrder
=============================================================================
