---------------------------- MODULE PaneGeometry ----------------------------
(***************************************************************************)
(* One measured geometry on its way to the kernel: PaneModel::commit_      *)
(* geometry (first measurement spawns the child, later ones resize the     *)
(* engine, then the session), PaneSession::resize and PtySession::resize,  *)
(* with every early return and the state each failure leaves behind.  All  *)
(* of it runs on the main thread, so a commit is one step.                 *)
(***************************************************************************)
EXTENDS Naturals

CONSTANTS
  Grids,     \* grid sizes a layout may measure
  Cells,     \* cell metrics a layout may measure (pixels and fractions)
  NoCell,    \* metrics before the first measurement
  FirstGrid, \* grid a pane is created with
  Faults     \* operations that may fail: subset of FaultKinds

FaultKinds == {"core", "spawn", "ioctl"}

ASSUME GeometryAssumption ==
  FirstGrid \in Grids /\ NoCell \notin Cells /\ Faults \subseteq FaultKinds

VARIABLES
  lifecycle,  \* PaneModel.lifecycle: "Pending", "Live" or "Detached"
  config,     \* PaneModel.pending_spawn is Some
  grid, cell, \* PaneModel.last_size; PaneModel.cell and metrics
  coreGrid,   \* size of the terminal engine
  frameGrid,  \* size of the latest frame, or "none"
  selectedAt, \* engine size a selection was made under, or "none"
  child,      \* PaneSession.inner is Some
  paneSize,   \* PaneSession.last_size
  ptySize,    \* PtySession.last_size
  winsize,    \* the size the kernel holds for the terminal
  torn,       \* history: an ioctl failed while the master was open
  master,     \* PtySession.master is Some
  wanted,     \* PaneProtocolSink's geometry, the last one measured: at most one
  answer,     \* of the last commit: "none", "changed", "same" or "error"
  panicked    \* an expect failed

vars == <<lifecycle, config, grid, cell, coreGrid, frameGrid, selectedAt, child,
          paneSize, ptySize, winsize, torn, master, wanted, answer, panicked>>

\* SurfaceGeometry reduced to what the commit compares; PtySize likewise.
Geometry == [grid : Grids, cell : Cells \cup {NoCell}]

MayFail(op) == IF op \in Faults THEN {TRUE, FALSE} ELSE {FALSE}

Init ==
  /\ lifecycle \in {"Pending", "Detached"} /\ config = (lifecycle = "Pending")
  /\ grid = FirstGrid /\ cell = NoCell /\ coreGrid = FirstGrid
  /\ frameGrid = "none" /\ selectedAt = "none"
  /\ child = FALSE /\ master = FALSE
  /\ paneSize = [grid |-> FirstGrid, cell |-> NoCell]
  /\ ptySize = paneSize /\ winsize = paneSize /\ torn = FALSE
  /\ wanted = {} /\ answer = "none" /\ panicked = FALSE

-----------------------------------------------------------------------------
\* The size is known already, or the engine refused it: nothing changes.
CommitUnchanged(g) ==
  /\ lifecycle # "Pending" /\ g.grid = grid /\ g.cell = cell
  /\ answer' = "same"
  /\ UNCHANGED <<lifecycle, config, grid, cell, coreGrid, frameGrid, selectedAt,
                 child, paneSize, ptySize, winsize, torn, master, panicked>>

CommitRefused(g) ==
  /\ "core" \in Faults /\ g.grid # grid
  /\ answer' = "error"
  /\ UNCHANGED <<lifecycle, config, grid, cell, coreGrid, frameGrid, selectedAt,
                 child, paneSize, ptySize, winsize, torn, master, panicked>>

\* A changed grid resizes the engine first and drops the selection.
EngineResized(g) ==
  IF g.grid # grid THEN coreGrid' = g.grid /\ selectedAt' = "none"
                   ELSE UNCHANGED <<coreGrid, selectedAt>>

\* The pane takes the geometry over.
Adopt(g) == grid' = g.grid /\ cell' = g.cell /\ answer' = "changed"

\* A pane with a start-up animation has its frame rebuilt with the engine,
\* before the session is asked; the others keep theirs until the end.
EarlyFrame(g) ==
  \/ UNCHANGED frameGrid
  \/ g.grid # grid /\ frameGrid' = coreGrid'

\* A failed spawn leaves the pane as it was, but for the config.
SpawnFails(g) ==
  /\ answer' = "error"
  /\ EarlyFrame(g)
  /\ UNCHANGED <<lifecycle, grid, cell, child, paneSize, ptySize, winsize, torn, master>>

\* The first measurement takes the config and spawns with the measured size.
\* The config is gone when the spawn fails, and a commit without one panics.
CommitSpawns(g) ==
  /\ lifecycle = "Pending"
  /\ EngineResized(g)
  /\ config' = FALSE
  /\ IF ~config
       THEN /\ panicked' = TRUE
            /\ EarlyFrame(g)
            /\ UNCHANGED <<lifecycle, grid, cell, child, paneSize, ptySize, winsize, torn,
                           master, answer>>
       ELSE /\ UNCHANGED panicked
            /\ \E fails \in MayFail("spawn") :
                 IF fails
                   THEN SpawnFails(g)
                   ELSE /\ Adopt(g) /\ lifecycle' = "Live"
                        /\ child' = TRUE /\ master' = TRUE
                        /\ paneSize' = g /\ ptySize' = g /\ winsize' = g
                        /\ UNCHANGED torn
                        /\ frameGrid' = coreGrid'

\* PtySession::resize: remembers the size, then applies it to the master; an
\* identical request is ignored, a closed master or a failed ioctl an error.
PtyResize(g, ok) ==
  IF g = ptySize
    THEN ok = TRUE /\ UNCHANGED <<ptySize, winsize, torn>>
    ELSE /\ ptySize' = g
         /\ \E fails \in MayFail("ioctl") :
              ok = (master /\ ~fails) /\ torn' = (torn \/ (master /\ fails))
         /\ winsize' = IF ok THEN g ELSE winsize

\* Mutant: a change of the metrics alone is not passed on.
SessionIgnoresCell(g, ok) ==
  IF g.grid = paneSize.grid
    THEN ok = TRUE /\ UNCHANGED <<paneSize, ptySize, winsize, torn>>
    ELSE PtyResize(g, ok) /\ paneSize' = IF ok THEN g ELSE paneSize

\* PaneSession::resize: remembers the size when the session took it.
SessionResize(g, ok) ==
  IF g = paneSize
    THEN ok = TRUE /\ UNCHANGED <<paneSize, ptySize, winsize, torn>>
    ELSE /\ IF child THEN PtyResize(g, ok) ELSE ok = TRUE /\ UNCHANGED <<ptySize, winsize, torn>>
         /\ paneSize' = IF ok THEN g ELSE paneSize

\* A changed grid rebuilds the frame.
Reframe(g) == frameGrid' = IF g.grid # grid THEN coreGrid' ELSE frameGrid

\* A later measurement: the session after the engine; the pane keeps its old
\* size when the session fails.
CommitResizes(g) ==
  /\ lifecycle # "Pending" /\ (g.grid # grid \/ g.cell # cell)
  /\ EngineResized(g)
  /\ \E ok \in BOOLEAN :
       /\ SessionResize(g, ok)
       /\ IF ok
            THEN Adopt(g) /\ Reframe(g)
            ELSE answer' = "error" /\ EarlyFrame(g) /\ UNCHANGED <<grid, cell>>
  /\ UNCHANGED <<lifecycle, config, child, master, panicked>>

CommitGeometry(g) ==
  /\ ~panicked /\ wanted' = {g}
  /\ CommitUnchanged(g) \/ CommitRefused(g) \/ CommitSpawns(g) \/ CommitResizes(g)

-----------------------------------------------------------------------------
\* Output rebuilds the frame from the engine.
RebuildFrame ==
  /\ ~panicked /\ lifecycle # "Pending"
  /\ frameGrid' = coreGrid
  /\ UNCHANGED <<lifecycle, config, grid, cell, coreGrid, selectedAt, child,
                 paneSize, ptySize, winsize, torn, master, wanted, answer, panicked>>

\* The user selects text.
BeginSelection ==
  /\ ~panicked /\ frameGrid # "none"
  /\ selectedAt' = coreGrid
  /\ UNCHANGED <<lifecycle, config, grid, cell, coreGrid, frameGrid, child,
                 paneSize, ptySize, winsize, torn, master, wanted, answer, panicked>>

\* PaneSession::shutdown: the session closes its master; the pane may still be
\* laid out until its window goes.
Shutdown ==
  /\ ~panicked /\ master
  /\ master' = FALSE
  /\ UNCHANGED <<lifecycle, config, grid, cell, coreGrid, frameGrid, selectedAt,
                 child, paneSize, ptySize, winsize, torn, wanted, answer, panicked>>

Next ==
  \/ \E g \in [grid : Grids, cell : Cells] : CommitGeometry(g)
  \/ RebuildFrame \/ BeginSelection \/ Shutdown

Spec == Init /\ [][Next]_vars

-----------------------------------------------------------------------------
TypeOK ==
  /\ lifecycle \in {"Pending", "Live", "Detached"} /\ config \in BOOLEAN
  /\ grid \in Grids /\ cell \in Cells \cup {NoCell} /\ coreGrid \in Grids
  /\ frameGrid \in Grids \cup {"none"} /\ selectedAt \in Grids \cup {"none"}
  /\ {child, master, torn, panicked} \subseteq BOOLEAN
  /\ {paneSize, ptySize, winsize} \subseteq Geometry
  /\ wanted \subseteq Geometry
  /\ answer \in {"none", "changed", "same", "error"}

\* Everything that holds a size agrees after every commit, accepted or refused:
\* the child is told the grid the engine lays out, in the metrics the pane
\* paints with.  Only a failed ioctl tears them apart.
SizesAgree ==
  lifecycle = "Live" /\ master /\ ~torn =>
    /\ winsize = [grid |-> grid, cell |-> cell]
    /\ ptySize = winsize /\ paneSize = winsize /\ coreGrid = grid

\* The renderer never gets a frame of another size than the engine, so the
\* damage it applies fits.
FrameFitsEngine ==
  lifecycle = "Live" /\ master /\ ~torn => frameGrid = coreGrid

\* Selection points are grid coordinates: a selection does not survive a
\* change of the grid it was made in, by whatever path the commit went.
SelectionFitsGrid == selectedAt # "none" => selectedAt = coreGrid

\* What the view holds beside the engine was made for the engine's grid.
ViewFitsEngine == FrameFitsEngine /\ SelectionFitsGrid

\* A child exists exactly for live panes: a failed spawn leaves none, and a
\* detached pane never gets one.
ChildIffLive == child <=> lifecycle = "Live"

\* Kernel, session, pane, engine and view of a live pane agree on its size, and
\* only a live pane has a child.
CopiesAgree == SizesAgree /\ ViewFitsEngine /\ ChildIffLive

\* pane.rs 1532: expect("pending has config").
PendingHasConfig == ~panicked
=============================================================================
