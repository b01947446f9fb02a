------------------------- MODULE PaneGeometryProofs -------------------------
(***************************************************************************)
(* What holds of a pane's geometry for every set of grids and metrics and  *)
(* every set of failing operations.                                        *)
(***************************************************************************)
EXTENDS PaneGeometry, TLAPS

\* A pane that can still spawn has the engine at the size it knows; the engine
\* of a pane whose spawn failed may be ahead, but that pane never gets a child.
PendingOK ==
  /\ config => lifecycle = "Pending" /\ coreGrid = grid
  /\ master => lifecycle = "Live"

GInv == ChildIffLive /\ PendingOK /\ SizesAgree /\ FrameFitsEngine

\* Unless its system call fails, a session with a master resizes.
LEMMA ResizeSucceeds ==
  ASSUME NEW g, NEW ok \in BOOLEAN, master, ~torn', SessionResize(g, ok),
         ptySize = paneSize, winsize = paneSize, child
  PROVE  ok /\ paneSize' = g /\ ptySize' = g /\ winsize' = g
<1>1. CASE g = paneSize
  BY <1>1 DEF SessionResize
<1>2. CASE g # paneSize
  <2>1. PtyResize(g, ok) /\ paneSize' = IF ok THEN g ELSE paneSize
    BY <1>2 DEF SessionResize
  <2>2. ok
    BY <1>2, <2>1 DEF PtyResize
  <2> QED
    BY <1>2, <2>1, <2>2 DEF PtyResize
<1> QED
  BY <1>1, <1>2

\* The initial states satisfy the inductive invariant.
LEMMA InitGInv == Init => GInv
  BY DEF Init, GInv, ChildIffLive, PendingOK, SizesAgree, FrameFitsEngine

\* Every commit, and every step around it, keeps it.
LEMMA StepGInv == GInv /\ [Next]_vars => GInv'
<1> SUFFICES ASSUME GInv, [Next]_vars PROVE GInv'
  OBVIOUS
<1> USE DEF GInv, ChildIffLive, PendingOK, SizesAgree, FrameFitsEngine
<1>1. ASSUME NEW g \in [grid : Grids, cell : Cells], CommitGeometry(g) PROVE GInv'
  <2>1. CASE CommitUnchanged(g) BY <2>1 DEF CommitUnchanged
  <2>2. CASE CommitRefused(g) BY <2>2 DEF CommitRefused
  <2>3. CASE CommitSpawns(g)
    BY <2>3 DEF CommitSpawns, SpawnFails, EarlyFrame, Adopt, EngineResized
  <2>4. CASE CommitResizes(g)
    <3>1. PICK ok \in BOOLEAN :
            /\ SessionResize(g, ok)
            /\ IF ok
                 THEN Adopt(g) /\ Reframe(g)
                 ELSE answer' = "error" /\ EarlyFrame(g) /\ UNCHANGED <<grid, cell>>
      BY <2>4 DEF CommitResizes
    <3>2. UNCHANGED <<lifecycle, config, child, master>> /\ lifecycle # "Pending" /\ EngineResized(g)
      BY <2>4 DEF CommitResizes
    <3>3. CASE lifecycle = "Live" /\ master /\ ~torn'
      <4>. ~torn
        BY <3>1, <3>3, Zenon DEF SessionResize, PtyResize
      <4>1. ok /\ paneSize' = g /\ ptySize' = g /\ winsize' = g
        BY <3>1, <3>2, <3>3, ResizeSucceeds
      <4>2. grid' = g.grid /\ cell' = g.cell /\ g = [grid |-> g.grid, cell |-> g.cell]
        BY <3>1, <4>1 DEF Adopt
      <4>3. coreGrid' = grid' /\ frameGrid' = coreGrid'
        BY <3>1, <3>2, <3>3, <4>1, <4>2 DEF EngineResized, Reframe
      <4> QED
        BY <3>2, <3>3, <4>1, <4>2, <4>3
    <3>4. CASE ~(lifecycle = "Live" /\ master /\ ~torn')
      BY <3>2, <3>4
    <3> QED
      BY <3>3, <3>4
  <2> QED
    BY <1>1, <2>1, <2>2, <2>3, <2>4 DEF CommitGeometry
<1>2. CASE RebuildFrame BY <1>2 DEF RebuildFrame
<1>3. CASE BeginSelection BY <1>3 DEF BeginSelection
<1>4. CASE Shutdown BY <1>4 DEF Shutdown
<1>5. CASE UNCHANGED vars BY <1>5 DEF vars
<1> QED
  BY <1>1, <1>2, <1>3, <1>4, <1>5 DEF Next

\* Kernel, session, pane and engine hold one size in every live pane whose
\* system calls work, whatever spawns and engine resizes failed before.
THEOREM SizesAlwaysAgree == Spec => []SizesAgree
<1>1. GInv => SizesAgree
  BY DEF GInv
<1> QED
  BY <1>1, InitGInv, StepGInv, PTL DEF Spec

\* The renderer is never handed a frame of another size than the engine.
THEOREM FramesFit == Spec => []FrameFitsEngine
<1>1. GInv => FrameFitsEngine
  BY DEF GInv
<1> QED
  BY <1>1, InitGInv, StepGInv, PTL DEF Spec

\* Exactly the live panes have a child: a failed spawn leaves none.
THEOREM LiveHasChild == Spec => []ChildIffLive
<1>1. GInv => ChildIffLive
  BY DEF GInv
<1> QED
  BY <1>1, InitGInv, StepGInv, PTL DEF Spec

\* A selection never outlives the grid it was made in, whatever fails: commit_
\* geometry clears it with the engine's resize, before anything can fail.
THEOREM SelectionsFit == Spec => []SelectionFitsGrid
<1>1. Init => SelectionFitsGrid
  BY DEF Init, SelectionFitsGrid
<1>2. SelectionFitsGrid /\ [Next]_vars => SelectionFitsGrid'
  <2> SUFFICES ASSUME SelectionFitsGrid, [Next]_vars PROVE SelectionFitsGrid'
    OBVIOUS
  <2> USE DEF SelectionFitsGrid
  <2>1. ASSUME NEW g \in [grid : Grids, cell : Cells], CommitGeometry(g) PROVE SelectionFitsGrid'
    BY <2>1 DEF CommitGeometry, CommitUnchanged, CommitRefused, CommitSpawns, SpawnFails,
      CommitResizes, EngineResized
  <2>2. CASE RebuildFrame BY <2>2 DEF RebuildFrame
  <2>3. CASE BeginSelection BY <2>3 DEF BeginSelection
  <2>4. CASE Shutdown BY <2>4 DEF Shutdown
  <2>5. CASE UNCHANGED vars BY <2>5 DEF vars
  <2> QED
    BY <2>1, <2>2, <2>3, <2>4, <2>5 DEF Next
<1> QED
  BY <1>1, <1>2, PTL DEF Spec

\* Frame and selection of a live pane both belong to the engine's grid.
THEOREM ViewsFit == Spec => []ViewFitsEngine
<1>1. FrameFitsEngine /\ SelectionFitsGrid => ViewFitsEngine
  BY DEF ViewFitsEngine
<1> QED
  BY <1>1, FramesFit, SelectionsFit, PTL

\* All copies of the size agree, the view's included, and children belong to
\* live panes.
THEOREM CopiesAlwaysAgree == Spec => []CopiesAgree
<1>1. SizesAgree /\ ViewFitsEngine /\ ChildIffLive => CopiesAgree
  BY DEF CopiesAgree
<1> QED
  BY <1>1, SizesAlwaysAgree, ViewsFit, LiveHasChild, PTL
=============================================================================
