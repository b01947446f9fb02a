----------------------------- MODULE ShellModel -----------------------------
(***************************************************************************)
(* The shell of mr-crabs-app: AppModel's windows, their tabs and panes,    *)
(* focus and the active window, closing with its cascade from pane to tab  *)
(* to window to quit, panes closed by the pump when their child exited,    *)
(* the quick terminal, the native windows AppShell keeps in step, and the  *)
(* restoring of a saved shell (model/app_model.rs, window.rs, tab.rs,      *)
(* ui/shell.rs, ui/wake.rs, restore.rs).                                   *)
(*                                                                         *)
(* Everything runs on the main thread: one operation is one step.  A tab's *)
(* split tree is its depth-first order of panes (see SplitTree).           *)
(***************************************************************************)
EXTENDS Orders, FiniteSets, FiniteSetsExt, SequencesExt

CONSTANTS
  MaxWindows, MaxTabs, MaxPanes, \* bounds: ids ever allocated
  CloseOnExit,  \* the setting: "always", "clean" or "never"
  SavedStates   \* the saved shells that may be restored: see Saved

ASSUME ShellAssumption ==
  /\ MaxWindows \in Nat \ {0} /\ MaxTabs \in Nat \ {0} /\ MaxPanes \in Nat \ {0}
  /\ CloseOnExit \in {"always", "clean", "never"}

Window == 1..MaxWindows
Tab    == 1..MaxTabs
Pane   == 1..MaxPanes
None   == 0

\* What a saved shell tells of a tab: its id, its panes in the order of the
\* tree, the focused one, and whether tree and panes fit together; of a window:
\* its id, its tabs and the place of the active one.
SavedTab    == [id : Tab, panes : Seq(Pane), focused : Pane \cup {None}, fits : BOOLEAN]
SavedWindow == [id : Window, active : Nat, tabs : Seq(SavedTab)]
Saved       == [active : Nat, windows : Seq(SavedWindow)]

SavedTabs(windows) == UNION {Elems(w.tabs) : w \in Elems(windows)}

\* Each element stands once.
Distinct(s) == \A i, j \in 1..Len(s) : s[i] = s[j] => i = j

IdsOf(s) == [i \in 1..Len(s) |-> s[i].id]

\* A saved shell is a snapshot of a shell: every id is in one place of it, and
\* every window has a tab. A tree has a leaf, and one that fits the panes of its
\* tab has each of them once.
IsSnapshot(saved) ==
  /\ Distinct(IdsOf(saved.windows))
  /\ \A v \in Elems(saved.windows) : v.tabs # <<>> /\ Distinct(IdsOf(v.tabs))
  /\ \A v, w \in Elems(saved.windows) : \A t \in Elems(v.tabs), u \in Elems(w.tabs) :
       /\ t.id = u.id => v.id = w.id
       /\ t.fits => t.panes # <<>> /\ Distinct(t.panes)
       /\ t.fits /\ u.fits /\ Elems(t.panes) \cap Elems(u.panes) # {} => t.id = u.id

ASSUME SavedAssumption ==
  \A saved \in SavedStates : saved \in Saved /\ IsSnapshot(saved)

VARIABLES
  shell,      \* windows, tabs and panes: see Shell
  nextWindow, nextTab, nextPane, \* the id allocators
  exited,     \* lifecycle of the panes whose child exited: "clean" or "failed"
  quick,      \* QuickTerminalState: visible, window, previous
  hidden,     \* windows whose visible flag is clear
  native,     \* AppShell.windows: windows with a native handle
  quitting,   \* cx.quit() was called
  restored    \* "no", "whole" or, after an invalid saved shell, "broken"

vars == <<shell, nextWindow, nextTab, nextPane, exited, quick, hidden, native,
          quitting, restored>>

\* window_order (windows is its range), active_window, quit_requested; per
\* window tab_order (tabs is its range) and active_tab; per tab the order of
\* its panes and focused_pane; and the panes whose session was shut down.
Shell == [order : Seq(Window), active : Window \cup {None}, quit : BOOLEAN,
          tabs : [Window -> Seq(Tab)], activeTab : [Window -> Tab \cup {None}],
          panes : [Tab -> Seq(Pane)], focused : [Tab -> Pane \cup {None}],
          shut : SUBSET Pane]

Windows(s)  == Elems(s.order)
TabsOf(s, w) == Elems(s.tabs[w])
OpenTabs(s) == UNION {TabsOf(s, w) : w \in Windows(s)}
PanesOf(s, t) == Elems(s.panes[t])
OpenPanes(s) == UNION {PanesOf(s, t) : t \in OpenTabs(s)}

WindowOfTab(s, t) == CHOOSE w \in Windows(s) : t \in TabsOf(s, w)

\* locate_pane
TabOfPane(s, p) == CHOOSE t \in OpenTabs(s) : p \in PanesOf(s, t)

-----------------------------------------------------------------------------
(* Opening.                                                                *)

\* new_window_with: a window with one tab with one pane, made active.
OpenWindow(s, w, t, p) ==
  [s EXCEPT !.order = Append(@, w), !.active = w,
            !.tabs[w] = <<t>>, !.activeTab[w] = t,
            !.panes[t] = <<p>>, !.focused[t] = p]

\* new_tab_with_cwd: the tab goes last and is activated, with its window.
OpenTab(s, w, t, p) ==
  [s EXCEPT !.active = w, !.tabs[w] = Append(@, t), !.activeTab[w] = t,
            !.panes[t] = <<p>>, !.focused[t] = p]

\* insert_split_pane: the new pane takes the focus.
SplitPane(s, t, p) ==
  [s EXCEPT !.panes[t] = InsertAfter(@, s.focused[t], p), !.focused[t] = p]

-----------------------------------------------------------------------------
(* Closing, with its cascade.                                              *)

\* close_window: shut every session down, drop the window; the newest of the
\* others becomes active, without others the shell quits.
CloseWindowOf(s, w) ==
  LET rest == Without(s.order, w)
  IN  [s EXCEPT
        !.shut   = @ \cup UNION {PanesOf(s, t) : t \in TabsOf(s, w)},
        !.order  = rest,
        !.active = IF @ # w THEN @ ELSE IF rest = <<>> THEN None ELSE LastOf(rest),
        !.quit   = @ \/ rest = <<>>,
        !.tabs[w] = <<>>, !.activeTab[w] = None]

\* close_tab_anywhere: the last tab takes its window along.
CloseTabOf(s, w, t) ==
  LET rest == Without(s.tabs[w], t)
      left == [s EXCEPT !.shut = @ \cup PanesOf(s, t), !.tabs[w] = rest,
                        !.panes[t] = <<>>, !.focused[t] = None]
  IN  IF rest = <<>> THEN CloseWindowOf([left EXCEPT !.activeTab[w] = None], w)
      ELSE [left EXCEPT !.activeTab[w] = IF @ = t THEN LastOf(rest) ELSE @]

\* close_pane_anywhere: the last pane takes its tab along; a pane that is not
\* open any more is left alone.
ClosePaneOf(s, p) ==
  IF p \notin OpenPanes(s) THEN s
  ELSE LET t    == TabOfPane(s, p)
           rest == Without(s.panes[t], p)
       IN  IF rest = <<>> THEN CloseTabOf(s, WindowOfTab(s, t), t)
           ELSE [s EXCEPT !.shut = @ \cup {p}, !.panes[t] = rest,
                          !.focused[t] = IF @ = p THEN FirstOf(rest) ELSE @]

-----------------------------------------------------------------------------
(* Focus.                                                                  *)

\* AppModel::focus_pane: the pane, its tab and its window.
FocusPaneOf(s, p) ==
  LET t == TabOfPane(s, p)
      w == WindowOfTab(s, t)
  IN  [s EXCEPT !.focused[t] = p, !.activeTab[w] = t, !.active = w]

\* The active window, tab and pane, as sets of at most one.
ActiveWindow(s) == Windows(s) \cap {s.active}
ActiveTab(s)    == OpenTabs(s) \cap {s.activeTab[w] : w \in ActiveWindow(s)}
FocusedPane(s)  == OpenPanes(s) \cap {s.focused[t] : t \in ActiveTab(s)}

-----------------------------------------------------------------------------
Init ==
  /\ shell = OpenWindow(
       [order |-> <<>>, active |-> None, quit |-> FALSE,
        tabs |-> [w \in Window |-> <<>>], activeTab |-> [w \in Window |-> None],
        panes |-> [t \in Tab |-> <<>>], focused |-> [t \in Tab |-> None],
        shut |-> {}], 1, 1, 1)
  /\ nextWindow = 2 /\ nextTab = 2 /\ nextPane = 2
  /\ exited = [p \in Pane |-> "no"]
  /\ quick = [visible |-> FALSE, window |-> None, previous |-> None]
  /\ hidden = {} /\ native = {1} /\ quitting = FALSE /\ restored = "no"

ShouldQuit(s) == s.quit \/ s.order = <<>>

\* After an action of the user the shell syncs its native windows with the
\* model and quits if the model says so.
AfterAction ==
  /\ native' = Windows(shell') /\ quitting' = ShouldQuit(shell')

Ids == <<nextWindow, nextTab, nextPane>>

\* The lifecycle of a pane goes with its PaneModel.
Remaining(how) == [p \in Pane |-> IF p \in OpenPanes(shell') THEN how[p] ELSE "no"]

Rest == exited' = Remaining(exited) /\ UNCHANGED <<quick, hidden>>

-----------------------------------------------------------------------------
(* Actions of AppModel::dispatch.                                          *)

OpensWindow ==
  /\ nextWindow <= MaxWindows /\ nextTab <= MaxTabs /\ nextPane <= MaxPanes
  /\ shell' = OpenWindow(shell, nextWindow, nextTab, nextPane)
  /\ nextWindow' = nextWindow + 1 /\ nextTab' = nextTab + 1 /\ nextPane' = nextPane + 1

\* new_tab of an active window that is gone does nothing at all.
OpensTab(w) ==
  /\ nextTab <= MaxTabs /\ nextPane <= MaxPanes
  /\ IF w \in Windows(shell)
       THEN /\ shell' = OpenTab(shell, w, nextTab, nextPane)
            /\ nextTab' = nextTab + 1 /\ nextPane' = nextPane + 1
       ELSE UNCHANGED <<shell, nextTab, nextPane>>
  /\ UNCHANGED nextWindow

NewWindow == OpensWindow /\ Rest

NewTab ==
  /\ IF shell.active = None THEN OpensWindow ELSE OpensTab(shell.active)
  /\ Rest

\* The pane is created before the tab is looked up.
NewSplit ==
  /\ shell.active # None /\ nextPane <= MaxPanes
  /\ nextPane' = nextPane + 1
  /\ shell' = IF ActiveTab(shell) # {}
                THEN SplitPane(shell, shell.activeTab[shell.active], nextPane)
                ELSE [shell EXCEPT !.shut = @ \cup {nextPane}]
  /\ UNCHANGED <<nextWindow, nextTab>> /\ Rest

CloseActiveWindow ==
  /\ \E w \in ActiveWindow(shell) : shell' = CloseWindowOf(shell, w)
  /\ UNCHANGED Ids /\ Rest

CloseActiveTab ==
  /\ \E w \in ActiveWindow(shell), t \in ActiveTab(shell) :
       shell' = CloseTabOf(shell, w, t)
  /\ UNCHANGED Ids /\ Rest

CloseFocusedPane ==
  /\ \E p \in FocusedPane(shell) : shell' = ClosePaneOf(shell, p)
  /\ UNCHANGED Ids /\ Rest

CycleTab(forward) ==
  /\ \E w \in ActiveWindow(shell), t \in ActiveTab(shell) :
       shell' = [shell EXCEPT !.activeTab[w] = NextIn(shell.tabs[w], t, forward)]
  /\ UNCHANGED Ids /\ Rest

CyclePane(forward) ==
  /\ \E t \in ActiveTab(shell), p \in FocusedPane(shell) :
       shell' = [shell EXCEPT !.focused[t] = NextIn(shell.panes[t], p, forward)]
  /\ UNCHANGED Ids /\ Rest

\* goto_split: the layout decides which other pane, if any.
GotoSplit ==
  /\ \E t \in ActiveTab(shell) : \E q \in PanesOf(shell, t) :
       shell' = [shell EXCEPT !.focused[t] = q]
  /\ UNCHANGED Ids /\ Rest

\* Palette, settings, search and actions that find nothing to act on.
OtherAction == UNCHANGED shell /\ UNCHANGED Ids /\ Rest

Quit ==
  /\ shell' = [shell EXCEPT !.quit = TRUE, !.shut = @ \cup OpenPanes(shell)]
  /\ UNCHANGED Ids /\ Rest

-----------------------------------------------------------------------------
(* The quick terminal.                                                     *)

\* Shown for the first time, or after its window went, it gets a new window;
\* later it gets its old one back.
ShowQuickTerminal ==
  /\ ~quick.visible
  /\ IF quick.window \in Windows(shell)
       THEN /\ shell' = [shell EXCEPT !.active = quick.window]
            /\ quick' = [quick EXCEPT !.visible = TRUE, !.previous = shell.active]
            /\ hidden' = hidden \ {quick.window}
            /\ UNCHANGED Ids
       ELSE /\ OpensWindow
            /\ quick' = [visible |-> TRUE, window |-> nextWindow, previous |-> shell.active]
            /\ UNCHANGED hidden
  /\ UNCHANGED exited

\* The window that was active before becomes active again.
HideQuickTerminal ==
  /\ quick.visible
  /\ quick' = [quick EXCEPT !.visible = FALSE]
  /\ hidden' = hidden \cup ({quick.window} \cap Windows(shell))
  /\ shell' = IF quick.previous # None
                THEN [shell EXCEPT !.active = quick.previous] ELSE shell
  /\ UNCHANGED Ids /\ UNCHANGED exited

ToggleQuickTerminal == ShowQuickTerminal \/ HideQuickTerminal

-----------------------------------------------------------------------------
UserActs ==
  /\ ~quitting
  /\ \/ NewWindow \/ NewTab \/ NewSplit
     \/ CloseActiveWindow \/ CloseActiveTab \/ CloseFocusedPane
     \/ \E forward \in BOOLEAN : CycleTab(forward) \/ CyclePane(forward)
     \/ GotoSplit \/ OtherAction \/ Quit
     \/ ToggleQuickTerminal
  /\ AfterAction /\ UNCHANGED restored

\* A press in a pane of a native window focuses it.
UserClicks(p) ==
  /\ ~quitting /\ p \in OpenPanes(shell)
  /\ WindowOfTab(shell, TabOfPane(shell, p)) \in native
  /\ shell' = FocusPaneOf(shell, p)
  /\ UNCHANGED Ids /\ Rest /\ UNCHANGED <<native, quitting, restored>>

\* The platform closed a native window: its own model window goes with it.  The
\* application ends when the model says so, or, with every session shut down,
\* when no native window is left.
NativeCloses(w) ==
  /\ ~quitting /\ w \in native
  /\ native' = native \ {w}
  /\ LET s == IF w \in Windows(shell) THEN CloseWindowOf(shell, w) ELSE shell
     IN  /\ quitting' = (ShouldQuit(s) \/ native' = {})
         /\ shell' = IF quitting' /\ ~ShouldQuit(s)
                       THEN [s EXCEPT !.shut = @ \cup OpenPanes(s)] ELSE s
  /\ UNCHANGED Ids /\ Rest /\ UNCHANGED restored

-----------------------------------------------------------------------------
\* The pump visits windows, their tabs and their panes in the order of ids.
VisitedBefore(s, p, q) ==
  LET t == TabOfPane(s, p)
      u == TabOfPane(s, q)
      v == WindowOfTab(s, t)
      w == WindowOfTab(s, u)
  IN  v < w \/ (v = w /\ (t < u \/ (t = u /\ p < q)))

ClosesOn(how) ==
  \/ CloseOnExit = "always" /\ how \in {"clean", "failed"}
  \/ CloseOnExit = "clean" /\ how = "clean"

\* The first n of some panes are closed, one after the other.
ClosedInTurn(s, panes, n) ==
  LET after[i \in 0..n] == IF i = 0 THEN s ELSE ClosePaneOf(after[i - 1], panes[i])
  IN  after[n]

\* AppModel::pump: some exits are noticed, then every pane whose exit the
\* setting closes is closed, in the order of the visit; no native window is
\* synced, and the shell quits if the model says so.
Pump ==
  /\ ~quitting
  /\ \E noticed \in SUBSET {p \in OpenPanes(shell) : exited[p] = "no"},
        how \in {"clean", "failed"} :
       LET now   == [p \in Pane |-> IF p \in noticed THEN how ELSE exited[p]]
           close == {p \in OpenPanes(shell) : ClosesOn(now[p])}
           order == SetToSortSeq(close, LAMBDA p, q : VisitedBefore(shell, p, q))
       IN  /\ shell' = ClosedInTurn(shell, order, Cardinality(close))
           /\ exited' = Remaining(now)
  /\ quitting' = ShouldQuit(shell')
  /\ UNCHANGED Ids /\ UNCHANGED <<quick, hidden, native, restored>>

-----------------------------------------------------------------------------
(* Restoring (RestoreStore::apply).                                        *)

Valid(tab) == tab.fits /\ (tab.focused = None \/ tab.focused \in Elems(tab.panes))

\* from_parts of a tab: without a focused pane its first one is focused.
FocusOf(tab) == IF tab.focused = None THEN FirstOf(tab.panes) ELSE tab.focused

\* from_parts of a window: without an active tab its last one is active.
ActiveOf(window) ==
  LET ids == IdsOf(window.tabs)
  IN  IF window.active \in 1..Len(ids) THEN ids[window.active] ELSE LastOf(ids)

WithId(S, id) == CHOOSE x \in S : x.id = id
Ided(S)       == {x.id : x \in S}

\* The shell is cleared and rebuilt from saved windows. The sessions of the
\* windows that are cleared away end with their panes.
Rebuilt(windows) ==
  LET saved == Elems(windows)
      tabs  == SavedTabs(windows)
  IN  [order |-> IdsOf(windows), active |-> None, quit |-> FALSE,
       tabs |-> [w \in Window |-> IF w \in Ided(saved) THEN IdsOf(WithId(saved, w).tabs)
                                 ELSE <<>>],
       activeTab |-> [w \in Window |-> IF w \in Ided(saved) THEN ActiveOf(WithId(saved, w))
                                      ELSE None],
       panes |-> [t \in Tab |-> IF t \in Ided(tabs) THEN WithId(tabs, t).panes ELSE <<>>],
       focused |-> [t \in Tab |-> IF t \in Ided(tabs) THEN FocusOf(WithId(tabs, t)) ELSE None],
       shut |-> {}]

\* The places of the saved windows with an invalid tab: the restoring ends at
\* the first, with the windows before it.
Torn(windows) == {i \in 1..Len(windows) : \E tab \in Elems(windows[i].tabs) : ~Valid(tab)}

BeforeTorn(windows) == SubSeq(windows, 1, Min(Torn(windows)) - 1)

Activated(s, active) ==
  IF s.order = <<>> THEN s
  ELSE [s EXCEPT !.active = IF active \in 1..Len(s.order) THEN s.order[active] ELSE LastOf(s.order)]

\* Mutant: ids are handed out from where they were.
ReservesNothing(saved) == UNCHANGED Ids

Highest(ids) == Max({0} \cup ids)

\* reserve_ids: past every id the saved shell holds.
ReserveIds(saved) ==
  LET tabs == SavedTabs(saved.windows)
  IN  /\ nextWindow' = Max({nextWindow, Highest(Ided(Elems(saved.windows))) + 1})
      /\ nextTab' = Max({nextTab, Highest(Ided(tabs)) + 1})
      /\ nextPane' = Max({nextPane, Highest(UNION {Elems(t.panes) : t \in tabs}) + 1})

\* A shell is restored into a model nobody has used yet.  Native windows follow
\* with the next action.  shut: the ids below nextPane that have no session.
Restore(saved) ==
  /\ ~quitting /\ restored = "no" /\ Ids = <<2, 2, 2>>
  /\ LET whole == Torn(saved.windows) = {}
         s == IF whole THEN Activated(Rebuilt(saved.windows), saved.active)
                       ELSE Rebuilt(BeforeTorn(saved.windows))
     IN  /\ IF whole THEN ReserveIds(saved) ELSE UNCHANGED Ids
         /\ restored' = IF whole THEN "whole" ELSE "broken"
         /\ shell' = [s EXCEPT !.shut = (1..(nextPane' - 1)) \ OpenPanes(s)]
         /\ exited' = [p \in Pane |-> "no"] /\ hidden' = {}
  /\ UNCHANGED <<quick, native, quitting>>

Next ==
  \/ UserActs \/ Pump
  \/ \E p \in Pane : UserClicks(p)
  \/ \E w \in Window : NativeCloses(w)
  \/ \E saved \in SavedStates : Restore(saved)

Spec == Init /\ [][Next]_vars

-----------------------------------------------------------------------------
TypeOK ==
  /\ DOMAIN shell = {"order", "active", "quit", "tabs", "activeTab", "panes",
                     "focused", "shut"}
  /\ Windows(shell) \subseteq Window /\ shell.active \in Window \cup {None}
  /\ \A w \in Window : TabsOf(shell, w) \subseteq Tab /\ shell.activeTab[w] \in Tab \cup {None}
  /\ \A t \in Tab : PanesOf(shell, t) \subseteq Pane /\ shell.focused[t] \in Pane \cup {None}
  /\ nextWindow \in 1..(MaxWindows + 1) /\ nextTab \in 1..(MaxTabs + 1)
  /\ nextPane \in 1..(MaxPanes + 1)
  /\ Windows(shell) \subseteq 1..(nextWindow - 1)
  /\ OpenTabs(shell) \subseteq 1..(nextTab - 1)
  /\ OpenPanes(shell) \subseteq 1..(nextPane - 1)
  /\ shell.quit \in BOOLEAN /\ shell.shut \subseteq Pane
  /\ exited \in [Pane -> {"no", "clean", "failed"}]
  /\ quick \in [visible : BOOLEAN, window : Window \cup {None}, previous : Window \cup {None}]
  /\ hidden \subseteq Window /\ native \subseteq Window /\ quitting \in BOOLEAN
  /\ restored \in {"no", "whole", "broken"}

\* No session is lost track of and none is in two places: a pane that was ever
\* created is in exactly one place of the open windows, or its session has
\* been shut down - whatever way its pane, tab or window went.  No pane on the
\* screen has a dead session behind it, until the whole shell quits.
PanesAccountedFor ==
  /\ \A p \in 1..(nextPane - 1) :
       Cardinality({at \in OpenTabs(shell) \X (1..MaxPanes) :
                      at[2] <= Len(shell.panes[at[1]]) /\ shell.panes[at[1]][at[2]] = p})
         = IF p \in OpenPanes(shell) THEN 1 ELSE 0
  /\ \A p \in 1..(nextPane - 1) : p \in OpenPanes(shell) \/ p \in shell.shut
  /\ ~shell.quit /\ ~quitting => OpenPanes(shell) \cap shell.shut = {}
  /\ \A t \in OpenTabs(shell) :
       Cardinality({w \in Windows(shell) : t \in TabsOf(shell, w)}) = 1

\* Every open window has an active tab of its own and every open tab a focused
\* pane of its own: keys always have a pane to go to, after any cascade.
FocusIsInside ==
  /\ \A w \in Windows(shell) : shell.activeTab[w] \in TabsOf(shell, w)
  /\ \A t \in OpenTabs(shell) : shell.focused[t] \in PanesOf(shell, t)

\* The active window is an open one as long as there is any: whatever closes,
\* by the user, by the platform or by an exit, the next key has a window to go
\* to.  It holds until the quick terminal is first used: hiding that
\* activates the window active before, which may have been closed since.
ActiveIsOpen ==
  shell.order # <<>> /\ quick.window = None => shell.active \in Windows(shell)

\* From the active window down to its pane, the next key has somewhere to go.
KeysHaveAPane == ActiveIsOpen /\ FocusIsInside

\* Quitting leaves no session behind.
QuitLeavesNoSession == quitting => 1..(nextPane - 1) \subseteq shell.shut

\* Whatever was opened, closed, exited or restored: no pane is lost, in two
\* places or without its session, keys have a pane to go to, and quitting
\* shuts every session down, whichever way the last window went - unless a
\* restore was broken off, which leaves what it had rebuilt, with ids that
\* are handed out again.
ShellIsWhole ==
  restored # "broken" =>
    TypeOK /\ PanesAccountedFor /\ KeysHaveAPane /\ QuitLeavesNoSession
=============================================================================
