---------------------------- MODULE AnimationMenu ----------------------------
(***************************************************************************)
(* The animation menu, a program that runs in a pane and talks to the      *)
(* terminal it runs in (animation_tui.rs, animation_control.rs): it asks   *)
(* for the animations of its window, previews others and puts back what it *)
(* was told.  Its questions leave by its output; the answers arrive by its *)
(* input, between the user's keys and cut anywhere.                        *)
(*                                                                         *)
(* A byte is a record with its name; the text of an answer is one byte.    *)
(* Answers end with BEL, since the pane's sink has lost the terminator of  *)
(* the question (pane_sink.rs:179).  Left out: the limits of the scanner   *)
(* (4096 bytes, 32 answers), the picture drawn and the pauses of a demo.   *)
(***************************************************************************)
EXTENDS Integers, Sequences, SequencesExt

CONSTANTS
  Global,    \* the settings where the window overrides nothing: [text, trail]
  Overlays,  \* what the window may override, as a function on "text", "trail"
  Presets,   \* what "mr-crabs +animation <name>" may set, as Overlays
  Presses,   \* the keys the user may press
  MaxKeys,   \* bound: keys pressed, in all menus
  MaxMenus,  \* bound: menus started
  MaxSets    \* bound: presets set, one under way at a time

VARIABLES
  overlay,   \* WindowModel.animation_overlay
  asked,     \* controls written in the window and not handled by AppModel
  replies,   \* PaneProtocolSink's replies not yet written to the pane
  line,      \* bytes on their way to the program that reads the pane
  menu,      \* HostAdapter and AnimationTui: see NewMenu
  menus, keys, \* how many were started and pressed
  base,      \* history: the overlay as anyone but a menu left it
  sets, overrun, \* history: presets handled, whether a menu's control came
                 \* after one that its entry does not tell of
  pressed, taken, late  \* history: keys of this menu, those it took, whether
                        \* the pause inside one of them outlasted ESC_GRACE

vars == <<overlay, asked, replies, line, menu, menus, keys, base, sets, overrun, pressed, taken, late>>

---------------------------------------------------------------------------------
(* What is said.                                                           *)

\* AppModel::animation_snapshot.
Snapshot(window) ==
  [text     |-> IF "text" \in DOMAIN window THEN window.text ELSE Global.text,
   trail    |-> IF "trail" \in DOMAIN window THEN window.trail ELSE Global.trail,
   override |-> DOMAIN window]

Query == [is |-> "query"]

\* selection_control, snapshot_control: what is global is to be inherited.
SelectionControl(selection) ==
  [is |-> "state", state |-> [key \in {"text", "trail"} |-> selection[key]]]
\* Mutant: what was in effect is restored, inherited or not.
SnapshotControlOfAll(snapshot) == SelectionControl(snapshot)
SnapshotControl(snapshot) ==
  [is |-> "state", state |-> [key \in snapshot.override |-> snapshot[key]]]

Bytes(names) == [i \in DOMAIN names |-> [is |-> names[i]]]

\* AnimationReply::encode_with_terminator.  The number of presets handled
\* before it goes along, as history.
Reply(snapshot, n) ==
  Bytes(<<"ESC", "]">>) \o <<[is |-> "answer", of |-> snapshot, after |-> n]>> \o Bytes(<<"BEL">>)

\* What the keyboard sends, in both modes of the cursor keys.
KeyBytes(key) ==
  Bytes(CASE key = "Up" -> <<"ESC", "[", "A">> [] key = "Down" -> <<"ESC", "O", "B">>
          [] key = "Escape" -> <<"ESC">> [] OTHER -> <<key>>)

---------------------------------------------------------------------------------
(* ReplyScanner: answers and keys are told apart.                          *)

PushGround(s, byte) ==
  IF byte.is = "ESC" THEN [s EXCEPT !.scan = "Esc"] ELSE [s EXCEPT !.pending = Append(@, byte)]

\* Mutant: the byte after an ESC that begins no answer is a key, whatever it is.
PushEscForgetful(s, byte) ==
  IF byte.is = "]" THEN [s EXCEPT !.scan = "Osc", !.candidate = << >>]
  ELSE [s EXCEPT !.scan = "Ground", !.pending = @ \o <<[is |-> "ESC"], byte>>]
PushEsc(s, byte) ==
  IF byte.is = "]" THEN [s EXCEPT !.scan = "Osc", !.candidate = << >>]
  ELSE PushGround([s EXCEPT !.scan = "Ground", !.pending = Append(@, [is |-> "ESC"])], byte)

\* finish_candidate, for candidates that are answers.
PushOsc(s, byte) ==
  IF byte.is = "BEL"
  THEN [s EXCEPT !.scan = "Ground", !.candidate = << >>,
                 !.answers = @ \o s.candidate]
  ELSE [s EXCEPT !.candidate = Append(@, byte)]

PushByte(s, byte) ==
  CASE s.scan = "Ground" -> PushGround(s, byte)
    [] s.scan = "Esc"    -> PushEsc(s, byte)
    [] s.scan = "Osc"    -> PushOsc(s, byte)

---------------------------------------------------------------------------------
(* The menu.                                                               *)

\* decode_key: the key at the front and its length, zero while it is incomplete.
DecodeKey(bytes) ==
  LET Is(i) == bytes[i].is
      Key(name, n) == [key |-> name, n |-> n]
  IN  CASE bytes = << >> -> Key("None", 0)
        [] bytes # << >> /\ Is(1) # "ESC" ->
             Key(IF Is(1) \in {"Space", "Replay", "PlayAll", "Quit"} THEN Is(1) ELSE "Unknown", 1)
        [] OTHER ->
             IF Len(bytes) = 1 \/ Is(2) \notin {"[", "O"} THEN Key("Escape", 1)
             ELSE IF Len(bytes) = 2 THEN Key("None", 0)
             ELSE Key(CASE Is(3) = "A" -> "Up" [] Is(3) = "B" -> "Down" [] OTHER -> "Unknown", 3)

Texts == <<"none", "streaming", "typewriter">>   \* MenuItem::ALL, then the trail

\* AnimationTui::toggle, highlighted_selection: the trail is turned round by
\* the one and on by the other.
Toggled(m) ==
  IF m.cursor < 3 THEN [m.selection EXCEPT !.text = Texts[m.cursor + 1]]
  ELSE [m.selection EXCEPT !.trail = ~@]
Highlighted(m) ==
  IF m.cursor < 3 THEN [m.selection EXCEPT !.text = Texts[m.cursor + 1]]
  ELSE [m.selection EXCEPT !.trail = TRUE]

\* replay_sequence, play_all_sequence: a preview and what ends it.
Replay(selection, entry) == <<SelectionControl(selection), SnapshotControl(entry)>>
PlayAll(entry) ==
  Replay([text |-> "streaming", trail |-> entry.trail], entry)
  \o Replay([text |-> "typewriter", trail |-> entry.trail], entry)
  \o Replay([text |-> entry.text, trail |-> TRUE], entry)

\* AnimationTui::dispatch; todo is the controls to send.
Dispatch(m, key) ==
  CASE key = "Up"      -> [m EXCEPT !.cursor = (@ - 1) % 4]
    [] key = "Down"    -> [m EXCEPT !.cursor = (@ + 1) % 4]
    [] key = "Space"   -> [m EXCEPT !.selection = Toggled(m)]
    [] key = "Replay"  -> [m EXCEPT !.todo = Replay(Highlighted(m), m.entry)]
    [] key = "PlayAll" -> [m EXCEPT !.todo = PlayAll(m.entry)]
    [] key \in {"Quit", "Escape"} -> [m EXCEPT !.todo = <<SnapshotControl(m.entry)>>, !.leaves = TRUE]
    [] key = "Unknown" -> m

Off == [phase |-> "off"]
NewMenu ==
  [phase |-> "waits", scan |-> "Ground", candidate |-> << >>, pending |-> << >>, answers |-> << >>,
   entry |-> Snapshot(<< >>), after |-> 0, selection |-> Global, cursor |-> 0, todo |-> << >>, leaves |-> FALSE]

\* run_animation_tui: open the tty and ask; what is unread there is kept.
Start ==
  /\ menu = Off /\ menus < MaxMenus /\ menus' = menus + 1
  /\ menu' = NewMenu /\ asked' = Append(asked, Query)
  /\ pressed' = << >> /\ taken' = << >> /\ late' = (line # << >>)
  /\ UNCHANGED <<overlay, replies, line, keys, base, sets, overrun>>

\* ingest: one byte of what has arrived or all, while a key or an answer is
\* awaited; any other part is several reads of one byte.
Ingest ==
  /\ \/ menu.phase = "waits" /\ menu.answers = << >>
     \/ menu.phase = "reads" /\ menu.todo = << >> /\ DecodeKey(menu.pending).n = 0
  /\ line # << >>
  /\ \E n \in {1, Len(line)} :
       /\ menu' = FoldLeft(PushByte, menu, SubSeq(line, 1, n))
       /\ line' = SubSeq(line, n + 1, Len(line))
  /\ UNCHANGED <<overlay, asked, replies, menus, keys, base, sets, overrun, pressed, taken, late>>

\* wait_reply has an answer, the first; the others are dropped.  The cursor
\* is on the text of the entry, or on top in a menu called by that name.
Enter ==
  /\ menu.phase = "waits" /\ menu.answers # << >>
  /\ LET entry == Head(menu.answers).of
     IN  \E cursor \in {0} \cup {i \in 0..2 : Texts[i + 1] = entry.text} :
           menu' = [menu EXCEPT
             !.phase = "reads", !.answers = << >>, !.entry = entry, !.cursor = cursor,
             !.after = Head(menu.answers).after,
             !.selection = [text |-> entry.text, trail |-> entry.trail]]
  /\ UNCHANGED <<overlay, asked, replies, line, menus, keys, base, sets, overrun, pressed, taken, late>>

\* HOST_TIMEOUT: it gives up, and with it what it has read.
TimesOut ==
  /\ menu.phase = "waits" /\ menu.answers = << >>
  /\ menu' = Off
  /\ UNCHANGED <<overlay, asked, replies, line, menus, keys, base, sets, overrun, pressed, taken, late>>

Take(key, n) ==
  /\ menu' = Dispatch([menu EXCEPT !.pending = SubSeq(@, n + 1, Len(@)), !.answers = << >>], key)
  /\ taken' = Append(taken, key)
  /\ UNCHANGED <<overlay, asked, replies, line, menus, keys, base, sets, overrun, pressed>>

\* read_key.
ReadKey ==
  /\ menu.phase = "reads" /\ menu.todo = << >>
  /\ LET read == DecodeKey(menu.pending) IN read.n > 0 /\ Take(read.key, read.n)
  /\ UNCHANGED late
\* ESC_GRACE: the ESC of an unfinished key was a key.
GraceEnds ==
  /\ menu.phase = "reads" /\ menu.todo = << >>
  /\ menu.pending # << >> /\ DecodeKey(menu.pending).n = 0
  /\ Take("Escape", 1)
  /\ late' = TRUE

\* One control of a sequence; the last one of a menu that leaves ends it.
Send ==
  /\ menu.phase = "reads" /\ menu.todo # << >>
  /\ asked' = Append(asked, Head(menu.todo) @@ [after |-> menu.after])
  /\ menu' = IF menu.leaves THEN Off ELSE [menu EXCEPT !.todo = Tail(@)]
  /\ UNCHANGED <<overlay, replies, line, menus, keys, base, sets, overrun, pressed, taken, late>>

---------------------------------------------------------------------------------
(* The terminal, its user and the shell.                                   *)

\* AppModel::handle_animation_control: a query, a state, or a preset, which
\* sets what it names and leaves the rest.
Handle ==
  /\ asked # << >> /\ asked' = Tail(asked)
  /\ LET control == Head(asked)
     IN  \/ /\ control.is = "query" /\ replies' = Append(replies, Reply(Snapshot(overlay), sets))
            /\ UNCHANGED <<overlay, base, sets, overrun>>
         \/ /\ control.is = "state" /\ overlay' = control.state
            /\ overrun' = (overrun \/ control.after < sets) /\ UNCHANGED <<replies, base, sets>>
         \/ /\ control.is = "preset" /\ overlay' = control.keys @@ overlay /\ base' = control.keys @@ base
            /\ sets' = sets + 1 /\ UNCHANGED <<replies, overrun>>
  /\ UNCHANGED <<line, menu, menus, keys, pressed, taken, late>>

\* flush_pty_replies: at once, or by a later pump where the pane is full.
FlushReply ==
  /\ replies # << >> /\ replies' = Tail(replies) /\ line' = line \o Head(replies)
  /\ UNCHANGED <<overlay, asked, menu, menus, keys, base, sets, overrun, pressed, taken, late>>

\* A key of the user; one write of the pane, as an answer is.
Press(key) ==
  /\ menu # Off /\ keys < MaxKeys /\ keys' = keys + 1
  /\ line' = line \o KeyBytes(key) /\ pressed' = Append(pressed, key)
  /\ UNCHANGED <<overlay, asked, replies, menu, menus, base, sets, overrun, taken, late>>

\* The shell reads what no menu did.
ShellReads ==
  /\ menu = Off /\ line # << >> /\ line' = << >>
  /\ UNCHANGED <<overlay, asked, replies, menu, menus, keys, base, sets, overrun, pressed, taken, late>>

\* mr-crabs +animation <name>, run by a script of this pane or another of the
\* window at any time, writes its control and ends.
EmitPreset(preset) ==
  /\ sets < MaxSets /\ \A i \in DOMAIN asked : asked[i].is # "preset"
  /\ asked' = Append(asked, [is |-> "preset", keys |-> preset])
  /\ UNCHANGED <<overlay, replies, line, menu, menus, keys, base, sets, overrun, pressed, taken, late>>

Init ==
  /\ overlay \in Overlays /\ base = overlay
  /\ asked = << >> /\ replies = << >> /\ line = << >> /\ menu = Off /\ menus = 0 /\ keys = 0
  /\ sets = 0 /\ overrun = FALSE /\ pressed = << >> /\ taken = << >> /\ late = FALSE

Next ==
  \/ Start \/ Enter \/ TimesOut \/ ReadKey \/ GraceEnds \/ Send \/ Ingest
  \/ Handle \/ FlushReply \/ ShellReads
  \/ \E preset \in Presets : EmitPreset(preset)
  \/ \E key \in Presses : Press(key)

Spec == Init /\ [][Next]_vars

---------------------------------------------------------------------------------
(* Properties.                                                             *)

\* A menu takes the keys that were pressed, in order and once, however they
\* are cut and whatever answers come between them, and when all that arrived
\* is read none is missing, but for an ESC that may still begin an answer;
\* and no answer is taken for keys: with nothing under way it has its answer.
\* It speaks of menus that found nothing in the tty to begin with, and of
\* keys whose bytes come within the grace.
KeysAreTold ==
  menu # Off /\ ~late =>
    /\ IsPrefix(taken, pressed)
    /\ line = << >> /\ menu.phase = "reads" /\ DecodeKey(menu.pending).n = 0 =>
         pressed = taken \o (IF menu.scan = "Esc" THEN <<"Escape">> ELSE << >>)
    /\ menu.phase = "waits" /\ asked = << >> /\ replies = << >> /\ line = << >> =>
         menu.answers # << >>

\* Where no menu runs and nothing said is unheard, the window overrides what
\* it did before the menus and what presets have set since, and inherits the
\* rest, whatever was previewed, answered too late or taken from the answer to
\* an earlier menu.  The exception is a menu that spoke after a preset its
\* entry does not tell of, set while it ran or, where it took the late answer
\* to an earlier menu's question, before it began: it puts back the old one.
PreviewsAreUndone == menu = Off /\ asked = << >> => overlay = base \/ overrun
=============================================================================
