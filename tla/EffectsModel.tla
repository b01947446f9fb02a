------------------------------ MODULE EffectsModel ------------------------------
(***************************************************************************)
(* The text animation (crate mr-crabs-effects): a tracker of what every    *)
(* cell showed last and when it changed (key.rs), the typewriter's schedule*)
(* (schedule.rs), what a frame conceals and whether another frame is asked *)
(* for (model.rs, element.rs).                                             *)
(*                                                                         *)
(* Times are kept relative to the present: age[r][c] is how long ago the   *)
(* cell's text appeared, negative when it is still to appear, and Duration *)
(* once its reveal is over or if there never was one.  The unit is the     *)
(* typewriter's stagger, in the code an eighth of the duration.            *)
(*                                                                         *)
(* A row's generation matters only as "the tracker has seen this row of    *)
(* this frame".                                                            *)
(***************************************************************************)
EXTENDS Integers, Sequences, SequencesExt, FiniteSetsExt

CONSTANTS
  Heights,   \* grid heights
  Texts,     \* what a row can show: sequences of one width over "_", "a", "W", "s"
  NoText,    \* the row of them without text
  Duration,  \* text_animation_duration_ms in staggers: the code has 8 of them
  MaxAhead,  \* MAX_AHEAD_MS, in staggers
  Large,     \* rows a partial frame may have to be animated
  Pauses,    \* time between two paints
  Region,    \* rows of the startup picture, which moves by itself
  None

VARIABLES
  mode,     \* EffectsConfig::text_animation
  tracker,  \* ChangeTracker, None while the animation is disabled
  schedule, \* [next, last]: the TypewriterSchedule
  first,    \* last_history_rows is None: no frame was applied yet
  frame,    \* the pane's published frame
  shown,    \* what the surface shows since the last paint
  asked     \* the last paint: [revealing, again]

vars == <<mode, tracker, schedule, first, frame, shown, asked>>

Width == Len(NoText)
Columns == 1..Width
RowsOf(text) == 1..Len(text)

Never == [c \in Columns |-> None]
Over == [c \in Columns |-> Duration]

---------------------------------------------------------------------------------
(* key.rs: the change tracker.                                             *)

NewTracker(h) ==
  [key |-> [r \in 1..h |-> Never], age |-> [r \in 1..h |-> Over], seen |-> {}, newest |-> Duration]

Youngest(age) == Min(UNION {Range(age[r]) : r \in DOMAIN age})

\* Rows that were there keep their state, new ones are changed now.
Resized(t, h) ==
  LET Kept(rows, fresh) == [r \in 1..h |-> IF r \in DOMAIN rows THEN rows[r] ELSE fresh]
  IN [t EXCEPT !.key = Kept(@, Never), !.age = Kept(@, [c \in Columns |-> 0]), !.seen = @ \cap 1..h]

\* The text of frame f is that of the tracker one row higher.
LooksScrolled(t, f) ==
  /\ f.rows = DOMAIN t.key
  /\ \A r \in 1..(Len(f.text) - 1) : f.text[r] = t.key[r + 1]

\* Mutant: the text moves, its reveal stays.
TranslateKeyOnly(t) == [t EXCEPT !.key = Append(Tail(@), Never), !.seen = {}]

TranslateUpOne(t) ==
  LET age == Append(Tail(t.age), Over)
  IN [key |-> Append(Tail(t.key), Never), age |-> age, seen |-> {}, newest |-> Youngest(age)]

PaintsGlyph(cell) == cell \notin {"_", "s"}
\* A wide character and its spacer appear together.
Unit(cells, x) == {x} \cup IF cells[x] = "W" /\ x < Width /\ cells[x + 1] = "s" THEN {x + 1} ELSE {}
UnitStarts(cells) == {x \in Columns : \A y \in Columns : y < x => x \notin Unit(cells, y)}
UnitsOf(cells, starts) == UNION {Unit(cells, x) : x \in starts}

Idle == [next |-> 0, last |-> -Duration]

\* begin_build: a burst goes on while it is still revealing and not too far
\* ahead, and never hands out a time that is over.
BeginBuild(s) ==
  IF s.last + Duration > 0 /\ s.next <= MaxAhead THEN [s EXCEPT !.next = Max({@, 0})] ELSE [s EXCEPT !.next = 0]

\* The tracker and schedule of m with one row of the frame taken in.  Under
\* the policies, every changed cell is stamped with the present, or every
\* changed character with its turn; a row written again with the same text
\* is stamped as a whole unless the frame is full.
UpdateRow(m, r, cells, policy) ==
  LET t == m.tracker
      changed == {c \in Columns : cells[c] # t.key[r][c]}
      units == {x \in UnitStarts(cells) :
                  IF changed = {} THEN policy # "reconcile" ELSE Unit(cells, x) \cap changed # {}}
      drawn == {x \in units : PaintsGlyph(cells[x])}
      stamped == IF policy = "every" /\ changed # {} THEN changed ELSE UnitsOf(cells, drawn)
      cleared == IF policy = "every" \/ changed = {} THEN {} ELSE UnitsOf(cells, units \ drawn)
      Turn(c) == Cardinality({x \in drawn : x <= c}) - 1
      When(c) == IF mode = "typewriter" THEN -(m.schedule.next + Turn(c)) ELSE 0
      age == [t.age EXCEPT ![r] = [c \in Columns |->
                IF c \in stamped THEN When(c) ELSE IF c \in cleared THEN Duration ELSE @[c]]]
      next == m.schedule.next + Cardinality(drawn)
  IN IF r \in t.seen THEN m ELSE
     [tracker |-> [key |-> [t.key EXCEPT ![r] = cells], age |-> age, seen |-> t.seen \cup {r},
                   newest |-> IF age # t.age THEN Youngest(age) ELSE t.newest],
      schedule |-> IF mode = "typewriter" /\ drawn # {} THEN [next |-> next, last |-> next - 1] ELSE m.schedule]

UpdateRows(m, f, rows, policy) ==
  FoldLeft(LAMBDA n, r : UpdateRow(n, r, f.text[r], policy), m, SetToSortSeq(rows, <))

\* clear_changes and adopt_rows: the frame is shown as it is.
Adopt(t, f) ==
  [key |-> [r \in DOMAIN t.key |-> IF r \in f.rows THEN f.text[r] ELSE t.key[r]],
   age |-> [r \in DOMAIN t.key |-> Over], seen |-> t.seen \cup f.rows, newest |-> Duration]

\* Mutant: the newest change is not looked up again.
SyncKeepsNewest(t, f) ==
  [key |-> [r \in DOMAIN t.key |-> IF r \in f.rows THEN f.text[r] ELSE t.key[r]],
   age |-> [r \in DOMAIN t.age |-> [c \in Columns |->
             IF r \in f.rows /\ f.text[r][c] # t.key[r][c] THEN Duration ELSE t.age[r][c]]],
   seen |-> t.seen \cup f.rows, newest |-> t.newest]

SyncRowsWithoutStamping(t, f) ==
  LET age == [r \in DOMAIN t.age |-> [c \in Columns |->
               IF r \in f.rows /\ f.text[r][c] # t.key[r][c] THEN Duration ELSE t.age[r][c]]]
  IN [key |-> [r \in DOMAIN t.key |-> IF r \in f.rows THEN f.text[r] ELSE t.key[r]], age |-> age,
      seen |-> t.seen \cup f.rows, newest |-> IF age # t.age THEN Youngest(age) ELSE t.newest]

---------------------------------------------------------------------------------
(* model.rs: apply_frame.                                                  *)

Older(a, dt) == Min({Duration, a + dt})
Aged(t, dt) ==
  [t EXCEPT !.age = [r \in DOMAIN @ |-> [c \in Columns |-> Older(@[r][c], dt)]], !.newest = Older(@, dt)]
\* A burst that is over leaves nothing behind.
Later(s, dt) == IF s.last - dt <= -Duration THEN Idle ELSE [next |-> s.next - dt, last |-> s.last - dt]

\* The frame is the one before it, scrolled up by a row.
Scrolled(t, f) ==
  /\ f.full /\ ~f.alt /\ ~first /\ f.grown \in {0, 1}
  /\ Len(f.text) = Len(t.key) /\ LooksScrolled(t, f)
Eligible(t, f) ==
  /\ ~f.alt /\ Len(f.text) = Len(t.key)
  /\ IF f.full THEN ~first ELSE Cardinality(f.rows) <= Large

\* The tracker and the schedule after frame f, dt after the previous one.
Applied(f, dt) ==
  LET sized == Len(f.text) = Len(tracker.key)
      aged == Aged(tracker, dt)
      t == IF sized THEN aged ELSE Resized(aged, Len(f.text))
      scrolled == Scrolled(tracker, f)
      s == IF f.full /\ ~scrolled THEN Idle ELSE Later(schedule, dt)
      still == IF f.region THEN f.rows \ Region ELSE f.rows
  IN IF ~Eligible(tracker, f)
     THEN [tracker |-> IF f.full \/ f.alt \/ ~sized THEN Adopt(t, f) ELSE SyncRowsWithoutStamping(t, f), schedule |-> s]
     ELSE IF scrolled
     THEN UpdateRows([tracker |-> TranslateUpOne(t), schedule |-> BeginBuild(s)], f, still \cap {Len(f.text)},
                     IF mode = "typewriter" THEN "again" ELSE "every")
     ELSE UpdateRows([tracker |-> t, schedule |-> BeginBuild(s)], f, still,
                     IF f.full THEN "reconcile" ELSE IF mode = "typewriter" THEN "again" ELSE "every")

\* collect_reveals
Revealing(t) == {rc \in (DOMAIN t.age) \X Columns : t.age[rc[1]][rc[2]] < Duration}

---------------------------------------------------------------------------------
(* The pane's frames.                                                      *)

\* A frame not painted yet stays full.
Publish(text, rows, full, alt, grown) ==
  LET whole == full \/ (frame.new /\ frame.full)
  IN /\ frame' = [text |-> text, rows |-> IF whole THEN RowsOf(text) ELSE rows, full |-> whole, alt |-> alt,
                  grown |-> Min({2, grown + frame.grown}), region |-> frame.region, new |-> TRUE]
     /\ tracker' = IF tracker = None THEN None ELSE [tracker EXCEPT !.seen = @ \ frame'.rows]
     /\ UNCHANGED <<mode, schedule, first, shown, asked>>

Height == Len(frame.text)

\* A partial frame has the row of the cursor as well.
Write(r, cells, full) ==
  \E cursor \in 1..Height :
    Publish([frame.text EXCEPT ![r] = cells], {r, cursor}, full, frame.alt, 0)
Scroll(cells) ==
  \E grown \in IF frame.alt THEN {0} ELSE {0, 1} :
    Publish(Append(Tail(frame.text), cells), RowsOf(frame.text), TRUE, frame.alt, grown)
Clear == Publish([r \in 1..Height |-> NoText], {}, TRUE, frame.alt, 0)
ChangeScreen ==
  Publish([r \in 1..Height |-> NoText], {}, TRUE, ~frame.alt, 0)
Resize(h) ==
  /\ h # Height
  /\ Publish([r \in 1..h |-> IF r <= Height THEN frame.text[r] ELSE NoText], {}, TRUE, frame.alt, 0)
\* Output takes the startup picture's rows, or it is dismissed and the screen
\* cleared.
PictureEnds ==
  /\ frame.region
  /\ \E text \in {frame.text, [r \in 1..Height |-> NoText]} :
       frame' = [frame EXCEPT !.text = text, !.region = FALSE, !.new = TRUE, !.full = TRUE, !.rows = 1..Height]
  /\ tracker' = IF tracker = None THEN None ELSE [tracker EXCEPT !.seen = {}]
  /\ UNCHANGED <<mode, schedule, first, shown, asked>>

---------------------------------------------------------------------------------
(* The element.                                                            *)

Shows(f) ==
  [r \in RowsOf(f.text) |-> IF r \in f.rows \/ r \notin DOMAIN shown THEN f.text[r] ELSE shown[r]]

Paint(dt) ==
  /\ frame' = [frame EXCEPT !.grown = 0, !.new = FALSE]
  /\ shown' = Shows(frame) /\ first' = FALSE
  /\ IF tracker = None THEN asked' = [revealing |-> {}, again |-> FALSE] /\ UNCHANGED <<tracker, schedule>>
     ELSE LET m == Applied(frame, dt)
              sized == Len(frame.text) = Len(tracker.key)
              allowed == Eligible(tracker, frame) \/ (~frame.alt /\ sized /\ Revealing(m.tracker) # {})
          IN /\ tracker' = m.tracker /\ schedule' = m.schedule
             /\ asked' = [revealing |-> IF allowed THEN Revealing(m.tracker) ELSE {},
                          again |-> allowed /\ m.tracker.newest < Duration]
  /\ UNCHANGED mode

\* set_config: another animation, before the paint that uses it.  Switching
\* the animation off drops the tracker and what it revealed.
SetConfig(animation) ==
  /\ animation # mode /\ mode' = animation /\ schedule' = Idle
  /\ tracker' = IF animation = "none" THEN None ELSE IF tracker = None THEN NewTracker(Len(shown)) ELSE tracker
  /\ asked' = IF animation = "none" THEN [revealing |-> {}, again |-> FALSE] ELSE asked
  /\ UNCHANGED <<first, frame, shown>>

\* Another cell size: the element starts with a new model.
NewMetrics ==
  /\ tracker # None /\ ~first
  /\ first' = TRUE /\ tracker' = NewTracker(Height) /\ schedule' = Idle
  /\ asked' = [revealing |-> {}, again |-> FALSE]
  /\ UNCHANGED <<mode, frame, shown>>

---------------------------------------------------------------------------------

Init ==
  /\ mode \in {"streaming", "typewriter"}
  /\ \E h \in Heights, region \in BOOLEAN :
       /\ frame = [text |-> [r \in 1..h |-> NoText], rows |-> 1..h, full |-> TRUE, alt |-> FALSE, grown |-> 0,
                   region |-> region, new |-> TRUE]
       /\ tracker = NewTracker(h)
  /\ schedule = Idle /\ first = TRUE /\ shown = <<>> /\ asked = [revealing |-> {}, again |-> FALSE]

Next ==
  \/ \E r \in 1..Height, cells \in Texts, full \in BOOLEAN : Write(r, cells, full)
  \/ \E cells \in Texts : Scroll(cells)
  \/ Clear \/ ChangeScreen \/ PictureEnds \/ NewMetrics
  \/ \E h \in Heights : Resize(h)
  \/ \E dt \in Pauses : Paint(dt)
  \/ \E animation \in {"none", "streaming", "typewriter"} : SetConfig(animation)

Spec == Init /\ [][Next]_vars

---------------------------------------------------------------------------------
(* Properties.                                                             *)

\* Another frame is asked for exactly while text is being revealed, so none
\* stays concealed and a surface at rest is left alone; and a reveal begins
\* soon however fast output comes.
RevealsAreScheduled ==
  /\ asked.again <=> asked.revealing # {}
  /\ tracker # None => -tracker.newest < MaxAhead + Width * Len(tracker.key)

\* Only new text is concealed.  Text that was there and was not written again
\* goes on with its reveal and never starts another, and text that scrolled
\* takes its reveal with it; new text never goes on with the reveal of what
\* it replaced.  (A frame that looks like the last one scrolled up by a row
\* is taken for that, and the startup picture is passed over.)
RevealsFollowText ==
  [][\A dt \in Pauses : Paint(dt) /\ tracker # None /\ shown # <<>> /\ ~first =>
       LET up == IF Scrolled(tracker, frame) THEN 1 ELSE 0
           picture == IF frame.region THEN Region ELSE {}
       IN \A r \in 1..(Min({Height, Len(tracker.key)}) - up) :
            LET there == tracker.key[r + up]
                cells == frame.text[r]
                again == up = 0 /\ ~frame.full /\ r \in frame.rows \ tracker.seen /\ cells = there
                Old(c) == tracker'.age[r][c] \in {Older(tracker.age[r + up][c], dt), Duration}
                Fresh(c) == tracker'.age[r][c] <= 0 \/ tracker'.age[r][c] = Duration
            IN /\ ~again => \A x \in UnitStarts(cells) :
                    (\A c \in Unit(cells, x) : cells[c] = there[c]) => \A c \in Unit(cells, x) : Old(c)
               /\ r \in frame.rows \ picture => \A c \in Columns : cells[c] # there[c] => Fresh(c)]_vars
=================================================================================
