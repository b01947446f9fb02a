----------------------------- MODULE ImageStore -----------------------------
(***************************************************************************)
(* The image store of one surface: images under a byte budget, placements  *)
(* under a count budget, one chunked transmission at a time, eviction and  *)
(* deletion.  crates/mr-crabs-graphics: store.rs, kitty/load.rs,           *)
(* placement.rs.  Every operator is a function of a store record; the      *)
(* module GraphicsOverlay holds the record and calls them.                 *)
(*                                                                         *)
(* A payload is a sequence of fragments, each one unit of the byte budget. *)
(* The number of units an image's dimensions call for is its "want".       *)
(***************************************************************************)
EXTENDS Integers, Sequences, FiniteSets, FiniteSetsExt, Functions

CONSTANTS
    TotalLimit,     \* StoreConfig::total_limit, in units
    MaxImageSize,   \* StoreConfig::max_image_size, in units
    MaxPlacements,  \* StoreConfig::max_placements
    FirstAutoId,    \* next_image_id of an empty store
    None,           \* no load, no display, nothing being sent
    Rows, Cols      \* the grid of the terminal context

ASSUME StoreConfigAssumption ==
    /\ {TotalLimit, MaxImageSize, MaxPlacements, Rows, Cols} \subseteq Nat \ {0}
    /\ FirstAutoId \in Nat \ {0}

EmptyStore ==
    [images |-> <<>>, placements |-> <<>>, loading |-> None, total |-> 0,
     generation |-> 0, nextId |-> FirstAutoId, nextInternal |-> 0]

MarkMutated(s) == [s EXCEPT !.generation = @ + 1]

DataLen(img) == Len(img.data)

---------------------------------------------------------------------------
(* Placements *)

Keep(f, S) == Restrict(f, DOMAIN f \cap S)

\* Every removal of a placement takes one off its image's count.
RemovePlacements(s, keys) ==
    [s EXCEPT
        !.placements = Keep(@, DOMAIN @ \ keys),
        !.images = [id \in DOMAIN @ |->
            [@[id] EXCEPT !.placed = @ - Cardinality({k \in keys \cap DOMAIN s.placements : k[1] = id})]]]

PlacementsOf(s, id) == {k \in DOMAIN s.placements : k[1] = id}

RemoveImages(s, ids) ==
    [s EXCEPT !.images = Keep(@, DOMAIN @ \ ids),
              !.total = @ - MapThenSumSet(LAMBDA id : DataLen(s.images[id]), ids \cap DOMAIN s.images)]

\* Placement 0 on the wire becomes a fresh internal id.
AddPlacement(s, id, pid, p) ==
    LET key == <<id, IF pid = 0 THEN <<"internal", s.nextInternal>> ELSE <<"external", pid>>>>
        found == key \in DOMAIN s.placements
    IN  IF id \notin DOMAIN s.images \/ Cardinality(DOMAIN s.placements) >= MaxPlacements
        THEN [ok |-> FALSE, store |-> s]
        ELSE [ok |-> TRUE,
              store |-> MarkMutated(
                  [s EXCEPT !.placements = [k \in DOMAIN @ \cup {key} |-> IF k = key THEN p ELSE @[k]],
                            !.nextInternal = IF pid = 0 THEN @ + 1 ELSE @,
                            !.images[id].placed = IF found THEN @ ELSE @ + 1])]

---------------------------------------------------------------------------
(* Eviction *)

\* The order in which images go: transient unused, unused, transient used, used,
\* and within each the oldest generation (generations are unique).
Priority(img) == (IF img.transient THEN 0 ELSE 1) + (IF img.placed > 0 THEN 2 ELSE 0)

\* Mutant: plain age.
GoesBeforeByAge(a, b) == a.generation < b.generation

GoesBefore(a, b) ==
    \/ Priority(a) < Priority(b)
    \/ Priority(a) = Priority(b) /\ a.generation < b.generation

SumLen(s, ids) == MapThenSumSet(LAMBDA id : DataLen(s.images[id]), ids)

\* The loop stops as soon as req units are free: an image goes when those before it
\* do not free enough.
Victims(s, req, cands) ==
    {id \in cands :
        SumLen(s, {j \in cands : GoesBefore(s.images[j], s.images[id])}) < req}

Without(s, gone) ==
    RemoveImages(RemovePlacements(s, {k \in DOMAIN s.placements : k[1] \in gone}), gone)

\* A loop that runs out of candidates returns without a new stamp.
EvictExcept(s, req, except) ==
    LET cands == DOMAIN s.images \ except
        after == Without(s, Victims(s, req, cands))
    IN  IF SumLen(s, cands) >= req THEN [ok |-> TRUE, store |-> MarkMutated(after)]
                                   ELSE [ok |-> FALSE, store |-> after]

\* The bytes by which the store would be over its budget; the image being replaced has
\* its room credited.
Over(s, id, img) ==
    s.total - (IF id \in DOMAIN s.images THEN DataLen(s.images[id]) ELSE 0) + DataLen(img) - TotalLimit

Stamp(s, id, img) ==
    [s EXCEPT !.total = @ + DataLen(img),
              !.images = [i \in DOMAIN @ \cup {id} |->
                  IF i = id THEN [img EXCEPT !.placed = 0, !.generation = s.generation] ELSE @[i]]]

\* Mutant: the placements of the replaced image stay.
PutKeepsPlacements(s, id, img) == Stamp(MarkMutated(RemoveImages(s, {id})), id, img)

\* Puts an image in place of the one of the same id, whose placements go too.
Put(s, id, img) ==
    Stamp(MarkMutated(RemoveImages(RemovePlacements(s, PlacementsOf(s, id)), {id})), id, img)

Added(room, id, img) ==
    [ok |-> room.ok, store |-> IF room.ok THEN Put(room.store, id, img) ELSE room.store]

\* Adds a decoded image, making room for it first.
AddImage(s, id, img) ==
    IF DataLen(img) > TotalLimit THEN [ok |-> FALSE, store |-> s]
    ELSE Added(IF Over(s, id, img) > 0 THEN EvictExcept(s, Over(s, id, img), {id})
                                       ELSE [ok |-> TRUE, store |-> s],
               id, img)

---------------------------------------------------------------------------
(* Chunked transmissions *)

\* A command that transmits: its id and number (0 when absent), dimensions as want,
\* payload fragments, whether more chunks follow, and the display of a=T.
LoadInit(cmd) ==
    [id |-> cmd.id, number |-> cmd.number, want |-> cmd.want, data |-> <<>>,
     transient |-> cmd.transient, display |-> cmd.display]

\* add_data: an empty chunk always fits.
Fits(l, data) == data = <<>> \/ Len(l.data) + Len(data) <= MaxImageSize

\* complete: dimensions present and exactly the bytes they call for.
Complete(l) == l.want > 0 /\ Len(l.data) = l.want

\* The newest image of a number.
ByNumber(s, number) ==
    {id \in DOMAIN s.images :
        /\ s.images[id].number = number
        /\ \A j \in DOMAIN s.images :
              s.images[j].number = number => s.images[j].generation <= s.images[id].generation}

Failed(s) == [ok |-> FALSE, store |-> s, id |-> 0, display |-> None]

\* The decoded image of a load.
Decoded(load) ==
    [data |-> load.data, want |-> load.want, number |-> load.number,
     transient |-> load.transient, placed |-> 0, generation |-> 0]

Loaded(load, added) ==
    IF added.ok THEN [ok |-> TRUE, store |-> added.store, id |-> load.id, display |-> load.display]
                ELSE Failed(added.store)

\* A chunk joins the load; the last one completes it and the image goes to the store.
Feed(s, load, more) ==
    IF more
    THEN [ok |-> TRUE, store |-> [s EXCEPT !.loading = load], id |-> load.id, display |-> None]
    ELSE IF Complete(load) THEN Loaded(load, AddImage(s, load.id, Decoded(load))) ELSE Failed(s)

\* The load in progress takes any transmission as its next chunk, and is gone when the
\* chunk does not fit; without one the command starts a load, which gets an id of its
\* own when the command has none.
LoadAndAdd(s, cmd) ==
    LET base == IF s.loading # None THEN s.loading ELSE LoadInit(cmd)
        idle == [s EXCEPT !.loading = None]
        fed  == [base EXCEPT !.data = @ \o cmd.data]
    IN  IF ~Fits(base, cmd.data) THEN Failed(idle)
        ELSE IF base.id = 0
        THEN Feed([idle EXCEPT !.nextId = @ + 1], [fed EXCEPT !.id = s.nextId], cmd.more)
        ELSE Feed(idle, fed, cmd.more)

---------------------------------------------------------------------------
(* Display *)

Lower(a, b) == IF a < b THEN a ELSE b

\* The cells of a pinned placement, its right edge kept on the grid.
InRect(p, row, col) ==
    /\ ~p.virtual
    /\ row \in p.row .. p.row + p.height - 1
    /\ col \in p.col .. Lower(p.col + p.width - 1, Cols - 1)

\* The cursor goes below the placement and one column to its right; CUD and CHA keep it
\* on the grid.
CursorAfter(ctx, p) ==
    [y |-> Lower(ctx.cursor.y + Lower(p.height, Rows), Rows - 1),
     x |-> Lower(p.col + p.width + 1, Cols - 1)]

\* d names the image by id, or by number for the newest of that number.
DisplayPlacement(s, ctx, d) ==
    LET ids   == IF d.id # 0 THEN {d.id} \cap DOMAIN s.images ELSE ByNumber(s, d.number)
        p     == [virtual |-> d.virtual, row |-> ctx.top + ctx.cursor.y, col |-> ctx.cursor.x,
                  width |-> d.width, height |-> d.height, z |-> d.z, line |-> ctx.line]
        added == AddPlacement(s, CHOOSE id \in ids : TRUE, d.pid, p)
        moves == ~d.virtual /\ d.moves
    IN  IF (d.id = 0 /\ d.number = 0) \/ ids = {} \/ ~added.ok
        THEN [store |-> s, cursor |-> ctx.cursor]
        ELSE [store |-> added.store, cursor |-> IF moves THEN CursorAfter(ctx, p) ELSE ctx.cursor]

Shown(ctx, loaded) ==
    IF ~loaded.ok \/ loaded.display = None
    THEN [store |-> loaded.store, cursor |-> ctx.cursor]
    ELSE DisplayPlacement(loaded.store, ctx, [loaded.display EXCEPT !.id = loaded.id])

\* a=t and a=T: an id and a number exclude each other; the display of a=T runs on the
\* image just added.
Transmit(s, ctx, cmd) ==
    IF cmd.id > 0 /\ cmd.number > 0 THEN [store |-> s, cursor |-> ctx.cursor]
    ELSE Shown(ctx, LoadAndAdd(s, cmd))

---------------------------------------------------------------------------
(* Delete *)

\* The placements a delete command selects; "id" and "newest" have a rule of their own.
Selected(s, ctx, d) ==
    {k \in DOMAIN s.placements :
        LET p == s.placements[k] IN
        CASE d.by = "all"    -> ~p.virtual
          [] d.by = "cursor" -> InRect(p, ctx.top + ctx.cursor.y, ctx.cursor.x)
          [] d.by = "cell"   -> InRect(p, ctx.top + d.y, d.x)
          [] d.by = "cellz"  -> InRect(p, ctx.top + d.y, d.x) /\ p.z = d.z
          [] d.by = "column" -> ~p.virtual /\ d.x \in p.col .. Lower(p.col + p.width - 1, Cols - 1)
          [] d.by = "row"    -> ~p.virtual /\ ctx.top + d.y \in p.row .. p.row + p.height - 1
          [] d.by = "z"      -> ~p.virtual /\ p.z = d.z
          [] d.by = "range"  -> k[1] \in d.first .. d.last
          [] OTHER           -> FALSE}

\* delete_by_id: one external placement, or all of the image.
DeleteById(s, ids, d) ==
    LET keys == {k \in DOMAIN s.placements :
                    k[1] \in ids /\ (d.pid = 0 \/ k[2] = <<"external", d.pid>>)}
    IN  [keys |-> keys, images |-> ids]

\* Uppercase deletes also free the images that are left without a placement: those
\* the selection touched, and for "all" every other one too.
DeleteCommand(s, ctx, d) ==
    LET named == IF d.by = "id" THEN {d.id} ELSE ByNumber(s, d.number)
        sel   == IF d.by \in {"id", "newest"} THEN DeleteById(s, named, d)
                 ELSE [keys |-> Selected(s, ctx, d), images |-> {k[1] : k \in Selected(s, ctx, d)}]
        bare  == RemovePlacements(s, sel.keys)
        cands == IF d.by = "all" THEN DOMAIN s.images ELSE sel.images
        freed == IF d.frees THEN {id \in cands \cap DOMAIN bare.images : bare.images[id].placed = 0}
                            ELSE {}
        after == RemoveImages(bare, freed)
    IN  IF sel.keys # {} \/ freed # {} THEN MarkMutated(after) ELSE after

\* Placements pinned above the boundary row.
PruneHistory(s, boundary) ==
    LET keys == {k \in DOMAIN s.placements : ~s.placements[k].virtual /\ s.placements[k].row < boundary}
    IN  IF keys = {} THEN s ELSE MarkMutated(RemovePlacements(s, keys))
=============================================================================
