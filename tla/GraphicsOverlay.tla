--------------------------- MODULE GraphicsOverlay ---------------------------
(***************************************************************************)
(* The graphics of one pane: kitty commands and iTerm2 uploads taken from  *)
(* the output of the child, the store, the texture cache that follows it,  *)
(* and the scrollback the placements are anchored in.                      *)
(* crates/mr-crabs-element/src/element.rs (GraphicsOverlay),               *)
(* crates/mr-crabs-graphics/src/{store,texture,iterm}.rs,                  *)
(* crates/mr-crabs-history/src/viewport.rs, the scanned feed of pane.rs.   *)
(*                                                                         *)
(* Everything runs on the main thread; what interleaves are the programs   *)
(* that write to the terminal, the user who scrolls, and painting.         *)
(***************************************************************************)
EXTENDS ImageStore, SequencesExt

CONSTANTS
    TextureBytes,     \* budget of the texture cache, in units
    TextureEntries,   \* its count budget
    MaxInFlight,      \* concurrent chunked iTerm2 uploads
    FirstItermId,     \* ITERM_IMAGE_ID_FLOOR
    MaxLines,         \* scrollback limit of the pane
    KittyStarts,      \* the first chunks of a kitty program
    KittyDisplays,    \* its display commands
    KittyDeletes,     \* its delete commands
    ItermFiles,       \* [name, size, inline] of the iTerm2 uploads
    MaxStamp,         \* bound: store mutations in a behaviour
    MaxAutoIds,       \* bound: ids the store gives out
    MaxFeeds          \* bound: lines the pane writes in a behaviour

VARIABLES
    store,      \* the ImageStore
    textures,   \* texture cache: [key, bytes], least recently used first
    renders,    \* key -> payload: the render images
    uploads,    \* iTerm2 uploads in flight, in order of arrival
    nextIterm,  \* next_iterm_image_id
    cursor,     \* the terminal's cursor
    history,    \* retained history lines
    dropped,    \* lines the history has lost for good
    offset,     \* Viewport::primary_offset
    sending,    \* the kitty transmission a program is in the middle of
    broken      \* those that lost their last chunk or had another one begin before it

vars == <<store, textures, renders, uploads, nextIterm, cursor, history, dropped, offset, sending, broken>>

ASSUME OverlayAssumption ==
    /\ {TextureBytes, TextureEntries, MaxInFlight, MaxLines, MaxStamp, MaxAutoIds, MaxFeeds} \subseteq Nat \ {0}
    /\ FirstItermId \in Nat

Init ==
    /\ store = EmptyStore
    /\ textures = <<>> /\ renders = <<>> /\ uploads = <<>>
    /\ nextIterm = FirstItermId
    /\ cursor = [y |-> 0, x |-> 0]
    /\ history = 0 /\ dropped = 0 /\ offset = 0
    /\ sending = None /\ broken = {}

---------------------------------------------------------------------------
(* The context of an ingest and the texture cache *)

\* The top line of the viewport stands for the first screen row; line is the row the
\* cursor is really on, counted from the first line the pane ever wrote.
Context ==
    [cursor |-> cursor, top |-> history - Lower(offset, history),
     line |-> dropped + history + cursor.y]

Key(id) == <<id, store'.images[id].generation>>

\* rgba_byte_len: a wide payload takes twice the room as a texture.
TextureLen(img) == IF img.number > 0 THEN 2 * DataLen(img) ELSE DataLen(img)

TotalBytes(t) == FoldLeft(LAMBDA sum, e : sum + e.bytes, 0, t)

\* enforce_budgets: the least recently used go until both budgets hold.
Enforced(t) ==
    LET fits(n) == LET rest == SubSeq(t, n, Len(t)) IN
                       TotalBytes(rest) <= TextureBytes /\ Len(rest) <= TextureEntries
        from == CHOOSE n \in 1 .. Len(t) + 1 : fits(n) /\ \A m \in 1 .. n - 1 : ~fits(m)
    IN  SubSeq(t, from, Len(t))

Insert(t, key, bytes) ==
    IF bytes > TextureBytes THEN t
    ELSE Enforced(Append(SelectSeq(t, LAMBDA e : e.key # key), [key |-> key, bytes |-> bytes]))

\* sync_textures: insert the images without a render image, then keep the render images
\* whose texture is resident and whose image is still the store's.  Both passes visit a
\* hash map, so the order of each is any order; the second one touches what it keeps.
SyncTextures ==
    LET missing == {id \in DOMAIN store'.images : Key(id) \notin DOMAIN renders}
        taken   == {id \in missing : TextureLen(store'.images[id]) <= TextureBytes}
        current == {Key(id) : id \in DOMAIN store'.images}
    IN  \E order \in SetToSeqs(missing) :
            LET filled == FoldLeft(LAMBDA t, id : Insert(t, Key(id), TextureLen(store'.images[id])),
                                   textures, order)
                made   == [k \in DOMAIN renders \cup {Key(id) : id \in taken} |->
                              IF k \in DOMAIN renders THEN renders[k] ELSE store'.images[k[1]].data]
                kept   == {e \in ToSet(filled) : e.key \in current}
            IN  /\ textures' \in SetToSeqs(kept)
                /\ renders' = Keep(made, {e.key : e \in kept})

\* Mutant: only a change of the set of images makes it sync.
FinishIngestByCount ==
    IF DOMAIN store'.images # DOMAIN store.images THEN SyncTextures ELSE UNCHANGED <<textures, renders>>

\* finish_ingest: nothing to do unless the store was stamped.
FinishIngest ==
    IF store'.generation # store.generation THEN SyncTextures ELSE UNCHANGED <<textures, renders>>

---------------------------------------------------------------------------
(* Kitty commands *)

\* outcome is the store and the cursor after a command.
Ingest(outcome) ==
    /\ store.generation < MaxStamp
    /\ \E done \in {outcome} :
          /\ done.store.nextId <= FirstAutoId + MaxAutoIds
          /\ store' = done.store
          /\ cursor' = done.cursor
    /\ FinishIngest
    /\ UNCHANGED <<uploads, nextIterm, history, dropped, offset>>

\* A chunk whose payload is too long or not base64 is dropped by the parser.
Chunk(cmd, lost) ==
    IF lost THEN UNCHANGED <<store, cursor, textures, renders, uploads, nextIterm, history, dropped, offset>>
    ELSE Ingest(Transmit(store, Context, cmd))

\* A program starts a transmission, whatever another one has left unfinished: the load
\* that is open takes the chunk.  cmd.data holds its first fragments.
KittyStart(cmd, lost) ==
    /\ lost => cmd.more
    /\ Chunk(cmd, lost)
    /\ sending' = IF cmd.more THEN cmd.data[1] ELSE sending
    /\ broken' = broken \cup ({sending} \ {None})

\* The next chunk carries no keys but m; after the last one, lost or not, no more come.
KittyChunk(more, lost) ==
    /\ sending # None
    /\ Chunk([id |-> 0, number |-> 0, want |-> 0, data |-> <<sending>>,
               transient |-> FALSE, display |-> None, more |-> more], lost)
    /\ sending' = IF more THEN sending ELSE None
    /\ broken' = IF lost /\ ~more THEN broken \cup {sending} ELSE broken

KittyDisplay(d) ==
    /\ Ingest(DisplayPlacement(store, Context, d))
    /\ UNCHANGED <<sending, broken>>

KittyDelete(d) ==
    /\ Ingest([store |-> DeleteCommand(store, Context, d), cursor |-> cursor])
    /\ UNCHANGED <<sending, broken>>

---------------------------------------------------------------------------
(* iTerm2 uploads *)

InFlight(name) == {i \in DOMAIN uploads : uploads[i].name = name}

ItermPlacement ==
    [virtual |-> FALSE, row |-> Context.top + cursor.y, col |-> cursor.x,
     width |-> 1, height |-> 1, z |-> 0, line |-> Context.line]

\* An inline image goes to an id of its own and is placed at the cursor.  A refused
\* image leaves at once.
PlaceUpload(data) ==
    /\ nextIterm' = nextIterm + 1
    /\ \E added \in {AddImage(store, nextIterm,
                       [data |-> data, want |-> Len(data), number |-> 0, transient |-> FALSE,
                        placed |-> 0, generation |-> 0])} :
          store' = IF added.ok THEN AddPlacement(added.store, nextIterm, 0, ItermPlacement).store
                               ELSE added.store
    /\ FinishIngest

\* One fragment of a named upload of a declared size; decodes says whether what has
\* arrived is a picture once it is complete.
ItermFragment(file, decodes) ==
    LET known == InFlight(file.name)
        begun == IF known = {} THEN Append(uploads, [name |-> file.name, inline |-> file.inline, data |-> <<>>])
                               ELSE uploads
        i     == IF known = {} THEN Len(begun) ELSE CHOOSE n \in known : TRUE
        grown == [begun EXCEPT ![i].data = Append(@, file.name)]
        whole == Len(grown[i].data) >= file.size
        over  == file.size > MaxImageSize \/ Len(grown[i].data) > MaxImageSize
        full  == known = {} /\ Len(uploads) >= MaxInFlight
    IN  /\ store.generation < MaxStamp
        /\ uploads' = IF over THEN SelectSeq(uploads, LAMBDA u : u.name # file.name)
                      ELSE IF full THEN uploads
                      ELSE IF whole THEN RemoveAt(begun, i) ELSE grown
        /\ IF ~over /\ ~full /\ whole /\ grown[i].inline /\ decodes
           THEN PlaceUpload(SubSeq(grown[i].data, 1, file.size))
           ELSE UNCHANGED <<store, textures, renders, nextIterm>>
        /\ UNCHANGED <<cursor, history, dropped, offset, sending, broken>>

\* An upload without a declared size is whole at once and never in flight.
ItermSingle(name, inline, decodes) ==
    /\ store.generation < MaxStamp
    /\ IF inline /\ decodes THEN PlaceUpload(<<name>>) ELSE UNCHANGED <<store, textures, renders, nextIterm>>
    /\ UNCHANGED <<uploads, cursor, history, dropped, offset, sending, broken>>

---------------------------------------------------------------------------
(* The terminal and the user *)

\* refresh_graphics_context after each pump: the history never exceeds its limit, so
\* the boundary it prunes at stays at the first line.
Refreshed(s, lines) == PruneHistory(s, IF lines > MaxLines THEN lines - MaxLines ELSE 0)

\* One line feed of the child; at the bottom a row moves to the history, which drops
\* its oldest at the limit.  A scrolled viewport follows growth.
LineFeed ==
    /\ dropped + history < MaxFeeds
    /\ IF cursor.y < Rows - 1
       THEN cursor' = [cursor EXCEPT !.y = @ + 1] /\ UNCHANGED <<history, dropped, offset>>
       ELSE /\ history' = Lower(history + 1, MaxLines)
            /\ dropped' = dropped + history + 1 - history'
            /\ offset' = IF offset = 0 THEN 0 ELSE Lower(offset + history' - history, history')
            /\ UNCHANGED cursor
    /\ store' = Refreshed(store, history')
    /\ UNCHANGED <<textures, renders, uploads, nextIterm, sending, broken>>

\* The user scrolls by one line.
ScrollUp ==
    /\ offset' = Lower(offset + 1, history) /\ offset' # offset
    /\ UNCHANGED <<store, textures, renders, uploads, nextIterm, cursor, history, dropped, sending, broken>>

ScrollDown ==
    /\ offset > 0 /\ offset' = offset - 1
    /\ UNCHANGED <<store, textures, renders, uploads, nextIterm, cursor, history, dropped, sending, broken>>

\* ED 3 erases the history.
EraseHistory ==
    /\ history > 0
    /\ dropped' = dropped + history /\ history' = 0 /\ offset' = 0
    /\ store' = Refreshed(store, 0)
    /\ UNCHANGED <<textures, renders, uploads, nextIterm, cursor, sending, broken>>

\* The placements on screen, in the order they are painted.
Visible ==
    LET top == Context.top IN
    {k \in DOMAIN store.placements :
        LET p == store.placements[k] IN
        ~p.virtual /\ p.row + p.height > top /\ p.row < top + Rows}

PaintOrder(k, l) ==
    LET p == store.placements[k] q == store.placements[l] IN
    \/ p.z < q.z
    \/ p.z = q.z /\ k[2][1] = "internal" /\ l[2][1] = "external"
    \/ p.z = q.z /\ k[2][1] = l[2][1] /\ k[2][2] < l[2][2]
    \/ p.z = q.z /\ k[2] = l[2] /\ k[1] < l[1]

\* Painting looks each texture up, which makes it the most recently used.
Touch(t, key) == SelectSeq(t, LAMBDA e : e.key # key) \o SelectSeq(t, LAMBDA e : e.key = key)

Paint ==
    LET order == SetToSortSeq(Visible, PaintOrder)
    IN  /\ textures' = FoldLeft(LAMBDA t, k : Touch(t, <<k[1], store.images[k[1]].generation>>),
                                textures, order)
        /\ textures' # textures
        /\ UNCHANGED <<store, renders, uploads, nextIterm, cursor, history, dropped, offset, sending, broken>>

Next ==
    \/ \E cmd \in KittyStarts, lost \in BOOLEAN : KittyStart(cmd, lost)
    \/ \E more, lost \in BOOLEAN : KittyChunk(more, lost)
    \/ \E d \in KittyDisplays : KittyDisplay(d)
    \/ \E d \in KittyDeletes : KittyDelete(d)
    \/ \E file \in ItermFiles, decodes \in BOOLEAN : ItermFragment(file, decodes)
    \/ \E file \in ItermFiles, decodes \in BOOLEAN : ItermSingle(file.name, file.inline, decodes)
    \/ LineFeed
    \/ ScrollUp
    \/ ScrollDown
    \/ EraseHistory
    \/ Paint

Spec == Init /\ [][Next]_vars

---------------------------------------------------------------------------
(* Properties *)

\* The accounts of the store hold whatever was sent, replaced, evicted or deleted: the
\* bytes it counts are the bytes of its images and within the budget, an image counts
\* exactly its placements, no placement outlives its image (ImageStore).
AccountsBalance ==
    /\ store.total = SumLen(store, DOMAIN store.images)
    /\ store.total <= TotalLimit
    /\ Cardinality(DOMAIN store.placements) <= MaxPlacements
    /\ \A k \in DOMAIN store.placements : k[1] \in DOMAIN store.images
    /\ \A id \in DOMAIN store.images :
          store.images[id].placed = Cardinality(PlacementsOf(store, id))

\* What is drawn is what the store holds: every render image belongs to a resident
\* image of the same generation and shows its payload, and the texture cache has an
\* entry for it, within both budgets (sync_textures, TextureCache).
DrawsTheStore ==
    /\ \A k \in DOMAIN renders :
          /\ k[1] \in DOMAIN store.images
          /\ store.images[k[1]].generation = k[2]
          /\ store.images[k[1]].data = renders[k]
    /\ {e.key : e \in ToSet(textures)} = DOMAIN renders
    /\ TotalBytes(textures) <= TextureBytes
    /\ Len(textures) <= TextureEntries

\* An image has the payload its dimensions call for, and all of it from one
\* transmission, although chunks are lost or refused and other commands and uploads come
\* in between (load_and_add_image, ItermUploads::feed).  The exception: a transmission
\* whose last chunk was lost, or that another one began in the middle of, leaves its load
\* open, and its image is made of whatever comes next.
ImagesAreWhole ==
    \A id \in DOMAIN store.images :
        LET data == store.images[id].data IN
        /\ Len(data) = store.images[id].want
        /\ Cardinality(ToSet(data)) = 1 \/ data[1] \in broken

\* The store's books and its images are in order.
StoreIsSound == AccountsBalance /\ ImagesAreWhole

\* Making room never takes an image that is on show while one that is not would do:
\* when a step removes a placed image that no delete names and no upload replaces,
\* every image that stays, except the one that needs the room, is placed too
\* (evict_image_except).
UnusedGoFirst ==
    [][\A id \in DOMAIN store.images \ DOMAIN store'.images, j \in DOMAIN store.images \cap DOMAIN store'.images :
          (/\ DOMAIN store'.images \ DOMAIN store.images # {}
           /\ store.images[id].placed > 0
           /\ store.images[j].generation = store'.images[j].generation)
              => store.images[j].placed > 0]_vars

=============================================================================
