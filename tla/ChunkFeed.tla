------------------------------ MODULE ChunkFeed ------------------------------
(***************************************************************************)
(* One byte stream, cut into chunks anywhere: the way from a pane's output *)
(* chunk to the engine (protocol.rs), with its two shortcuts for plain     *)
(* text, the scanner that takes OSC, APC and DCS strings out, the probe    *)
(* for CSI 16 t and the vte parser behind them; and, on the same bytes,    *)
(* the pane's two taps for images (pane.rs, apc.rs).                       *)
(*                                                                         *)
(* A byte is one of                                                        *)
(*   "t" "G" "[" "]" "_" "P" "\\"    printable, with the part they play in *)
(*                                   sequences;                            *)
(*   "16t" "31m" "0m" "1337;"        several printable bytes never cut     *)
(*   "?2026h" "?2026l"               apart, most of which the code looks   *)
(*                                   for as a whole;                       *)
(*   "ESC" "BEL" "CAN" "LF"          controls;                             *)
(*   "ST" "OSC" "APC"                0x9c, 0x9d and 0x9f: strings' 8-bit   *)
(*                                   controls, and continuation bytes too; *)
(*   "lead" "cont"                   a 2-byte character's first byte, and  *)
(*                                   a continuation byte above 0x9f.       *)
(*                                                                         *)
(* Left out: the size limits of the strings and of a synchronized update   *)
(* (2 MiB); what a command does (the log names it).                        *)
(***************************************************************************)
EXTENDS Integers, Sequences, SequencesExt

CONSTANTS
  Whole,       \* pieces of output: text, sequences, strings with their ends
  LookAlikes,  \* characters whose second byte is an 8-bit control's value
  Unfinished,  \* strings that another piece cuts short
  Updates,     \* synchronized updates with plain text in them, ended or not
  MaxPieces    \* bound: pieces of a stream

VARIABLES
  pieces,      \* what the program writes
  pos,         \* how many bytes of it have been fed
  pane         \* the pane's parsers, see New

vars == <<pieces, pos, pane>>

Printable    == {"t", "G", "[", "]", "_", "P", "\\", "16t", "31m", "0m", "1337;", "?2026h", "?2026l"}
Continuation == {"cont", "ST", "OSC", "APC"}
CSI16        == <<"ESC", "[", "16t">>
Pair         == <<"ESC", "[", "31m", "ESC", "[", "0m">>

New == [scan |-> "ground", utf8 |-> FALSE,      \* Scanner, one continuation byte to come
        body |-> <<>>,                          \* the payload of the open string
        vte |-> "ground", partial |-> FALSE,    \* vte's Parser, a lead byte kept
        sync |-> FALSE, held |-> <<>>,          \* a synchronized update, its bytes
        pen |-> "plain", log |-> <<>>,          \* what the engine was told, in order
        prefix |-> 0, probe |-> 0,              \* vte_prefix_state, csi16_probe_len
        tap |-> "ground", tapped |-> <<>>,      \* Osc1337Tap
        apc |-> "ground", payload |-> <<>>]     \* apc::Scanner with its Handler

Told(e, event) == [e EXCEPT !.log = Append(@, event)]
Printed(e, c)  == Told(e, <<"print", c, e.pen>>)

-----------------------------------------------------------------------------
(* vte, byte by byte; its bulk paths do the same *)

CsiDispatch(e, b) ==
  CASE b = "31m"    -> [e EXCEPT !.pen = "red"]
    [] b = "0m"     -> [e EXCEPT !.pen = "plain"]
    [] b = "?2026h" -> [e EXCEPT !.sync = TRUE]
    [] b = "?2026l" -> e
    [] OTHER        -> Told(e, <<"csi", b>>)

\* A byte in ground state, no character begun.
VteGround(e, b) ==
  CASE b = "ESC"                -> [e EXCEPT !.vte = "esc"]
    [] b = "lead"               -> [e EXCEPT !.partial = TRUE]
    [] b = "cont"               -> Printed(e, "?")
    [] b \in Printable          -> Printed(e, b)
    [] OTHER                    -> Told(e, <<"execute", b>>)

\* The second byte of a character, or one that cannot be: a replacement
\* character, and the byte is taken anew.
VteSecond(e, b) ==
  LET whole == [e EXCEPT !.partial = FALSE]
  IN  IF b \in Continuation THEN Printed(whole, <<"lead", b>>)
      ELSE VteGround(Printed(whole, "?"), b)

VteEscape(e, b) ==
  CASE b = "["       -> [e EXCEPT !.vte = "csi"]
    [] b = "CAN"     -> [Told(e, <<"execute", b>>) EXCEPT !.vte = "ground"]
    [] b \in {"BEL", "LF"} -> Told(e, <<"execute", b>>)
    [] b \in Printable \ {"["} -> [Told(e, <<"esc", b>>) EXCEPT !.vte = "ground"]
    [] OTHER         -> e

VteCsi(e, b) ==
  CASE b = "ESC"                  -> [e EXCEPT !.vte = "esc"]
    [] b = "CAN"                  -> [Told(e, <<"execute", b>>) EXCEPT !.vte = "ground"]
    [] b \in {"BEL", "LF"}        -> Told(e, <<"execute", b>>)
    [] b \in Printable \ {"1337;"} -> [CsiDispatch(e, b) EXCEPT !.vte = "ground"]
    [] OTHER                      -> e

\* What Starts sends for a string: whatever had begun ends.
VteString(e) ==
  [IF e.partial THEN Printed(e, "?") ELSE e EXCEPT !.partial = FALSE, !.vte = "ground"]

Parse(e, b) ==
  CASE b = "string"                                    -> VteString(e)
    [] b # "string" /\ e.partial                       -> VteSecond(e, b)
    [] b # "string" /\ ~e.partial /\ e.vte = "ground"  -> VteGround(e, b)
    [] b # "string" /\ ~e.partial /\ e.vte = "esc"     -> VteEscape(e, b)
    [] b # "string" /\ ~e.partial /\ e.vte = "csi"     -> VteCsi(e, b)

\* stop_sync_internal: what the update held back is parsed.
StopSync(e) ==
  [FoldLeft(Parse, [e EXCEPT !.held = <<>>], e.held) EXCEPT !.sync = FALSE]

\* Processor::advance: an update holds every byte until exactly ESC [ ?2026l.
Vte(e, b) ==
  LET holding == [e EXCEPT !.held = Append(@, b)]
  IN  IF ~e.sync THEN Parse(e, b)
      ELSE IF IsSuffix(<<"ESC", "[", "?2026l">>, holding.held) THEN StopSync(holding)
      ELSE holding

AdvanceVte(e, bytes) == FoldLeft(Vte, e, bytes)

-----------------------------------------------------------------------------
(* The engine's scanner and the strings it takes out *)

InString(e)      == e.scan \notin {"ground", "escape"}
CanFastStream(e) == e.scan = "ground" /\ ~e.utf8

\* A string begins: vte is sent a short string of its own.
Starts(e, kind) == [Vte(e, "string") EXCEPT !.scan = kind, !.body = <<>>]

\* osc_end, apc_end, dcs_end: an aborted string is a command like any other,
\* an APC only if it is a kitty one.
Ends(e, kind, how) ==
  LET ended == [e EXCEPT !.scan = "ground", !.body = <<>>]
  IN  CASE kind = "osc" -> Told(ended, <<how, e.body>>)
        [] kind = "apc" -> IF e.body # <<>> /\ e.body[1] = "G"
                             THEN Told(ended, <<"apc", Tail(e.body)>>) ELSE ended
        [] kind = "dcs" -> IF e.body # <<>> THEN Told(ended, <<"dcs", e.body>>) ELSE ended

Kind(scan) == CASE scan \in {"osc", "oscEscape"} -> "osc"
                [] scan \in {"apc", "apcEscape"} -> "apc"
                [] scan \in {"dcs", "dcsEscape"} -> "dcs"

\* A byte of a string: Scanner::next and the string's arm of feed_scanned.
StringByte(e, b) ==
  LET kind == Kind(e.scan) IN
  CASE e.scan # kind -> Ends(e, kind, IF b = "\\" THEN "osc" ELSE "oscAborted")
    [] e.scan = kind /\ b = "ESC" ->
         [e EXCEPT !.scan = CASE kind = "osc" -> "oscEscape"
                              [] kind = "apc" -> "apcEscape"
                              [] kind = "dcs" -> "dcsEscape"]
    [] e.scan = kind /\ (b = "ST" \/ (b = "BEL" /\ kind = "osc")) -> Ends(e, kind, "osc")
    [] e.scan = kind /\ b \in {"CAN", "OSC", "APC"}               -> Ends(e, kind, "oscAborted")
    [] OTHER -> [e EXCEPT !.body = Append(@, b)]

Introduces(b) == b \in {"]", "_", "P"}
Opens(b) == CASE b \in {"]", "OSC"} -> "osc" [] b \in {"_", "APC"} -> "apc" [] b = "P" -> "dcs"

\* A byte outside a string; an ESC is kept back until the next byte is known.
StreamByte(e, b) ==
  CASE e.scan = "escape" /\ Introduces(b) -> Starts(e, Opens(b))
    [] e.scan = "escape" /\ b = "ESC"     -> Vte(e, "ESC")
    [] e.scan = "escape" /\ ~Introduces(b) /\ b # "ESC" ->
         AdvanceVte([e EXCEPT !.scan = "ground"], <<"ESC", b>>)
    [] e.scan = "ground" /\ e.utf8 /\ b \in Continuation ->
         Vte([e EXCEPT !.utf8 = FALSE], b)
    [] e.scan = "ground" /\ ~(e.utf8 /\ b \in Continuation) ->
         LET plain == [e EXCEPT !.utf8 = b = "lead"] IN
         CASE b = "ESC"            -> [plain EXCEPT !.scan = "escape"]
           [] b \in {"OSC", "APC"} -> Starts(plain, Opens(b))
           [] OTHER                -> Vte(plain, b)

\* The whole piece holds no introducer, nor an ESC as its last byte: the count
\* of continuation bytes tells a character's second byte from a control.
Direct(e, bytes) ==
  /\ e.scan = "ground"
  /\ \A i \in DOMAIN bytes :
       /\ bytes[i] = "ESC" => i < Len(bytes) /\ ~Introduces(bytes[i + 1])
       /\ bytes[i] \in {"OSC", "APC"} =>
            IF i = 1 THEN e.utf8 ELSE bytes[i - 1] = "lead"

FeedScanned(e, bytes) ==
  IF bytes = <<>> THEN e
  ELSE IF Direct(e, bytes)
    THEN [AdvanceVte(e, bytes) EXCEPT !.utf8 = Last(bytes) = "lead"]
    ELSE FoldLeft(LAMBDA f, b : IF InString(f) THEN StringByte(f, b) ELSE StreamByte(f, b),
                  e, bytes)

-----------------------------------------------------------------------------
(* TerminalProtocol::feed *)

\* track_vte_prefix: 0 ground, 1 ESC, 2 CSI.
TrackPrefix(state, bytes) ==
  FoldLeft(LAMBDA s, b :
             CASE b = "CAN"                        -> 0
               [] b = "ESC"                        -> 1
               [] s = 1 /\ b = "["                 -> 2
               [] s = 1 /\ b \in Printable \ {"["} -> 0
               [] s = 2 /\ b \in Printable \ {"1337;"} -> 0
               [] OTHER                            -> s,
           state, bytes)

AtRest(e) == e.probe = 0 /\ e.prefix = 0 /\ ~InString(e) /\ CanFastStream(e)

\* try_feed_paired_sgr_text: text and "red, plain" pairs, at least one pair.
PairAt(bytes, i) == i + 5 <= Len(bytes) /\ SubSeq(bytes, i, i + 5) = Pair

PairedText(bytes) ==
  /\ \E i \in DOMAIN bytes : PairAt(bytes, i)
  /\ \A i \in DOMAIN bytes :
       \/ \E k \in 0..5 : i > k /\ PairAt(bytes, i - k)
       \/ bytes[i] \in Printable
       \/ bytes[i] = "lead" /\ (i < Len(bytes) => bytes[i + 1] \in Continuation)
       \/ bytes[i] \in Continuation /\ i > 1 /\ bytes[i - 1] = "lead"

\* The pairs set the plain pen.  The text between them goes to the engine past
\* vte, unless it ends inside a character.
FeedPaired(e, bytes) ==
  LET cut(i) == Last(bytes) = "lead" /\ ~\E j \in i..Len(bytes) : PairAt(bytes, j)
      text(f, i) ==
        CASE PairAt(bytes, i) -> [f EXCEPT !.pen = "plain"]
          [] \E k \in 1..5 : i > k /\ PairAt(bytes, i - k) -> f
          [] OTHER -> IF cut(i) THEN Vte(f, bytes[i]) ELSE Parse(f, bytes[i])
  IN  [FoldLeft(text, e, [i \in DOMAIN bytes |-> i]) EXCEPT !.utf8 = Last(bytes) = "lead"]

PlainAscii(bytes) == \A i \in DOMAIN bytes : bytes[i] \in Printable \cup {"LF"}

InputPlainAscii(e, bytes) ==
  FoldLeft(LAMBDA f, b : IF b = "LF" THEN Told(f, <<"execute", b>>) ELSE Printed(f, b), e, bytes)

ReportSize(e) == Told(e, <<"report">>)

\* Where the next CSI 16 t begins in bytes, 0 if it does not.
Candidate(bytes) ==
  SelectInSeq([i \in DOMAIN bytes |-> i + 2 <= Len(bytes) /\ SubSeq(bytes, i, i + 2) = CSI16],
              LAMBDA found : found)

\* How many bytes at the end may be the beginning of one.
SuffixLen(bytes) ==
  CASE IsSuffix(SubSeq(CSI16, 1, 2), bytes) -> 2
    [] Last(bytes) = "ESC"                  -> 1
    [] OTHER                                -> 0

\* The loop of feed over what is left of the chunk.
RECURSIVE FeedRest(_, _)
FeedRest(e, rest) ==
  IF rest = <<>> THEN e
  ELSE IF e.probe # 0 THEN
    IF rest[1] = CSI16[e.probe + 1] THEN
      FeedRest(IF e.probe = 2 THEN ReportSize([e EXCEPT !.probe = 0])
                              ELSE [e EXCEPT !.probe = @ + 1], Tail(rest))
    ELSE
      LET given == FeedScanned([e EXCEPT !.probe = 0], SubSeq(CSI16, 1, e.probe))
      IN  IF rest[1] = "ESC" THEN FeedRest(given, rest)
          ELSE FeedRest(FeedScanned(given, <<rest[1]>>), Tail(rest))
  ELSE IF InString(e) THEN FeedRest(FeedScanned(e, <<rest[1]>>), Tail(rest))
  ELSE IF Candidate(rest) # 0 THEN
    LET before == FeedScanned(e, SubSeq(rest, 1, Candidate(rest) - 1))
    IN  IF InString(before) THEN FeedRest(before, SubSeq(rest, Candidate(rest), Len(rest)))
        ELSE FeedRest(ReportSize([before EXCEPT !.utf8 = FALSE]),
                      SubSeq(rest, Candidate(rest) + 3, Len(rest)))
  ELSE
    LET bulk   == Len(rest) - SuffixLen(rest)
        before == FeedScanned(e, SubSeq(rest, 1, bulk))
    IN  IF bulk > 0 /\ InString(before) THEN FeedRest(before, SubSeq(rest, bulk + 1, Len(rest)))
        ELSE IF SuffixLen(rest) = 0 THEN before
        ELSE [before EXCEPT !.utf8 = FALSE, !.probe = SuffixLen(rest)]

Feed(e, bytes) ==
  IF AtRest(e) /\ PairedText(bytes) THEN FeedPaired(e, bytes)
  ELSE IF AtRest(e) /\ PlainAscii(bytes) THEN InputPlainAscii(e, bytes)
  ELSE FeedRest([e EXCEPT !.prefix = TrackPrefix(@, bytes)], bytes)

-----------------------------------------------------------------------------
(* feed_chunk_scanned: the taps see every byte, the engine gets them in runs *)

\* Osc1337Tap::next; a payload that ended with something after "1337;" is
\* ingested, an aborted one is not.
Tap(state, b) ==
  CASE state = "ground" /\ b = "OSC"      -> "osc"
    [] state = "ground" /\ b = "ESC"      -> "escape"
    [] state = "escape" /\ b = "]"        -> "osc"
    [] state = "escape" /\ b = "ESC"      -> "escape"
    [] state = "osc" /\ b = "ESC"         -> "oscEscape"
    [] state = "osc" /\ b \notin {"ESC", "BEL", "ST", "CAN", "OSC", "APC"} -> "osc"
    [] state = "oscEscape" /\ b = "OSC"   -> "osc"
    [] state = "oscEscape" /\ b = "ESC"   -> "escape"
    [] OTHER                              -> "ground"

TapEnds(state, b) == (state = "osc" /\ b \in {"BEL", "ST"}) \/ (state = "oscEscape" /\ b = "\\")

\* apc::Scanner::next, ESC _ and ESC \ as in the engine's.
ScanApc(state, b) ==
  CASE state = "ground" /\ b = "APC"  -> "apc"
    [] state = "ground" /\ b = "ESC"  -> "escape"
    [] state = "escape" /\ b = "_"    -> "apc"
    [] state = "escape" /\ b = "ESC"  -> "escape"
    [] state = "apc" /\ b = "ESC"     -> "apcEscape"
    [] state = "apc" /\ b \notin {"ESC", "ST", "CAN", "OSC", "APC"} -> "apc"
    [] OTHER                          -> "ground"

\* A byte read by both taps: [pane, run], run being the bytes not yet given to
\* the engine.
Flush(f) == [pane |-> Feed(f.pane, f.run), run |-> <<>>]

TapOsc(f, b) ==
  LET p     == f.pane
      next  == Tap(p.tap, b)
      read  == [f EXCEPT !.pane.tap    = next,
                         !.pane.tapped = IF next = "osc" /\ p.tap = "osc" THEN Append(@, b)
                                         ELSE IF next = "oscEscape" THEN @ ELSE <<>>]
      value == p.tapped
  IN  IF TapEnds(p.tap, b) /\ Len(value) > 1 /\ value[1] = "1337;"
        THEN LET done == Flush(read)
             IN  [done EXCEPT !.pane = Told(@, <<"iterm", value>>)]
        ELSE read

\* Mutant: an APC is ingested before the bytes up to its end are fed.
TapApcUnflushed(f, b) ==
  LET p    == f.pane
      next == ScanApc(p.apc, b)
      read == [f EXCEPT !.pane.apc     = next,
                        !.pane.payload = IF next = "apc" /\ p.apc = "apc" THEN Append(@, b)
                                         ELSE IF next = "apcEscape" THEN @ ELSE <<>>]
      ends == p.apc \in {"apc", "apcEscape"} /\ next = "ground"
  IN  IF ends /\ p.payload # <<>> /\ p.payload[1] = "G"
        THEN [read EXCEPT !.pane = Told(@, <<"kitty", Tail(p.payload)>>)] ELSE read

TapApc(f, b) ==
  LET p    == f.pane
      next == ScanApc(p.apc, b)
      read == [f EXCEPT !.pane.apc     = next,
                        !.pane.payload = IF next = "apc" /\ p.apc = "apc" THEN Append(@, b)
                                         ELSE IF next = "apcEscape" THEN @ ELSE <<>>]
  IN  CASE next = "apc" /\ p.apc # "apc" -> Flush(read)
        [] p.apc \in {"apc", "apcEscape"} /\ next = "ground" ->
             LET done == Flush(read)
             IN  IF p.payload # <<>> /\ p.payload[1] = "G"
                   THEN [done EXCEPT !.pane = Told(@, <<"kitty", Tail(p.payload)>>)]
                   ELSE done
        [] OTHER -> read

FeedChunkScanned(p, chunk) ==
  Flush(FoldLeft(LAMBDA f, b : TapApc(TapOsc([f EXCEPT !.run = Append(@, b)], b), b),
                 [pane |-> p, run |-> <<>>], chunk)).pane

-----------------------------------------------------------------------------
Stream == FlattenSeq(pieces)

Init ==
  /\ pieces \in UNION {[1..n -> Whole \cup LookAlikes \cup Unfinished \cup Updates] : n \in 1..MaxPieces}
  /\ pos = 0
  /\ pane = New

\* One output chunk, of any length.
FeedChunk ==
  \E end \in pos + 1 .. Len(Stream) :
    /\ pane' = FeedChunkScanned(pane, SubSeq(Stream, pos + 1, end))
    /\ pos' = end
    /\ UNCHANGED pieces

Next == FeedChunk

Spec == Init /\ [][Next]_vars

-----------------------------------------------------------------------------
\* However the output is cut into chunks, what the engine and the overlay are
\* told, and in which order, is what they would be told of the same output in
\* one chunk (the terminal's own test takes one text and two chunks, lib.rs
\* every_split_matches_whole_stream).  Synchronized updates are among the
\* output, as long as their text is not plain.
AsOneChunk == pane.log = FeedChunkScanned(New, SubSeq(Stream, 1, pos)).log
ChunksDoNotMatter == ToSet(pieces) \cap Updates = {} => AsOneChunk

\* The same with plain text in the updates: vte's processor, which holds them
\* back, is the authority on what is printed when (protocol.rs:313-315).
UpdatesKeepOrder == ToSet(pieces) \subseteq Whole \cup Updates => AsOneChunk

\* The engine and the taps read the bytes twice, with state machines of their
\* own.  On output whose strings are finished each image command the engine
\* takes out of the stream is ingested, right after the engine has taken it,
\* with the same payload; and nothing else is ingested.
Agree(log) ==
  \A i \in DOMAIN log :
    /\ log[i][1] = "apc" => i < Len(log) /\ log[i + 1] = <<"kitty", log[i][2]>>
    /\ log[i][1] = "kitty" => i > 1 /\ log[i - 1] = <<"apc", log[i][2]>>
    /\ log[i][1] = "osc" /\ Len(log[i][2]) > 1 /\ log[i][2][1] = "1337;" =>
         i < Len(log) /\ log[i + 1] = <<"iterm", log[i][2]>>
    /\ log[i][1] = "iterm" => i > 1 /\ log[i - 1] = <<"osc", log[i][2]>>

TapsAgree == ToSet(pieces) \subseteq Whole => Agree(pane.log)

OutputIsReadAlike == ChunksDoNotMatter /\ TapsAgree

\* The same where the text has characters such as a sharp s (0xc3 0x9f).
TapsAgreeOnText == ToSet(pieces) \subseteq Whole \cup LookAlikes => Agree(pane.log)
=============================================================================
