---------------------------- MODULE PromptScreen ---------------------------
(***************************************************************************)
(* The visible draft of a Codex session, read off its pane:                *)
(* read_source_visible_pane in src/src/tmux.rs, the styled grid of         *)
(* src/src/visible_pane.rs and the layout parser of                        *)
(* src/src/codex_prompt.rs.                                                *)
(*                                                                         *)
(* Three tmux commands read the pane: its metadata, its styled rows, its   *)
(* metadata again.  Codex goes on drawing between them, one row after the  *)
(* other.  The parser has only the rows to tell a draft from a             *)
(* placeholder, a dialog, a shell command or the transcript.               *)
(***************************************************************************)
EXTENDS Naturals, Sequences, FiniteSets, SequencesExt

CONSTANTS
  Opening,  \* views the pane may show when the reads begin
  Later,    \* views Codex may draw afterwards
  Width,    \* cells in a row of the pane
  MaxText,  \* MAX_CODEX_PROMPT_BYTES, in tokens
  MaxDraws  \* bound: views drawn while the pane is read

ASSUME WidthHoldsMargin == Width \in Nat /\ Width > 2
ASSUME MaxTextIsNat == MaxText \in Nat
ASSUME MaxDrawsIsNat == MaxDraws \in Nat

\* What the cells of a row say.  "glyph" is `› ` or `» `, "margin" two spaces;
\* both are two cells wide, all others count as one.  Tokens side by side in a
\* footer are segments with ` · ` between them.
Segment == {"context", "model", "path", "count", "state", "git", "identity",
            "opaque", "cut", "none"}
Token == {"glyph", "margin", "bang", "space", "a", "b", "hint", "left", "indicator"}
         \cup Segment
Pen == {"plain", "faint", "green", "link"}
Cell == Token \X Pen

Paint(tokens, pen) == [i \in 1 .. Len(tokens) |-> <<tokens[i], pen>>]
Tokens(row) == [i \in 1 .. Len(row) |-> row[i][1]]
CellsOf(token) == IF token \in {"glyph", "margin"} THEN 2 ELSE 1

\* UnicodeWidthStr::width of a row: only the first token may be wide.
WidthOf(tokens) ==
  IF tokens = <<>> THEN 0 ELSE CellsOf(Head(tokens)) + Len(tokens) - 1
----------------------------------------------------------------------------
(* What Codex draws: external.                                             *)

\* A view: what is above the composer, the first token of its first row, its
\* text row by row (an empty one shows a placeholder), how it is painted, where
\* the cursor is (row of the text, token of the row), the blank rows below, the
\* bottom rows, and whether the pane is in copy mode.
View == [above : Seq(Seq(Cell)), lead : {"glyph", "bang"},
         text : Seq(Seq(Token)), pen : Pen, cursor : Nat \X Nat,
         inset : Nat, bottom : Seq(Seq(Token)),
         kind : {"composer", "shell", "dialog"}, mode : BOOLEAN]

Placeholder == <<"a">>
IsEmpty(v) == v.text = <<>>

\* The rows of the text: the lead before the first, a margin before the others.
TextRows(v) ==
  IF IsEmpty(v) THEN << <<<<v.lead, "plain">>>> \o Paint(Placeholder, "faint") >>
  ELSE [i \in 1 .. Len(v.text) |->
          IF i = 1 THEN <<<<v.lead, "plain">>>> \o Paint(v.text[i], v.pen)
          ELSE IF v.text[i] = <<>> THEN <<>>
          ELSE <<<<"margin", "plain">>>> \o Paint(v.text[i], v.pen)]

RowsOf(v) ==
  v.above \o TextRows(v) \o [i \in 1 .. v.inset |-> <<>>]
    \o [i \in 1 .. Len(v.bottom) |-> Paint(v.bottom[i], "faint")]

CursorOf(v) ==
  [x |-> 2 + (IF IsEmpty(v) THEN 0 ELSE v.cursor[2]),
   y |-> Len(v.above) + (IF IsEmpty(v) THEN 1 ELSE v.cursor[1])]

Views == Opening \cup Later

\* A row like that of an empty composer: a glyph and, behind it, faint cells only.
LooksEmpty(row) ==
  /\ Len(row) > 1 /\ row[1][1] = "glyph" /\ row[1][2] # "faint"
  /\ \A x \in 2 .. Len(row) : row[x][2] = "faint"

\* What the parser relies on.  The cursor is in the text; the first row of a text
\* tells a shell command from the rest; below a composer there is something; and
\* nothing but a composer looks like an empty one.
ASSUME ViewsAreViews == Views \subseteq View
ASSUME RowsFitThePane ==
  \A v \in Views : \A y \in 1 .. Len(RowsOf(v)) : WidthOf(Tokens(RowsOf(v)[y])) <= Width
ASSUME CursorIsInTheText ==
  \A v \in Views : ~IsEmpty(v) =>
    v.cursor[1] \in 1 .. Len(v.text) /\ v.cursor[2] \in 0 .. Len(v.text[v.cursor[1]])
ASSUME LeadTellsShells ==
  \A v \in Views : v.lead = IF v.kind = "shell" THEN "bang" ELSE "glyph"
ASSUME ComposersHaveABottom ==
  \A v \in Views : v.kind = "composer" => \E i \in 1 .. Len(v.bottom) : v.bottom[i] # <<>>
ASSUME OnlyComposersLookEmpty ==
  \A v \in Views :
    /\ \A y \in 1 .. Len(v.above) : ~LooksEmpty(v.above[y])
    /\ v.kind = "dialog" => ~IsEmpty(v) /\ v.pen # "faint"
----------------------------------------------------------------------------
(* tmux: external.                                                         *)

VARIABLES
  old, new,  \* the view being replaced and the one that replaces it
  drawn,     \* rows of it drawn so far; one more for the cursor
  draws,     \* views drawn so far
  pc,        \* the next of the three reads
  before,    \* the metadata read first
  result,    \* what the rows that were read say
  shown      \* history: the views the rows were read from

pane == <<old, new, drawn, draws>>
vars == <<pane, pc, before, result, shown>>

Height == Len(RowsOf(new))
Whole == drawn = Height + 1

\* The pane has the height of the new view from the start.  A row is drawn at
\* once; capture-pane can come between any two.
Screen ==
  [i \in 1 .. Height |->
     IF i <= drawn THEN RowsOf(new)[i]
     ELSE IF i <= Len(RowsOf(old)) THEN RowsOf(old)[i] ELSE <<>>]

\* While a view is drawn the cursor is behind what was drawn last.
Cursor ==
  IF Whole THEN CursorOf(new)
  ELSE IF drawn = 0 THEN CursorOf(old)
  ELSE [x |-> WidthOf(Tokens(RowsOf(new)[drawn])), y |-> drawn]

\* display-message of VISIBLE_PANE_METADATA_FORMAT
Metadata == [height |-> Height, cursor |-> Cursor, mode |-> new.mode]

\* The SGR sequences tmux sends between two pens: attributes first, colours in
\* sequences of their own.  A hyperlink is an escape sequence that is no SGR.
NoSgr == 1000
Change(from, to) ==
  CASE from = to -> <<>>
    [] from # to /\ "link" \in {from, to} -> << <<NoSgr>> >>
    [] from = "faint" /\ to = "plain" -> << <<0>> >>
    [] from = "green" /\ to = "plain" -> << <<39>> >>
    [] from = "plain" /\ to = "faint" -> << <<2>> >>
    [] from = "green" /\ to = "faint" -> << <<2>>, <<39>> >>
    [] from = "plain" /\ to = "green" -> << <<38, 5, 2>> >>
    [] from = "faint" /\ to = "green" -> << <<0>>, <<38, 5, 2>> >>

\* capture-pane -p -e -N -T: each cell with the sequences before it; the pen is
\* kept from row to row.
Styled(rows) ==
  LET pen[y \in 0 .. Len(rows)] ==
        IF y = 0 THEN "plain"
        ELSE IF rows[y] = <<>> THEN pen[y - 1] ELSE Last(rows[y])[2]
      from(y, x) == IF x = 1 THEN pen[y - 1] ELSE rows[y][x - 1][2]
  IN [y \in 1 .. Len(rows) |->
        [x \in 1 .. Len(rows[y]) |->
           [token |-> rows[y][x][1], codes |-> Change(from(y, x), rows[y][x][2])]]]
----------------------------------------------------------------------------
(* VisiblePaneGrid: rows of text with one bit of style.                    *)

\* consume_extended_color(): the numbers of a colour are not operations.
\* Wrong form: they are.
ExtendedColorIgnored(n) == 0
ExtendedColor(n) == IF n = 5 THEN 1 ELSE 3

\* An operation apply_sgr() does not know ends the decoding; tmux prints none.
ModeNext == 9
Operation(s, n) ==
  CASE n \in {0, 22} -> [s EXCEPT !.faint = FALSE]
    [] n = 2 -> [s EXCEPT !.faint = TRUE]
    [] n \in {38, 48, 58} -> [s EXCEPT !.skip = ModeNext]
    [] OTHER -> s

Parameter(s, n) ==
  IF s.skip = ModeNext THEN [s EXCEPT !.skip = ExtendedColor(n)]
  ELSE IF s.skip > 0 THEN [s EXCEPT !.skip = @ - 1]
  ELSE Operation(s, n)

\* apply_sgr(): is the pen faint behind the sequence?
ApplySgr(faint, parameters) ==
  LET s[i \in 0 .. Len(parameters)] ==
        IF i = 0 THEN [faint |-> faint, skip |-> 0] ELSE Parameter(s[i - 1], parameters[i])
  IN IF parameters = <<>> THEN FALSE ELSE s[Len(parameters)].faint

PenAfter(faint, codes) ==
  LET pen[i \in 0 .. Len(codes)] ==
        IF i = 0 THEN faint ELSE ApplySgr(pen[i - 1], codes[i])
  IN pen[Len(codes)]

\* append_ordinary(): the pen before a row and behind each of its cells.
PenAlong(faint, cells) ==
  LET pen[x \in 0 .. Len(cells)] ==
        IF x = 0 THEN faint ELSE PenAfter(pen[x - 1], cells[x].codes)
  IN pen

\* decode_styled_capture(): the pen is kept from row to row.
Decode(output) ==
  LET end[y \in 0 .. Len(output)] ==
        IF y = 0 THEN FALSE ELSE PenAlong(end[y - 1], output[y])[Len(output[y])]
      DecodeRow(cells, pen) ==
        [x \in 1 .. Len(cells) |-> [token |-> cells[x].token, faint |-> pen[x]]]
  IN [y \in 1 .. Len(output) |-> DecodeRow(output[y], PenAlong(end[y - 1], output[y]))]

Malformed(output) ==
  \E y \in 1 .. Len(output) : \E x \in 1 .. Len(output[y]) :
    \E i \in 1 .. Len(output[y][x].codes) : <<NoSgr>> = output[y][x].codes[i]

Text(row) == [x \in 1 .. Len(row) |-> row[x].token]

\* try_from_tmux_styled_capture(): as many rows as the metadata says, none of
\* them wider than the pane.
ValidGrid(metadata, output) ==
  /\ ~Malformed(output)
  /\ Len(output) = metadata.height
  /\ \A y \in 1 .. Len(output) : WidthOf(Text(output[y])) <= Width
----------------------------------------------------------------------------
(* The footer.                                                             *)

StartsWith(row, token) == row # <<>> /\ Head(row) = token

\* parse_positioned_footer_candidate(): the only row with text below the cursor,
\* not right below it, with a margin and no further indentation.
FooterRows(rows, y) ==
  {i \in y + 2 .. Len(rows) :
     /\ {j \in y + 1 .. Len(rows) : rows[j] # <<>>} = {i}
     /\ StartsWith(rows[i], "margin")
     /\ Len(rows[i]) > 1 /\ rows[i][2] # "space"}

\* parse_exact_instructional_footer(): a hint, the context that is left, or both.
IsInstructional(content) ==
  \/ content \in {<<"hint">>, <<"left">>}
  \/ /\ Len(content) > 2 /\ Head(content) = "hint" /\ Last(content) = "left"
     /\ \A i \in 2 .. Len(content) - 1 : content[i] = "space"

\* Wrong form: an indicator counts as part of the status.
StatusLeftZoneWhole(row) == Tail(row)

\* configured_status_left_zone(): an indicator is taken off only at the right
\* edge of the pane, with blanks between it and the status.
StatusLeftZone(row) ==
  LET content == Tail(row)
      end == Max({0} \cup {i \in 1 .. Len(content) - 1 : content[i] # "space"})
  IN IF /\ WidthOf(row) + 2 = Width /\ Last(content) = "indicator"
        /\ end > 0 /\ end < Len(content) - 1
     THEN SubSeq(content, 1, end)
     ELSE content

\* A segment that blanks separate from its neighbour is a longer one, unknown,
\* but for the ellipsis where it was cut.
SegmentsOf(zone) ==
  [i \in 1 .. Len(zone) |->
     IF zone[i] # "cut" /\ \E j \in {i - 1, i, i + 1} \cap DOMAIN zone : zone[j] = "space"
     THEN "opaque" ELSE zone[i]]

\* parse_weak_signal_family(): a model counts as one only behind the first place.
Family(segment, position) ==
  CASE segment = "model" /\ position > 1 -> {"Model"}
    [] segment = "path" -> {"Workspace"}
    [] segment = "count" -> {"Accounting"}
    [] segment = "state" -> {"Runtime"}
    [] segment = "git" -> {"Git"}
    [] segment = "identity" -> {"Identity"}
    [] OTHER -> {}

EnoughFamilies(families) == Cardinality(families) >= 2

\* parse_configured_footer(): only the last segment may be cut, and says nothing.
IsConfigured(row) ==
  LET segments == SegmentsOf(StatusLeftZone(row))
      evidence == IF Last(segments) = "cut" THEN Front(segments) ELSE segments
      places == DOMAIN evidence
  IN /\ \A i \in DOMAIN segments : segments[i] # "none"
     /\ \A i \in places : evidence[i] # "cut"
     /\ \/ \E i \in places :
             evidence[i] = "context" \/ (i = 1 /\ evidence[i] = "model")
        \/ EnoughFamilies(UNION {Family(evidence[i], i) : i \in places})

\* parse_supported_codex_footer()
IsSupported(rows, y) ==
  \E i \in FooterRows(rows, y) :
    IsInstructional(Tail(rows[i])) \/ IsConfigured(rows[i])

\* What the parser relies on: no dialog has such a footer below its cursor.
ASSUME DialogsHaveNoFooter ==
  \A v \in Views : v.kind = "dialog" =>
    ~IsSupported([y \in 1 .. Len(RowsOf(v)) |-> Tokens(RowsOf(v)[y])], CursorOf(v).y)
----------------------------------------------------------------------------
(* The composer: capture_visible_codex_prompt().                           *)

Absent == [kind |-> "absent", text |-> <<>>]
Captured(text) == [kind |-> "captured", text |-> text]
Skipped(why) == [kind |-> why, text |-> <<>>]
Failure == {"read_failed", "metadata_changed", "invalid_pane",
            "unsupported_layout", "size_overflow", "unsafe_text"}

\* The row of the prompt glyph, searched upward from the cursor past blank rows
\* and rows with a margin.
StartRows(rows, y) ==
  {k \in 1 .. y :
     /\ StartsWith(rows[k], "glyph")
     /\ \A j \in k + 1 .. y : rows[j] = <<>> \/ StartsWith(rows[j], "margin")}

\* faint_suffix_after_non_faint_prefix()
IsPlaceholder(row) ==
  Len(row) > 1 /\ ~row[1].faint /\ \A x \in 2 .. Len(row) : row[x].faint

\* The cursor is at the rendered end of its row.
AtEnd(row, x) == IF row = <<>> THEN x = 2 ELSE x # 2 /\ WidthOf(row) = x

SizeOf(text) ==
  FoldLeft(LAMBDA n, row : n + Len(row), Len(text) - 1, text)

IsBlank(text) ==
  \A i \in 1 .. Len(text) : \A j \in 1 .. Len(text[i]) : text[i][j] = "space"

Admit(text) ==
  IF SizeOf(text) > MaxText THEN Skipped("size_overflow")
  ELSE IF IsBlank(text) THEN Skipped("unsafe_text")
  ELSE Captured(text)

Visible(metadata, grid) ==
  LET rows == [y \in 1 .. Len(grid) |-> Text(grid[y])]
      x == metadata.cursor.x
      y == metadata.cursor.y
      start == CHOOSE k \in StartRows(rows, y) : TRUE
  IN IF \/ metadata.mode \/ metadata.height < 3 \/ y > metadata.height - 2
        \/ ~IsSupported(rows, y) \/ StartRows(rows, y) = {}
     THEN Skipped("unsupported_layout")
     ELSE IF start = y /\ x = 2
     THEN IF IsPlaceholder(grid[y]) THEN Absent ELSE Skipped("unsupported_layout")
     ELSE IF ~AtEnd(rows[y], x) THEN Skipped("unsupported_layout")
     ELSE Admit([i \in 1 .. y - start + 1 |->
                   IF rows[start + i - 1] = <<>> THEN <<>>
                   ELSE Tail(rows[start + i - 1])])
----------------------------------------------------------------------------
(* The reads, and Codex drawing meanwhile.                                 *)

Unread == [height |-> 0, cursor |-> [x |-> 0, y |-> 0], mode |-> FALSE]
Reading == "reading"

TypeOK ==
  /\ old \in Views /\ new \in Views
  /\ drawn \in 0 .. Height + 1 /\ draws \in 0 .. MaxDraws
  /\ pc \in {"before", "grid", "after", "done"}
  /\ before \in [height : Nat, cursor : [x : Nat, y : Nat], mode : BOOLEAN]
  /\ result.kind \in {Reading, "absent", "captured"} \cup Failure
  /\ result.text \in Seq(Seq(Token))
  /\ shown \subseteq Views

Init ==
  /\ new \in Opening /\ old = new /\ drawn = Height + 1 /\ draws = 0
  /\ pc = "before" /\ before = Unread
  /\ result = Skipped(Reading) /\ shown = {}

Conclude(outcome) == pc' = "done" /\ result' = outcome
ReadFails == Conclude(Skipped("read_failed")) /\ UNCHANGED <<before, shown>>

\* read_metadata(): a cursor behind the last cell fails the metadata.
ReadBefore ==
  /\ pc = "before"
  /\ \/ /\ Cursor.x < Width
        /\ before' = Metadata /\ pc' = "grid"
        /\ UNCHANGED <<result, shown>>
     \/ ReadFails
  /\ UNCHANGED pane

\* What the rows say is decided by the rows and the first metadata alone, so it
\* is worked out here; it counts only if the second metadata is the same.
ReadGrid ==
  /\ pc = "grid"
  /\ \/ /\ result' = LET output == Styled(Screen)
                     IN IF ValidGrid(before, output) THEN Visible(before, Decode(output))
                        ELSE Skipped("invalid_pane")
        /\ shown' = {old, new} /\ pc' = "after"
        /\ UNCHANGED before
     \/ ReadFails
  /\ UNCHANGED pane

\* Wrong form: the metadata is read once.
SameMetadataAssumed(first, second) == TRUE
SameMetadata(first, second) == first = second

ReadAfter ==
  /\ pc = "after"
  /\ \/ /\ Cursor.x < Width
        /\ Conclude(IF SameMetadata(before, Metadata) THEN result
                    ELSE Skipped("metadata_changed"))
        /\ UNCHANGED <<before, shown>>
     \/ ReadFails
  /\ UNCHANGED pane

\* Codex draws another view; the person at the pane typed, or the program went on.
Redraw ==
  /\ Whole /\ draws < MaxDraws /\ pc # "done"
  /\ new' \in Later \ {new} /\ old' = new
  /\ drawn' = 0 /\ draws' = draws + 1
  /\ UNCHANGED <<pc, before, result, shown>>

\* The next row that differs, or the cursor.
DrawRow ==
  /\ ~Whole /\ pc # "done"
  /\ drawn' = LET differs == {y \in drawn + 1 .. Height : Screen[y] # RowsOf(new)[y]}
              IN IF differs = {} THEN Height + 1 ELSE Min(differs)
  /\ old' = IF drawn' = Height + 1 THEN new ELSE old
  /\ UNCHANGED <<new, draws, pc, before, result, shown>>

Read == ReadBefore \/ ReadGrid \/ ReadAfter
Draw == Redraw \/ DrawRow
Next == Read \/ Draw
Spec == Init /\ [][Next]_vars
----------------------------------------------------------------------------
(* Properties.                                                             *)

\* A draft, but for blank rows at its end: a cursor moved up, or an inset that
\* was longer before, makes those come and go.
WithoutBlankEnd(text) ==
  SubSeq(text, 1, Max({0} \cup {i \in 1 .. Len(text) : text[i] # <<>>}))

IsDraft(text, v) ==
  /\ v.kind = "composer"
  /\ WithoutBlankEnd(text) = WithoutBlankEnd(v.text)

\* What is captured is the draft that the composer showed when its rows were
\* read, and nothing else on the screen: no placeholder, no dialog, no shell
\* command, no row of the transcript and no draft cut short at the cursor; also
\* when Codex draws another view between any two of the reads, as long as the
\* rows were not read in the middle of it.
CapturedIsTheDraft ==
  pc = "done" /\ result.kind = "captured" /\ draws <= 1 =>
    \A v \in shown : shown = {v} => IsDraft(result.text, v)

\* A composer is taken for empty only if it was, however often Codex drew
\* meanwhile; the cost the document accepts is one row that is faint, with the
\* cursor at its start.
AbsentWasEmpty ==
  pc = "done" /\ result.kind = "absent" =>
    \E v \in shown :
      /\ v.kind = "composer" /\ (IsEmpty(v) \/ v.pen = "faint")
      /\ shown = {v} => \A i \in 2 .. Len(v.text) : v.text[i] = <<>>

\* The footers Codex shows, as the document classifies them: a hint, the context
\* that is left or both; or a status line, with an indicator at the right edge
\* of the pane or without one.  A status line says something of high trust or
\* something of two families, and only its end may be cut.
IsHint(row) ==
  \/ row = <<"margin", "hint">> \/ row = <<"margin", "left">>
  \/ \E n \in 1 .. Len(row) :
       row = <<"margin", "hint">> \o [i \in 1 .. n |-> "space"] \o <<"left">>

IsStatus(status) ==
  /\ status \in Seq(Segment \ {"none"})
  /\ \A i \in 1 .. Len(status) - 1 : status[i] # "cut"
  /\ \E i, j \in 1 .. Len(status) :
       \/ status[i] = "context" \/ status[1] = "model"
       \/ /\ Family(status[i], i) # {} /\ Family(status[j], j) # {}
          /\ Family(status[i], i) # Family(status[j], j)

IsStatusLine(row) ==
  \E n \in 1 .. Len(row) - 1 :
    /\ row[1] = "margin" /\ IsStatus(SubSeq(row, 2, n + 1))
    /\ \/ n = Len(row) - 1
       \/ /\ WidthOf(row) = Width - 2 /\ n < Len(row) - 2
          /\ \A i \in n + 2 .. Len(row) - 1 : row[i] = "space"
          /\ row[Len(row)] = "indicator"

ShowsFooter(v) ==
  /\ v.inset > 0 /\ v.bottom # <<>>
  /\ IsHint(v.bottom[1]) \/ IsStatusLine(v.bottom[1])
  /\ \A i \in 2 .. Len(v.bottom) : v.bottom[i] = <<>>

\* A composer over such a footer, on a screen without links, empty or with the
\* cursor at the end of a draft that fits.
IsSupportedView(v) ==
  /\ v.kind = "composer" /\ ShowsFooter(v) /\ ~v.mode
  /\ \A y \in 1 .. Len(RowsOf(v)) : \A x \in 1 .. Len(RowsOf(v)[y]) :
       RowsOf(v)[y][x][2] # "link"
  /\ \/ IsEmpty(v)
     \/ /\ ~IsBlank(v.text) /\ ~(SizeOf(v.text) > MaxText)
        /\ v.cursor = <<Len(v.text), Len(Last(v.text))>>

\* Of a screen that stands still, such a draft is captured to the last row and
\* blank, and such an empty composer is reported as empty.
SupportedDraftIsCaptured ==
  pc = "done" /\ draws = 0 /\ result.kind # "read_failed" /\ IsSupportedView(new) =>
    result = IF IsEmpty(new) THEN Absent ELSE Captured(new.text)

\* "a changing, unsafe, oversized, or unsupported screen retains the exact Codex
\* session recovery without prompt text" (src/docs/src/DESIGN.md): text that is
\* captured was the draft of a view that was on the screen.
ChangingScreenYieldsNoText ==
  pc = "done" /\ result.kind = "captured" =>
    \E v \in shown : IsDraft(result.text, v)
=============================================================================
