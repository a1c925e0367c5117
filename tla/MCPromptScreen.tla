-------------------------- MODULE MCPromptScreen ---------------------------
(* Views of a pane of five rows (six, and copy mode, now and then). *)
EXTENDS PromptScreen

Transcripts ==
  {<<>>,
   << Paint(<<"glyph", "b">>, "plain"), Paint(<<"margin", "opaque">>, "plain") >>,
   << Paint(<<"opaque">>, "green"), <<>> >>,
   << Paint(<<"opaque">>, "link") >>}

\* Status lines and hints that Codex shows below a composer.
Footers ==
  {<< <<"margin", "model">> >>,
   << <<"margin", "path", "state">> >>,
   << <<"margin", "opaque", "context", "cut">>, <<>> >>,
   << <<"margin", "hint">> >>,
   << <<"margin", "hint", "space", "left">> >>,
   << <<"margin", "git", "count", "space", "space", "indicator">> >>}

\* What is there instead: dialogs, popups, status lines cut too short.
OtherBottoms ==
  {<< <<"margin", "path">> >>,
   << <<"margin", "count", "count", "cut">> >>,
   << <<"margin", "path", "space", "model">> >>,
   << <<"margin", "path", "none", "state">> >>,
   << <<"opaque">> >>,
   << <<"margin", "opaque">>, <<"margin", "model">> >>}

\* Texts with the places of the cursor worth a look: the end and others.
Drafts ==
  {<< <<>>, <<1, 0>> >>,
   << << <<"a">> >>, <<1, 1>> >>, << << <<"a">> >>, <<1, 0>> >>,
   << << <<"a", "b">> >>, <<1, 2>> >>, << << <<"a", "b">> >>, <<1, 1>> >>,
   << << <<"a", "space">> >>, <<1, 2>> >>,
   << << <<"space">> >>, <<1, 1>> >>,
   << << <<"a">>, <<"b">> >>, <<2, 1>> >>, << << <<"a">>, <<"b">> >>, <<1, 1>> >>,
   << << <<"b">>, <<"b">> >>, <<2, 1>> >>,
   << << <<"a">>, <<>> >>, <<2, 0>> >>, << << <<"a">>, <<>> >>, <<1, 1>> >>,
   << << <<"a">>, <<>> >>, <<1, 0>> >>,
   << << <<"a", "b", "a", "b", "a">> >>, <<1, 5>> >>}
Pens == {"plain", "faint", "green"}

\* A pane of the given height, whose bottom is the end of the view.
RECURSIVE Blank(_)
Blank(n) == IF n = 0 THEN <<>> ELSE Append(Blank(n - 1), <<>>)
Above(transcript, n) ==
  IF n <= Len(transcript) THEN SubSeq(transcript, Len(transcript) - n + 1, Len(transcript))
  ELSE Blank(n - Len(transcript)) \o transcript

MakeView(height, transcript, kind, draft, pen, inset, bottom, mode) ==
  LET rows == (IF draft[1] = <<>> THEN 1 ELSE Len(draft[1])) + inset + Len(bottom)
  IN [above |-> Above(transcript, height - rows),
      lead |-> IF kind = "shell" THEN "bang" ELSE "glyph",
      text |-> draft[1], cursor |-> draft[2], pen |-> pen,
      inset |-> inset, bottom |-> bottom, kind |-> kind, mode |-> mode]

Asked == << Paint(<<"glyph", "b">>, "plain"), Paint(<<"margin", "opaque">>, "plain") >>
Status == << <<"margin", "model">> >>

\* Every draft, pen and transcript over one footer; every footer and its
\* lookalikes below some drafts.
Typed == Drafts \ {<< <<>>, <<1, 0>> >>}
ShortDrafts == {d \in Drafts : Len(d[1]) <= 1 /\ d[2][1] = 1 /\ d[2][2] <= 1}
Composers ==
  {MakeView(5, t, "composer", d, pen, 1, Status, FALSE) :
     t \in Transcripts, d \in Drafts, pen \in Pens}
  \cup {MakeView(5, Asked, "composer", d, "plain", n, b, FALSE) :
     d \in ShortDrafts, n \in {1, 2}, b \in Footers \cup OtherBottoms}
OtherKinds ==
  {MakeView(5, Asked, "dialog", d, "green", 1, b, FALSE) :
     d \in Typed, b \in OtherBottoms}
  \cup {MakeView(5, t, "shell", d, "plain", 1, Status, FALSE) :
     t \in Transcripts, d \in Typed}

MCOpening == Composers \cup OtherKinds

MCLater ==
  {MakeView(5, Asked, "composer", d, "plain", 1, Status, FALSE) :
     d \in Drafts \ {<< << <<"a">>, <<>> >>, <<1, 0>> >>}}
  \cup {MakeView(6, Asked, "composer", << << <<"a">> >>, <<1, 1>> >>, "plain", 1,
          Status, m) : m \in BOOLEAN}
  \cup {MakeView(5, Asked, "dialog", << << <<"a">>, <<"b">> >>, <<2, 1>> >>, "green", 1,
          << <<"margin", "path">> >>, FALSE)}
=============================================================================
