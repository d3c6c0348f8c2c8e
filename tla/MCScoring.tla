------------------------------ MODULE MCScoring ------------------------------
EXTENDS Scoring
LOCAL INSTANCE SequencesExt

Given(t, c, m, b, w) ==
    [text |-> t, isCorrect |-> c, marks |-> m, blankIndex |-> b, matchWith |-> w,
     caseSensitive |-> t = "b"]

Texts == <<"a", "b", "c">>

Chosen(n, marks) ==
    {[i \in 1 .. n |-> Given(Texts[i], c[i], m[i], None, None)] :
        c \in [1 .. n -> BOOLEAN], m \in [1 .. n -> marks]}
Unnamed == {<<Given("a", TRUE, 1, 0, None), Given("", TRUE, 1, 1, None)>>}
Twins == {[i \in 1 .. 2 |-> Given("a", i = 1, 1, None, None)]}
Blanks ==
    {[i \in 1 .. 2 |-> Given(Texts[i], c[i], m[i], b[i], None)] :
        c \in [1 .. 2 -> BOOLEAN], m \in [1 .. 2 -> {1, 2}], b \in [1 .. 2 -> {None, 0, 1}]}
Matches ==
    {[i \in 1 .. 2 |-> Given(Texts[i], c[i], m[i], None, w[i])] :
        c \in [1 .. 2 -> BOOLEAN], m \in [1 .. 2 -> {1, 2}], w \in [1 .. 2 -> {None, "x", "y"}]}

Dto(types, marks, partial, lists) ==
    [type : types, marks : marks, allowPartialScoring : partial, allowMultiple : {FALSE},
     gradingType : {"quiz"}, options : lists]

MCDtos ==
    Dto({"mcq", "checkbox"}, {2}, BOOLEAN, Chosen(2, {None, 1, 2}) \cup Twins \cup {<<>>})
    \cup Dto({"true_false"}, {2}, {FALSE}, Chosen(2, {1}))
    \cup Dto({"multiple_answer"}, {None, 3}, BOOLEAN, Chosen(3, {1, 2}) \cup Chosen(2, {None, 1, 2}))
    \cup Dto({"fill_blank"}, {2, 3}, BOOLEAN, Blanks \cup Unnamed)
    \cup Dto({"match"}, {3}, BOOLEAN, Matches)
    \cup Dto(Types, {2}, {FALSE}, {None})
    \cup [type : {"dropdown"}, marks : {2}, allowPartialScoring : BOOLEAN,
          allowMultiple : BOOLEAN, gradingType : {"quiz"}, options : Chosen(2, {1})]
    \cup [type : {"mcq", "file"}, marks : {2}, allowPartialScoring : BOOLEAN,
          allowMultiple : {FALSE}, gradingType : {"feedback"}, options : Chosen(2, {1})]

Changes(type, marks, partial, lists) ==
    [type |-> type, marks |-> marks, allowPartialScoring |-> partial, options |-> lists]

MCPatches ==
    {Changes(None, 4, None, None), Changes("mcq", None, None, None),
     Changes(None, None, TRUE, None),
     Changes(None, None, None, <<Given("a", TRUE, 2, None, None), Given("b", TRUE, None, None, None)>>),
     Changes(None, None, None, <<>>)}

Answered(sel, blanks, matches, free) ==
    [selected |-> sel, blanks |-> blanks, matches |-> matches, free |-> free]

RepliesTo(type, ed) ==
    CASE type = "fill_blank" ->
            {Answered(<<>>, b, <<>>, FALSE) :
                b \in BoundedSeq({"a", "b"} \X BOOLEAN \cup {<<"", TRUE>>}, 2)}
      [] type = "match" ->
            {Answered(<<>>, <<>>, m, FALSE) : m \in BoundedSeq(Ids(ed, 1 .. 2) \X {"x", "y"}, 2)}
      [] type \in {"subjective", "essay", "file"} -> {Answered(<<>>, <<>>, <<>>, TRUE)}
      [] OTHER ->
            {Answered(sel, <<>>, <<>>, FALSE) :
                sel \in BoundedSeq(Ids(ed, 1 .. 3), 2) \cup {<<Id(ed, 3), Id(ed, 1), Id(ed, 2)>>}}

MCReplies == [type \in Types |-> [ed \in 1 .. MaxEdits + 1 |-> RepliesTo(type, ed)]]
=============================================================================
