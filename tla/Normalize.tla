----------------------------- MODULE Normalize -----------------------------
(***************************************************************************)
(* Normalize, the rules that turn an extractor's markdown into the body    *)
(* that is stored, as the sequence of passes it is: truncation at the      *)
(* references, a sweep that removes tables, images and captions, collapse  *)
(* of blank runs, trimming, and the choice of the title.                   *)
(*                                                                         *)
(* A line is its kind: all that the passes look at.  The rules only ever   *)
(* drop lines, so a text is the set of the positions, in the markdown, of  *)
(* the lines it still has; no line and one blank line are the same, empty, *)
(* text.  The rewriting of math delimiters is left out: no kind of line    *)
(* begins or ends with one, so it changes no kind.                         *)
(*                                                                         *)
(* The second pass takes the body of the first as its input.               *)
(***************************************************************************)
EXTENDS Naturals, Sequences, FiniteSets

CONSTANTS
    Titles,     \* level-1 headings
    MaxLines    \* bound: lines of the markdown

ASSUME MaxLinesPositive == MaxLines \in Nat \ {0}

VARIABLES
    markdown,   \* the lines of the document
    given,      \* the text that is the input of the pass
    body,       \* what the rules so far have made of it
    ahead,      \* the lines that the sweep of stripBlocks has yet to look at
    inTable,    \* the sweep is among the rows of a table
    artifact,   \* the title and the word count
    rule,       \* the rule that is next
    pass        \* 1, or 2 when the input is a body

normalizeVars == <<markdown, given, body, ahead, inTable, artifact, rule, pass>>

-----------------------------------------------------------------------------
(* Lines.                                                                  *)

\* "refs" is a references heading; "space" has only blanks in it; "row" and "rule" begin
\* with a pipe, "rule" and "bare" are dash-cell separators; "image" stands alone.
OtherKinds == {"text", "refs", "blank", "space", "row", "rule", "bare", "image", "caption"}
LineKinds == Titles \cup OtherKinds
ASSUME TitlesAreHeadings == Titles \cap OtherKinds = {}

PipeLed == {"row", "rule"}
Separators == {"rule", "bare"}

Markdowns == UNION {[1..n -> LineKinds] : n \in 1..MaxLines}

\* Words of a line of each kind: "# T", "w", "| w |", "|---|---|", "--- | ---".
Words(line) == CASE line \in Titles -> 2
                 [] line \in {"text", "rule"} -> 1
                 [] line \in {"row", "bare"} -> 3
                 [] OTHER -> 0

NoArtifact == [title |-> "none", words |-> 0]

NormalizeInit ==
    /\ markdown \in Markdowns
    /\ given = DOMAIN markdown
    /\ body = given
    /\ ahead = {} /\ inTable = FALSE
    /\ artifact = NoArtifact
    /\ rule = "truncate" /\ pass = 1

-----------------------------------------------------------------------------
(* The rules, on the lines of a text.                                      *)

UpToReferences(lines) == {i \in lines : \A j \in lines : j <= i => markdown[j] # "refs"}

\* j is the line after line i.
Follows(lines, i, j) == i < j /\ \A k \in lines : ~(i < k /\ k < j)

TableStarts(lines, i) ==
    /\ markdown[i] \in PipeLed
    /\ \E j \in lines : Follows(lines, i, j) /\ markdown[j] \in Separators

\* Mutant: whatever follows the separator up to a blank line is taken for a row.
IsParagraphRow(i) == inTable /\ markdown[i] \notin {"blank", "space"}

\* After a table's header and separator, the lines with a leading pipe are its rows.
IsRow(i) == inTable /\ markdown[i] \in PipeLed

Blank(i) == markdown[i] = "blank"

\* The blank lines of i's run that stand before it.
BlankRun(lines, i) ==
    {j \in lines : j < i /\ \A k \in lines : j <= k /\ k < i => Blank(k)}

AtTop(lines, i) == \A j \in lines : j < i => Blank(j)
AtEnd(lines, i) == \A j \in lines : i < j => Blank(j)

\* Mutant: every three newlines become two, so a longer run shrinks only by a third.
CollapsedByTriples(lines) ==
    {i \in lines : Blank(i) =>
        (Cardinality(BlankRun(lines, i)) + IF AtTop(lines, i) THEN 1 ELSE 2) % 3 # 0}

\* n blank lines are n + 1 newlines inside the text, and one less where it begins or ends
\* with them; of three newlines or more two stay.
Collapsed(lines) ==
    {i \in lines : Blank(i) =>
        Cardinality(BlankRun(lines, i))
          <= (IF AtTop(lines, i) THEN 1 ELSE 0) + (IF AtEnd(lines, i) THEN 1 ELSE 0)}

\* TrimRight of newlines: a line of blanks is not one.
TrimmedRight(lines) == {i \in lines : \E j \in lines : i <= j /\ ~Blank(j)}

SelectTitle(lines) ==
    LET headings == {i \in lines : markdown[i] \in Titles}
    IN  IF headings = {} THEN "fallback"
        ELSE markdown[CHOOSE i \in headings : \A j \in headings : i <= j]

WordCount(lines) ==
    LET upTo[n \in 0 .. Len(markdown)] ==
          IF n = 0 THEN 0 ELSE upTo[n - 1] + IF n \in lines THEN Words(markdown[n]) ELSE 0
    IN  upTo[Len(markdown)]

-----------------------------------------------------------------------------
(* One pass of Normalize.                                                  *)

Rewrites(this, result, next) ==
    /\ rule = this
    /\ body' = result
    /\ rule' = next
    /\ UNCHANGED <<markdown, given, artifact, pass>>

TruncateAtReferences ==
    /\ Rewrites("truncate", UpToReferences(body), "strip")
    /\ ahead' = body' /\ inTable' = FALSE

\* One turn of the loop of stripBlocks; a header takes its separator with it.
StripLine ==
    /\ rule = "strip"
    /\ \E i \in ahead :
         LET header == ~IsRow(i) /\ TableStarts(ahead, i)
             taken == {i} \cup {j \in ahead : header /\ Follows(ahead, i, j)}
             dropped == IsRow(i) \/ header \/ markdown[i] \in {"image", "caption"}
         IN  /\ \A j \in ahead : i <= j
             /\ ahead' = ahead \ taken
             /\ body' = IF dropped THEN body \ taken ELSE body
             /\ inTable' = (IsRow(i) \/ header)
    /\ UNCHANGED <<markdown, given, artifact, rule, pass>>

StripEnds == Rewrites("strip", body, "collapse") /\ ahead = {} /\ UNCHANGED <<ahead, inTable>>

CollapseBlankRuns ==
    Rewrites("collapse", Collapsed(body), "trim") /\ UNCHANGED <<ahead, inTable>>

TrimRight == Rewrites("trim", TrimmedRight(body), "describe") /\ UNCHANGED <<ahead, inTable>>

Describe ==
    /\ rule = "describe"
    /\ artifact' = [title |-> SelectTitle(body), words |-> WordCount(body)]
    /\ rule' = "done"
    /\ UNCHANGED <<markdown, given, body, ahead, inTable, pass>>

\* A stored body is extracted and normalized once more.
Again ==
    /\ rule = "done" /\ pass = 1
    /\ given' = body
    /\ rule' = "truncate" /\ pass' = 2
    /\ UNCHANGED <<markdown, body, ahead, inTable, artifact>>

NormalizeNext ==
    \/ TruncateAtReferences \/ StripLine \/ StripEnds \/ CollapseBlankRuns
    \/ TrimRight \/ Describe \/ Again

NormalizeSpec == NormalizeInit /\ [][NormalizeNext]_normalizeVars

-----------------------------------------------------------------------------
(* Reference: which lines are kept, read off the text as a whole.          *)

\* A table, as the lines it takes: a line led by a pipe, a separator after it, and every
\* line led by a pipe after them.
TableFrom(lines, first) ==
    {i \in lines : /\ first <= i
                   /\ \A j \in lines : first < j /\ j <= i =>
                        Follows(lines, first, j) \/ markdown[j] \in PipeLed}

\* Tables do not overlap: what looks like one begins one unless it lies in an earlier one.
AreHeaders(lines, headers) ==
    \A i \in lines :
        i \in headers <=> /\ TableStarts(lines, i)
                          /\ \A h \in headers : h < i => i \notin TableFrom(lines, h)

Kept(lines, headers) ==
    {i \in lines : /\ markdown[i] \notin {"image", "caption"}
                   /\ \A h \in headers : i \notin TableFrom(lines, h)}

\* Of a run of blank lines the first is shown if something follows, at the top the second too.
Shown(lines) ==
    {i \in lines : Blank(i) =>
        /\ ~AtEnd(lines, i)
        /\ Cardinality(BlankRun(lines, i)) < IF AtTop(lines, i) THEN 2 ELSE 1}

-----------------------------------------------------------------------------
(* Properties.                                                             *)

BodyFollowsRules ==
    LET lines == UpToReferences(given)
    IN  \E headers \in SUBSET lines :
            AreHeaders(lines, headers) /\ body = Shown(Kept(lines, headers))

ProseSurvives ==
    LET before == UpToReferences(given)
        Prose(lines) == {i \in lines : markdown[i] \in Titles \cup {"text"}}
    IN  /\ Prose(body) = Prose(before)
        /\ artifact.title = SelectTitle(before)
        /\ artifact.words >= WordCount(Prose(before))

\* The one greedy sweep, the truncation before it and the two whitespace passes after it
\* leave exactly the lines that the rules, read one by one of the whole text, keep; and
\* none reaches into the prose: headings and paragraphs before the references come
\* through whole, so the title and the words are those of the document.
ArtifactFollowsRules == rule = "done" => BodyFollowsRules /\ ProseSurvives

\* Normalizing a body again changes nothing, with one exception: removing what stood between
\* them can bring a line with a leading pipe and a separator together.
SecondPassIsNeutral ==
    rule = "done" /\ pass = 2 =>
        \/ body = given
        \/ \E i, j \in given :
              Follows(given, i, j) /\ markdown[i] \in PipeLed /\ markdown[j] \in Separators

=============================================================================
