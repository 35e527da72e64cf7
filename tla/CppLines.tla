------------------------------ MODULE CppLines ------------------------------
(***************************************************************************)
(* How build_support/cpplint.py cleans a file before it checks it: block   *)
(* comments, raw strings, strings and // comments are taken out, line by   *)
(* line, so that the checks see code only.                                 *)
(*                                                                         *)
(* A line is a sequence of tokens and a text a sequence of lines, numbered *)
(* from 1; the two marker lines ProcessFileData adds are comments and are  *)
(* left out.  The tokens that matter here:                                 *)
(*   BLANK            one blank of indentation                             *)
(*   /*  */  //       comment marks                                        *)
(*   QUOTE  EMPTY     a quotation mark; an empty string literal            *)
(*   RAW  RAW1        R"( and R"1( ; ENDRAW and ENDRAW1 close them         *)
(*   #include         an include directive                                 *)
(* Every other token is a word or a punctuation mark that cleaning keeps.  *)
(***************************************************************************)
EXTENDS Naturals, Sequences, FiniteSets, SequencesExt

Blank == "BLANK"
Quote == "QUOTE"
Empty == "EMPTY"
NoDelimiter == "none"

\* Identifiers; MACRO stands for one in capitals, TEST for the test macros.
Words == {"A", "B", "f", "x", "TEST", "MACRO", "string", "vector"}

\* The delimiter a raw string that starts with token t is closed by.
Delimiter(t) == CASE t = "RAW" -> "ENDRAW" [] t = "RAW1" -> "ENDRAW1"
                  [] OTHER -> NoDelimiter

Count(line, t) == Cardinality({i \in DOMAIN line : line[i] = t})

\* GetIndentLevel: the leading blanks of a line.
GetIndentLevel(line) ==
  LET words == {i \in DOMAIN line : line[i] # Blank}
  IN  IF words = {} THEN Len(line)
      ELSE (CHOOSE i \in words : \A j \in words : i <= j) - 1

\* line.strip() at the front, and its first token.
Strip(line) == SubSeq(line, GetIndentLevel(line) + 1, Len(line))

First(line) == IF Strip(line) = <<>> THEN "" ELSE Head(Strip(line))

IsBlankLine(line) == Strip(line) = <<>>

-----------------------------------------------------------------------------
(* RemoveMultiLineComments: a comment that starts a line and goes beyond it *)
(* is replaced, line by line, up to the first line that ends with its mark. *)

CommentLine == <<"/*", "*/">>

StartsComment(line) == First(line) = "/*" /\ ~Contains(line, "*/")
EndsComment(line) == line # <<>> /\ Last(line) = "*/"

\* The first line from i on that satisfies Test, or the line after the last.
FirstFrom(text, i, Test(_)) ==
  LET found == {j \in i .. Len(text) : Test(text[j])}
  IN  IF found = {} THEN Len(text) + 1
      ELSE CHOOSE j \in found : \A k \in found : j <= k

FindNextMultiLineCommentStart(text, i) == FirstFrom(text, i, StartsComment)
FindNextMultiLineCommentEnd(text, i) == FirstFrom(text, i, EndsComment)

\* RemoveMultiLineCommentsFromRange, called with the line behind the end.
RangeWithoutEnd(begin, end) == begin .. end - 1
CommentRange(begin, end) == begin .. end

\* The lines that are cleared, and the line an
\* unterminated comment starts on (0 for none), scanning from line i.
CommentScan(text) ==
  LET n == Len(text)
      scan[i \in 1 .. n + 1] ==
        LET begin == FindNextMultiLineCommentStart(text, i)
            end   == FindNextMultiLineCommentEnd(text, begin)
        IN  CASE begin > n -> [cleared |-> {}, unclosed |-> 0]
              [] begin <= n /\ end > n -> [cleared |-> {}, unclosed |-> begin]
              [] OTHER -> LET rest == scan[end + 1]
                          IN  [rest EXCEPT !.cleared = @ \cup CommentRange(begin, end)]
  IN  scan[1]

RemoveMultiLineComments(text) ==
  LET cleared == CommentScan(text).cleared
  IN  [i \in DOMAIN text |-> IF i \in cleared THEN CommentLine ELSE text[i]]

-----------------------------------------------------------------------------
(* CleanseRawStrings: the text of raw strings is replaced by EMPTY; the     *)
(* delimiter of a raw string that is open is carried from line to line.     *)

\* One token of a line.  comment: the code before it holds a // outside
\* strings, so that no raw string starts after it.
RawToken(acc, t) ==
  IF acc.delimiter # NoDelimiter
  THEN IF t = acc.delimiter THEN [acc EXCEPT !.delimiter = NoDelimiter] ELSE acc
  ELSE IF Delimiter(t) # NoDelimiter /\ ~acc.comment
  THEN [acc EXCEPT !.delimiter = Delimiter(t), !.out = Append(@, Empty)]
  ELSE [acc EXCEPT !.out = Append(@, t),
                   !.comment = @ \/ (t = "//" /\ ~acc.quoted),
                   !.quoted = IF t = Quote THEN ~@ ELSE @]

\* A line met while delimiter d is open (or with d = NoDelimiter).
RawLine(d, line) ==
  LET indent == SubSeq(line, 1, GetIndentLevel(line))
      start == IF d = NoDelimiter THEN <<>> ELSE Append(indent, Empty)
      after[i \in 0 .. Len(line)] ==
        IF i = 0
        THEN [delimiter |-> d, out |-> start, comment |-> FALSE, quoted |-> FALSE]
        ELSE LET before == after[i - 1] IN RawToken(before, line[i])
  IN  IF d # NoDelimiter /\ ~Contains(line, d)
      THEN [delimiter |-> d, out |-> <<Empty>>]
      ELSE [delimiter |-> after[Len(line)].delimiter, out |-> after[Len(line)].out]

CleanseRawStrings(text) ==
  LET scan[i \in 0 .. Len(text)] ==
        IF i = 0 THEN [delimiter |-> NoDelimiter, out |-> <<>>]
        ELSE LET before == scan[i - 1] IN RawLine(before.delimiter, text[i])
  IN  [i \in DOMAIN text |-> scan[i].out]

-----------------------------------------------------------------------------
(* CleanseComments and CollapseStrings: one line. *)

\* IsCppString: an odd number of quotation marks comes before.
IsCppString(line) == Count(line, Quote) % 2 = 1

\* Only the first // is looked at: when it is in a string nothing is cut.
CutLineComment(line) ==
  LET p == SelectInSeq(line, LAMBDA t : t = "//")
  IN  IF p = 0 \/ IsCppString(SubSeq(line, 1, p - 1)) THEN line
      ELSE SubSeq(line, 1, p - 1)

BlockToken(acc, t) ==
  CASE acc.open /\ t = "*/" -> [acc EXCEPT !.open = FALSE, !.inside = <<>>]
    [] acc.open /\ t # "*/" -> [acc EXCEPT !.inside = Append(@, t)]
    [] ~acc.open /\ t = "/*" -> [acc EXCEPT !.open = TRUE, !.inside = <<t>>]
    [] OTHER -> [acc EXCEPT !.out = Append(@, t)]

\* Closed /* */ comments go, an unclosed one stays.
CutBlockComments(line) ==
  LET after[i \in 0 .. Len(line)] ==
        IF i = 0 THEN [out |-> <<>>, open |-> FALSE, inside |-> <<>>]
        ELSE LET before == after[i - 1] IN BlockToken(before, line[i])
  IN  after[Len(line)].out \o after[Len(line)].inside

CleanseComments(line) == CutBlockComments(CutLineComment(line))

StringToken(acc, t) ==
  CASE acc.open /\ t = Quote ->
         [out |-> Append(acc.out, Empty), open |-> FALSE, inside |-> <<>>]
    [] acc.open /\ t # Quote -> [acc EXCEPT !.inside = Append(@, t)]
    [] ~acc.open /\ t = Quote ->
         [acc EXCEPT !.open = TRUE, !.inside = <<t>>]
    [] OTHER -> [acc EXCEPT !.out = Append(@, t)]

\* Strings become EMPTY, except on include lines; an unmatched quotation mark
\* and what follows it stays.
CollapseStrings(line) ==
  LET after[i \in 0 .. Len(line)] ==
        IF i = 0 THEN [out |-> <<>>, open |-> FALSE, inside |-> <<>>]
        ELSE LET before == after[i - 1] IN StringToken(before, line[i])
  IN  IF First(line) = "#include" THEN line
      ELSE after[Len(line)].out \o after[Len(line)].inside

\* CleansedLines, of a text whose block comments are removed already.
CleansedLines(text) ==
  LET without == CleanseRawStrings(text)
  IN  [raw_lines |-> text,
       lines_without_raw_strings |-> without,
       lines |-> [i \in DOMAIN text |-> CleanseComments(without[i])],
       elided |-> [i \in DOMAIN text |->
                     CleanseComments(CollapseStrings(without[i]))]]
=============================================================================
