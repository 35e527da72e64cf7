-------------------------- MODULE CpplintProperties --------------------------
(***************************************************************************)
(* What a run of cpplint.py promises, said without the incremental         *)
(* bookkeeping of its checkers: by a C++ lexer, by the conditional groups  *)
(* a line is in, and by what a file and the command line say themselves.   *)
(***************************************************************************)
EXTENDS Cpplint

\* The lines of the file that is processed have all been looked at.
AllLinesDone == pc = "line" /\ linenum > Len(clean_lines.lines)

\* The errors of a category raised on a line of the current file.
Raised(category, n) ==
  \E k \in DOMAIN verdicts[index] :
    /\ verdicts[index][k].error.category = category
    /\ verdicts[index][k].error.linenum = n

PrintedErrors ==
  UNION {{<<i, k>> : k \in {e \in DOMAIN verdicts[i] : verdicts[i][e].printed}} :
           i \in DOMAIN verdicts}

\* The state of the checkers has the shape the code relies on: there is always
\* a last include list, the filters have signs, and the printed errors are
\* counted once each.
TypeOK ==
  /\ pc \in {"arguments", "file", "line", "done", "died"}
  /\ index \in 1 .. Len(command.files) + 1
  /\ linenum \in 1 .. Len(clean_lines.lines) + 1
  /\ \A i \in DOMAIN nesting_state.stack : nesting_state.stack[i].inline_asm \in AsmStates
  /\ include_state.include_list # <<>>
  /\ include_state.section \in InitialSection .. OtherHSection
  /\ function_state.lines_in_function \in 0 .. Len(clean_lines.lines)
  /\ Signed(filters) /\ Signed(filters_backup)
  /\ error_count = Cardinality(PrintedErrors)
  /\ exit \in {0, 1}

-----------------------------------------------------------------------------
(* The lexer.  mode says what the next token is in. *)

LexToken(acc, t) ==
  CASE acc.mode = "code" /\ t = "//" -> [acc EXCEPT !.mode = "line comment"]
    [] acc.mode = "code" /\ t = "/*" -> [acc EXCEPT !.mode = "comment"]
    [] acc.mode = "code" /\ t = Quote -> [acc EXCEPT !.mode = "string"]
    [] acc.mode = "code" /\ Delimiter(t) # NoDelimiter ->
         [acc EXCEPT !.mode = Delimiter(t)]
    [] acc.mode = "code" /\ t \notin {"//", "/*", Quote, "RAW", "RAW1"} ->
         [acc EXCEPT !.code = Append(@, t)]
    [] acc.mode = "comment" /\ t = "*/" -> [acc EXCEPT !.mode = "code"]
    [] acc.mode = "string" /\ t = Quote -> [acc EXCEPT !.mode = "code"]
    [] acc.mode \in {"ENDRAW", "ENDRAW1"} /\ t = acc.mode ->
         [acc EXCEPT !.mode = "code"]
    [] OTHER -> acc

LexLine(mode, line) ==
  FoldLeft(LexToken,
           [code |-> <<>>,
            mode |-> IF mode \in {"line comment", "string"} THEN "code" ELSE mode],
           line)

Lex(text) ==
  LET scan[i \in 0 .. Len(text)] ==
        IF i = 0 THEN [code |-> <<>>, mode |-> "code"]
        ELSE LET before == scan[i - 1] IN LexLine(before.mode, text[i])
  IN  scan

\* Two kinds of text are misread without a word.  Lines of a raw string that
\* look like the start of a comment are taken for one, because comments are
\* removed first (cpplint.py:6206).  And a comment of several lines ends for
\* cpplint at the first line that ends with its mark, so that code behind the
\* mark hides everything up to there (cpplint.py:1603).
IsMisread(text) ==
  LET lexed == Lex(text)
  IN  \E i \in DOMAIN text :
        \/ lexed[i - 1].mode \in {"ENDRAW", "ENDRAW1"} /\ StartsComment(text[i])
        \/ /\ lexed[i - 1].mode = "comment"
           /\ Contains(text[i], "*/") /\ ~EndsComment(text[i])

Visible(line) == SelectSeq(line, LAMBDA t : t \notin {Blank, Empty})

\* Cleaning is right or says so: in a file without the error that multi-line
\* comments or strings "may give bogus warnings" (cpplint.py:2306), what the
\* checkers see of every line is its code, without comments and strings.
ElidedIsTheCode ==
  AllLinesDone =>
    LET lexed == Lex(File.text)
        warned == \E i \in 1 .. Len(File.text) + 1 :
                    \/ Raised(<<"readability", "multiline_comment">>, i)
                    \/ Raised(<<"readability", "multiline_string">>, i)
    IN  \/ warned \/ IsMisread(File.text)
        \/ \A i \in DOMAIN File.text :
             Visible(clean_lines.elided[i]) = Visible(lexed[i].code)

-----------------------------------------------------------------------------
(* Conditional groups. *)

Directive(i) == First(clean_lines.elided[i])
OpensGroup(i) == Directive(i) \in {"#if", "#ifndef"}
ElseOfGroup(i) == Directive(i) \in {"#else", "#elif"}
ClosesGroup(i) == Directive(i) = "#endif"

\* How many groups are open behind line i.
Level(i) == Cardinality({k \in 1 .. i : OpensGroup(k)})
            - Cardinality({k \in 1 .. i : ClosesGroup(k)})

\* Up to line n no #endif and no #else is outside a group.
GroupsMatch(n) ==
  \A i \in 1 .. n : Level(i) >= 0 /\ (ElseOfGroup(i) => Level(i) > 0)

\* The lines up to n of the group that line o opens, and those that start
\* another branch of it.
GroupOf(o, n) == {i \in o .. n : \A k \in o .. i : Level(k) >= Level(o)}
ElsesOf(o, n) == {i \in GroupOf(o, n) : ElseOfGroup(i) /\ Level(i) = Level(o)}
IsClosed(o, n) == GroupOf(o, n) # o .. n

\* Line i counts at line n when in each of its groups it is in the branch that
\* counts: the current one of an open group, the first of a closed one.
Counts(i, n) ==
  \A o \in 1 .. i :
    OpensGroup(o) /\ i \in GroupOf(o, n) =>
      IF IsClosed(o, n) THEN \A e \in ElsesOf(o, n) : i < e
      ELSE \A e \in ElsesOf(o, n) : e <= i

\* The braces of the code, one token after the other: depth says how many are
\* open, waits whose head is behind us and its brace is not.  Right behind < or a
\* comma "class" is the head of nothing.  The code is clear as long as no head and
\* no closing brace comes where a head waits, and a namespace gets its brace
\* before a statement ends.
BeginsBlock(t) == t = "{"
EndsBlock(t) == t = "}"
EndsStatement(t) == t \in {";", ")"}
StartsList(t) == t \in {"<", ","}
HeadWords == {"class", "struct", "namespace"}

BraceToken(acc, t) ==
  LET head == t \in HeadWords /\ ~acc.inner
  IN  [depth |-> CASE BeginsBlock(t) -> acc.depth + 1
                   [] EndsBlock(t) /\ acc.depth > 0 -> acc.depth - 1
                   [] OTHER -> acc.depth,
       waits |-> CASE head -> t
                   [] BeginsBlock(t) \/ EndsStatement(t) -> "nothing"
                   [] OTHER -> acc.waits,
       inner |-> StartsList(t),
       clear |-> /\ acc.clear
                 /\ head \/ EndsBlock(t) => acc.waits = "nothing"
                 /\ EndsStatement(t) => acc.waits # "namespace"]

BraceLine(acc, line) ==
  LET behind[i \in 0 .. Len(line)] ==
        IF i = 0 THEN [acc EXCEPT !.inner = FALSE]
        ELSE LET before == behind[i - 1] IN BraceToken(before, line[i])
  IN  behind[Len(line)]

NoBraces == [depth |-> 0, waits |-> "nothing", inner |-> FALSE, clear |-> TRUE]

\* Behind the lines that count at line n.
CountedBraces(n) ==
  LET behind[i \in 0 .. n] ==
        IF i = 0 THEN NoBraces
        ELSE LET before == behind[i - 1]
             IN  IF Counts(i, n) THEN BraceLine(before, clean_lines.elided[i]) ELSE before
  IN  behind[n]

\* The stack is the nesting of the code: behind the last line it holds one
\* block with a brace for every brace that is open in the lines that count,
\* whatever #if, #else, #elif and #endif were met in between
\* (cpplint.py:2757-2811).
StackFollowsBraces ==
  LET n == Len(clean_lines.lines)
      stack == nesting_state.stack
      braces == CountedBraces(n)
  IN  AllLinesDone /\ GroupsMatch(n) /\ braces.clear =>
        Cardinality({i \in DOMAIN stack : stack[i].seen_open_brace}) = braces.depth

IsInclude(i) == Directive(i) = "#include"
HeaderOf(i) == Header[Strip(clean_lines.lines[i])[2]]

\* The includes that are listed: not a source file of another directory, nor what
\* looks like a header of a third party and is not the header of this file
\* (cpplint.py:4819, 4839).
IsListed(i) ==
  /\ IsInclude(i)
  /\ HeaderOf(i).ext \in GetNonHeaderExtensions(options) => HeaderOf(i).dir = File.dir
  /\ HeaderOf(i).third => HeaderOf(i).name \in PassForOwn(File, options)

\* Lines in a block of assembler are not looked at (cpplint.py:6090).
HasAsm ==
  \E i \in DOMAIN clean_lines.elided : Contains(clean_lines.elided[i], "asm")

\* An include outside of every group is remembered to the end of the file: the
\* next include of the same path is an error, and the header is not reported
\* missing (cpplint.py:4813, 5837).
TopLevelIncludesAreKept ==
  LET n == Len(clean_lines.lines)
      name(i) == HeaderOf(i).name
  IN  AllLinesDone /\ GroupsMatch(n) /\ ~HasAsm =>
        \A i \in {k \in 1 .. n : IsListed(k) /\ Level(k) = 0} :
          /\ name(i) \in Included(include_state)
          /\ \A j \in i + 1 .. n :
               IsInclude(j) /\ name(j) = name(i) => Raised(<<"build", "include">>, j)

-----------------------------------------------------------------------------
(* Function bodies. *)

\* Line i is the head of a function with a body.
IsHead(i) ==
  LET lines == clean_lines.lines
      body == BodyLine(lines, i)
  IN  StartsFunction(lines[i]) /\ body # 0 /\ HasBody(lines[body])

\* The lines between the head h and the brace e that are code of the body.
BodyLines(h, e) ==
  {i \in h + 1 .. e - 1 : /\ ~IsBlankLine(clean_lines.lines[i])
                          /\ ~StartsFunction(clean_lines.lines[i])}

Trigger(h) ==
  (IF FunctionName(clean_lines.lines[h]) = "TEST" THEN TestTrigger
   ELSE NormalTrigger) * 2 ^ VerboseLevel

\* A function is reported at its closing brace just when it has more lines of
\* code than the trigger allows, however many functions, declarations and
\* blank lines came before (cpplint.py:1268, 3282).  Behind inline assembler the
\* end of a function may not be seen.
LongFunctionsAreReported ==
  AllLinesDone /\ ~HasAsm =>
    \A e \in {i \in DOMAIN clean_lines.lines : clean_lines.lines[i] = <<"}">>} :
      LET heads == {h \in 1 .. e - 1 : IsHead(h)}
          ends  == {i \in 1 .. e - 1 : clean_lines.lines[i] = <<"}">>}
          inside == {h \in heads : \A i \in heads \cup ends : i <= h}
      IN  Raised(<<"readability", "fn_size">>, e)
            <=> \E h \in inside : Cardinality(BodyLines(h, e)) > Trigger(h)

-----------------------------------------------------------------------------
(* Verdicts. *)

\* What the NOLINT comment of line i of a text silences.
SilencedBy(text, i) ==
  LET nolint == Nolint[Head(NolintsOf(text[i]))]
  IN  <<nolint.category, IF nolint.next THEN i + 1 ELSE i>>
SilencedIn(text) ==
  {SilencedBy(text, i) : i \in {k \in DOMAIN text : NolintsOf(text[k]) # <<>>}}

\* The NOLINT comments of a file, outside of comments of several lines; and those
\* the header guard reads, in the lines without their raw strings.
Silences(file) == SilencedIn(RemoveMultiLineComments(file.text))
WithoutRawStrings(file) == CleanseRawStrings(RemoveMultiLineComments(file.text))

Silence(silences, file, error) ==
  \/ <<error.category, error.linenum>> \in silences
  \/ <<AnyCategory, error.linenum>> \in silences
  \/ /\ \E i \in DOMAIN file.text : Contains(file.text[i], "LINT_C_FILE")
     /\ error.category = <<"readability", "casting">>
  \/ /\ \E i \in DOMAIN file.text : Contains(file.text[i], "LINT_KERNEL_FILE")
     /\ error.category = <<"whitespace", "tab">>

IsSilenced(file, error) == Silence(Silences(file), file, error)
MayBeSilenced(file, error) ==
  Silence(Silences(file) \cup SilencedIn(WithoutRawStrings(file)), file, error)

\* The filters of the command line and of the file's own CPPLINT.cfg files.
IsWanted(file, error) ==
  /\ error.confidence >= VerboseLevel
  /\ ~IsFiltered(DefaultFilters \o command.filters \o ConfigFilters(file.configs),
                 error.category)

\* Errors that are judged before the suppressions of their line are read: the
\* header guard comes before all lines.
IsEarly(file, error) ==
  \/ /\ error.category = <<"readability", "nolint">>
     /\ LET stages == CheckForHeaderGuard(WithoutRawStrings(file))
        IN  \E i \in DOMAIN stages : stages[i].linenum = error.linenum
  \/ error.category = <<"build", "header_guard">>
  \/ error \in {UnclosedComment(file.text)[i] : i \in DOMAIN UnclosedComment(file.text)}

\* The filters in force are those of the command line and, as long as the lines
\* of a file are looked at, of the configurations above that file.
FiltersAreOwn ==
  LET given == AddFilters(DefaultFilters, command.filters)
  IN  /\ pc = "file" => filters = given
      /\ pc = "line" => filters = AddFilters(given, ConfigFilters(File.configs))

\* A NOLINT that silences: its category is one of those errors have.
Known(line) ==
  /\ NolintsOf(line) # <<>>
  /\ Nolint[Head(NolintsOf(line))].category \notin LegacyCategories \cup UnknownCategories

\* Suppressions with all of the first n lines of a file, and nothing that the
\* file does not say; the header guard reads it without its raw strings.
AreOwn(known, file, n) ==
  LET text == RemoveMultiLineComments(file.text)
  IN  /\ known.lines \subseteq Silences(file) \cup SilencedIn(WithoutRawStrings(file))
      /\ \A i \in 1 .. n : Known(text[i]) => SilencedBy(text, i) \in known.lines
      /\ known.global = ProcessGlobalSuppresions(NoSuppressions, file.text).global

\* The suppressions in force are those of the NOLINT comments and of the marks
\* of the file itself, from the line on they stand in (cpplint.py:6202).
SuppressionsAreOwn == pc = "line" => AreOwn(suppressions, File, linenum - 1)

\* An error is printed just when the command line, the configurations above the
\* file and the NOLINT comments of the file itself say so; those of another
\* file have no say (cpplint.py:1410, 6333, 6382).
VerdictsAreOwn ==
  /\ FiltersAreOwn
  /\ SuppressionsAreOwn
  /\ \A i \in DOMAIN verdicts : \A k \in DOMAIN verdicts[i] :
       LET error == verdicts[i][k].error
           printed == verdicts[i][k].printed
           file == command.files[i]
       IN  /\ printed => IsWanted(file, error)
           /\ IsWanted(file, error) /\ ~MayBeSilenced(file, error) => printed
           /\ printed /\ IsSilenced(file, error) => IsEarly(file, error)

\* A file that is named twice gets the same verdicts both times: no checker, no
\* filter and no suppression remembers the files in between
\* (cpplint.py:6198-6204, 6382).  Only the headers and extensions of a
\* CPPLINT.cfg stay in force, though they are to have "an effect on files in
\* the same directory and all sub-directories" (cpplint.py:253).
JudgedAlone ==
  pc = "done" /\ options = NoOptions =>
    \A i, j \in DOMAIN command.files :
      command.files[i] = command.files[j] => verdicts[i] = verdicts[j]
=============================================================================
