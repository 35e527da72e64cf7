------------------------------ MODULE Cpplint ------------------------------
(***************************************************************************)
(* The run of build_support/cpplint.py, which "make cpplint" starts on the *)
(* sources: the command line, one file after the other with its CPPLINT.cfg*)
(* files, one line after the other through the checkers that keep state    *)
(* from line to line (NestingState, FunctionState, IncludeState), and the  *)
(* verdict on every error they raise.  The checks that look at one line by *)
(* itself (CheckStyle and the rest of CheckLanguage) keep no state and are *)
(* left out, but for three: multi-line comments and strings, headers that  *)
(* are not approved of, and bad characters.                                *)
(*                                                                         *)
(* An invocation is the record of the filters and the files of a command   *)
(* line.  A file is a record: dir, base, first, ext, own, disk as in       *)
(* IncludeState; text, without line ends; newline says that the last line  *)
(* is terminated; crlf the lines that end with a carriage return; readable;*)
(* configs the CPPLINT.cfg files, from its directory up.                   *)
(***************************************************************************)
EXTENDS NestingState, FunctionState, IncludeState, HeaderGuard, LintErrors

CONSTANTS
  Invocations,    \* sets of command lines, by the scenario they belong to
  VerboseLevel    \* --verbose, 1 by default

ASSUME VerboseLevelAssumption == VerboseLevel \in 0 .. 5

\* A command line names filters and files; a file is a sequence of lines, which
\* are sequences of tokens, with a sequence of configurations.
IsList(s) == Len(s) \in Nat /\ DOMAIN s = 1 .. Len(s)
IsFile(f) ==
  /\ f.text \in Seq(Seq(STRING))
  /\ IsList(f.configs) /\ \A i \in DOMAIN f.configs : f.configs[i].filters \in Seq(Filters)
ASSUME InvocationsAssumption ==
  \A scenario \in DOMAIN Invocations :
    \A c \in Invocations[scenario] :
      /\ c.filters \in Seq(Filters)
      /\ IsList(c.files) /\ \A i \in DOMAIN c.files : IsFile(c.files[i])

VARIABLES
  pc,               \* "arguments", "file", "line", "end"; or "done", "died"
  command,          \* the invocation
  index,            \* the file that is processed, from 1
  clean_lines,      \* CleansedLines of it
  linenum,          \* the line to process next
  nesting_state, function_state, include_state,
  suppressions,     \* _error_suppressions and _global_error_suppressions
  filters,          \* _cpplint_state.filters
  filters_backup,   \* and the copy of them made for every file
  options,          \* _hpp_headers and _valid_extensions, set by CPPLINT.cfg
  error_count,
  verdicts,         \* of each file the errors raised, and whether they were printed
  exit              \* the exit code, when pc = "done"

state == <<clean_lines, linenum, nesting_state, function_state, include_state,
           suppressions>>
vars == <<pc, command, index, state, filters, filters_backup, options,
          error_count, verdicts, exit>>

HasFile == index <= Len(command.files)
File == command.files[index]

Init ==
  /\ pc = "arguments"
  /\ \E scenario \in DOMAIN Invocations : command \in Invocations[scenario]
  /\ index = 1
  /\ clean_lines = CleansedLines(<<>>)
  /\ linenum = 1
  /\ nesting_state = NewNestingState
  /\ function_state = NewFunctionState
  /\ include_state = NewIncludeState
  /\ suppressions = NoSuppressions
  /\ filters = DefaultFilters
  /\ filters_backup = DefaultFilters
  /\ options = NoOptions
  /\ error_count = 0
  /\ verdicts = [i \in DOMAIN command.files |-> <<>>]
  /\ exit = 0

-----------------------------------------------------------------------------
(* Error: what becomes of the errors raised under the suppressions known    *)
(* so far.                                                                  *)

Judged(known, used_filters, errors) ==
  [i \in DOMAIN errors |->
     [error |-> errors[i],
      printed |-> ShouldPrintError(known, used_filters, VerboseLevel, errors[i])]]

Report(new) ==
  /\ verdicts' = [verdicts EXCEPT ![index] = @ \o new]
  /\ error_count' = error_count + Cardinality({k \in DOMAIN new : new[k].printed})

\* RestoreFilters.
NotRestored == filters
Restored == filters_backup

\* On to the next file, or to the end of the program.
NextFile ==
  /\ filters' = Restored
  /\ index' = index + 1
  /\ pc' = "file"

-----------------------------------------------------------------------------
(* ParseArguments *)

ParseArguments ==
  /\ pc = "arguments"
  /\ command.files # <<>>
  /\ Signed(command.filters)
  /\ filters' = AddFilters(DefaultFilters, command.filters)
  /\ pc' = "file"
  /\ UNCHANGED <<command, index, state, filters_backup, options, error_count,
                 verdicts, exit>>

\* PrintUsage when no file is named.
NoFiles ==
  /\ pc = "arguments"
  /\ command.files = <<>>
  /\ pc' = "done"
  /\ exit' = 1
  /\ UNCHANGED <<command, index, state, filters, filters_backup, options,
                 error_count, verdicts>>

\* A filter without a sign raises a ValueError that nobody catches.
DieOfFilter ==
  /\ pc = "arguments"
  /\ command.files # <<>>
  /\ ~Signed(command.filters)
  /\ pc' = "died"
  /\ UNCHANGED <<command, index, state, filters, filters_backup, options,
                 error_count, verdicts, exit>>

-----------------------------------------------------------------------------
(* ProcessFile, up to the loop over the lines *)

\* headers and extensions as ProcessConfigOverrides leaves them; nobody puts
\* them back.
NewOptions == ConfigOptions(options, File.configs)

\* ProcessConfigOverrides returns False: the configuration excludes the file.
ExcludeFile ==
  /\ pc = "file" /\ HasFile
  /\ IsExcluded(File.configs)
  /\ filters_backup' = filters
  /\ filters' = filters_backup'
  /\ options' = NewOptions
  /\ index' = index + 1
  /\ UNCHANGED <<pc, command, state, error_count, verdicts, exit>>

\* The same ValueError, from the filters of a configuration.
DieOfConfig ==
  /\ pc = "file" /\ HasFile
  /\ ~IsExcluded(File.configs)
  /\ ~Signed(ConfigFilters(File.configs))
  /\ options' = NewOptions
  /\ pc' = "died"
  /\ UNCHANGED <<command, index, state, filters, filters_backup, error_count,
                 verdicts, exit>>

IsOpened == /\ pc = "file" /\ HasFile
            /\ ~IsExcluded(File.configs) /\ Signed(ConfigFilters(File.configs))

IsChecked == /\ File.readable
             /\ File.ext \in GetAllExtensions(NewOptions)

\* A file that cannot be read, or whose extension is not known, is skipped
\* with a message, which is not counted.
SkipFile ==
  /\ IsOpened
  /\ ~IsChecked
  /\ filters_backup' = filters
  /\ filters' = filters_backup'
  /\ options' = NewOptions
  /\ index' = index + 1
  /\ UNCHANGED <<pc, command, state, error_count, verdicts, exit>>

\* CheckForCopyright, in the first ten lines.
CheckForCopyright(text) ==
  IF \E i \in DOMAIN text : i <= 10 /\ Contains(text[i], "Copyright")
  THEN <<>>
  ELSE <<Problem(0, <<"legal", "copyright">>, 5)>>

\* The error of RemoveMultiLineComments is put on the line behind the one the
\* comment starts on.
UnclosedComment(text) ==
  LET begin == CommentScan(text).unclosed
  IN  IF begin = 0 THEN <<>>
      ELSE <<Problem(begin + 1, <<"readability", "multiline_comment">>, 5)>>

\* The stages of the header guard: NOLINT of the line is read, if there is one,
\* then the errors are judged.  before holds the suppressions known and the
\* verdicts so far.
GuardStage(before, stage, lines, used_filters) ==
  LET n == stage.linenum
      known == IF n = 0 THEN before.known
               ELSE ParseNolintSuppressions(before.known, lines[n], n)
      odd == IF n = 0 THEN <<>> ELSE NolintErrors(lines[n], n)
  IN  [known |-> known,
       new |-> before.new \o Judged(before.known, used_filters, odd)
                          \o Judged(known, used_filters, stage.errors)]

GuardVerdicts(stages, lines, known, used_filters) ==
  LET after[i \in 0 .. Len(stages)] ==
        IF i = 0 THEN [known |-> known, new |-> <<>>]
        ELSE GuardStage(after[i - 1], stages[i], lines, used_filters)
  IN  after[Len(stages)]

\* The head of ProcessFileData, which empties the suppressions and makes new
\* checkers.
NolintIsKept == suppressions
ResetNolintSuppressions == NoSuppressions

\* What is known of a file before its first line, and the verdicts so far.
Started(file, used_filters, used_options) ==
  LET text == file.text
      empty == ResetNolintSuppressions
      global == ProcessGlobalSuppresions(empty, text)
      lines == CleansedLines(RemoveMultiLineComments(text)).lines_without_raw_strings
      stages == IF file.ext \in GetHeaderExtensions(used_options)
                THEN CheckForHeaderGuard(lines) ELSE <<>>
      after(guard) ==
        [known |-> guard.known,
         new |-> Judged(empty, used_filters, CheckForCopyright(text))
                 \o Judged(global, used_filters, UnclosedComment(text))
                 \o guard.new]
  IN  after(GuardVerdicts(stages, lines, global, used_filters))

StartFile ==
  LET added == AddFilters(filters, ConfigFilters(File.configs))
      begins(start) == Report(start.new) /\ suppressions' = start.known
  IN  /\ IsOpened
      /\ IsChecked
      /\ filters_backup' = filters
      /\ filters' = added
      /\ options' = NewOptions
      /\ begins(Started(File, added, NewOptions))
      /\ clean_lines' = CleansedLines(RemoveMultiLineComments(File.text))
      /\ linenum' = 1
      /\ nesting_state' = NewNestingState
      /\ function_state' = NewFunctionState
      /\ include_state' = NewIncludeState
      /\ pc' = "line"
      /\ UNCHANGED <<command, index, exit>>

-----------------------------------------------------------------------------
(* ProcessLine *)

\* CheckForMultilineCommentsAndStrings.
CheckForMultiline(line, n) ==
  (IF Count(line, "/*") > Count(line, "*/")
   THEN <<Problem(n, <<"readability", "multiline_comment">>, 5)>> ELSE <<>>)
  \o
  (IF Count(line, Quote) % 2 = 1
   THEN <<Problem(n, <<"readability", "multiline_string">>, 5)>> ELSE <<>>)

\* The checkers and the suppressions, which go from line to line.
checks == [nesting |-> nesting_state, function |-> function_state,
           include |-> include_state, known |-> suppressions]

\* ProcessLine and FlagCxx11Features: what becomes of them, and the verdicts.
\* Inside an assembler block only the nesting is kept, and the line is not looked
\* at any further.
LineProcessed(file, lines, n, before, used_filters, used_options) ==
  LET raw == lines.raw_lines[n]
      after(known, nested, counted, included) ==
        LET asm == InAsmBlock(nested.nesting)
            errors == NolintErrors(raw, n) \o nested.errors
                      \o CheckForNamespaceIndentation(nested.nesting, lines, n)
                      \o (IF asm THEN <<>>
                          ELSE counted.errors
                               \o CheckForMultiline(lines.elided[n], n)
                               \o included.errors)
                      \o FlagCxx11Features(lines, n)
        IN  [checks |-> [nesting |-> nested.nesting,
                         function |-> IF asm THEN before.function ELSE counted.function,
                         include |-> IF asm THEN before.include ELSE included.include,
                         known |-> known],
             new |-> Judged(known, used_filters, errors)]
  IN  after(ParseNolintSuppressions(before.known, raw, n),
            Update(before.nesting, lines, n),
            CheckForFunctionLengths(before.function, lines.lines, n, VerboseLevel),
            CheckLanguage(before.include, file, lines, n, used_options))

\* What a line makes of the checkers and the verdicts.
Becomes(line) ==
  /\ suppressions' = line.checks.known
  /\ nesting_state' = line.checks.nesting
  /\ function_state' = line.checks.function
  /\ include_state' = line.checks.include
  /\ Report(line.new)

ProcessLine ==
  /\ pc = "line" /\ linenum <= Len(clean_lines.lines)
  /\ Becomes(LineProcessed(File, clean_lines, linenum, checks, filters, options))
  /\ linenum' = linenum + 1
  /\ UNCHANGED <<pc, command, index, clean_lines, filters, filters_backup, options, exit>>

-----------------------------------------------------------------------------
(* The end of ProcessFileData and of ProcessFile *)

\* CheckForBadCharacters, in the lines as RemoveMultiLineComments left them.
CheckForBadCharacters(text) ==
  FlattenSeq([i \in DOMAIN text |->
    (IF Contains(text[i], "INVALID")
     THEN <<Problem(i, <<"readability", "utf8">>, 5)>> ELSE <<>>)
    \o
    (IF Contains(text[i], "NUL")
     THEN <<Problem(i, <<"readability", "nul">>, 5)>> ELSE <<>>)])

CheckForNewlineAtEOF(file) ==
  IF file.newline THEN <<>>
  ELSE <<Problem(Len(file.text), <<"whitespace", "ending_newline">>, 5)>>

\* Carriage returns are errors when only some of the terminated lines have
\* them.
CheckLineEnds(file) ==
  LET ended == {i \in DOMAIN file.text : i < Len(file.text) \/ file.newline}
  IN  IF ended \subseteq file.crlf THEN <<>>
      ELSE FlattenSeq([i \in DOMAIN file.text |->
             IF i \in file.crlf \cap ended
             THEN <<Problem(i, <<"whitespace", "newline">>, 1)>> ELSE <<>>])

\* The verdicts behind the last line.
Ended(file, lines, after, used_filters, used_options) ==
  Judged(after.known, used_filters,
         CheckCompletedBlocks(after.nesting)
         \o CheckForIncludeWhatYouUse(after.include, file, lines, used_options)
         \o CheckHeaderFileIncluded(after.include, file, used_options)
         \o CheckForBadCharacters(lines.raw_lines)
         \o CheckForNewlineAtEOF(file)
         \o CheckLineEnds(file))

EndFile ==
  /\ pc = "line" /\ linenum > Len(clean_lines.lines)
  /\ Report(Ended(File, clean_lines, checks, filters, options))
  /\ NextFile
  /\ UNCHANGED <<command, state, filters_backup, options, exit>>

\* main: the exit code tells whether any error was printed.
Exit ==
  /\ pc = "file" /\ ~HasFile
  /\ pc' = "done"
  /\ exit' = IF error_count > 0 THEN 1 ELSE 0
  /\ UNCHANGED <<command, index, state, filters, filters_backup, options,
                 error_count, verdicts>>

Next ==
  \/ ParseArguments \/ NoFiles \/ DieOfFilter
  \/ ExcludeFile \/ DieOfConfig \/ SkipFile \/ StartFile
  \/ ProcessLine \/ EndFile \/ Exit

Spec == Init /\ [][Next]_vars
=============================================================================
