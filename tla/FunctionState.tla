---------------------------- MODULE FunctionState ----------------------------
(***************************************************************************)
(* class _FunctionState and CheckForFunctionLengths of                     *)
(* build_support/cpplint.py: the lines of a function's body are counted    *)
(* from a head at the left margin to a brace alone at the left margin.     *)
(***************************************************************************)
EXTENDS CppLines

CONSTANTS
  NormalTrigger,   \* _NORMAL_TRIGGER: 250 in the code
  TestTrigger      \* _TEST_TRIGGER: 400 in the code

ASSUME TriggersAssumption ==
  NormalTrigger \in Nat \ {0} /\ TestTrigger \in Nat \ {0}

NewFunctionState ==
  [in_a_function |-> FALSE, lines_in_function |-> 0, current_function |-> ""]

Begin(name) ==
  [in_a_function |-> TRUE, lines_in_function |-> 0, current_function |-> name]

CountLine(function) ==
  IF function.in_a_function
  THEN [function EXCEPT !.lines_in_function = @ + 1] ELSE function

EndGoesOn(function) == function

End(function) == [function EXCEPT !.in_a_function = FALSE]

\* int(math.log(lines / base, 2)), at most 5.
ErrorLevel(lines, base) ==
  LET levels == {l \in 0 .. 5 : base * 2 ^ l <= lines}
  IN  CHOOSE l \in levels : \A k \in levels : k <= l

\* Check: an error at the line of the closing brace.
Check(function, verbose_level, linenum) ==
  LET base == IF function.current_function = "TEST" THEN TestTrigger
              ELSE NormalTrigger
  IN  IF function.in_a_function
         /\ function.lines_in_function > base * 2 ^ verbose_level
      THEN <<[linenum |-> linenum, category |-> <<"readability", "fn_size">>,
              confidence |-> ErrorLevel(function.lines_in_function, base)]>>
      ELSE <<>>

-----------------------------------------------------------------------------
\* The name in front of the first parenthesis of a line that starts at the
\* left margin with nothing but words; "" when there is none.
FunctionName(line) ==
  LET p == SelectInSeq(line, LAMBDA t : t = "(")
  IN  IF p > 1 /\ \A i \in 1 .. p - 1 : line[i] \in Words \cup {"asm"}
      THEN line[p - 1] ELSE ""

\* A name in capitals is taken for a macro, but for the TEST macros.
StartsFunction(line) == FunctionName(line) \notin {"", "MACRO"}

\* The first line from linenum on with a semicolon or a brace decides: a body,
\* a declaration (or a trivial body), or 0 when there is no such line.
BodyLine(lines, linenum) ==
  LET ends == {i \in linenum .. Len(lines) :
                 \E t \in {";", "}", "{"} : Contains(lines[i], t)}
  IN  IF ends = {} THEN 0 ELSE CHOOSE i \in ends : \A j \in ends : i <= j

HasBody(line) == ~Contains(line, ";") /\ ~Contains(line, "}")

CheckForFunctionLengths(function, lines, linenum, verbose_level) ==
  LET line == lines[linenum]
      body == BodyLine(lines, linenum)
      starts == StartsFunction(line)
      ends == ~starts /\ line = <<"}">>
  IN  [function |->
         CASE starts /\ body # 0 /\ HasBody(lines[body]) ->
                Begin(FunctionName(line))
           [] starts /\ ~(body # 0 /\ HasBody(lines[body])) -> function
           [] ends -> End(function)
           [] ~starts /\ ~ends /\ ~IsBlankLine(line) -> CountLine(function)
           [] OTHER -> function,
       errors |->
         CASE starts /\ body = 0 ->
                <<[linenum |-> linenum,
                   category |-> <<"readability", "fn_size">>,
                   confidence |-> 5]>>
           [] ends -> Check(function, verbose_level, linenum)
           [] OTHER -> <<>>]
=============================================================================
