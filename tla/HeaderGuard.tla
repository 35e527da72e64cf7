----------------------------- MODULE HeaderGuard -----------------------------
(***************************************************************************)
(* CheckForHeaderGuard of build_support/cpplint.py.  The name the path of  *)
(* the header asks for is the token GUARD, and GUARD_ the same with one    *)
(* more underscore; #pragma once is one token.  The check reads the        *)
(* suppressions of the lines it reports before the lines are processed, so *)
(* that it is a sequence of stages: the line whose NOLINT is read (0 for   *)
(* none), and then the errors raised.                                      *)
(***************************************************************************)
EXTENDS CppLines

GuardProblem(linenum, confidence) ==
  [linenum |-> linenum, category |-> <<"build", "header_guard">>,
   confidence |-> confidence]

Stage(linenum, errors) == [linenum |-> linenum, errors |-> errors]

\* A NOLINT of this very category, or a pragma, anywhere in the file.
NeedsNoGuard(lines) ==
  \E i \in DOMAIN lines : \/ Contains(lines[i], "NOLINT_guard")
                          \/ First(lines[i]) = "#pragma once"

\* The first line that starts with the directive and has an argument; 0 when
\* there is none.
FirstDirective(lines, directive) ==
  LET found == {i \in DOMAIN lines : /\ First(lines[i]) = directive
                                     /\ Len(Strip(lines[i])) >= 2}
  IN  IF found = {} THEN 0 ELSE CHOOSE i \in found : \A j \in found : i <= j

Argument(lines, i) == Strip(lines[i])[2]

\* The last #endif at the left margin; 0 when there is none.
LastEndif(lines) ==
  LET found == {i \in DOMAIN lines : IsPrefix(<<"#endif">>, lines[i])}
  IN  IF found = {} THEN 0 ELSE CHOOSE i \in found : \A j \in found : j <= i

HasLineComment(line) ==
  \E p \in DOMAIN line : line[p] = "//" /\ ~IsCppString(SubSeq(line, 1, p - 1))

\* The comment of the #endif line names the guard.  Block comments count only
\* in files without any // comment.
EndifNames(lines, endif, guard) ==
  /\ endif # 0
  /\ \/ IsPrefix(<<"#endif", "//", guard>>, lines[endif])
     \/ /\ IsPrefix(<<"#endif", "/*", guard, "*/">>, lines[endif])
        /\ \A i \in DOMAIN lines : ~HasLineComment(lines[i])

\* The stages; lines are those without raw strings.
CheckForHeaderGuard(lines) ==
  LET ifndef == FirstDirective(lines, "#ifndef")
      define == FirstDirective(lines, "#define")
      endif  == LastEndif(lines)
      name   == Argument(lines, ifndef)
      style  == CASE name = "GUARD" -> <<>>
                  [] name = "GUARD_" ->
                       <<Stage(ifndef, <<GuardProblem(ifndef, 0)>>)>>
                  [] OTHER -> <<Stage(ifndef, <<GuardProblem(ifndef, 5)>>)>>
      ending == CASE EndifNames(lines, endif, "GUARD") -> <<>>
                  [] EndifNames(lines, endif, "GUARD_") ->
                       <<GuardProblem(endif, 0)>>
                  [] OTHER -> <<GuardProblem(endif, 5)>>
  IN  CASE NeedsNoGuard(lines) -> <<>>
        [] /\ ~NeedsNoGuard(lines)
           /\ \/ ifndef = 0 \/ define = 0
              \/ Argument(lines, ifndef) # Argument(lines, define) ->
             <<Stage(0, <<GuardProblem(0, 5)>>)>>
        [] OTHER -> Append(style, Stage(endif, ending))
=============================================================================
