---------------------------- MODULE NestingState ----------------------------
(***************************************************************************)
(* class NestingState of build_support/cpplint.py: the stack of blocks a   *)
(* line of C++ is in, kept line by line, and what #if, #else and #endif do *)
(* to it.  A state is the record of its three attributes; an operation     *)
(* gives the new record and the errors raised on the way.                  *)
(*                                                                         *)
(* Tokens, next to those of CppLines: namespace, class, struct, template,  *)
(* public:, private:, extern, asm, DISALLOW, braces, parentheses, angle    *)
(* brackets, ;, = and the directives #if, #elif, #else, #endif, #define.   *)
(***************************************************************************)
EXTENDS CppLines

CONSTANT
  NamespaceLines   \* a namespace shorter than this needs no end comment (10)

ASSUME NamespaceLinesAssumption == NamespaceLines \in Nat

AsmStates == {"none", "inside", "end", "block"}

\* _BlockInfo and its subclasses: block, extern, class (or struct), namespace.
Block(kind, name, linenum, seen) ==
  [kind |-> kind, name |-> name, starting_linenum |-> linenum,
   seen_open_brace |-> seen, open_parentheses |-> 0, inline_asm |-> "none",
   access |-> CASE kind = "struct" -> "public:" [] kind = "class" -> "private:"
                [] OTHER -> "",
   indent |-> 0]

NoBlock == Block("none", "", 0, FALSE)

IsClass(block) == block.kind \in {"class", "struct"}
IsNamespace(block) == block.kind = "namespace"
\* check_namespace_indentation is set by the constructors of these two.
ChecksIndentation(block) == IsClass(block) \/ IsNamespace(block)

\* NestingState.__init__; previous_stack_top is kept with its depth, which
\* tells one object from another.
NewNestingState ==
  [stack |-> <<>>, previous_stack_top |-> NoBlock, previous_depth |-> 0,
   pp_stack |-> <<>>]

Top(stack) == Last(stack)
SetTop(stack, block) == [stack EXCEPT ![Len(stack)] = block]

SeenOpenBrace(stack) == stack = <<>> \/ Top(stack).seen_open_brace

InAsmBlock(nesting) ==
  nesting.stack # <<>> /\ Top(nesting.stack).inline_asm # "none"

Problem(linenum, category, confidence) ==
  [linenum |-> linenum, category |-> category, confidence |-> confidence]

-----------------------------------------------------------------------------
(* Expressions in brackets, and template arguments. *)

Opening == {"(", "[", "{"}
Closing == {")", "]", "}"}
Opens(t) == CASE t = ")" -> "(" [] t = "]" -> "[" [] t = "}" -> "{"

\* The stack without the < on its top, which were operators.
DropAngles(stack) ==
  LET kept == {i \in DOMAIN stack : stack[i] # "<"}
  IN  IF kept = {} THEN <<>>
      ELSE SubSeq(stack, 1, CHOOSE i \in kept : \A j \in kept : j <= i)

\* One token of FindEndOfExpressionInLine.  end is the position after the
\* match, 0 while it is sought, and over says that the search has ended.
EndToken(acc, t) ==
  LET at == acc.at + 1
      next == [acc EXCEPT !.at = at]
      give_up == [next EXCEPT !.over = TRUE]
      found == [next EXCEPT !.over = TRUE, !.end = at + 1]
      stack == DropAngles(acc.stack)
  IN  CASE acc.over -> acc
        [] ~acc.over /\ t \in Opening \cup {"<"} ->
             [next EXCEPT !.stack = Append(@, t)]
        [] ~acc.over /\ t \in Closing ->
             IF stack = <<>> \/ Last(stack) # Opens(t) THEN give_up
             ELSE IF Len(stack) = 1 THEN found
             ELSE [next EXCEPT !.stack = Front(stack)]
        [] ~acc.over /\ t = ">" /\ acc.stack # <<>> /\ Last(acc.stack) = "<" ->
             IF Len(acc.stack) = 1 THEN found
             ELSE [next EXCEPT !.stack = Front(@)]
        [] ~acc.over /\ t = ";" ->
             IF stack = <<>> THEN give_up ELSE [next EXCEPT !.stack = stack]
        [] OTHER -> next

\* CloseExpression: the position after the bracket that closes the one at
\* position k, or 0.  tokens runs over the lines of the file.
CloseExpression(tokens, k) ==
  FoldLeft(EndToken, [at |-> k - 1, end |-> 0, over |-> FALSE, stack |-> <<>>],
           SubSeq(tokens, k, Len(tokens))).end

\* The tokens from position pos of line linenum to the end of the file.
TokensFrom(elided, linenum, pos) ==
  LET rest == [i \in linenum .. Len(elided) |->
                 IF i = linenum
                 THEN SubSeq(elided[i], pos + 1, Len(elided[i]))
                 ELSE elided[i]]
  IN  FlattenSeq([i \in 1 .. Len(elided) - linenum + 1 |-> rest[linenum + i - 1]])

\* Is what stands at position pos an argument of a template?
InTemplateArgumentList(elided, linenum, pos) ==
  LET tokens == TokensFrom(elided, linenum, pos)
      inside[k \in 1 .. Len(tokens) + 1] ==
        IF k > Len(tokens) THEN FALSE
        ELSE CASE tokens[k] \in {"{", "}", ";", "<<"} -> FALSE
               [] tokens[k] \in {">", "=", "[", "]", ".", "->"} -> TRUE
               [] tokens[k] = "<" ->
                    LET end == CloseExpression(tokens, k)
                    IN  IF end = 0 THEN FALSE ELSE inside[end]
               [] OTHER -> inside[k + 1]
  IN  inside[1]

-----------------------------------------------------------------------------
(* UpdatePreprocessor: the stack as it was before #if is saved and restored *)
(* for every other branch; after #endif the first branch is what counts.    *)

\* The first #else or #elif saves the stack of the first branch.
SaveEveryBranch(info, stack) ==
  [info EXCEPT !.seen_else = TRUE, !.stack_before_else = stack]

SaveFirstBranch(info, stack) ==
  IF info.seen_else THEN info
  ELSE [info EXCEPT !.seen_else = TRUE, !.stack_before_else = stack]

UpdatePreprocessor(nesting, line) ==
  LET pp == nesting.pp_stack
      info == Last(pp)
      directive == First(line)
  IN  CASE directive \in {"#if", "#ifndef"} ->
             [nesting EXCEPT !.pp_stack =
                Append(@, [stack_before_if |-> nesting.stack,
                           stack_before_else |-> <<>>, seen_else |-> FALSE])]
        [] directive \in {"#else", "#elif"} /\ pp # <<>> ->
             [nesting EXCEPT
                !.pp_stack = Append(Front(@), SaveFirstBranch(info, nesting.stack)),
                !.stack = info.stack_before_if]
        [] directive = "#endif" /\ pp # <<>> ->
             [nesting EXCEPT
                !.pp_stack = Front(@),
                !.stack = IF info.seen_else THEN info.stack_before_else ELSE @]
        [] OTHER -> nesting

-----------------------------------------------------------------------------
(* Update, in the order of the code. *)

\* _MATCH_ASM: asm, with volatile or without, and its bracket.
MatchAsm(tokens) ==
  LET code == Strip(tokens)
  IN  Len(code) > 1 /\ code[1] = "asm" /\ code[2] \in {"(", "{"}

\* Parentheses are counted on the innermost block, which may enter or leave
\* an inline assembly by them.
CountParentheses(stack, line) ==
  LET block == Top(stack)
      change == Count(line, "(") - Count(line, ")")
      open == block.open_parentheses + change
      asm == CASE block.inline_asm \in {"none", "end"} ->
                    IF change # 0 /\ open = 1 /\ MatchAsm(line)
                    THEN "inside" ELSE "none"
               [] block.inline_asm = "inside" /\ open = 0 -> "end"
               [] OTHER -> block.inline_asm
  IN  IF stack = <<>> THEN stack
      ELSE SetTop(stack, [block EXCEPT !.open_parentheses = open,
                                       !.inline_asm = asm])

\* One turn of the loop that takes namespaces off the front of the line.
TakeNamespace(acc, linenum) ==
  LET after == Tail(Strip(acc.line))
      named == after # <<>> /\ Head(after) \in Words
      rest  == IF named THEN Tail(after) ELSE after
      brace == SelectInSeq(rest, LAMBDA t : t = "{")
      block == Block("namespace", IF named THEN Head(after) ELSE "", linenum,
                     brace # 0)
  IN  IF First(acc.line) # "namespace" THEN acc
      ELSE [stack |-> Append(acc.stack, block),
            line |-> SubSeq(rest, brace + 1, Len(rest))]

TakeNamespaces(stack, line, linenum) ==
  LET turn[n \in 0 .. Count(line, "namespace")] ==
        IF n = 0 THEN [stack |-> stack, line |-> line]
        ELSE LET before == turn[n - 1] IN TakeNamespace(before, linenum)
  IN  turn[Count(line, "namespace")]

\* The position of the keyword in a class declaration that starts the line,
\* possibly behind template <...>; 0 when there is none.
ClassDecl(line) ==
  LET indent == GetIndentLevel(line)
      heads == {k \in indent + 1 .. Len(line) - 1 :
                  /\ line[k] \in {"class", "struct"} /\ line[k + 1] \in Words
                  /\ \/ k = indent + 1
                     \/ /\ k > indent + 2
                        /\ line[indent + 1] = "template"
                        /\ line[indent + 2] = "<" /\ line[k - 1] = ">"
                        /\ \A i \in indent + 2 .. k - 1 :
                             line[i] \in Words \cup {"<", ">", "class", "=", ","}}
  IN  IF heads = {} THEN 0 ELSE CHOOSE k \in heads : \A j \in heads : j <= k

\* The position after the name is looked up in the whole line, although
\* namespaces may have been taken off it (line 2901 of the source).
TakeClass(acc, lines, linenum) ==
  LET k == ClassDecl(acc.line)
      block == [Block(acc.line[k], acc.line[k + 1], linenum, FALSE)
                  EXCEPT !.indent = GetIndentLevel(lines.raw_lines[linenum])]
  IN  IF \/ k = 0
         \/ acc.stack # <<>> /\ Top(acc.stack).open_parentheses # 0
         \/ InTemplateArgumentList(lines.elided, linenum, k + 1)
      THEN acc
      ELSE [stack |-> Append(acc.stack, block),
            line |-> SubSeq(acc.line, k + 2, Len(acc.line))]

\* public: and the like inside a class.
UpdateAccess(stack, line, linenum) ==
  LET keywords == {k \in DOMAIN line : line[k] \in {"public:", "private:"}}
      k == CHOOSE i \in keywords : \A j \in keywords : j <= i
      alone == \A i \in 1 .. k - 1 : line[i] = Blank
  IN  IF stack = <<>> \/ ~IsClass(Top(stack)) \/ keywords = {}
      THEN [stack |-> stack, errors |-> <<>>]
      ELSE [stack |-> SetTop(stack, [Top(stack) EXCEPT !.access = line[k]]),
            errors |-> IF alone /\ k - 1 # Top(stack).indent + 1
                       THEN <<Problem(linenum, <<"whitespace", "indent">>, 3)>>
                       ELSE <<>>]

\* _ClassInfo.CheckEnd.
ClassCheckEnd(block, lines, linenum) ==
  LET start == block.starting_linenum
      macro(line) == \E k \in 1 .. Len(line) - 2 :
                       /\ line[k] = "DISALLOW" /\ line[k + 1] = "("
                       /\ line[k + 2] = block.name
      macros == {i \in start + 1 .. linenum - 1 : macro(lines.elided[i])}
      last == CHOOSE i \in macros : \A j \in macros : j <= i
      line == lines.elided[linenum]
  IN  (IF macros # {} /\ \E i \in last + 1 .. linenum - 1 :
                           ~IsBlankLine(lines.elided[i])
       THEN <<Problem(last, <<"readability", "constructors">>, 3)>> ELSE <<>>)
      \o
      (IF First(line) = "}" /\ GetIndentLevel(line) # block.indent
       THEN <<Problem(linenum, <<"whitespace", "indent">>, 3)>> ELSE <<>>)

\* The comment behind the closing brace of a namespace: } ; // namespace A
EndComment(raw_line) ==
  LET code == SelectSeq(Strip(raw_line), LAMBDA t : t # ";")
  IN  IF Len(code) >= 2 /\ code[1] = "}" /\ code[2] \in {"//", "/*"}
      THEN SelectSeq(SubSeq(code, 3, Len(code)), LAMBDA t : t # "*/")
      ELSE <<>>

\* _NamespaceInfo.CheckEnd.
NamespaceCheckEnd(block, lines, linenum) ==
  LET comment == EndComment(lines.raw_lines[linenum])
      wanted  == IF block.name = "" THEN <<"namespace">>
                 ELSE <<"namespace", block.name>>
  IN  IF \/ /\ linenum - block.starting_linenum < NamespaceLines
            /\ ~Contains(comment, "namespace")
         \/ IsSuffix(wanted, comment)
      THEN <<>>
      ELSE <<Problem(linenum, <<"readability", "namespace">>, 5)>>

CheckEnd(block, lines, linenum) ==
  CASE IsClass(block) -> ClassCheckEnd(block, lines, linenum)
    [] IsNamespace(block) -> NamespaceCheckEnd(block, lines, linenum)
    [] OTHER -> <<>>

\* One brace, semicolon or closing parenthesis of what is left of the line.
\* piece is what stands between the one before and this one.
OpenBrace(acc, linenum) ==
  IF ~SeenOpenBrace(acc.stack)
  THEN SetTop(acc.stack, [Top(acc.stack) EXCEPT !.seen_open_brace = TRUE])
  ELSE IF acc.piece = <<"extern", Empty>>
  THEN Append(acc.stack, Block("extern", "", linenum, TRUE))
  ELSE Append(acc.stack,
              [Block("block", "", linenum, TRUE) EXCEPT
                 !.inline_asm = IF MatchAsm(Append(acc.piece, "{")) THEN "block" ELSE "none"])

\* A head that has not seen its brace was a forward declaration or a parameter.
PopHead(stack) == IF SeenOpenBrace(stack) THEN stack ELSE Front(stack)

PopBlock(stack) == IF stack = <<>> THEN stack ELSE Front(stack)

TakeToken(acc, t, lines, linenum) ==
  CASE t = "{" -> [acc EXCEPT !.stack = OpenBrace(acc, linenum), !.piece = <<>>]
    [] t \in {";", ")"} -> [acc EXCEPT !.stack = PopHead(@), !.piece = <<>>]
    [] t = "}" ->
         [stack |-> PopBlock(acc.stack), piece |-> <<>>,
          errors |-> IF acc.stack = <<>> THEN acc.errors
                     ELSE acc.errors \o CheckEnd(Top(acc.stack), lines, linenum)]
    [] OTHER -> [acc EXCEPT !.piece = Append(@, t)]

TakeBraces(stack, line, lines, linenum) ==
  LET after[i \in 0 .. Len(line)] ==
        IF i = 0 THEN [stack |-> stack, errors |-> <<>>, piece |-> <<>>]
        ELSE LET before == after[i - 1] IN TakeToken(before, line[i], lines, linenum)
  IN  after[Len(line)]

\* NestingState.Update.  CheckBegin only notes that a class is derived, which
\* nothing reads.
Update(nesting, lines, linenum) ==
  LET line == lines.elided[linenum]
      stack == nesting.stack
      pp == UpdatePreprocessor(nesting, line)
      counted == CountParentheses(pp.stack, line)
      spaces == TakeNamespaces(counted, line, linenum)
      after(class) ==
        LET access == UpdateAccess(class.stack, class.line, linenum)
            braces == TakeBraces(access.stack, class.line, lines, linenum)
        IN  [nesting |->
               [stack |-> braces.stack,
                previous_stack_top |-> IF stack = <<>> THEN NoBlock ELSE Top(stack),
                previous_depth |-> Len(stack),
                pp_stack |-> pp.pp_stack],
             errors |-> access.errors \o braces.errors]
  IN  after(TakeClass(spaces, lines, linenum))

\* CheckCompletedBlocks, at the end of the file.
CheckCompletedBlocks(nesting) ==
  LET incomplete(block) ==
        CASE IsClass(block) ->
               <<Problem(block.starting_linenum, <<"build", "class">>, 5)>>
          [] IsNamespace(block) ->
               <<Problem(block.starting_linenum, <<"build", "namespaces">>, 5)>>
          [] OTHER -> <<>>
  IN  FlattenSeq([i \in DOMAIN nesting.stack |-> incomplete(nesting.stack[i])])

-----------------------------------------------------------------------------
(* Indentation inside namespaces. *)

IsForwardClassDeclaration(line) ==
  \E word \in Words : IsSuffix(<<"class", word, ";">>, line)

IsMacroDefinition(elided, linenum) ==
  \/ IsPrefix(<<"#define">>, elided[linenum])
  \/ /\ linenum > 1 /\ elided[linenum - 1] # <<>>
     /\ Last(elided[linenum - 1]) = "BACKSLASH"

IsBlockInNameSpace(nesting, is_forward_declaration) ==
  LET stack == nesting.stack
  IN  IF is_forward_declaration
      THEN stack # <<>> /\ IsNamespace(Top(stack))
      ELSE /\ Len(stack) > 1
           /\ ChecksIndentation(Top(stack))
           /\ IsNamespace(stack[Len(stack) - 1])

\* The line has put a class or namespace on the namespace it started in.
IsNamespaceIndentItem(nesting) ==
  LET stack == nesting.stack
  IN  /\ Len(stack) > 1
      /\ ChecksIndentation(Top(stack))
      /\ IsNamespace(nesting.previous_stack_top)
      /\ nesting.previous_depth = Len(stack) - 1
      /\ stack[Len(stack) - 1].starting_linenum =
           nesting.previous_stack_top.starting_linenum

CheckForNamespaceIndentation(nesting, lines, linenum) ==
  LET line == lines.elided[linenum]
      forward == IsForwardClassDeclaration(line)
  IN  IF /\ IsNamespaceIndentItem(nesting) \/ forward
         /\ ~IsMacroDefinition(lines.elided, linenum)
         /\ IsBlockInNameSpace(nesting, forward)
         /\ GetIndentLevel(line) > 0
      THEN <<Problem(linenum, <<"runtime", "indentation_namespace">>, 4)>>
      ELSE <<>>
=============================================================================
