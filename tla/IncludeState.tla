---------------------------- MODULE IncludeState ----------------------------
(***************************************************************************)
(* class _IncludeState of build_support/cpplint.py and the checks about    *)
(* include directives: duplicates, the order of the sections, the order of *)
(* the alphabet, and (at the end of the file) headers that are used but    *)
(* not included.                                                           *)
(*                                                                         *)
(* An include line is <<"#include", h>> with h in the domain of Header,    *)
(* which gives what the code reads off the path:                           *)
(*   name    the path; two spellings may share it                          *)
(*   system  written in angle brackets                                     *)
(*   ext     the extension; cpp says that the path is a C++ header         *)
(*   dir, base, first   directory, base name without the common suffixes,  *)
(*           and its first component                                       *)
(*   rank    its place in the alphabet, after canonicalization             *)
(*   third   it looks like a third-party header                            *)
(* A file is a record with dir, base, first, ext, test, own, like and      *)
(* disk: test says that its name ends like that of a test, own are the     *)
(* paths by which its header may be included, like those that hold the     *)
(* path of its header or are held by it, and disk the paths that header    *)
(* includes, or NoHeader when there is no such file.                       *)
(***************************************************************************)
EXTENDS CppLines

CONSTANTS
  Header,     \* what is known of each header token
  Requires    \* the header a word of the standard library is declared in

ASSUME RequiresAssumption == IsFiniteSet(DOMAIN Requires)

NoHeader == {"no such file"}

\* The --headers and --extensions options; {} stands for not given.
NoOptions == [headers |-> {}, extensions |-> {}]

\* Of the allowed extensions those with an h in them are headers.
GetHeaderExtensions(options) ==
  CASE options.headers # {} -> options.headers
    [] options.headers = {} /\ options.extensions # {} ->
         options.extensions \cap {"h", "hpp"}
    [] OTHER -> {"h", "hpp"}

GetAllExtensions(options) ==
  GetHeaderExtensions(options)
    \cup (IF options.extensions # {} THEN options.extensions
          ELSE {"cc", "cpp", "c"})

GetNonHeaderExtensions(options) ==
  GetAllExtensions(options) \ GetHeaderExtensions(options)

\* The header of a source file has the extension h: the paths by which it is
\* included.
OwnHeader(file, options) ==
  IF "h" \in GetHeaderExtensions(options) THEN file.own ELSE {}

\* The paths that pass for it where paths are compared by substrings.
PassForOwn(file, options) ==
  IF "h" \in GetHeaderExtensions(options) THEN file.like ELSE {}

InitialSection == 0
MyHSection == 1
CSection == 2
CppSection == 3
OtherHSection == 4

\* _IncludeState.__init__; a pair of include_list is a path and its line.
NewIncludeState ==
  [include_list |-> <<{}>>, section |-> InitialSection, last_header |-> 0]

IncludeProblem(linenum, sub) ==
  [linenum |-> linenum, category |-> <<"build", sub>>, confidence |-> 4]

\* FindHeader: has the path been included, in a branch that is remembered?
FindHeader(state, name) ==
  \E i \in DOMAIN state.include_list :
    \E pair \in state.include_list[i] : pair[1] = name

\* ResetSection with one list for all branches, and with a list popped at #endif.
ResetSectionFlat(state, directive) ==
  [include_list |-> IF directive \in {"#else", "#elif"}
                    THEN Append(Front(state.include_list), {})
                    ELSE state.include_list,
   section |-> InitialSection, last_header |-> 0]

ResetSectionPops(state, directive) ==
  LET list == state.include_list
  IN  [include_list |->
         CASE directive \in {"#if", "#ifndef"} -> Append(list, {})
           [] directive \in {"#else", "#elif"} -> Append(Front(list), {})
           [] OTHER -> Front(list),
       section |-> InitialSection, last_header |-> 0]

\* ResetSection, for every conditional directive.  Nothing is ever popped;
\* #else and #elif empty the last list.
ResetSection(state, directive) ==
  LET list == state.include_list
  IN  [include_list |->
         CASE directive \in {"#if", "#ifndef"} -> Append(list, {})
           [] directive \in {"#else", "#elif"} -> Append(Front(list), {})
           [] OTHER -> list,
       section |-> InitialSection,
       last_header |-> 0]

\* CheckNextIncludeOrder: the state with the new section, and whether the
\* header comes too late.
CheckNextIncludeOrder(state, header_type) ==
  LET section ==
        CASE header_type = "c" -> CSection
          [] header_type = "cpp" -> CppSection
          [] header_type \in {"likely", "possible"} /\ state.section <= MyHSection
               -> MyHSection
          [] OTHER -> OtherHSection
      late == header_type \in {"c", "cpp"} /\ state.section > section
  IN  [late |-> late,
       state |-> [state EXCEPT
                    !.section = IF late THEN @ ELSE section,
                    !.last_header = IF late \/ state.section # section
                                    THEN 0 ELSE @]]

\* _ClassifyInclude.
ClassifyInclude(file, header) ==
  CASE header.system /\ header.ext # "hpp" /\ header.cpp -> "cpp"
    [] header.system /\ header.ext # "hpp" /\ ~header.cpp -> "c"
    [] header.base = file.base /\ header.dir \in {file.dir, "public"} -> "likely"
    [] header.first = file.first /\ header.base # file.base -> "possible"
    [] header.first = file.first /\ header.dir \notin {file.dir, "public"} ->
         "possible"
    [] OTHER -> "other"

\* IsInAlphabeticalOrder: only directly behind another include line.
IsInAlphabeticalOrder(state, lines, linenum, rank) ==
  ~ /\ state.last_header > rank
    /\ linenum > 1
    /\ First(lines.elided[linenum - 1]) = "#include"

\* CheckIncludeLine, behind its early returns.
AddInclude(state, file, lines, linenum, header) ==
  LET listed == [state EXCEPT !.include_list =
                   Append(Front(@), Last(@) \cup {<<header.name, linenum>>})]
      order == CheckNextIncludeOrder(listed, ClassifyInclude(file, header))
      sorted == IsInAlphabeticalOrder(order.state, lines, linenum, header.rank)
  IN  [include |-> [order.state EXCEPT !.last_header = header.rank],
       errors |->
         (IF order.late THEN <<IncludeProblem(linenum, "include_order")>>
          ELSE <<>>)
         \o (IF sorted THEN <<>>
             ELSE <<IncludeProblem(linenum, "include_alpha")>>)]

CheckIncludeLine(state, file, lines, linenum, options) ==
  LET line == Strip(lines.lines[linenum])
      header == Header[line[2]]
      foreign == /\ header.ext \in GetNonHeaderExtensions(options)
                 /\ header.dir # file.dir
      subdir == IF ~header.system /\ header.dir = "" /\ header.ext = "h"
                   /\ ~header.third
                THEN <<IncludeProblem(linenum, "include_subdir")>> ELSE <<>>
      rest ==
        CASE FindHeader(state, header.name) ->
               [include |-> state,
                errors |-> <<IncludeProblem(linenum, "include")>>]
          [] /\ ~FindHeader(state, header.name)
             /\ foreign ->
               [include |-> state,
                errors |-> <<IncludeProblem(linenum, "include")>>]
          [] /\ ~FindHeader(state, header.name)
             /\ ~foreign
             /\ (header.name \in PassForOwn(file, options) \/ ~header.third) ->
               AddInclude(state, file, lines, linenum, header)
          [] OTHER -> [include |-> state, errors |-> <<>>]
  IN  [rest EXCEPT !.errors = subdir \o @]

\* The part of CheckLanguage that is about the preprocessor.
CheckLanguage(state, file, lines, linenum, options) ==
  LET line == lines.elided[linenum]
      directives == {"#if", "#ifndef", "#elif", "#else", "#endif"}
  IN  CASE First(line) = "#include" ->
             CheckIncludeLine(state, file, lines, linenum, options)
        [] First(line) \in directives ->
             [include |-> ResetSection(state, First(line)), errors |-> <<>>]
        [] OTHER -> [include |-> state, errors |-> <<>>]

\* FlagCxx11Features and FlagCxx14Features: headers that are not approved of.
FlagCxx11Features(lines, linenum) ==
  LET line == Strip(lines.elided[linenum])
  IN  IF First(line) = "#include" /\ Header[line[2]].name = "mutex"
      THEN <<[linenum |-> linenum, category |-> <<"build", "c++11">>,
              confidence |-> 5]>>
      ELSE <<>>

-----------------------------------------------------------------------------
(* At the end of the file. *)

\* include_dict: every path still remembered.
Included(state) ==
  {pair[1] : pair \in UNION {state.include_list[i] :
                               i \in DOMAIN state.include_list}}

\* The lines a header is needed on; the last one is reported.
UsedOn(lines, name) ==
  {i \in DOMAIN lines.elided :
     /\ \A t \in {"#include", "#if", "#ifndef", "#else", "#elif", "#endif",
                  "#define", "#pragma once"} : ~IsPrefix(<<t>>, lines.elided[i])
     /\ \E word \in DOMAIN Requires :
          Requires[word] = name /\ Contains(lines.elided[i], word)}

\* CheckForIncludeWhatYouUse: a source file leaves out what its own header
\* includes, and is not checked when that header is not among its includes
\* or cannot be read.
CheckForIncludeWhatYouUse(state, file, lines, options) ==
  LET source == file.ext \in GetNonHeaderExtensions(options)
      found == /\ source
               /\ OwnHeader(file, options) \cap Included(state) # {}
               /\ file.disk # NoHeader
      available == Included(state) \cup (IF found THEN file.disk ELSE {})
      names == {Requires[w] : w \in DOMAIN Requires}
      missing == {n \in names \ available : UsedOn(lines, n) # {}}
      line(n) == CHOOSE i \in UsedOn(lines, n) : \A j \in UsedOn(lines, n) : j <= i
  IN  IF ~found /\ source THEN <<>>
      ELSE SetToSeq({IncludeProblem(line(n), "include_what_you_use") :
                       n \in missing})

\* CheckHeaderFileIncluded: the header exists and no include passes for it;
\* files of tests are not checked.  The error is put on the line of the first
\* include; 0 stands for no line.
CheckHeaderFileIncluded(state, file, options) ==
  LET list == SelectSeq(state.include_list, LAMBDA s : s # {})
      lines == {pair[2] : pair \in Head(list)}
      first == IF list = <<>> THEN 0
               ELSE CHOOSE i \in lines : \A j \in lines : i <= j
  IN  IF /\ file.ext \in GetNonHeaderExtensions(options)
         /\ ~file.test
         /\ file.disk # NoHeader
         /\ "h" \in GetHeaderExtensions(options)
         /\ PassForOwn(file, options) \cap Included(state) = {}
      THEN <<[linenum |-> first, category |-> <<"build", "include">>,
              confidence |-> 5]>>
      ELSE <<>>
=============================================================================
