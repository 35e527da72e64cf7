----------------------------- MODULE LintErrors -----------------------------
(***************************************************************************)
(* What build_support/cpplint.py does with an error it has found: the      *)
(* NOLINT suppressions of the file, the filters of the command line and of *)
(* the CPPLINT.cfg files, the verbosity and the count.                     *)
(*                                                                         *)
(* A category is a pair such as <<"build", "class">>; a filter is a record *)
(* of a sign, "+" or "-" (or "", which AddFilters refuses), and the prefix *)
(* of the categories it is about.  A NOLINT token is the record's key in   *)
(* Nolint below.                                                           *)
(***************************************************************************)
EXTENDS Naturals, Sequences, FiniteSets, SequencesExt

\* The category None under which NOLINT and NOLINT(...) of * are kept.
AnyCategory == <<>>

\* What the tokens say: the category, and whether it is the next line's.
Nolint ==
  [NOLINT          |-> [category |-> AnyCategory, next |-> FALSE],
   NOLINT_class    |-> [category |-> <<"build", "class">>, next |-> FALSE],
   NOLINT_include  |-> [category |-> <<"build", "include">>, next |-> FALSE],
   NOLINT_guard    |-> [category |-> <<"build", "header_guard">>,
                        next |-> FALSE],
   NOLINT_unknown  |-> [category |-> <<"unknown">>, next |-> FALSE],
   NOLINT_legacy   |-> [category |-> <<"legacy">>, next |-> FALSE],
   NOLINTNEXTLINE  |-> [category |-> AnyCategory, next |-> TRUE]]

NolintTokens == DOMAIN Nolint
LegacyCategories == {<<"legacy">>}
UnknownCategories == {<<"unknown">>}

\* ResetNolintSuppressions; lines holds pairs of a category and a line.
NoSuppressions == [lines |-> {}, global |-> {}]

NolintsOf(line) == SelectSeq(line, LAMBDA t : t \in NolintTokens)

\* ParseNolintSuppressions: the first NOLINT of the raw line.
ParseNolintSuppressions(suppressions, raw_line, linenum) ==
  LET found == NolintsOf(raw_line)
      category == Nolint[Head(found)].category
      suppressed_line == IF Nolint[Head(found)].next THEN linenum + 1
                         ELSE linenum
  IN  IF found = <<>> \/ category \in LegacyCategories \cup UnknownCategories
      THEN suppressions
      ELSE [suppressions EXCEPT !.lines = @ \cup {<<category, suppressed_line>>}]

\* A NOLINT of a category nobody knows is itself an error.
NolintErrors(raw_line, linenum) ==
  LET found == NolintsOf(raw_line)
  IN  IF found # <<>> /\ Nolint[Head(found)].category \in UnknownCategories
      THEN <<[linenum |-> linenum, category |-> <<"readability", "nolint">>,
              confidence |-> 5]>>
      ELSE <<>>

\* ProcessGlobalSuppresions: a mark anywhere in the file lifts a category.
ProcessGlobalSuppresions(suppressions, text) ==
  [suppressions EXCEPT
     !.global = (IF \E i \in DOMAIN text : Contains(text[i], "LINT_C_FILE")
                 THEN {<<"readability", "casting">>} ELSE {})
                \cup
                (IF \E i \in DOMAIN text : Contains(text[i], "LINT_KERNEL_FILE")
                 THEN {<<"whitespace", "tab">>} ELSE {})]

IsErrorSuppressedByNolint(suppressions, category, linenum) ==
  \/ category \in suppressions.global
  \/ <<category, linenum>> \in suppressions.lines
  \/ <<AnyCategory, linenum>> \in suppressions.lines

-----------------------------------------------------------------------------
(* Filters: read from left to right, the last that matches decides. *)

IsFiltered(filters, category) ==
  LET about == {i \in DOMAIN filters : IsPrefix(filters[i].prefix, category)}
  IN  about # {} /\ filters[CHOOSE i \in about : \A j \in about : j <= i].sign = "-"

DefaultFilters == <<[sign |-> "-", prefix |-> <<"build", "include_alpha">>]>>

Filters == [sign : STRING, prefix : Seq(STRING)]

\* AddFilters raises a ValueError when one of all the filters has no sign.
AddFilters(filters, more) == filters \o more
Signed(filters) == \A i \in DOMAIN filters : filters[i].sign \in {"+", "-"}

ShouldPrintError(suppressions, filters, verbose_level, error) ==
  /\ ~IsErrorSuppressedByNolint(suppressions, error.category, error.linenum)
  /\ error.confidence >= verbose_level
  /\ ~IsFiltered(filters, error.category)

-----------------------------------------------------------------------------
(* CPPLINT.cfg, looked for from the file's directory up.  A configuration   *)
(* is the record of noparent (set noparent), filters, headers and           *)
(* extensions ({} when not set), and excluded (one of its exclude_files     *)
(* patterns matches; the other lines stand before it).                      *)

\* The configurations ProcessConfigOverrides comes to read: up to the first
\* that says set noparent, or that excludes the file.
Overrides(configs) ==
  LET stops == {i \in DOMAIN configs : configs[i].noparent \/ configs[i].excluded}
  IN  IF stops = {} THEN configs
      ELSE SubSeq(configs, 1, CHOOSE i \in stops : \A j \in stops : i <= j)

IsExcluded(configs) ==
  \E i \in DOMAIN Overrides(configs) : Overrides(configs)[i].excluded

\* The headers and extensions lines are carried out as they are read, before a
\* file is excluded, and are set for the rest of the program: the outer
\* configuration has the last word.
ConfigOptions(options, configs) ==
  LET read == Overrides(configs)
      set(field) == {i \in DOMAIN read : read[i][field] # {}}
      value(field) == IF set(field) = {} THEN options[field]
                      ELSE read[CHOOSE i \in set(field) :
                                  \A j \in set(field) : j <= i][field]
  IN  [headers |-> value("headers"), extensions |-> value("extensions")]

\* Their filters are added in reverse order: the inner ones have the last word.
ConfigFilters(configs) ==
  FlattenSeq(Reverse([i \in DOMAIN Overrides(configs) |->
                        Overrides(configs)[i].filters]))
=============================================================================
