------------------------------ MODULE MCCpplint ------------------------------
(***************************************************************************)
(* The invocations of the run: every short text over the lines that matter *)
(* to one of the checkers, and every pair of small files that differ in    *)
(* their suppressions and configurations.                                  *)
(***************************************************************************)
EXTENDS CpplintProperties, TLC

\* Texts of n lines; the shorter ones end with blank lines.
Texts(lines, n) == [1 .. n -> lines \cup {<<>>}]

NestingLines ==
  {<<"namespace", "A", "{">>, <<"class", "B", "{">>, <<"class", "A">>,
   <<"f", "(", "class", "A", ")", "{">>, <<"}", ";">>,
   <<"#if", "x">>, <<"#else">>, <<"#endif">>}

BranchLines ==
  {<<"namespace", "{">>, <<"struct", "A">>, <<"}", ";">>,
   <<"#if", "x">>, <<"#elif", "x">>, <<"#endif">>}

CleansingLines ==
  {<<"/*", "x">>, <<"x", "*/">>, <<"A", "//", Quote>>, <<Quote, "//", Quote, "B">>,
   <<"x", "/*", Quote, "*/", "f">>, <<"RAW", "x">>, <<"RAW", "/*", "ENDRAW", ";">>,
   <<"//", "RAW">>, <<"f", "/*", "x">>}

IncludeLines ==
  {<<"#include", "<string>">>, <<"string", "f", ";">>,
   <<"#if", "x">>, <<"#else">>, <<"#endif">>}

FunctionLines ==
  {<<"f", "(", "x", ")", "{">>, <<"TEST", "(", "A", ")", "{">>, <<"x">>, <<"}">>,
   <<"f", "(", ")", ";">>}

OwnedLines ==
  {<<"#include", "d/q.h">>, <<"#include", "<string>">>, <<"string", "f", ";">>,
   <<"#else">>}

SpelledLines == {<<"#include", "q.h">>, <<"#include", "<x.h>">>}

GuardLines ==
  {<<"#ifndef", "GUARD">>, <<"#define", "GUARD">>, <<"#endif", "//", "GUARD_">>,
   <<"#endif", "//", "NOLINT_unknown">>, <<"#endif", "//", "NOLINT">>}

VerdictLines ==
  {<<"class", "A", "{", "//", "NOLINT_class">>, <<"class", "B", "{">>,
   <<"//", "NOLINTNEXTLINE">>, <<"#include", "<x.h>", "//", "NOLINT">>,
   <<"LINT_C_FILE", "INVALID">>, <<"asm", "(", "Copyright">>}

MCHeader ==
  [h \in {"<string>", "<x.h>"} |->
     [name |-> h, system |-> TRUE, ext |-> IF h = "<string>" THEN "" ELSE "h",
      cpp |-> h = "<string>", dir |-> "", base |-> h, first |-> h,
      rank |-> IF h = "<string>" THEN 3 ELSE 4, third |-> FALSE]]
  @@
  [h \in {"d/q.h", "q.h"} |->
     [name |-> h, system |-> FALSE, ext |-> "h", cpp |-> FALSE,
      dir |-> IF h = "q.h" THEN "" ELSE "d", base |-> "q", first |-> "q",
      rank |-> IF h = "q.h" THEN 2 ELSE 1, third |-> FALSE]]

MCRequires == [w \in {"string"} |-> "<string>"]

SourceFile(text) ==
  [dir |-> "d", base |-> "q", first |-> "q", ext |-> "cc", test |-> FALSE,
   own |-> {"d/q.h", "q.h"}, like |-> {"d/q.h", "q.h"}, disk |-> NoHeader,
   text |-> text, newline |-> TRUE, crlf |-> {}, readable |-> TRUE, configs |-> <<>>]

HeaderFile(text) == [SourceFile(text) EXCEPT !.ext = "h"]

One(file) == [filters |-> <<>>, files |-> <<file>>]

Filter(sign, prefix) == [sign |-> sign, prefix |-> prefix]
Config(added) == [noparent |-> FALSE, filters |-> added, headers |-> {},
                  extensions |-> {}, excluded |-> FALSE]

\* One file is judged, then one of the others, then the first again.
Configs ==
  {<<>>, <<Config(<<Filter("-", <<"build">>)>>)>>,
   <<[Config(<<Filter("+", <<"build", "class">>)>>) EXCEPT !.noparent = TRUE],
     Config(<<Filter("-", <<>>)>>)>>}

OddFiles ==
  {[SourceFile(<<>>) EXCEPT !.readable = FALSE],
   [SourceFile(<<>>) EXCEPT !.ext = "txt"],
   [SourceFile(<<>>) EXCEPT !.configs = <<[Config(<<>>) EXCEPT !.excluded = TRUE]>>],
   [SourceFile(<<>>) EXCEPT !.configs = <<Config(<<Filter("", <<"build">>)>>)>>],
   [SourceFile(<<>>) EXCEPT !.configs = <<[Config(<<>>) EXCEPT !.headers = {"hpp"}]>>],
   [SourceFile(<<>>) EXCEPT !.configs = <<[Config(<<>>) EXCEPT !.extensions = {"h"},
                                                              !.excluded = TRUE]>>],
   [SourceFile(<<<<"x">>, <<"NUL">>>>) EXCEPT !.newline = FALSE, !.crlf = {2}],
   [SourceFile(<<<<"x">>, <<"x">>>>) EXCEPT !.crlf = {2}]}

VerdictFiles ==
  {[SourceFile(t) EXCEPT !.configs = c] : t \in Texts(VerdictLines, 2), c \in Configs}

SomeFiles ==
  {SourceFile(<<<<"class", "A", "{", "//", "NOLINT">>, <<"//", "NOLINTNEXTLINE">>>>),
   [HeaderFile(<<<<"asm", "(">>, <<"string", "f", ";">>>>)
      EXCEPT !.configs = <<Config(<<Filter("-", <<"legal">>)>>)>>]}

Invoked(given, files) == [filters |-> given, files |-> files]

MCInvocations ==
  [nesting   |-> {One(SourceFile(t)) : t \in Texts(NestingLines, 4)},
   branches  |-> {One(SourceFile(t)) : t \in Texts(BranchLines, 5)},
   cleansing |-> {One(SourceFile(t)) : t \in Texts(CleansingLines, 4)},
   includes  |-> {One(HeaderFile(t)) : t \in Texts(IncludeLines, 5)},
   owned     |-> {One([SourceFile(t) EXCEPT !.disk = d]) :
                    t \in Texts(OwnedLines, 4), d \in {{}, {"<string>"}}},
   tests     |-> {One([SourceFile(t) EXCEPT !.disk = {}, !.test = b]) :
                    t \in Texts(SpelledLines, 2), b \in BOOLEAN},
   functions |-> {One(SourceFile(t)) : t \in Texts(FunctionLines, 5)},
   guards    |-> {One(HeaderFile(t)) : t \in Texts(GuardLines, 3)},
   verdicts  |-> {Invoked(<<>>, <<f, g, f>>) :
                    f \in VerdictFiles, g \in SomeFiles \cup OddFiles},
   filtered  |-> {Invoked(<<Filter("-", <<"legal">>)>>, <<f>>) : f \in VerdictFiles},
   unsigned  |-> {Invoked(<<Filter("", <<"build">>)>>, <<f>>) : f \in SomeFiles},
   nothing   |-> {Invoked(<<>>, <<>>)}]
=============================================================================
