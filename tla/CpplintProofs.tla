---------------------------- MODULE CpplintProofs ----------------------------
(***************************************************************************)
(* Theorems about a run of cpplint.py, for every set of command lines: the *)
(* rules a file is judged by and the verdicts on it are its own, a file    *)
(* that is named twice is judged the same, and the checkers keep the shape *)
(* the code relies on whatever is in the files.                            *)
(***************************************************************************)
EXTENDS CpplintProperties, SequenceTheorems, FiniteSetTheorems, NaturalsInduction,
        WellFoundedInduction, TLAPS

-----------------------------------------------------------------------------
\* The inductive invariant behind FiltersAreOwn and SuppressionsAreOwn.
IInv ==
  /\ index \in Nat \ {0} /\ linenum \in Nat \ {0}
  /\ IsList(command.files)
  /\ \A i \in DOMAIN command.files :
       IsList(command.files[i].text) /\ IsList(command.files[i].configs)
  /\ pc = "arguments" => filters = DefaultFilters
  /\ pc = "line" =>
       /\ HasFile
       /\ filters_backup = AddFilters(DefaultFilters, command.filters)
       /\ clean_lines = CleansedLines(RemoveMultiLineComments(File.text))
       /\ suppressions = [lines |-> suppressions.lines, global |-> suppressions.global]
  /\ FiltersAreOwn
  /\ SuppressionsAreOwn

-----------------------------------------------------------------------------
(* The least of a set of numbers, and the greatest of a bounded one.       *)
LEMMA LeastLine ==
  ASSUME NEW S \in SUBSET Nat, S # {}
  PROVE  \E x \in S : \A y \in S : x <= y
<1> DEFINE R == {p \in Nat \X Nat : p[1] < p[2]}
<1>1. OpToRel(<, Nat) = R
  BY DEF OpToRel
<1>2. IsWellFoundedOn(R, Nat)
  BY <1>1, NatLessThanWellFounded
<1> HIDE DEF R
<1>3. PICK x \in S : \A y \in S : ~ (<<y, x>> \in R)
  BY <1>2, WFMin
<1>4. ASSUME NEW y \in S PROVE x <= y
  <2>1. <<y, x>> \in Nat \X Nat /\ <<y, x>>[1] = y /\ <<y, x>>[2] = x
    OBVIOUS
  <2>2. ~ (y < x)
    BY <1>3, <2>1 DEF R
  <2> QED
    BY <2>2
<1> QED
  BY <1>4

LEMMA GreatestLine ==
  ASSUME NEW n \in Nat, NEW S \in SUBSET (1 .. n), S # {}
  PROVE  \E x \in S : \A y \in S : y <= x
<1> DEFINE D == {n - y : y \in S}
<1>1. D \in SUBSET Nat /\ D # {}
  <2>1. \A y \in S : y \in 1 .. n /\ n - y \in Nat
    OBVIOUS
  <2> QED
    BY <2>1
<1> HIDE DEF D
<1>2. PICK d \in D : \A e \in D : d <= e
  BY <1>1, LeastLine
<1>3. PICK x \in S : d = n - x
  BY <1>2 DEF D
<1>4. ASSUME NEW y \in S PROVE y <= x
  <2>1. n - x <= n - y
    BY <1>2, <1>3 DEF D
  <2> QED
    BY <2>1
<1> QED
  BY <1>4

-----------------------------------------------------------------------------
(* Suppressions.                                                           *)
IsRecord(known) == known = [lines |-> known.lines, global |-> known.global]

(* Reading the NOLINT of a line adds what it silences, and that alone.     *)
LEMMA ParseAddsItsLine ==
  ASSUME NEW known, IsRecord(known), NEW text, NEW i \in DOMAIN text, NEW after,
         after = ParseNolintSuppressions(known, text[i], i)
  PROVE  /\ IsRecord(after) /\ after.global = known.global
         /\ known.lines \subseteq after.lines
         /\ after.lines \subseteq known.lines \cup SilencedIn(text)
         /\ Known(text[i]) => SilencedBy(text, i) \in after.lines
<1> DEFINE found == NolintsOf(text[i])
           nolint == Nolint[Head(found)]
           entry == <<nolint.category, IF nolint.next THEN i + 1 ELSE i>>
           more == [known EXCEPT !.lines = @ \cup {entry}]
<1>1. entry = SilencedBy(text, i)
  BY DEF SilencedBy
<1>2. Known(text[i]) <=>
        found # <<>> /\ nolint.category \notin LegacyCategories \cup UnknownCategories
  BY DEF Known
<1>3. after = IF Known(text[i]) THEN more ELSE known
  BY <1>2 DEF ParseNolintSuppressions
<1>4. Known(text[i]) => entry \in SilencedIn(text)
  BY <1>1, <1>2 DEF SilencedIn
<1>5. more = [lines |-> known.lines \cup {entry}, global |-> known.global]
  <2> HIDE DEF entry
  <2> QED
    BY DEF IsRecord
<1>6. more.lines = known.lines \cup {entry} /\ more.global = known.global /\ IsRecord(more)
  <2> HIDE DEF entry, more
  <2> QED
    BY <1>5 DEF IsRecord
<1> HIDE DEF entry, more, found, nolint
<1>7. CASE Known(text[i])
  BY <1>1, <1>3, <1>4, <1>6, <1>7
<1>8. CASE ~Known(text[i])
  BY <1>3, <1>8
<1> QED
  BY <1>7, <1>8

-----------------------------------------------------------------------------
(* The stages of the header guard look at lines of the text, if at any.    *)
LEMMA PlacesOfDirectives ==
  ASSUME NEW lines, IsList(lines)
  PROVE  /\ \A d : FirstDirective(lines, d) = 0 \/ FirstDirective(lines, d) \in DOMAIN lines
         /\ LastEndif(lines) = 0 \/ LastEndif(lines) \in DOMAIN lines
<1>1. Len(lines) \in Nat /\ DOMAIN lines = 1 .. Len(lines)
  BY DEF IsList
<1>2. ASSUME NEW d
      PROVE  FirstDirective(lines, d) = 0 \/ FirstDirective(lines, d) \in DOMAIN lines
  <2> DEFINE found == {i \in DOMAIN lines : /\ First(lines[i]) = d
                                            /\ Len(Strip(lines[i])) >= 2}
  <2>1. found \in SUBSET Nat /\ found \subseteq DOMAIN lines
    BY <1>1
  <2>2. FirstDirective(lines, d)
          = IF found = {} THEN 0 ELSE CHOOSE i \in found : \A j \in found : i <= j
    BY DEF FirstDirective
  <2> HIDE DEF found
  <2>3. CASE found # {}
    <3>1. \E i \in found : \A j \in found : i <= j
      BY <2>1, <2>3, LeastLine
    <3>2. (CHOOSE i \in found : \A j \in found : i <= j) \in found
      BY <3>1
    <3> QED
      BY <2>1, <2>2, <2>3, <3>2
  <2> QED
    BY <2>2, <2>3
<1>3. LastEndif(lines) = 0 \/ LastEndif(lines) \in DOMAIN lines
  <2> DEFINE found == {i \in DOMAIN lines : IsPrefix(<<"#endif">>, lines[i])}
  <2>1. found \in SUBSET (1 .. Len(lines)) /\ found \subseteq DOMAIN lines
    BY <1>1
  <2>2. LastEndif(lines)
          = IF found = {} THEN 0 ELSE CHOOSE i \in found : \A j \in found : j <= i
    BY DEF LastEndif
  <2> HIDE DEF found
  <2>3. CASE found # {}
    <3>1. \E i \in found : \A j \in found : j <= i
      BY <1>1, <2>1, <2>3, GreatestLine
    <3>2. (CHOOSE i \in found : \A j \in found : j <= i) \in found
      BY <3>1
    <3> QED
      BY <2>1, <2>2, <2>3, <3>2
  <2> QED
    BY <2>2, <2>3
<1> QED
  BY <1>2, <1>3

LooksAt(stage, lines) ==
  /\ stage.linenum = 0 \/ stage.linenum \in DOMAIN lines
  /\ stage.errors \in {<<>>, <<GuardProblem(stage.linenum, 0)>>,
                       <<GuardProblem(stage.linenum, 5)>>}

LEMMA StagesLookAtLines ==
  ASSUME NEW lines, IsList(lines)
  PROVE  LET stages == CheckForHeaderGuard(lines)
         IN  IsList(stages) /\ \A i \in 1 .. Len(stages) : LooksAt(stages[i], lines)
<1> DEFINE ifndef == FirstDirective(lines, "#ifndef")
           endif == LastEndif(lines)
<1>1. /\ ifndef = 0 \/ ifndef \in DOMAIN lines
      /\ endif = 0 \/ endif \in DOMAIN lines
  BY PlacesOfDirectives
<1>2. \A n : n = 0 \/ n \in DOMAIN lines =>
               /\ LooksAt(Stage(n, <<>>), lines)
               /\ LooksAt(Stage(n, <<GuardProblem(n, 0)>>), lines)
               /\ LooksAt(Stage(n, <<GuardProblem(n, 5)>>), lines)
  BY DEF LooksAt, Stage
<1> DEFINE name == Argument(lines, ifndef)
           less == <<GuardProblem(ifndef, 0)>>
           more == <<GuardProblem(ifndef, 5)>>
           style == CASE name = "GUARD" -> <<>>
                      [] name = "GUARD_" -> <<Stage(ifndef, less)>>
                      [] OTHER -> <<Stage(ifndef, more)>>
           ending == CASE EndifNames(lines, endif, "GUARD") -> <<>>
                       [] EndifNames(lines, endif, "GUARD_") -> <<GuardProblem(endif, 0)>>
                       [] OTHER -> <<GuardProblem(endif, 5)>>
           none == <<Stage(0, <<GuardProblem(0, 5)>>)>>
<1>3. \/ CheckForHeaderGuard(lines) = <<>>
      \/ CheckForHeaderGuard(lines) = none
      \/ CheckForHeaderGuard(lines) = Append(style, Stage(endif, ending))
  BY DEF CheckForHeaderGuard
<1>4. style = <<>> \/ style = <<Stage(ifndef, less)>> \/ style = <<Stage(ifndef, more)>>
  <2> HIDE DEF less, more, name
  <2> QED
    OBVIOUS
<1>5. ending \in {<<>>, <<GuardProblem(endif, 0)>>, <<GuardProblem(endif, 5)>>}
  <2> HIDE DEF endif
  <2> QED
    OBVIOUS
<1> HIDE DEF style, ending
<1>6. LooksAt(Stage(ifndef, less), lines) /\ LooksAt(Stage(ifndef, more), lines)
  BY <1>1, <1>2
<1> HIDE DEF less, more
<1>7. \/ CheckForHeaderGuard(lines) = <<>>
      \/ CheckForHeaderGuard(lines) = none
      \/ CheckForHeaderGuard(lines) = <<Stage(endif, ending)>>
      \/ CheckForHeaderGuard(lines) = <<Stage(ifndef, less), Stage(endif, ending)>>
      \/ CheckForHeaderGuard(lines) = <<Stage(ifndef, more), Stage(endif, ending)>>
  <2>1. \A x, y : Append(<<>>, y) = <<y>> /\ Append(<<x>>, y) = <<x, y>>
    <3> SUFFICES ASSUME NEW x, NEW y
                 PROVE  Append(<<>>, y) = <<y>> /\ Append(<<x>>, y) = <<x, y>>
      OBVIOUS
    <3> DEFINE S == {x, y}
    <3>1. /\ <<>> \in Seq(S) /\ <<x>> \in Seq(S) /\ y \in S
          /\ <<y>> \in Seq(S) /\ <<x, y>> \in Seq(S)
      OBVIOUS
    <3> HIDE DEF S
    <3>2. /\ Len(Append(<<>>, y)) = 1 /\ Append(<<>>, y)[1] = y
          /\ Len(Append(<<x>>, y)) = 2 /\ Append(<<x>>, y)[1] = x /\ Append(<<x>>, y)[2] = y
          /\ Append(<<>>, y) \in Seq(S) /\ Append(<<x>>, y) \in Seq(S)
      BY <3>1
    <3>3. Append(<<>>, y) = <<y>>
      <4>1. \A i \in 1 .. Len(Append(<<>>, y)) : Append(<<>>, y)[i] = <<y>>[i]
        BY <3>2
      <4>2. Len(Append(<<>>, y)) = Len(<<y>>)
        BY <3>2
      <4> QED
        BY <3>1, <3>2, <4>1, <4>2, SeqEqual
    <3>4. Append(<<x>>, y) = <<x, y>>
      <4>1. \A i \in 1 .. Len(Append(<<x>>, y)) : Append(<<x>>, y)[i] = <<x, y>>[i]
        BY <3>2
      <4>2. Len(Append(<<x>>, y)) = Len(<<x, y>>)
        BY <3>2
      <4> QED
        BY <3>1, <3>2, <4>1, <4>2, SeqEqual
    <3> QED
      BY <3>3, <3>4
  <2> QED
    BY <1>3, <1>4, <2>1, Zenon
<1> HIDE DEF ifndef, endif
<1>8. /\ LooksAt(Stage(endif, ending), lines)
      /\ LooksAt(Stage(0, <<GuardProblem(0, 5)>>), lines)
  BY <1>1, <1>2, <1>5
<1> QED
  BY <1>7, <1>8, <1>6 DEF IsList
-----------------------------------------------------------------------------
(* GuardVerdicts is a recursive function on the stages; what holds of it   *)
(* is shown by taking the least stage where it would not.                  *)
Reads(f, n, stages, lines, known, used) ==
  f = [i \in 0 .. n |-> IF i = 0 THEN [known |-> known, new |-> <<>>]
                        ELSE GuardStage(f[i - 1], stages[i], lines, used)]

LEMMA ReadsExists ==
  ASSUME NEW n \in Nat, NEW stages, NEW lines, NEW known, NEW used
  PROVE  \E f : Reads(f, n, stages, lines, known, used)
<1> DEFINE start == [known |-> known, new |-> <<>>]
           Bad == {k \in Nat : ~ \E f : Reads(f, k, stages, lines, known, used)}
<1> SUFFICES ASSUME Bad # {} PROVE FALSE
  OBVIOUS
<1>1. PICK k \in Bad : \A j \in Bad : k <= j
  BY LeastLine
<1> HIDE DEF start
<1>2. k # 0
  <2> DEFINE f == [i \in 0 .. 0 |-> start]
  <2>1. f = [i \in 0 .. 0 |-> IF i = 0 THEN start
                              ELSE GuardStage(f[i - 1], stages[i], lines, used)]
    OBVIOUS
  <2> HIDE DEF f
  <2>2. Reads(f, 0, stages, lines, known, used)
    BY <2>1 DEF Reads, start
  <2> QED
    BY <1>1, <2>2
<1>3. k - 1 \in Nat /\ ~ (k - 1 \in Bad) /\ k \in Nat
  BY <1>1, <1>2
<1>4. PICK f : Reads(f, k - 1, stages, lines, known, used)
  BY <1>3
<1> DEFINE g == [i \in 0 .. k |-> IF i = 0 THEN start
                                  ELSE GuardStage(f[i - 1], stages[i], lines, used)]
<1>5. \A i \in 0 .. k - 1 : g[i] = f[i]
  <2>1. \A i \in 0 .. k - 1 : i \in 0 .. k
    BY <1>3
  <2>2. \A i \in 0 .. k - 1 :
          f[i] = IF i = 0 THEN start ELSE GuardStage(f[i - 1], stages[i], lines, used)
    BY <1>4 DEF Reads, start
  <2> QED
    BY <2>1, <2>2
<1>6. \A i \in 0 .. k : i # 0 => g[i - 1] = f[i - 1]
  <2>1. \A i \in 0 .. k : i # 0 => i - 1 \in 0 .. k - 1
    BY <1>3
  <2> HIDE DEF g
  <2> QED
    BY <1>5, <2>1
<1>7. g = [i \in 0 .. k |-> IF i = 0 THEN start
                            ELSE GuardStage(g[i - 1], stages[i], lines, used)]
  BY <1>6
<1> HIDE DEF g
<1>8. Reads(g, k, stages, lines, known, used)
  BY <1>7 DEF Reads, start
<1> QED
  BY <1>1, <1>8

(* Suppressions grown from known by the lines of a text, and by them alone.*)
GrownFrom(after, known, text) ==
  /\ IsRecord(after) /\ after.global = known.global
  /\ after.lines \subseteq known.lines \cup SilencedIn(text)

LEMMA StageReadsItsLine ==
  ASSUME NEW lines, NEW stage, LooksAt(stage, lines), NEW known, NEW before,
         GrownFrom(before.known, known, lines), NEW used, NEW after,
         after = GuardStage(before, stage, lines, used)
  PROVE  GrownFrom(after.known, known, lines)
<1> DEFINE k == stage.linenum
<1>1. after.known = IF k = 0 THEN before.known
                    ELSE ParseNolintSuppressions(before.known, lines[k], k)
  BY DEF GuardStage
<1>2. CASE k = 0
  BY <1>1, <1>2
<1>3. CASE k # 0
  <2>1. k \in DOMAIN lines
    BY <1>3 DEF LooksAt
  <2>2. IsRecord(before.known)
    BY DEF GrownFrom
  <2>3. after.known = ParseNolintSuppressions(before.known, lines[k], k)
    BY <1>1, <1>3
  <2> HIDE DEF k
  <2>4. /\ IsRecord(after.known) /\ after.known.global = before.known.global
        /\ after.known.lines \subseteq before.known.lines \cup SilencedIn(lines)
    BY <2>1, <2>2, <2>3, ParseAddsItsLine, SMTT(30)
  <2> QED
    BY <2>4 DEF GrownFrom
<1> QED
  BY <1>2, <1>3

LEMMA GuardReadsItsLines ==
  ASSUME NEW lines, NEW stages, NEW known, IsRecord(known), NEW used,
         Len(stages) \in Nat, \A i \in 1 .. Len(stages) : LooksAt(stages[i], lines)
  PROVE  GrownFrom(GuardVerdicts(stages, lines, known, used).known, known, lines)
<1> DEFINE n == Len(stages)
           after == CHOOSE f : Reads(f, n, stages, lines, known, used)
<1>1. GuardVerdicts(stages, lines, known, used) = after[n]
  BY DEF GuardVerdicts, Reads
<1>2. Reads(after, n, stages, lines, known, used)
  BY ReadsExists
<1> HIDE DEF after
<1> DEFINE Good(i) == GrownFrom(after[i].known, known, lines)
           Bad == {i \in 0 .. n : ~ Good(i)}
<1>3. Good(0)
  <2>1. after[0] = [known |-> known, new |-> <<>>]
    BY <1>2 DEF Reads
  <2>2. after[0].known = known
    BY <2>1
  <2> QED
    BY <2>2 DEF GrownFrom
<1>4. ASSUME NEW i \in 1 .. n, Good(i - 1) PROVE Good(i)
  <2>1. after[i] = GuardStage(after[i - 1], stages[i], lines, used)
    BY <1>2 DEF Reads
  <2> QED
    BY <1>4, <2>1, StageReadsItsLine
<1> HIDE DEF Good
<1>5. Bad = {}
  <2> SUFFICES ASSUME Bad # {} PROVE FALSE
    OBVIOUS
  <2>1. Bad \in SUBSET Nat
    OBVIOUS
  <2> HIDE DEF Bad
  <2>2. PICK i \in Bad : \A j \in Bad : i <= j
    BY <2>1, LeastLine
  <2>3. i \in 0 .. n /\ ~ Good(i)
    BY <2>2 DEF Bad
  <2>4. i # 0
    BY <1>3, <2>3
  <2>5. i \in 1 .. n /\ i - 1 \in 0 .. n /\ ~ (i <= i - 1)
    BY <2>3, <2>4
  <2>6. Good(i - 1)
    BY <2>2, <2>5 DEF Bad
  <2> QED
    BY <1>4, <2>3, <2>5, <2>6
<1>6. Good(n)
  BY <1>5
<1> QED
  BY <1>1, <1>6 DEF Good

-----------------------------------------------------------------------------
LEMMA InitIInv == Init => IInv
<1> SUFFICES ASSUME Init PROVE IInv
  OBVIOUS
<1>1. /\ pc = "arguments" /\ index = 1 /\ linenum = 1 /\ filters = DefaultFilters
  BY DEF Init
<1>2. /\ IsList(command.files)
      /\ \A i \in DOMAIN command.files :
           IsList(command.files[i].text) /\ IsList(command.files[i].configs)
  <2>1. IsList(command.files) /\ \A i \in DOMAIN command.files : IsFile(command.files[i])
    BY InvocationsAssumption DEF Init
  <2>2. ASSUME NEW f, IsFile(f) PROVE IsList(f.text) /\ IsList(f.configs)
    <3> DEFINE L == Seq(STRING)
    <3>1. f.text \in Seq(L) /\ IsList(f.configs)
      BY <2>2 DEF IsFile
    <3> HIDE DEF L
    <3> QED
      BY <3>1 DEF IsList
  <2> QED
    BY <2>1, <2>2
<1>3. FiltersAreOwn /\ SuppressionsAreOwn
  BY <1>1 DEF FiltersAreOwn, SuppressionsAreOwn
<1> QED
  BY <1>1, <1>2, <1>3 DEF IInv

(* The steps between two files; nothing of a file is in force.             *)
LEMMA BetweenFilesIInv ==
  ASSUME IInv, pc' # "line", command' = command, index' \in Nat \ {0}, linenum' = linenum,
         pc' # "arguments",
         pc' = "file" => filters' = AddFilters(DefaultFilters, command.filters)
  PROVE  IInv'
<1>1. FiltersAreOwn' /\ SuppressionsAreOwn'
  BY DEF FiltersAreOwn, SuppressionsAreOwn
<1> QED
  BY <1>1 DEF IInv

LEMMA StartFileKeepsIInv ==
  ASSUME IInv, StartFile
  PROVE  IInv'
<1> DEFINE text == RemoveMultiLineComments(File.text)
           lines == CleanseRawStrings(text)
           given == AddFilters(DefaultFilters, command.filters)
           added == AddFilters(filters, ConfigFilters(File.configs))
           global == ProcessGlobalSuppresions(NoSuppressions, File.text)
           stages == IF File.ext \in GetHeaderExtensions(NewOptions)
                     THEN CheckForHeaderGuard(lines) ELSE <<>>
           guard == GuardVerdicts(stages, lines, global, added)
<1>1. /\ pc = "file" /\ HasFile
      /\ filters_backup' = filters /\ filters' = added
      /\ suppressions' = guard.known
      /\ clean_lines' = CleansedLines(text)
      /\ linenum' = 1 /\ pc' = "line" /\ command' = command /\ index' = index
  BY DEF StartFile, Started, IsOpened, ResetNolintSuppressions, CleansedLines
<1>2. File' = File /\ HasFile'
  BY <1>1 DEF File, HasFile
<1>3. filters = given
  BY <1>1 DEF IInv, FiltersAreOwn
<1>4. IsList(File.text)
  <2>1. index \in DOMAIN command.files
    BY <1>1 DEF IInv, HasFile, IsList
  <2> QED
    BY <2>1 DEF IInv, File
<1>5. IsList(lines)
  <2>1. DOMAIN text = DOMAIN File.text
    BY DEF RemoveMultiLineComments
  <2> DEFINE f == CHOOSE scan : scan =
                    [i \in 0 .. Len(text) |->
                       IF i = 0 THEN [delimiter |-> NoDelimiter, out |-> <<>>]
                       ELSE LET before == scan[i - 1]
                            IN  RawLine(before.delimiter, text[i])]
  <2>2. lines = [i \in DOMAIN text |-> f[i].out]
    BY DEF CleanseRawStrings
  <2> HIDE DEF f
  <2> DEFINE n == Len(File.text)
  <2>4. n \in Nat /\ DOMAIN text = 1 .. n
    BY <1>4, <2>1 DEF IsList
  <2> HIDE DEF text, lines, n
  <2>5. DOMAIN lines = 1 .. n
    BY <2>2, <2>4
  <2>6. Len(lines) = n
    BY <2>2, <2>4
  <2> QED
    BY <2>4, <2>5, <2>6 DEF IsList
<1>6. IsRecord(global) /\ global.lines = {}
  BY DEF ProcessGlobalSuppresions, NoSuppressions, IsRecord
<1>7. Len(stages) \in Nat /\ \A i \in 1 .. Len(stages) : LooksAt(stages[i], lines)
  <2>1. CASE File.ext \in GetHeaderExtensions(NewOptions)
    <3>1. stages = CheckForHeaderGuard(lines)
      BY <2>1
    <3> HIDE DEF stages, lines
    <3> QED
      BY <1>5, <3>1, StagesLookAtLines DEF IsList
  <2>2. CASE ~ (File.ext \in GetHeaderExtensions(NewOptions))
    <3>1. stages = <<>>
      BY <2>2
    <3> HIDE DEF stages
    <3> QED
      BY <3>1
  <2> QED
    BY <2>1, <2>2
<1> HIDE DEF stages, lines, global, text, added
<1>8. GrownFrom(guard.known, global, lines)
  BY <1>6, <1>7, GuardReadsItsLines
<1> HIDE DEF guard
<1>9. AreOwn(guard.known, File, 0)
  BY <1>6, <1>8 DEF AreOwn, GrownFrom, Silences, WithoutRawStrings, global, lines, text
<1>10. FiltersAreOwn'
  BY <1>1, <1>2, <1>3 DEF FiltersAreOwn, added
<1>11. SuppressionsAreOwn'
  <2>1. linenum' - 1 = 0
    BY <1>1
  <2> QED
    BY <1>1, <1>2, <1>9, <2>1 DEF SuppressionsAreOwn
<1>12. suppressions' = [lines |-> suppressions'.lines, global |-> suppressions'.global]
  BY <1>1, <1>8 DEF GrownFrom, IsRecord
<1>13. clean_lines' = CleansedLines(RemoveMultiLineComments(File.text))
  BY <1>1 DEF text
<1>14. linenum' \in Nat \ {0}
  BY <1>1
<1> QED
  BY <1>1, <1>2, <1>3, <1>10, <1>11, <1>12, <1>13, <1>14 DEF IInv

LEMMA ProcessLineKeepsIInv ==
  ASSUME IInv, ProcessLine
  PROVE  IInv'
<1> DEFINE text == RemoveMultiLineComments(File.text)
           after == ParseNolintSuppressions(suppressions, text[linenum], linenum)
<1>1. /\ pc = "line" /\ linenum <= Len(clean_lines.lines)
      /\ suppressions' = ParseNolintSuppressions(suppressions, clean_lines.raw_lines[linenum],
                                                 linenum)
      /\ linenum' = linenum + 1
      /\ pc' = pc /\ command' = command /\ index' = index /\ clean_lines' = clean_lines
      /\ filters' = filters /\ filters_backup' = filters_backup
  BY DEF ProcessLine, Becomes, LineProcessed, checks
<1>2. File' = File /\ HasFile' = HasFile
  BY <1>1 DEF File, HasFile
<1>3. /\ HasFile /\ clean_lines = CleansedLines(text) /\ IsRecord(suppressions)
      /\ linenum \in Nat \ {0}
  BY <1>1 DEF IInv, IsRecord
<1>4. IsList(File.text) /\ DOMAIN text = DOMAIN File.text
  <2>1. index \in DOMAIN command.files
    BY <1>3 DEF IInv, HasFile, IsList
  <2> QED
    BY <2>1 DEF IInv, File, RemoveMultiLineComments
<1>5. linenum \in DOMAIN text /\ clean_lines.raw_lines = text
  <2> DEFINE n == Len(File.text)
             code == [i \in DOMAIN text |-> CleanseComments(CleanseRawStrings(text)[i])]
  <2>1. clean_lines.raw_lines = text /\ clean_lines.lines = code
    BY <1>3 DEF CleansedLines
  <2>2. n \in Nat /\ DOMAIN text = 1 .. n
    BY <1>4 DEF IsList
  <2>3. DOMAIN code = DOMAIN text
    OBVIOUS
  <2> HIDE DEF text, code, n
  <2>4. Len(code) = n
    BY <2>2, <2>3
  <2>5. linenum \in 1 .. n
    BY <1>1, <1>3, <2>1, <2>2, <2>4
  <2> QED
    BY <2>1, <2>2, <2>5
<1>6. suppressions' = after
  BY <1>1, <1>5
<1> HIDE DEF after, text
<1>7. /\ IsRecord(after) /\ after.global = suppressions.global
      /\ suppressions.lines \subseteq after.lines
      /\ after.lines \subseteq suppressions.lines \cup SilencedIn(text)
      /\ Known(text[linenum]) => SilencedBy(text, linenum) \in after.lines
  BY <1>3, <1>5, ParseAddsItsLine DEF after
<1>8. AreOwn(suppressions, File, linenum - 1)
  BY <1>1 DEF IInv, SuppressionsAreOwn
<1>9. AreOwn(after, File, linenum)
  <2>1. \A i \in 1 .. linenum : i = linenum \/ i \in 1 .. linenum - 1
    BY <1>3
  <2>2. \A i \in 1 .. linenum : Known(text[i]) => SilencedBy(text, i) \in after.lines
    BY <1>7, <1>8, <2>1 DEF AreOwn, text
  <2>3. after.lines \subseteq Silences(File) \cup SilencedIn(WithoutRawStrings(File))
    BY <1>7, <1>8 DEF AreOwn, Silences, text
  <2>4. after.global = ProcessGlobalSuppresions(NoSuppressions, File.text).global
    BY <1>7, <1>8 DEF AreOwn
  <2> QED
    BY <2>2, <2>3, <2>4 DEF AreOwn, text
<1>10. linenum' - 1 = linenum /\ linenum' \in Nat \ {0}
  BY <1>1, <1>3
<1>11. SuppressionsAreOwn'
  BY <1>2, <1>6, <1>9, <1>10 DEF SuppressionsAreOwn
<1>12. FiltersAreOwn'
  BY <1>1, <1>2 DEF IInv, FiltersAreOwn
<1>13. suppressions' = [lines |-> suppressions'.lines, global |-> suppressions'.global]
  BY <1>6, <1>7 DEF IsRecord
<1> QED
  BY <1>1, <1>2, <1>3, <1>10, <1>11, <1>12, <1>13 DEF IInv, text

LEMMA NextIInv == IInv /\ [Next]_vars => IInv'
<1> SUFFICES ASSUME IInv, [Next]_vars PROVE IInv'
  OBVIOUS
<1> DEFINE given == AddFilters(DefaultFilters, command.filters)
<1>0. index \in Nat \ {0} /\ index + 1 \in Nat \ {0}
  BY DEF IInv
<1>1. CASE ParseArguments
  <2>1. /\ pc = "arguments" /\ pc' = "file" /\ filters' = given
        /\ command' = command /\ index' = index /\ linenum' = linenum
    BY <1>1 DEF ParseArguments, state
  <2> QED
    BY <1>0, <2>1, BetweenFilesIInv
<1>2. CASE NoFiles
  <2>1. pc' = "done" /\ command' = command /\ index' = index /\ linenum' = linenum
    BY <1>2 DEF NoFiles, state
  <2> QED
    BY <1>0, <2>1, BetweenFilesIInv
<1>3. CASE DieOfFilter
  <2>1. pc' = "died" /\ command' = command /\ index' = index /\ linenum' = linenum
    BY <1>3 DEF DieOfFilter, state
  <2> QED
    BY <1>0, <2>1, BetweenFilesIInv
<1>4. CASE ExcludeFile \/ SkipFile
  <2>1. /\ pc = "file" /\ pc' = "file" /\ filters' = filters
        /\ command' = command /\ index' = index + 1 /\ linenum' = linenum
    BY <1>4 DEF ExcludeFile, SkipFile, IsOpened, state
  <2>2. filters = given
    BY <2>1 DEF IInv, FiltersAreOwn
  <2> QED
    BY <1>0, <2>1, <2>2, BetweenFilesIInv
<1>5. CASE DieOfConfig
  <2>1. pc' = "died" /\ command' = command /\ index' = index /\ linenum' = linenum
    BY <1>5 DEF DieOfConfig, state
  <2> QED
    BY <1>0, <2>1, BetweenFilesIInv
<1>6. CASE StartFile
  BY <1>6, StartFileKeepsIInv
<1>7. CASE ProcessLine
  BY <1>7, ProcessLineKeepsIInv
<1>8. CASE EndFile
  <2>1. /\ pc = "line" /\ pc' = "file" /\ filters' = filters_backup
        /\ command' = command /\ index' = index + 1 /\ linenum' = linenum
    BY <1>8 DEF EndFile, NextFile, Restored, state
  <2>2. filters_backup = given
    BY <2>1 DEF IInv
  <2> QED
    BY <1>0, <2>1, <2>2, BetweenFilesIInv
<1>9. CASE Exit
  <2>1. pc' = "done" /\ command' = command /\ index' = index /\ linenum' = linenum
    BY <1>9 DEF Exit, state
  <2> QED
    BY <1>0, <2>1, BetweenFilesIInv
<1>10. CASE UNCHANGED vars
  <2>1. /\ pc' = pc /\ command' = command /\ index' = index /\ linenum' = linenum
        /\ clean_lines' = clean_lines /\ suppressions' = suppressions
        /\ filters' = filters /\ filters_backup' = filters_backup
    BY <1>10 DEF vars, state
  <2>2. File' = File /\ HasFile' = HasFile
    BY <2>1 DEF File, HasFile
  <2>3. FiltersAreOwn' /\ SuppressionsAreOwn'
    BY <2>1, <2>2 DEF IInv, FiltersAreOwn, SuppressionsAreOwn
  <2> QED
    BY <2>1, <2>2, <2>3 DEF IInv
<1> QED
  BY <1>1, <1>2, <1>3, <1>4, <1>5, <1>6, <1>7, <1>8, <1>9, <1>10 DEF Next

-----------------------------------------------------------------------------
(* A file that is judged alone, with the given filters and no headers or   *)
(* extensions set: the moments it goes through, one behind every line, and *)
(* its verdicts.                                                           *)
Clean(f) == CleansedLines(RemoveMultiLineComments(f.text))
Used(f, given) == AddFilters(given, ConfigFilters(f.configs))

FirstMoment(f, given) ==
  LET start == Started(f, Used(f, given), NoOptions)
  IN  [checks |-> [nesting |-> NewNestingState, function |-> NewFunctionState,
                   include |-> NewIncludeState, known |-> start.known],
       new |-> <<>> \o start.new]

NextMoment(f, given, n, m) ==
  LET line == LineProcessed(f, Clean(f), n, m.checks, Used(f, given), NoOptions)
  IN  [checks |-> line.checks, new |-> m.new \o line.new]

IsMomentsOf(c, n, f, given) ==
  /\ c[0] = FirstMoment(f, given)
  /\ \A i \in 1 .. n : c[i] = NextMoment(f, given, i, c[i - 1])

IsJudged(f) ==
  /\ ~IsExcluded(f.configs) /\ Signed(ConfigFilters(f.configs))
  /\ f.readable /\ f.ext \in GetAllExtensions(NoOptions)

Verdicts(f, given, last) ==
  last.new \o Ended(f, Clean(f), last.checks, Used(f, given), NoOptions)

IsOutcome(v, f, given) ==
  IF IsJudged(f)
  THEN \E c : /\ IsMomentsOf(c, Len(Clean(f).lines), f, given)
              /\ v = Verdicts(f, given, c[Len(Clean(f).lines)])
  ELSE v = <<>>

(* Two courses of a file agree, as the least moment where they would not   *)
(* shows.                                                                  *)
LEMMA CoursesAgree ==
  ASSUME NEW n \in Nat, NEW f, NEW given, NEW c, NEW d,
         IsMomentsOf(c, n, f, given), IsMomentsOf(d, n, f, given)
  PROVE  c[n] = d[n]
<1> DEFINE Bad == {i \in 0 .. n : c[i] # d[i]}
<1> SUFFICES ASSUME Bad # {} PROVE FALSE
  OBVIOUS
<1>1. Bad \in SUBSET Nat
  OBVIOUS
<1> HIDE DEF Bad
<1>2. PICK i \in Bad : \A j \in Bad : i <= j
  BY <1>1, LeastLine
<1>3. i \in 0 .. n /\ c[i] # d[i]
  BY <1>2 DEF Bad
<1>4. i # 0
  BY <1>3 DEF IsMomentsOf
<1>5. i \in 1 .. n /\ i - 1 \in 0 .. n /\ ~ (i <= i - 1)
  BY <1>3, <1>4
<1>6. c[i - 1] = d[i - 1]
  BY <1>2, <1>5 DEF Bad
<1>7. /\ c[i] = NextMoment(f, given, i, c[i - 1])
      /\ d[i] = NextMoment(f, given, i, d[i - 1])
  BY <1>5 DEF IsMomentsOf
<1> QED
  BY <1>3, <1>6, <1>7

LEMMA CleanHasLines ==
  ASSUME NEW f, IsList(f.text)
  PROVE  Len(Clean(f).lines) \in Nat /\ Len(Clean(f).lines) = Len(f.text)
<1> DEFINE text == RemoveMultiLineComments(f.text)
           code == [i \in DOMAIN text |-> CleanseComments(CleanseRawStrings(text)[i])]
           n == Len(f.text)
<1>1. Clean(f).lines = code
  BY DEF Clean, CleansedLines
<1>2. DOMAIN text = DOMAIN f.text
  BY DEF RemoveMultiLineComments
<1>3. n \in Nat /\ DOMAIN text = 1 .. n
  BY <1>2 DEF IsList
<1>4. DOMAIN code = DOMAIN text
  OBVIOUS
<1> HIDE DEF text, code, n
<1>5. Len(code) = n
  BY <1>3, <1>4
<1> QED
  BY <1>1, <1>3, <1>5 DEF n

LEMMA OutcomesAgree ==
  ASSUME NEW f, IsList(f.text), NEW given, NEW v, NEW w,
         IsOutcome(v, f, given), IsOutcome(w, f, given)
  PROVE  v = w
<1>1. CASE IsJudged(f)
  <2> DEFINE n == Len(Clean(f).lines)
  <2>1. n \in Nat
    BY CleanHasLines
  <2>2. PICK c : IsMomentsOf(c, n, f, given) /\ v = Verdicts(f, given, c[n])
    BY <1>1 DEF IsOutcome
  <2>3. PICK d : IsMomentsOf(d, n, f, given) /\ w = Verdicts(f, given, d[n])
    BY <1>1 DEF IsOutcome
  <2> HIDE DEF n
  <2>4. c[n] = d[n]
    BY <2>1, <2>2, <2>3, CoursesAgree
  <2> QED
    BY <2>2, <2>3, <2>4
<1>2. CASE ~IsJudged(f)
  BY <1>2 DEF IsOutcome
<1> QED
  BY <1>1, <1>2

(* A course goes on by a line.                                             *)
LEMMA CourseGoesOn ==
  ASSUME NEW n \in Nat \ {0}, NEW f, NEW given, NEW c, IsMomentsOf(c, n - 1, f, given)
  PROVE  \E d : IsMomentsOf(d, n, f, given) /\ d[n] = NextMoment(f, given, n, c[n - 1])
<1> DEFINE next == NextMoment(f, given, n, c[n - 1])
           d == [i \in 0 .. n |-> IF i = n THEN next ELSE c[i]]
<1> HIDE DEF next
<1>1. d[n] = next /\ \A i \in 0 .. n - 1 : d[i] = c[i]
  OBVIOUS
<1> HIDE DEF d
<1>2. d[0] = FirstMoment(f, given)
  BY <1>1 DEF IsMomentsOf
<1>3. ASSUME NEW i \in 1 .. n PROVE d[i] = NextMoment(f, given, i, d[i - 1])
  <2>1. i - 1 \in 0 .. n - 1 /\ d[i - 1] = c[i - 1]
    BY <1>1
  <2>2. CASE i = n
    BY <1>1, <2>1, <2>2 DEF next
  <2>3. CASE i # n
    <3>1. i \in 1 .. n - 1 /\ i \in 0 .. n - 1
      BY <2>3
    <3>2. c[i] = NextMoment(f, given, i, c[i - 1])
      BY <3>1 DEF IsMomentsOf
    <3> QED
      BY <1>1, <2>1, <3>1, <3>2
  <2> QED
    BY <2>2, <2>3
<1>4. IsMomentsOf(d, n, f, given)
  BY <1>2, <1>3 DEF IsMomentsOf
<1> QED
  BY <1>1, <1>4 DEF next

-----------------------------------------------------------------------------
(* Options that are not set now were never set.                            *)
IsOptions(o) == o = [headers |-> o.headers, extensions |-> o.extensions]

LEMMA OverridesAreAList ==
  ASSUME NEW configs, IsList(configs)
  PROVE  /\ IsList(Overrides(configs))
         /\ \A i \in DOMAIN Overrides(configs) :
              i \in DOMAIN configs /\ Overrides(configs)[i] = configs[i]
<1> DEFINE stops == {i \in DOMAIN configs : configs[i].noparent \/ configs[i].excluded}
           k == CHOOSE i \in stops : \A j \in stops : i <= j
           m == Len(configs)
<1>1. m \in Nat /\ DOMAIN configs = 1 .. m
  BY DEF IsList
<1>2. Overrides(configs) = IF stops = {} THEN configs ELSE SubSeq(configs, 1, k)
  BY DEF Overrides
<1>3. stops \in SUBSET Nat /\ stops \subseteq 1 .. m
  BY <1>1
<1>4. CASE stops # {}
  <2> HIDE DEF stops
  <2>1. \E i \in stops : \A j \in stops : i <= j
    BY <1>3, <1>4, LeastLine
  <2>2. k \in stops
    BY <2>1
  <2>3. k \in 1 .. m
    BY <1>3, <2>2
  <2> HIDE DEF k, m
  <2>4. SubSeq(configs, 1, k) = [i \in 1 .. k |-> configs[i]]
    BY <1>1, <2>3
  <2>5. IsList(SubSeq(configs, 1, k))
    BY <1>1, <2>3, <2>4 DEF IsList
  <2>6. \A i \in DOMAIN SubSeq(configs, 1, k) :
          i \in DOMAIN configs /\ SubSeq(configs, 1, k)[i] = configs[i]
    BY <1>1, <2>3, <2>4
  <2> QED
    BY <1>2, <1>4, <2>5, <2>6
<1>5. CASE stops = {}
  BY <1>2, <1>5
<1> QED
  BY <1>4, <1>5

LEMMA OptionsStay ==
  ASSUME NEW o, IsOptions(o), NEW configs, IsList(configs)
  PROVE  /\ IsOptions(ConfigOptions(o, configs))
         /\ ConfigOptions(o, configs) = NoOptions => o = NoOptions
<1> DEFINE read == Overrides(configs)
           set(field) == {i \in DOMAIN read : read[i][field] # {}}
           last(field) == CHOOSE i \in set(field) : \A j \in set(field) : j <= i
           value(field) == IF set(field) = {} THEN o[field] ELSE read[last(field)][field]
<1>1. ConfigOptions(o, configs)
        = [headers |-> value("headers"), extensions |-> value("extensions")]
  BY DEF ConfigOptions
<1>2. IsList(read)
  BY OverridesAreAList
<1>3. ASSUME NEW field, value(field) = {} PROVE o[field] = {}
  <2>1. set(field) \in SUBSET (1 .. Len(read)) /\ Len(read) \in Nat
    BY <1>2 DEF IsList
  <2>2. CASE set(field) # {}
    <3> DEFINE S == set(field)
    <3>1. S \in SUBSET (1 .. Len(read)) /\ S # {} /\ Len(read) \in Nat
      BY <2>1, <2>2
    <3>2. last(field) = CHOOSE i \in S : \A j \in S : j <= i
      OBVIOUS
    <3>3. \A i \in S : read[i][field] # {}
      OBVIOUS
    <3> HIDE DEF S
    <3>4. \E i \in S : \A j \in S : j <= i
      BY <3>1, GreatestLine
    <3>5. (CHOOSE i \in S : \A j \in S : j <= i) \in S
      BY <3>4
    <3>6. read[last(field)][field] # {}
      BY <3>2, <3>3, <3>5
    <3> QED
      BY <1>3, <2>2, <3>6
  <2> QED
    BY <1>3, <2>2
<1>4. value("headers") = {} => o["headers"] = {}
  BY <1>3
<1>5. value("extensions") = {} => o["extensions"] = {}
  BY <1>3
<1> HIDE DEF value, set, last, read
<1>6. IsOptions(ConfigOptions(o, configs))
  BY <1>1 DEF IsOptions
<1>7. ASSUME ConfigOptions(o, configs) = NoOptions PROVE o = NoOptions
  <2>1. value("headers") = {} /\ value("extensions") = {}
    BY <1>1, <1>7 DEF NoOptions
  <2>2. o.headers = {} /\ o.extensions = {}
    BY <1>4, <1>5, <2>1
  <2> QED
    BY <2>2 DEF IsOptions, NoOptions
<1> QED
  BY <1>6, <1>7

-----------------------------------------------------------------------------
(* The inductive invariant behind JudgedAlone: the files done with have    *)
(* the verdicts they have alone, the file that is looked at is on its own  *)
(* course, and the others have none yet.                                   *)
Given == AddFilters(DefaultFilters, command.filters)

OnItsCourse ==
  \E c : /\ IsMomentsOf(c, linenum - 1, File, Given)
         /\ c[linenum - 1] = [checks |-> checks, new |-> verdicts[index]]

JudgedInv ==
  /\ IsOptions(options)
  /\ verdicts = [i \in DOMAIN command.files |-> verdicts[i]]
  /\ \A i \in DOMAIN command.files :
       (index < i \/ (index = i /\ pc # "line")) => verdicts[i] = <<>>
  /\ pc = "arguments" => index = 1
  /\ pc = "done" => index > Len(command.files)
  /\ options = NoOptions /\ pc # "died" =>
       \A i \in DOMAIN command.files :
         i < index => IsOutcome(verdicts[i], command.files[i], Given)
  /\ pc = "line" => linenum <= Len(clean_lines.lines) + 1
  /\ pc = "line" /\ options = NoOptions => IsJudged(File) /\ OnItsCourse

LEMMA InitJudgedInv == Init => JudgedInv
<1> SUFFICES ASSUME Init PROVE JudgedInv
  OBVIOUS
<1>1. /\ pc = "arguments" /\ index = 1 /\ options = NoOptions
      /\ verdicts = [i \in DOMAIN command.files |-> <<>>]
      /\ IsList(command.files)
  BY InvocationsAssumption DEF Init
<1>2. IsOptions(options)
  BY <1>1 DEF IsOptions, NoOptions
<1>3. verdicts = [i \in DOMAIN command.files |-> verdicts[i]]
  BY <1>1
<1>4. \A i \in DOMAIN command.files : verdicts[i] = <<>> /\ ~ (i < index)
  BY <1>1 DEF IsList
<1> QED
  BY <1>1, <1>2, <1>3, <1>4 DEF JudgedInv

(* The verdicts of one file grow, those of the others stay.                *)
LEMMA ReportChangesItsFile ==
  ASSUME verdicts = [i \in DOMAIN command.files |-> verdicts[i]], index \in DOMAIN command.files,
         NEW new, Report(new), command' = command
  PROVE  /\ verdicts' = [i \in DOMAIN command'.files |-> verdicts'[i]]
         /\ verdicts'[index] = verdicts[index] \o new
         /\ \A i \in DOMAIN command.files : i # index => verdicts'[i] = verdicts[i]
<1>1. verdicts' = [verdicts EXCEPT ![index] = verdicts[index] \o new]
  BY DEF Report
<1>2. DOMAIN verdicts = DOMAIN command.files
  OBVIOUS
<1> QED
  BY <1>1, <1>2

(* The steps that leave the verdicts alone.                                *)
LEMMA QuietStepKeepsJudgedInv ==
  ASSUME IInv, JudgedInv, command' = command, verdicts' = verdicts,
         pc # "line", pc' # "line", pc' # "arguments",
         IsOptions(options'), options' = NoOptions => options = NoOptions,
         pc # "died" \/ pc' = "died",
         pc' = "done" => index' > Len(command.files),
         \/ index' = index
         \/ /\ index' = index + 1
            /\ index \in DOMAIN command.files
            /\ options' = NoOptions => IsOutcome(<<>>, File, Given)
  PROVE  JudgedInv'
<1>1. index \in Nat \ {0} /\ IsList(command.files)
  BY DEF IInv
<1>2. Given' = Given
  BY DEF Given
<1>3. ASSUME NEW i \in DOMAIN command.files, index' < i \/ index' = i
      PROVE  verdicts[i] = <<>>
  <2>1. i \in Nat /\ (index < i \/ index = i)
    BY <1>1, <1>3 DEF IsList
  <2> QED
    BY <2>1 DEF JudgedInv
<1>4. ASSUME options' = NoOptions, pc' # "died", NEW i \in DOMAIN command.files, i < index'
      PROVE  IsOutcome(verdicts[i], command.files[i], Given)
  <2>1. options = NoOptions /\ pc # "died"
    BY <1>4
  <2>2. i \in Nat
    BY <1>1 DEF IsList
  <2>3. CASE i < index
    BY <1>4, <2>1, <2>3 DEF JudgedInv
  <2>4. CASE ~ (i < index)
    <3>1. i = index /\ IsOutcome(<<>>, File, Given)
      BY <1>1, <1>4, <2>2, <2>4
    <3>2. verdicts[i] = <<>>
      BY <3>1 DEF JudgedInv
    <3> QED
      BY <3>1, <3>2 DEF File
  <2> QED
    BY <2>3, <2>4
<1> QED
  BY <1>2, <1>3, <1>4 DEF JudgedInv

LEMMA StartFileKeepsJudgedInv ==
  ASSUME IInv, JudgedInv, StartFile
  PROVE  JudgedInv'
<1> DEFINE added == AddFilters(filters, ConfigFilters(File.configs))
           start == Started(File, added, NewOptions)
<1>1. /\ pc = "file" /\ HasFile /\ IsOpened /\ IsChecked
      /\ filters' = added /\ options' = NewOptions
      /\ Report(start.new)
      /\ suppressions' = start.known /\ clean_lines' = Clean(File)
      /\ linenum' = 1
      /\ nesting_state' = NewNestingState /\ function_state' = NewFunctionState
      /\ include_state' = NewIncludeState
      /\ pc' = "line" /\ command' = command /\ index' = index
  BY DEF StartFile, IsOpened, Clean
<1>2. /\ index \in Nat \ {0} /\ IsList(command.files) /\ index \in DOMAIN command.files
      /\ IsList(File.text) /\ IsList(File.configs)
  BY <1>1 DEF IInv, HasFile, File, IsList
<1>3. File' = File /\ Given' = Given
  BY <1>1 DEF File, Given
<1> HIDE DEF start
<1>4. /\ verdicts' = [i \in DOMAIN command'.files |-> verdicts'[i]]
      /\ verdicts'[index] = verdicts[index] \o start.new
      /\ \A i \in DOMAIN command.files : i # index => verdicts'[i] = verdicts[i]
  BY <1>1, <1>2, ReportChangesItsFile DEF JudgedInv
<1>5. verdicts[index] = <<>>
  BY <1>1, <1>2 DEF JudgedInv
<1>6. IsOptions(options') /\ (options' = NoOptions => options = NoOptions)
  BY <1>1, <1>2, OptionsStay DEF JudgedInv, NewOptions
<1>7. linenum' <= Len(clean_lines'.lines) + 1
  BY <1>1, <1>2, CleanHasLines
<1>8. ASSUME NEW i \in DOMAIN command.files, index < i
      PROVE  verdicts'[i] = <<>>
  <2>1. i # index
    BY <1>2, <1>8 DEF IsList
  <2> QED
    BY <1>4, <1>8, <2>1 DEF JudgedInv
<1>9. ASSUME options' = NoOptions, NEW i \in DOMAIN command.files, i < index
      PROVE  IsOutcome(verdicts'[i], command.files[i], Given)
  <2>1. i # index
    BY <1>2, <1>9 DEF IsList
  <2> QED
    BY <1>1, <1>4, <1>6, <1>9, <2>1 DEF JudgedInv
<1>10. ASSUME options' = NoOptions PROVE IsJudged(File) /\ OnItsCourse'
  <2>1. filters = Given
    BY <1>1 DEF IInv, FiltersAreOwn, Given
  <2>2. added = Used(File, Given)
    BY <2>1 DEF Used
  <2>3. start = Started(File, Used(File, Given), NoOptions)
    BY <1>1, <1>10, <2>2 DEF start
  <2>4. IsJudged(File)
    BY <1>1, <1>10 DEF IsJudged, IsOpened, IsChecked
  <2> DEFINE c == [i \in {0} |-> FirstMoment(File, Given)]
  <2>5. c[0] = FirstMoment(File, Given)
    OBVIOUS
  <2> HIDE DEF c
  <2>6. IsMomentsOf(c, 0, File, Given)
    BY <2>5 DEF IsMomentsOf
  <2>7. checks' = [nesting |-> NewNestingState, function |-> NewFunctionState,
                   include |-> NewIncludeState, known |-> start.known]
    BY <1>1 DEF checks
  <2>8. FirstMoment(File, Given) = [checks |-> checks', new |-> verdicts'[index]]
    BY <1>4, <1>5, <2>3, <2>7 DEF FirstMoment
  <2>9. linenum' - 1 = 0
    BY <1>1
  <2> QED
    BY <1>1, <1>3, <2>4, <2>5, <2>6, <2>8, <2>9 DEF OnItsCourse
<1> QED
  BY <1>1, <1>3, <1>4, <1>6, <1>7, <1>8, <1>9, <1>10 DEF JudgedInv

LEMMA ProcessLineKeepsJudgedInv ==
  ASSUME IInv, JudgedInv, ProcessLine
  PROVE  JudgedInv'
<1> DEFINE line == LineProcessed(File, clean_lines, linenum, checks, filters, options)
<1>1. /\ pc = "line" /\ linenum <= Len(clean_lines.lines)
      /\ suppressions' = line.checks.known /\ nesting_state' = line.checks.nesting
      /\ function_state' = line.checks.function /\ include_state' = line.checks.include
      /\ Report(line.new)
      /\ linenum' = linenum + 1
      /\ pc' = pc /\ command' = command /\ index' = index /\ clean_lines' = clean_lines
      /\ filters' = filters /\ options' = options
  BY DEF ProcessLine, Becomes
<1>2. /\ index \in Nat \ {0} /\ IsList(command.files) /\ index \in DOMAIN command.files
      /\ linenum \in Nat \ {0} /\ IsList(File.text)
      /\ clean_lines = Clean(File) /\ filters = Used(File, Given)
  BY <1>1 DEF IInv, FiltersAreOwn, HasFile, File, IsList, Clean, Used, Given
<1>3. File' = File /\ Given' = Given
  BY <1>1 DEF File, Given
<1>4. line.checks = [nesting |-> line.checks.nesting, function |-> line.checks.function,
                     include |-> line.checks.include, known |-> line.checks.known]
  BY DEF LineProcessed
<1> HIDE DEF line
<1>5. /\ verdicts' = [i \in DOMAIN command'.files |-> verdicts'[i]]
      /\ verdicts'[index] = verdicts[index] \o line.new
      /\ \A i \in DOMAIN command.files : i # index => verdicts'[i] = verdicts[i]
  BY <1>1, <1>2, ReportChangesItsFile DEF JudgedInv
<1>6. linenum' <= Len(clean_lines'.lines) + 1
  BY <1>1, <1>2, CleanHasLines
<1>7. ASSUME NEW i \in DOMAIN command.files, index < i
      PROVE  verdicts'[i] = <<>>
  <2>1. i # index
    BY <1>2, <1>7 DEF IsList
  <2> QED
    BY <1>5, <1>7, <2>1 DEF JudgedInv
<1>8. ASSUME options = NoOptions, NEW i \in DOMAIN command.files, i < index
      PROVE  IsOutcome(verdicts'[i], command.files[i], Given)
  <2>1. i # index
    BY <1>2, <1>8 DEF IsList
  <2> QED
    BY <1>1, <1>5, <1>8, <2>1 DEF JudgedInv
<1>9. ASSUME options = NoOptions PROVE OnItsCourse'
  <2>1. OnItsCourse
    BY <1>1, <1>9 DEF JudgedInv
  <2>2. PICK c : /\ IsMomentsOf(c, linenum - 1, File, Given)
                 /\ c[linenum - 1] = [checks |-> checks, new |-> verdicts[index]]
    BY <2>1 DEF OnItsCourse
  <2>3. PICK d : /\ IsMomentsOf(d, linenum, File, Given)
                 /\ d[linenum] = NextMoment(File, Given, linenum, c[linenum - 1])
    BY <1>2, <2>2, CourseGoesOn
  <2>4. line = LineProcessed(File, Clean(File), linenum, checks, Used(File, Given), NoOptions)
    BY <1>2, <1>9 DEF line
  <2>5. checks' = line.checks
    BY <1>1, <1>4 DEF checks
  <2>6. d[linenum] = [checks |-> checks', new |-> verdicts'[index]]
    BY <1>5, <2>2, <2>3, <2>4, <2>5 DEF NextMoment
  <2>7. linenum' - 1 = linenum
    BY <1>1, <1>2
  <2> QED
    BY <1>1, <1>3, <2>3, <2>6, <2>7 DEF OnItsCourse
<1> QED
  BY <1>1, <1>3, <1>5, <1>6, <1>7, <1>8, <1>9 DEF JudgedInv

LEMMA EndFileKeepsJudgedInv ==
  ASSUME IInv, JudgedInv, EndFile
  PROVE  JudgedInv'
<1> DEFINE ended == Ended(File, clean_lines, checks, filters, options)
<1>1. /\ pc = "line" /\ linenum > Len(clean_lines.lines) /\ Report(ended)
      /\ index' = index + 1 /\ pc' = "file" /\ command' = command /\ options' = options
  BY DEF EndFile, NextFile
<1>2. /\ index \in Nat \ {0} /\ IsList(command.files) /\ index \in DOMAIN command.files
      /\ linenum \in Nat \ {0} /\ IsList(File.text)
      /\ clean_lines = Clean(File) /\ filters = Used(File, Given)
  BY <1>1 DEF IInv, FiltersAreOwn, HasFile, File, IsList, Clean, Used, Given
<1>3. Given' = Given
  BY <1>1 DEF Given
<1> HIDE DEF ended
<1>4. /\ verdicts' = [i \in DOMAIN command'.files |-> verdicts'[i]]
      /\ verdicts'[index] = verdicts[index] \o ended
      /\ \A i \in DOMAIN command.files : i # index => verdicts'[i] = verdicts[i]
  BY <1>1, <1>2, ReportChangesItsFile DEF JudgedInv
<1>5. ASSUME NEW i \in DOMAIN command.files, index' < i \/ index' = i
      PROVE  verdicts'[i] = <<>>
  <2>1. i # index /\ index < i
    BY <1>1, <1>2, <1>5 DEF IsList
  <2> QED
    BY <1>4, <2>1 DEF JudgedInv
<1>6. ASSUME options = NoOptions PROVE IsOutcome(verdicts'[index], File, Given)
  <2>1. IsJudged(File) /\ OnItsCourse
    BY <1>1, <1>6 DEF JudgedInv
  <2>2. PICK c : /\ IsMomentsOf(c, linenum - 1, File, Given)
                 /\ c[linenum - 1] = [checks |-> checks, new |-> verdicts[index]]
    BY <2>1 DEF OnItsCourse
  <2>3. linenum - 1 = Len(Clean(File).lines)
    <3>1. linenum <= Len(clean_lines.lines) + 1
      BY <1>1 DEF JudgedInv
    <3> QED
      BY <1>1, <1>2, <3>1, CleanHasLines
  <2>4. ended = Ended(File, Clean(File), checks, Used(File, Given), NoOptions)
    BY <1>2, <1>6 DEF ended
  <2>5. verdicts'[index] = Verdicts(File, Given, c[linenum - 1])
    BY <1>4, <2>2, <2>4 DEF Verdicts
  <2> QED
    BY <2>1, <2>2, <2>3, <2>5 DEF IsOutcome
<1>7. ASSUME options = NoOptions, NEW i \in DOMAIN command.files, i < index'
      PROVE  IsOutcome(verdicts'[i], command.files[i], Given)
  <2>1. i = index \/ (i # index /\ i < index)
    BY <1>1, <1>2, <1>7 DEF IsList
  <2>2. CASE i = index
    BY <1>6, <1>7, <2>2 DEF File
  <2>3. CASE i # index /\ i < index
    BY <1>1, <1>4, <1>7, <2>3 DEF JudgedInv
  <2> QED
    BY <2>1, <2>2, <2>3
<1> QED
  BY <1>1, <1>3, <1>4, <1>5, <1>7 DEF JudgedInv

LEMMA NextJudgedInv == IInv /\ JudgedInv /\ [Next]_vars => JudgedInv'
<1> SUFFICES ASSUME IInv, JudgedInv, [Next]_vars PROVE JudgedInv'
  OBVIOUS
<1>0. IsList(command.files) /\ index \in Nat \ {0} /\ IsOptions(options)
  BY DEF IInv, JudgedInv
<1>1. CASE ParseArguments
  <2>1. /\ pc = "arguments" /\ pc' = "file" /\ command' = command /\ verdicts' = verdicts
        /\ index' = index /\ options' = options
    BY <1>1 DEF ParseArguments
  <2> QED
    BY <1>0, <2>1, QuietStepKeepsJudgedInv
<1>2. CASE NoFiles
  <2>1. /\ pc = "arguments" /\ pc' = "done" /\ command' = command /\ verdicts' = verdicts
        /\ index' = index /\ options' = options /\ command.files = <<>>
    BY <1>2 DEF NoFiles
  <2>2. index' > Len(command.files)
    BY <1>0, <2>1
  <2> QED
    BY <1>0, <2>1, <2>2, QuietStepKeepsJudgedInv
<1>3. CASE DieOfFilter
  <2>1. /\ pc = "arguments" /\ pc' = "died" /\ command' = command /\ verdicts' = verdicts
        /\ index' = index /\ options' = options
    BY <1>3 DEF DieOfFilter
  <2> QED
    BY <1>0, <2>1, QuietStepKeepsJudgedInv
<1>4. ASSUME HasFile
      PROVE  /\ index \in DOMAIN command.files
             /\ IsOptions(NewOptions) /\ (NewOptions = NoOptions => options = NoOptions)
  <2>1. index \in DOMAIN command.files
    BY <1>0, <1>4 DEF HasFile, IsList
  <2>2. IsList(File.configs)
    BY <2>1 DEF IInv, File
  <2> QED
    BY <1>0, <2>1, <2>2, OptionsStay DEF NewOptions
<1>5. CASE ExcludeFile \/ SkipFile
  <2>1. /\ pc = "file" /\ HasFile /\ pc' = "file" /\ command' = command
        /\ verdicts' = verdicts /\ index' = index + 1 /\ options' = NewOptions
        /\ IsExcluded(File.configs) \/ ~IsChecked
    BY <1>5 DEF ExcludeFile, SkipFile, IsOpened
  <2>2. ASSUME NewOptions = NoOptions PROVE IsOutcome(<<>>, File, Given)
    <3>1. ~IsJudged(File)
      BY <2>1, <2>2 DEF IsJudged, IsChecked
    <3> QED
      BY <3>1 DEF IsOutcome
  <2> QED
    BY <1>0, <1>4, <2>1, <2>2, QuietStepKeepsJudgedInv
<1>6. CASE DieOfConfig
  <2>1. /\ pc = "file" /\ HasFile /\ pc' = "died" /\ command' = command
        /\ verdicts' = verdicts /\ index' = index /\ options' = NewOptions
    BY <1>6 DEF DieOfConfig
  <2> QED
    BY <1>0, <1>4, <2>1, QuietStepKeepsJudgedInv
<1>7. CASE StartFile
  BY <1>7, StartFileKeepsJudgedInv
<1>8. CASE ProcessLine
  BY <1>8, ProcessLineKeepsJudgedInv
<1>9. CASE EndFile
  BY <1>9, EndFileKeepsJudgedInv
<1>10. CASE Exit
  <2>1. /\ pc = "file" /\ ~HasFile /\ pc' = "done" /\ command' = command
        /\ verdicts' = verdicts /\ index' = index /\ options' = options
    BY <1>10 DEF Exit
  <2>2. index' > Len(command.files)
    BY <1>0, <2>1 DEF HasFile, IsList
  <2> QED
    BY <1>0, <2>1, <2>2, QuietStepKeepsJudgedInv
<1>11. CASE UNCHANGED vars
  <2>1. /\ pc' = pc /\ command' = command /\ index' = index /\ options' = options
        /\ verdicts' = verdicts /\ clean_lines' = clean_lines /\ linenum' = linenum
        /\ checks' = checks
    BY <1>11 DEF vars, state, checks
  <2>2. File' = File /\ Given' = Given
    BY <2>1 DEF File, Given
  <2>3. OnItsCourse' = OnItsCourse
    BY <2>1, <2>2 DEF OnItsCourse
  <2> QED
    BY <2>1, <2>2, <2>3 DEF JudgedInv
<1> QED
  BY <1>1, <1>2, <1>3, <1>5, <1>6, <1>7, <1>8, <1>9, <1>10, <1>11 DEF Next

(* A file that is named twice gets the same verdicts both times, whatever  *)
(* is judged in between and whatever filters, marks and errors that has:   *)
(* ProcessFileData starts every checker, the filters and the suppressions  *)
(* anew (cpplint.py:6198-6204, 6382), and only headers and extensions set  *)
(* by a configuration could tell the two apart.                            *)
THEOREM FilesAreJudgedAlone == Spec => []JudgedAlone
<1>1. IInv /\ JudgedInv => JudgedAlone
  <2> SUFFICES ASSUME IInv, JudgedInv, pc = "done", options = NoOptions,
                      NEW i \in DOMAIN command.files, NEW j \in DOMAIN command.files,
                      command.files[i] = command.files[j]
               PROVE  verdicts[i] = verdicts[j]
    BY DEF JudgedAlone
  <2>1. IsList(command.files) /\ IsList(command.files[i].text)
    BY DEF IInv
  <2>2. i < index /\ j < index
    BY <2>1 DEF IsList, IInv, JudgedInv
  <2>3. /\ IsOutcome(verdicts[i], command.files[i], Given)
        /\ IsOutcome(verdicts[j], command.files[i], Given)
    BY <2>2 DEF JudgedInv
  <2> QED
    BY <2>1, <2>3, OutcomesAgree
<1> QED
  BY <1>1, InitIInv, NextIInv, InitJudgedInv, NextJudgedInv, PTL DEF Spec

-----------------------------------------------------------------------------
(* Recursive functions on the first numbers: with a step that stays in A   *)
(* there is one, all its values are in A, and it is the only one.          *)
IsCourse(f, n, A, a, G) ==
  f \in [0 .. n -> A] /\ f[0] = a /\ \A i \in 1 .. n : f[i] = G[<<i, f[i - 1]>>]

LEMMA CourseExists ==
  ASSUME NEW A, NEW a \in A, NEW n \in Nat, NEW G \in [(1 .. n) \X A -> A]
  PROVE  \E f : IsCourse(f, n, A, a, G)
<1> DEFINE Is(f, k) == f \in [0 .. k -> A] /\ f[0] = a
                       /\ \A i \in 1 .. k : f[i] = G[<<i, f[i - 1]>>]
           Bad == {k \in 0 .. n : ~ \E f : Is(f, k)}
<1>0. SUFFICES ASSUME Bad # {} PROVE FALSE
  <2>1. n \notin Bad
    BY <1>0
  <2>2. n \in 0 .. n
    OBVIOUS
  <2>3. PICK f : Is(f, n)
    BY <2>1, <2>2
  <2> QED
    BY <2>3 DEF IsCourse
<1>1. PICK k \in Bad : \A j \in Bad : k <= j
  <2>1. Bad \in SUBSET Nat
    OBVIOUS
  <2> HIDE DEF Bad
  <2> QED
    BY <1>0, <2>1, LeastLine
<1>2. k # 0
  <2> DEFINE f == [i \in 0 .. 0 |-> a]
  <2>1. Is(f, 0)
    OBVIOUS
  <2> QED
    BY <1>1, <2>1
<1>3. k \in 1 .. n /\ k - 1 \in 0 .. n /\ ~ (k - 1 \in Bad)
  BY <1>1, <1>2
<1>4. PICK f : Is(f, k - 1)
  BY <1>3
<1> DEFINE next == G[<<k, f[k - 1]>>]
           g == [i \in 0 .. k |-> IF i = k THEN next ELSE f[i]]
<1>5. f[k - 1] \in A /\ next \in A
  BY <1>3, <1>4
<1> HIDE DEF next
<1>6. g \in [0 .. k -> A] /\ g[0] = a /\ g[k] = next /\ \A i \in 0 .. k - 1 : g[i] = f[i]
  BY <1>3, <1>4, <1>5
<1> HIDE DEF g
<1>7. ASSUME NEW i \in 1 .. k PROVE g[i] = G[<<i, g[i - 1]>>]
  <2>1. i - 1 \in 0 .. k - 1 /\ g[i - 1] = f[i - 1]
    BY <1>3, <1>6
  <2>2. CASE i = k
    BY <1>6, <2>1, <2>2 DEF next
  <2>3. CASE i # k
    <3>1. i \in 1 .. k - 1 /\ i \in 0 .. k - 1
      BY <1>3, <2>3
    <3> QED
      BY <1>4, <1>6, <2>1, <3>1
  <2> QED
    BY <2>2, <2>3
<1>8. Is(g, k)
  BY <1>6, <1>7
<1> QED
  BY <1>1, <1>8

LEMMA CourseStays ==
  ASSUME NEW n \in Nat, NEW f, NEW A, f[0] \in A,
         \A i \in 1 .. n : f[i - 1] \in A => f[i] \in A
  PROVE  \A i \in 0 .. n : f[i] \in A
<1> DEFINE Bad == {i \in 0 .. n : f[i] \notin A}
<1> SUFFICES ASSUME Bad # {} PROVE FALSE
  OBVIOUS
<1>1. Bad \in SUBSET Nat
  OBVIOUS
<1> HIDE DEF Bad
<1>2. PICK i \in Bad : \A j \in Bad : i <= j
  BY <1>1, LeastLine
<1>3. i \in 0 .. n /\ f[i] \notin A
  BY <1>2 DEF Bad
<1>4. i \in 1 .. n /\ i - 1 \in 0 .. n /\ ~ (i <= i - 1)
  BY <1>3
<1>5. f[i - 1] \in A
  BY <1>2, <1>4 DEF Bad
<1> QED
  BY <1>3, <1>4, <1>5

-----------------------------------------------------------------------------
(* Lines of tokens.                                                        *)
Token == STRING \cup {"", "{", "/*", "*/", Empty}
Line == Seq(Token)

LEMMA SequencesOf ==
  ASSUME NEW A, NEW n \in Nat, NEW f \in [1 .. n -> A]
  PROVE  f \in Seq(A) /\ Len(f) = n
OBVIOUS

LEMMA IndentType ==
  ASSUME NEW line \in Line
  PROVE  GetIndentLevel(line) \in 0 .. Len(line)
<1> DEFINE words == {i \in DOMAIN line : line[i] # Blank}
<1>1. GetIndentLevel(line) = IF words = {} THEN Len(line)
                             ELSE (CHOOSE i \in words : \A j \in words : i <= j) - 1
  BY DEF GetIndentLevel
<1>2. words \in SUBSET Nat /\ words \subseteq 1 .. Len(line) /\ Len(line) \in Nat
  BY DEF Line
<1> HIDE DEF words
<1>3. CASE words # {}
  <2> DEFINE i == CHOOSE i \in words : \A j \in words : i <= j
  <2>1. \E x \in words : \A y \in words : x <= y
    BY <1>2, <1>3, LeastLine
  <2>2. i \in words
    BY <2>1
  <2>3. GetIndentLevel(line) = i - 1
    BY <1>1, <1>3
  <2> HIDE DEF i
  <2> QED
    BY <1>2, <2>2, <2>3
<1>4. CASE words = {}
  BY <1>1, <1>2, <1>4
<1> QED
  BY <1>3, <1>4

LEMMA CutTokens ==
  ASSUME NEW T, NEW line \in Seq(T), NEW m \in Nat \ {0}
  PROVE  SubSeq(line, m, Len(line)) \in Seq(T)
<1>1. Len(line) \in Int /\ m \in Int /\ \A i \in m .. Len(line) : line[i] \in T
  OBVIOUS
<1> QED
  BY <1>1, SubSeqProperties

LEMMA CutType ==
  ASSUME NEW line \in Line, NEW m \in Nat \ {0}
  PROVE  SubSeq(line, m, Len(line)) \in Line
BY CutTokens DEF Line

LEMMA CutBehindType ==
  ASSUME NEW line \in Line, NEW m \in 0 .. Len(line)
  PROVE  SubSeq(line, 1, m) \in Line
<1>1. m \in Int /\ \A i \in 1 .. m : line[i] \in Token
  BY DEF Line
<1> QED
  BY <1>1, SubSeqProperties DEF Line

LEMMA LineOfTokens == ASSUME NEW T \in SUBSET Token, NEW line \in Seq(T) PROVE line \in Line
BY SeqMonotonic DEF Line

LEMMA StripTokens ==
  ASSUME NEW T \in SUBSET Token, NEW line \in Seq(T)
  PROVE  Strip(line) \in Seq(T)
<1>1. GetIndentLevel(line) \in 0 .. Len(line) /\ Len(line) \in Nat
  BY LineOfTokens, IndentType
<1>2. GetIndentLevel(line) + 1 \in Nat \ {0}
  BY <1>1
<1> QED
  BY <1>2, CutTokens DEF Strip

LEMMA StripType ==
  ASSUME NEW line \in Line
  PROVE  Strip(line) \in Line
BY StripTokens DEF Line

LEMMA CountType ==
  ASSUME NEW line \in Line, NEW t
  PROVE  Count(line, t) \in Nat
<1> DEFINE S == {i \in DOMAIN line : line[i] = t}
<1>1. S \subseteq 1 .. Len(line) /\ Len(line) \in Nat
  BY DEF Line
<1> HIDE DEF S
<1>2. IsFiniteSet(1 .. Len(line))
  BY <1>1, FS_Interval
<1>3. IsFiniteSet(S)
  BY <1>1, <1>2, FS_Subset
<1> QED
  BY <1>3, FS_CardinalityType DEF Count, S

\* The place of token t, as SelectInSeq gives it.
PlaceOf(t, line) ==
  LET I == {i \in 1 .. Len(line) : line[i] = t} IN IF I # {} THEN Min(I) ELSE 0

LEMMA PlaceType ==
  ASSUME NEW line \in Line, NEW t
  PROVE  PlaceOf(t, line) \in 0 .. Len(line)
<1> DEFINE S == {i \in 1 .. Len(line) : line[i] = t}
<1>1. PlaceOf(t, line) = IF S # {} THEN Min(S) ELSE 0
  BY DEF PlaceOf
<1>2. S \in SUBSET Nat /\ S \subseteq 1 .. Len(line) /\ Len(line) \in Nat
  BY DEF Line
<1> HIDE DEF S
<1>3. CASE S # {}
  <2> DEFINE m == CHOOSE x \in S : \A y \in S : x <= y
  <2>1. \E x \in S : \A y \in S : x <= y
    BY <1>2, <1>3, LeastLine
  <2>2. m \in S
    BY <2>1
  <2>3. Min(S) = m
    BY DEF Min
  <2> HIDE DEF m
  <2> QED
    BY <1>1, <1>2, <1>3, <2>2, <2>3
<1> QED
  BY <1>1, <1>2, <1>3

LEMMA RemoveType ==
  ASSUME NEW text \in Seq(Line)
  PROVE  /\ RemoveMultiLineComments(text) \in Seq(Line)
         /\ Len(RemoveMultiLineComments(text)) = Len(text)
<1> DEFINE cleared == CommentScan(text).cleared
           f == [i \in 1 .. Len(text) |-> IF i \in cleared THEN CommentLine ELSE text[i]]
<1> HIDE DEF cleared
<1>1. DOMAIN text = 1 .. Len(text) /\ Len(text) \in Nat
  OBVIOUS
<1>2. RemoveMultiLineComments(text) = f
  BY <1>1 DEF RemoveMultiLineComments, cleared
<1>3. CommentLine \in Line
  <2>1. <<"/*">> \in Seq(Token) /\ "*/" \in Token
    BY DEF Token
  <2>2. CommentLine = Append(<<"/*">>, "*/")
    BY DEF CommentLine
  <2> QED
    BY <2>1, <2>2, AppendProperties DEF Line
<1>4. f \in [1 .. Len(text) -> Line]
  BY <1>1, <1>3
<1> QED
  BY <1>1, <1>2, <1>4, SequencesOf


(* One token, and then a line, of each of the passes that clean a text.    *)
RawLines == [delimiter : Token \cup {NoDelimiter, "ENDRAW", "ENDRAW1"}, out : Line]
RawStates == [delimiter : Token \cup {NoDelimiter, "ENDRAW", "ENDRAW1"}, out : Line,
              comment : BOOLEAN, quoted : BOOLEAN]

LEMMA AppendType ==
  ASSUME NEW line \in Line, NEW t \in Token
  PROVE  Append(line, t) \in Line
BY AppendProperties DEF Line

LEMMA ConcatType ==
  ASSUME NEW a \in Line, NEW b \in Line
  PROVE  a \o b \in Line
BY ConcatProperties DEF Line

LEMMA RawTokenType ==
  ASSUME NEW acc \in RawStates, NEW t \in Token
  PROVE  RawToken(acc, t) \in RawStates
<1>1. Delimiter(t) \in {NoDelimiter, "ENDRAW", "ENDRAW1"}
  BY DEF Delimiter, NoDelimiter
<1>2. Empty \in Token /\ acc.out \in Line
  BY DEF Token, RawStates
<1>3. Append(acc.out, Empty) \in Line /\ Append(acc.out, t) \in Line
  BY <1>2, AppendType
<1> DEFINE r == RawToken(acc, t)
           closed == [acc EXCEPT !.delimiter = NoDelimiter]
           opened == [acc EXCEPT !.delimiter = Delimiter(t), !.out = Append(@, Empty)]
           kept == [acc EXCEPT !.out = Append(@, t),
                               !.comment = @ \/ (t = "//" /\ ~acc.quoted),
                               !.quoted = IF t = Quote THEN ~@ ELSE @]
<1>4. r \in {acc, closed, opened, kept}
  BY DEF RawToken
<1>5. closed \in RawStates
  BY DEF RawStates
<1>6. opened \in RawStates
  BY <1>1, <1>3 DEF RawStates
<1>7. kept \in RawStates
  BY <1>3 DEF RawStates
<1> QED
  BY <1>4, <1>5, <1>6, <1>7

LEMMA RawLineType ==
  ASSUME NEW d \in Token \cup {NoDelimiter, "ENDRAW", "ENDRAW1"}, NEW line \in Line
  PROVE  RawLine(d, line) \in RawLines
<1> DEFINE n == Len(line)
           indent == SubSeq(line, 1, GetIndentLevel(line))
           start == IF d = NoDelimiter THEN <<>> ELSE Append(indent, Empty)
           first == [delimiter |-> d, out |-> start, comment |-> FALSE, quoted |-> FALSE]
           G == [p \in (1 .. n) \X RawStates |-> RawToken(p[2], line[p[1]])]
           after == CHOOSE f : f = [i \in 0 .. n |-> IF i = 0 THEN first
                                                     ELSE RawToken(f[i - 1], line[i])]
<1>1. n \in Nat /\ \A i \in 1 .. n : line[i] \in Token
  BY DEF Line
<1>2. start \in Line /\ <<Empty>> \in Line
  <2>1. indent \in Line
    BY IndentType, CutBehindType
  <2>2. Empty \in Token
    BY DEF Token
  <2>3. <<>> \in Line /\ <<Empty>> \in Line
    BY <2>2 DEF Line
  <2> HIDE DEF indent
  <2> QED
    BY <2>1, <2>2, <2>3, AppendType
<1> HIDE DEF start
<1>3. first \in RawStates
  BY <1>2 DEF RawStates
<1>4. G \in [(1 .. n) \X RawStates -> RawStates]
  BY <1>1, RawTokenType
<1>5. RawLine(d, line)
        = IF d # NoDelimiter /\ ~Contains(line, d)
          THEN [delimiter |-> d, out |-> <<Empty>>]
          ELSE [delimiter |-> after[n].delimiter, out |-> after[n].out]
  BY DEF RawLine, start
<1>12. n \in Nat
  BY <1>1
<1> HIDE DEF n, first
<1>6. PICK g : IsCourse(g, n, RawStates, first, G)
  <2> HIDE DEF G
  <2> QED
    BY <1>3, <1>4, <1>12, CourseExists
<1>7. g = [i \in 0 .. n |-> IF i = 0 THEN first ELSE RawToken(g[i - 1], line[i])]
  <2>1. ASSUME NEW i \in 0 .. n, i # 0 PROVE g[i] = RawToken(g[i - 1], line[i])
    <3>1. i \in 1 .. n /\ i - 1 \in 0 .. n
      BY <1>1, <2>1
    <3> QED
      BY <1>6, <3>1 DEF IsCourse
  <2> QED
    BY <1>6, <2>1 DEF IsCourse
<1>8. after = [i \in 0 .. n |-> IF i = 0 THEN first ELSE RawToken(after[i - 1], line[i])]
  BY <1>7
<1> HIDE DEF after
<1>9. after[0] \in RawStates
  BY <1>1, <1>3, <1>8
<1>10. ASSUME NEW i \in 1 .. n, after[i - 1] \in RawStates PROVE after[i] \in RawStates
  BY <1>1, <1>8, <1>10, RawTokenType
<1>11. after[n] \in RawStates
  BY <1>1, <1>9, <1>10, CourseStays
<1> QED
  BY <1>2, <1>5, <1>11 DEF RawLines, RawStates


LEMMA CleanseRawType ==
  ASSUME NEW text \in Seq(Line)
  PROVE  /\ CleanseRawStrings(text) \in Seq(Line)
         /\ Len(CleanseRawStrings(text)) = Len(text)
<1> DEFINE n == Len(text)
           first == [delimiter |-> NoDelimiter, out |-> <<>>]
           G == [p \in (1 .. n) \X RawLines |-> RawLine(p[2].delimiter, text[p[1]])]
           scan == CHOOSE f : f = [i \in 0 .. n |-> IF i = 0 THEN first
                                                    ELSE RawLine(f[i - 1].delimiter, text[i])]
<1>1. n \in Nat /\ DOMAIN text = 1 .. n /\ \A i \in 1 .. n : text[i] \in Line
  OBVIOUS
<1>2. n \in Nat
  BY <1>1
<1>3. first \in RawLines
  BY DEF RawLines, Line
<1>4. ASSUME NEW r \in RawLines, NEW i \in 1 .. n
      PROVE  RawLine(r.delimiter, text[i]) \in RawLines
  <2>1. r.delimiter \in Token \cup {NoDelimiter, "ENDRAW", "ENDRAW1"}
    BY DEF RawLines
  <2> QED
    BY <1>1, <2>1, RawLineType
<1>5. G \in [(1 .. n) \X RawLines -> RawLines]
  BY <1>4
<1>6. CleanseRawStrings(text) = [i \in DOMAIN text |-> scan[i].out]
  BY DEF CleanseRawStrings
<1> HIDE DEF n, first
<1>7. PICK g : IsCourse(g, n, RawLines, first, G)
  <2> HIDE DEF G
  <2> QED
    BY <1>2, <1>3, <1>5, CourseExists
<1>8. g = [i \in 0 .. n |-> IF i = 0 THEN first ELSE RawLine(g[i - 1].delimiter, text[i])]
  <2>1. ASSUME NEW i \in 0 .. n, i # 0 PROVE g[i] = RawLine(g[i - 1].delimiter, text[i])
    <3>1. i \in 1 .. n /\ i - 1 \in 0 .. n
      BY <1>2, <2>1
    <3> QED
      BY <1>7, <3>1 DEF IsCourse
  <2> QED
    BY <1>7, <2>1 DEF IsCourse
<1>9. scan = [i \in 0 .. n |-> IF i = 0 THEN first ELSE RawLine(scan[i - 1].delimiter, text[i])]
  BY <1>8
<1> HIDE DEF scan
<1>10. scan[0] \in RawLines
  BY <1>2, <1>3, <1>9
<1>11. ASSUME NEW i \in 1 .. n, scan[i - 1] \in RawLines PROVE scan[i] \in RawLines
  BY <1>2, <1>4, <1>9, <1>11
<1>12. \A i \in 0 .. n : scan[i] \in RawLines
  BY <1>2, <1>10, <1>11, CourseStays
<1>13. [i \in 1 .. n |-> scan[i].out] \in [1 .. n -> Line]
  BY <1>2, <1>12 DEF RawLines
<1> QED
  BY <1>1, <1>2, <1>6, <1>13, SequencesOf DEF n

LEMMA CutLineCommentType ==
  ASSUME NEW line \in Line
  PROVE  CutLineComment(line) \in Line
<1> DEFINE p == SelectInSeq(line, LAMBDA t : t = "//")
<1>1. p \in 0 .. Len(line) /\ Len(line) \in Nat
  <2>1. p = PlaceOf("//", line)
    BY DEF SelectInSeq, PlaceOf
  <2> QED
    BY <2>1, PlaceType DEF Line
<1>2. CutLineComment(line) = IF p = 0 \/ IsCppString(SubSeq(line, 1, p - 1)) THEN line
                             ELSE SubSeq(line, 1, p - 1)
  BY DEF CutLineComment
<1> HIDE DEF p
<1>3. CASE p # 0
  <2>1. p - 1 \in 0 .. Len(line)
    BY <1>1, <1>3
  <2>2. SubSeq(line, 1, p - 1) \in Line
    BY <2>1, CutBehindType
  <2> QED
    BY <1>2, <2>2
<1> QED
  BY <1>2, <1>3

(* What a pass has put out, and what it holds back.                        *)
Passes == [out : Line, open : BOOLEAN, inside : Line]

LEMMA BlockTokenType ==
  ASSUME NEW acc \in Passes, NEW t \in Token
  PROVE  BlockToken(acc, t) \in Passes
<1>1. acc.out \in Line /\ acc.inside \in Line
  BY DEF Passes
<1>2. /\ Append(acc.out, t) \in Line /\ Append(acc.inside, t) \in Line
      /\ <<>> \in Line /\ <<t>> \in Line
  BY <1>1, AppendType DEF Line
<1> DEFINE closed == [acc EXCEPT !.open = FALSE, !.inside = <<>>]
           goes_on == [acc EXCEPT !.inside = Append(@, t)]
           opened == [acc EXCEPT !.open = TRUE, !.inside = <<t>>]
           kept == [acc EXCEPT !.out = Append(@, t)]
<1>3. BlockToken(acc, t) \in {closed, goes_on, opened, kept}
  BY DEF BlockToken
<1>4. closed \in Passes /\ goes_on \in Passes /\ opened \in Passes /\ kept \in Passes
  BY <1>2 DEF Passes
<1> QED
  BY <1>3, <1>4

LEMMA StringTokenType ==
  ASSUME NEW acc \in Passes, NEW t \in Token
  PROVE  StringToken(acc, t) \in Passes
<1>1. acc.out \in Line /\ acc.inside \in Line /\ Empty \in Token
  BY DEF Passes, Token
<1>2. /\ Append(acc.out, t) \in Line /\ Append(acc.inside, t) \in Line
      /\ Append(acc.out, Empty) \in Line /\ <<>> \in Line /\ <<t>> \in Line
  BY <1>1, AppendType DEF Line
<1> DEFINE closed == [out |-> Append(acc.out, Empty), open |-> FALSE, inside |-> <<>>]
           goes_on == [acc EXCEPT !.inside = Append(@, t)]
           opened == [acc EXCEPT !.open = TRUE, !.inside = <<t>>]
           kept == [acc EXCEPT !.out = Append(@, t)]
<1>3. StringToken(acc, t) \in {closed, goes_on, opened, kept}
  BY DEF StringToken
<1>4. closed \in Passes /\ goes_on \in Passes /\ opened \in Passes /\ kept \in Passes
  BY <1>2 DEF Passes
<1> QED
  BY <1>3, <1>4

LEMMA CutBlockType ==
  ASSUME NEW line \in Line
  PROVE  CutBlockComments(line) \in Line
<1> DEFINE n == Len(line)
           first == [out |-> <<>>, open |-> FALSE, inside |-> <<>>]
           G == [p \in (1 .. n) \X Passes |-> BlockToken(p[2], line[p[1]])]
           after == CHOOSE f : f = [i \in 0 .. n |-> IF i = 0 THEN first
                                                     ELSE BlockToken(f[i - 1], line[i])]
<1>1. n \in Nat /\ \A i \in 1 .. n : line[i] \in Token
  BY DEF Line
<1>2. n \in Nat
  BY <1>1
<1>3. first \in Passes
  BY DEF Passes, Line
<1>4. G \in [(1 .. n) \X Passes -> Passes]
  BY <1>1, BlockTokenType
<1>5. CutBlockComments(line) = after[n].out \o after[n].inside
  BY DEF CutBlockComments
<1> HIDE DEF n, first
<1>6. PICK g : IsCourse(g, n, Passes, first, G)
  <2> HIDE DEF G
  <2> QED
    BY <1>2, <1>3, <1>4, CourseExists
<1>7. g = [i \in 0 .. n |-> IF i = 0 THEN first ELSE BlockToken(g[i - 1], line[i])]
  <2>1. ASSUME NEW i \in 0 .. n, i # 0 PROVE g[i] = BlockToken(g[i - 1], line[i])
    <3>1. i \in 1 .. n /\ i - 1 \in 0 .. n
      BY <1>2, <2>1
    <3> QED
      BY <1>6, <3>1 DEF IsCourse
  <2> QED
    BY <1>6, <2>1 DEF IsCourse
<1>8. after = [i \in 0 .. n |-> IF i = 0 THEN first ELSE BlockToken(after[i - 1], line[i])]
  BY <1>7
<1> HIDE DEF after
<1>9. after[0] \in Passes
  BY <1>2, <1>3, <1>8
<1>10. ASSUME NEW i \in 1 .. n, after[i - 1] \in Passes PROVE after[i] \in Passes
  BY <1>1, <1>8, <1>10, BlockTokenType
<1>11. after[n] \in Passes
  BY <1>2, <1>9, <1>10, CourseStays
<1>12. after[n].out \in Line /\ after[n].inside \in Line
  BY <1>11 DEF Passes
<1> QED
  BY <1>5, <1>12, ConcatType

LEMMA CollapseType ==
  ASSUME NEW line \in Line
  PROVE  CollapseStrings(line) \in Line
<1> DEFINE n == Len(line)
           first == [out |-> <<>>, open |-> FALSE, inside |-> <<>>]
           G == [p \in (1 .. n) \X Passes |-> StringToken(p[2], line[p[1]])]
           after == CHOOSE f : f = [i \in 0 .. n |-> IF i = 0 THEN first
                                                     ELSE StringToken(f[i - 1], line[i])]
<1>1. n \in Nat /\ \A i \in 1 .. n : line[i] \in Token
  BY DEF Line
<1>2. n \in Nat
  BY <1>1
<1>3. first \in Passes
  BY DEF Passes, Line
<1>4. G \in [(1 .. n) \X Passes -> Passes]
  BY <1>1, StringTokenType
<1>5. CollapseStrings(line) = IF First(line) = "#include" THEN line
                              ELSE after[n].out \o after[n].inside
  BY DEF CollapseStrings
<1> HIDE DEF n, first
<1>6. PICK g : IsCourse(g, n, Passes, first, G)
  <2> HIDE DEF G
  <2> QED
    BY <1>2, <1>3, <1>4, CourseExists
<1>7. g = [i \in 0 .. n |-> IF i = 0 THEN first ELSE StringToken(g[i - 1], line[i])]
  <2>1. ASSUME NEW i \in 0 .. n, i # 0 PROVE g[i] = StringToken(g[i - 1], line[i])
    <3>1. i \in 1 .. n /\ i - 1 \in 0 .. n
      BY <1>2, <2>1
    <3> QED
      BY <1>6, <3>1 DEF IsCourse
  <2> QED
    BY <1>6, <2>1 DEF IsCourse
<1>8. after = [i \in 0 .. n |-> IF i = 0 THEN first ELSE StringToken(after[i - 1], line[i])]
  BY <1>7
<1> HIDE DEF after
<1>9. after[0] \in Passes
  BY <1>2, <1>3, <1>8
<1>10. ASSUME NEW i \in 1 .. n, after[i - 1] \in Passes PROVE after[i] \in Passes
  BY <1>1, <1>8, <1>10, StringTokenType
<1>11. after[n] \in Passes
  BY <1>2, <1>9, <1>10, CourseStays
<1>12. after[n].out \in Line /\ after[n].inside \in Line
  BY <1>11 DEF Passes
<1> QED
  BY <1>5, <1>12, ConcatType

LEMMA CleansedType ==
  ASSUME NEW text \in Seq(Line), NEW lines, lines = CleansedLines(text)
  PROVE  /\ lines.raw_lines = text
         /\ lines.lines_without_raw_strings = CleanseRawStrings(text)
         /\ lines.lines \in Seq(Line) /\ Len(lines.lines) = Len(text)
         /\ lines.elided \in Seq(Line) /\ Len(lines.elided) = Len(text)
<1> DEFINE n == Len(text)
           without == CleanseRawStrings(text)
           code == [i \in 1 .. n |-> CleanseComments(without[i])]
           bare == [i \in 1 .. n |-> CleanseComments(CollapseStrings(without[i]))]
<1>1. n \in Nat /\ DOMAIN text = 1 .. n
  OBVIOUS
<1>2. lines = [raw_lines |-> text, lines_without_raw_strings |-> without,
               lines |-> code, elided |-> bare]
  BY <1>1 DEF CleansedLines
<1>3. \A i \in 1 .. n : without[i] \in Line
  BY CleanseRawType
<1>4. \A line \in Line : CleanseComments(line) \in Line
  BY CutLineCommentType, CutBlockType DEF CleanseComments
<1>5. code \in [1 .. n -> Line]
  <2> HIDE DEF without
  <2> QED
    BY <1>3, <1>4
<1>6. bare \in [1 .. n -> Line]
  <2> HIDE DEF without
  <2> QED
    BY <1>3, <1>4, CollapseType
<1> HIDE DEF code, bare, n, without
<1>7. code \in Seq(Line) /\ Len(code) = n /\ bare \in Seq(Line) /\ Len(bare) = n
  BY <1>1, <1>5, <1>6, SequencesOf
<1> QED
  BY <1>2, <1>7 DEF n, without


-----------------------------------------------------------------------------
(* Errors: their lines are in L.                                           *)
Categories ==
  {<<"readability", "nolint">>, <<"readability", "multiline_comment">>,
   <<"readability", "multiline_string">>, <<"readability", "constructors">>,
   <<"readability", "namespace">>, <<"readability", "fn_size">>,
   <<"readability", "utf8">>, <<"readability", "nul">>, <<"build", "class">>,
   <<"build", "namespaces">>, <<"build", "header_guard">>, <<"build", "include_order">>,
   <<"build", "include_alpha">>, <<"build", "include_subdir">>, <<"build", "include">>,
   <<"build", "include_what_you_use">>, <<"build", "c++11">>, <<"whitespace", "indent">>,
   <<"whitespace", "ending_newline">>, <<"whitespace", "newline">>,
   <<"legal", "copyright">>, <<"runtime", "indentation_namespace">>}
Confidences == 0 .. 5 \cup {ErrorLevel(n, base) : n \in Nat, base \in Nat}
Problems(L) == [linenum : L, category : Categories, confidence : Confidences]

LEMMA OneProblem ==
  ASSUME NEW L, NEW n \in L, NEW c \in Categories, NEW k \in 0 .. 5
  PROVE  /\ <<Problem(n, c, k)>> \in Seq(Problems(L))
         /\ <<[linenum |-> n, category |-> c, confidence |-> k]>> \in Seq(Problems(L))
<1>1. k \in Confidences
  BY DEF Confidences
<1>2. [linenum |-> n, category |-> c, confidence |-> k] \in Problems(L)
  BY <1>1 DEF Problems
<1> QED
  BY <1>2 DEF Problem

LEMMA NoProblem == ASSUME NEW L PROVE <<>> \in Seq(Problems(L))
OBVIOUS

LEMMA MoreProblems ==
  ASSUME NEW L, NEW s \in Seq(Problems(L)), NEW t \in Seq(Problems(L))
  PROVE  s \o t \in Seq(Problems(L))
BY ConcatProperties

(* Errors of the other checkers than that of function lengths.             *)
OtherCategories == Categories \ {<<"readability", "fn_size">>}
Others(L) == [linenum : L, category : OtherCategories, confidence : Confidences]

LEMMA OneOther ==
  ASSUME NEW L, NEW n \in L, NEW c \in OtherCategories, NEW k \in 0 .. 5
  PROVE  /\ <<Problem(n, c, k)>> \in Seq(Others(L))
         /\ <<[linenum |-> n, category |-> c, confidence |-> k]>> \in Seq(Others(L))
<1>1. k \in Confidences
  BY DEF Confidences
<1>2. [linenum |-> n, category |-> c, confidence |-> k] \in Others(L)
  BY <1>1 DEF Others
<1> QED
  BY <1>2 DEF Problem

LEMMA NoOther == ASSUME NEW L PROVE <<>> \in Seq(Others(L))
OBVIOUS

LEMMA MoreOthers ==
  ASSUME NEW L, NEW s \in Seq(Others(L)), NEW t \in Seq(Others(L))
  PROVE  s \o t \in Seq(Others(L))
BY ConcatProperties

LEMMA OthersAreProblems == ASSUME NEW L PROVE Seq(Others(L)) \subseteq Seq(Problems(L))
<1>1. Others(L) \subseteq Problems(L)
  BY DEF Others, Problems, OtherCategories
<1> QED
  BY <1>1, SeqMonotonic

-----------------------------------------------------------------------------
(* The blocks of the nesting, and the stacks of them, for lines of tokens  *)
(* in T: assembler is met only in lines with its token.                    *)
AsmAmong(T) == IF "asm" \in T THEN AsmStates ELSE {"none"}
Kinds == {"none", "block", "extern", "class", "struct", "namespace"}
Blocks(T) ==
  [kind : Kinds, name : Token, starting_linenum : Nat, seen_open_brace : BOOLEAN,
   open_parentheses : Int, inline_asm : AsmAmong(T), access : {"", "public:", "private:"},
   indent : Nat]
Stacks(T) == Seq(Blocks(T))
Branches(T) == [stack_before_if : Stacks(T), stack_before_else : Stacks(T), seen_else : BOOLEAN]
Nestings(T) == [stack : Stacks(T), previous_stack_top : Blocks(T), previous_depth : Nat,
             pp_stack : Seq(Branches(T))]

LEMMA AsmType ==
  ASSUME NEW T
  PROVE  "none" \in AsmAmong(T) /\ AsmAmong(T) \subseteq AsmStates
BY DEF AsmAmong, AsmStates

LEMMA MatchesAsm ==
  ASSUME NEW T \in SUBSET Token, NEW line \in Seq(T), MatchAsm(line)
  PROVE  "asm" \in T
<1>1. Strip(line) \in Seq(T)
  BY StripTokens
<1>2. Len(Strip(line)) > 1 /\ Strip(line)[1] = "asm"
  BY DEF MatchAsm
<1> QED
  BY <1>1, <1>2

LEMMA BlockType ==
  ASSUME NEW T, NEW kind \in Kinds, NEW name \in Token, NEW n \in Nat, NEW seen \in BOOLEAN
  PROVE  Block(kind, name, n, seen) \in Blocks(T)
<1> DEFINE access == CASE kind = "struct" -> "public:" [] kind = "class" -> "private:"
                       [] OTHER -> ""
<1>1. access \in {"", "public:", "private:"}
  OBVIOUS
<1>2. "none" \in AsmAmong(T)
  BY AsmType
<1> QED
  BY <1>1, <1>2 DEF Block, Blocks

LEMMA FrontAndLast ==
  ASSUME NEW A, NEW s \in Seq(A), s # <<>>
  PROVE  /\ Front(s) \in Seq(A) /\ Len(Front(s)) = Len(s) - 1
         /\ \A i \in 1 .. Len(s) - 1 : Front(s)[i] = s[i]
         /\ Last(s) \in A /\ Len(s) \in Nat \ {0}
<1> DEFINE m == Len(s) - 1
           t == SubSeq(s, 1, m)
<1>1. Len(s) = m + 1 /\ m \in Nat /\ \A i \in 1 .. m + 1 : s[i] \in A
  OBVIOUS
<1>2. s[Len(s)] \in A
  BY <1>1
<1>3. Front(s) = t /\ Last(s) = s[Len(s)]
  BY DEF Front, Last
<1> HIDE DEF m
<1>4. /\ t \in Seq(A) /\ Len(t) = IF 1 <= m THEN m - 1 + 1 ELSE 0
      /\ \A i \in 1 .. m - 1 + 1 : t[i] = s[1 + i - 1]
  <2>1. m \in Int /\ 1 \in Int /\ \A i \in 1 .. m : s[i] \in A
    BY <1>1
  <2> QED
    BY <2>1, SubSeqProperties
<1> HIDE DEF t
<1>5. Len(t) = m /\ \A i \in 1 .. m : t[i] = s[i]
  <2>1. \A i \in 1 .. m : i \in 1 .. m - 1 + 1 /\ 1 + i - 1 = i
    BY <1>1
  <2> QED
    BY <1>1, <1>4, <2>1
<1>6. m = Len(s) - 1 /\ Len(s) \in Nat \ {0}
  BY <1>1 DEF m
<1>7. t \in Seq(A)
  BY <1>4
<1> QED
  BY <1>2, <1>3, <1>5, <1>6, <1>7

LEMMA TopType ==
  ASSUME NEW T \in SUBSET Token, NEW stack \in Stacks(T), stack # <<>>
  PROVE  Top(stack) \in Blocks(T) /\ Front(stack) \in Stacks(T)
BY FrontAndLast DEF Top, Stacks

LEMMA SetTopType ==
  ASSUME NEW T \in SUBSET Token, NEW stack \in Stacks(T), stack # <<>>, NEW block \in Blocks(T)
  PROVE  SetTop(stack, block) \in Stacks(T)
BY DEF SetTop, Stacks

LEMMA PushType ==
  ASSUME NEW T \in SUBSET Token, NEW stack \in Stacks(T), NEW block \in Blocks(T)
  PROVE  Append(stack, block) \in Stacks(T)
BY AppendProperties DEF Stacks

LEMMA UpdatePreprocessorType ==
  ASSUME NEW T \in SUBSET Token, NEW nesting \in Nestings(T), NEW line
  PROVE  UpdatePreprocessor(nesting, line) \in Nestings(T)
<1> DEFINE pp == nesting.pp_stack
           info == Last(pp)
           opened == [stack_before_if |-> nesting.stack, stack_before_else |-> <<>>,
                      seen_else |-> FALSE]
           at_if == [nesting EXCEPT !.pp_stack = Append(@, opened)]
           at_else == [nesting EXCEPT
                         !.pp_stack = Append(Front(@), SaveFirstBranch(info, nesting.stack)),
                         !.stack = info.stack_before_if]
           at_endif == [nesting EXCEPT
                          !.pp_stack = Front(@),
                          !.stack = IF info.seen_else THEN info.stack_before_else ELSE @]
<1>1. UpdatePreprocessor(nesting, line) \in
        {nesting, at_if} \cup (IF pp # <<>> THEN {at_else, at_endif} ELSE {})
  BY DEF UpdatePreprocessor
<1>2. pp \in Seq(Branches(T)) /\ nesting.stack \in Stacks(T)
  BY DEF Nestings
<1>3. at_if \in Nestings(T)
  <2>1. <<>> \in Stacks(T)
    BY DEF Stacks
  <2>2. opened \in Branches(T)
    BY <1>2, <2>1 DEF Branches
  <2>3. Append(pp, opened) \in Seq(Branches(T))
    BY <1>2, <2>2, AppendProperties
  <2> HIDE DEF opened
  <2> QED
    BY <2>3 DEF Nestings
<1>4. ASSUME pp # <<>> PROVE at_else \in Nestings(T) /\ at_endif \in Nestings(T)
  <2>1. Front(pp) \in Seq(Branches(T)) /\ info \in Branches(T)
    BY <1>2, <1>4, FrontAndLast
  <2>2. SaveFirstBranch(info, nesting.stack) \in Branches(T)
    BY <1>2, <2>1 DEF SaveFirstBranch, Branches
  <2>3. Append(Front(pp), SaveFirstBranch(info, nesting.stack)) \in Seq(Branches(T))
    BY <2>1, <2>2, AppendProperties
  <2>4. info.stack_before_if \in Stacks(T) /\ info.stack_before_else \in Stacks(T)
    BY <2>1 DEF Branches
  <2> HIDE DEF info
  <2> QED
    BY <1>2, <2>1, <2>3, <2>4 DEF Nestings
<1> HIDE DEF at_if, at_else, at_endif
<1> QED
  BY <1>1, <1>3, <1>4

LEMMA CountParenthesesType ==
  ASSUME NEW T \in SUBSET Token, NEW stack \in Stacks(T), NEW line \in Seq(T)
  PROVE  CountParentheses(stack, line) \in Stacks(T)
<1> DEFINE block == Top(stack)
           change == Count(line, "(") - Count(line, ")")
           open == block.open_parentheses + change
           asm == CASE block.inline_asm \in {"none", "end"} ->
                         IF change # 0 /\ open = 1 /\ MatchAsm(line)
                         THEN "inside" ELSE "none"
                    [] block.inline_asm = "inside" /\ open = 0 -> "end"
                    [] OTHER -> block.inline_asm
           new == [block EXCEPT !.open_parentheses = open, !.inline_asm = asm]
<1>1. CountParentheses(stack, line) = IF stack = <<>> THEN stack ELSE SetTop(stack, new)
  BY DEF CountParentheses
<1>2. CASE stack # <<>>
  <2>1. block \in Blocks(T)
    BY <1>2, TopType
  <2>2. change \in Int
    BY LineOfTokens, CountType
  <2>3. open \in Int
    <3>1. block.open_parentheses \in Int
      BY <2>1 DEF Blocks
    <3> HIDE DEF change, block
    <3> QED
      BY <2>2, <3>1
  <2>4. asm \in AsmAmong(T)
    <3>1. block.inline_asm \in AsmAmong(T) /\ (MatchAsm(line) => "asm" \in T)
      BY <2>1, MatchesAsm DEF Blocks
    <3> HIDE DEF block, change, open
    <3> QED
      BY <3>1 DEF AsmAmong, AsmStates
  <2> HIDE DEF block, open, asm, change
  <2>5. new \in Blocks(T)
    BY <2>1, <2>3, <2>4 DEF Blocks
  <2> HIDE DEF new
  <2> QED
    BY <1>1, <1>2, <2>5, SetTopType
<1> QED
  BY <1>1, <1>2


(* The parts of Update, in their order.                                    *)
Taken(T) == [stack : Stacks(T), line : Seq(T)]


LEMMA TakeNamespaceType ==
  ASSUME NEW T \in SUBSET Token, NEW acc \in Taken(T), NEW n \in Nat
  PROVE  TakeNamespace(acc, n) \in Taken(T)
<1> DEFINE after == Tail(Strip(acc.line))
           named == after # <<>> /\ Head(after) \in Words
           rest == IF named THEN Tail(after) ELSE after
           brace == SelectInSeq(rest, LAMBDA t : t = "{")
           name == IF named THEN Head(after) ELSE ""
           block == Block("namespace", name, n, brace # 0)
           new == [stack |-> Append(acc.stack, block),
                   line |-> SubSeq(rest, brace + 1, Len(rest))]
<1>1. TakeNamespace(acc, n) = IF First(acc.line) # "namespace" THEN acc ELSE new
  BY DEF TakeNamespace
<1>2. acc.stack \in Stacks(T) /\ acc.line \in Seq(T)
  BY DEF Taken
<1>3. CASE First(acc.line) = "namespace"
  <2>1. Strip(acc.line) \in Seq(T) /\ Strip(acc.line) # <<>>
    BY <1>2, <1>3, StripTokens DEF First
  <2>2. after \in Seq(T)
    BY <2>1, HeadTailProperties
  <2> HIDE DEF after
  <2>3. after # <<>> => Head(after) \in T /\ Tail(after) \in Seq(T)
    BY <2>2, HeadTailProperties
  <2>4. name \in Token /\ rest \in Seq(T)
    BY <2>2, <2>3 DEF Token
  <2>5. brace = PlaceOf("{", rest)
    BY DEF SelectInSeq, PlaceOf
  <2> HIDE DEF name, rest, brace
  <2>6. brace \in 0 .. Len(rest)
    BY <2>4, <2>5, LineOfTokens, PlaceType
  <2>7. brace + 1 \in Nat \ {0}
    BY <2>4, <2>6
  <2>8. SubSeq(rest, brace + 1, Len(rest)) \in Seq(T)
    BY <2>4, <2>7, CutTokens
  <2>9. (brace # 0) \in BOOLEAN /\ "namespace" \in Kinds
    BY DEF Kinds
  <2>10. block \in Blocks(T)
    BY <2>4, <2>9, BlockType
  <2> HIDE DEF block
  <2>11. Append(acc.stack, block) \in Stacks(T)
    BY <1>2, <2>10, PushType
  <2>12. new \in Taken(T)
    BY <2>8, <2>11 DEF Taken
  <2> QED
    BY <1>1, <1>3, <2>12
<1> QED
  BY <1>1, <1>3

LEMMA TakeNamespacesType ==
  ASSUME NEW T \in SUBSET Token, NEW stack \in Stacks(T), NEW line \in Seq(T), NEW here \in Nat
  PROVE  TakeNamespaces(stack, line, here) \in Taken(T)
<1> DEFINE n == Count(line, "namespace")
           first == [stack |-> stack, line |-> line]
           G == [p \in (1 .. n) \X Taken(T) |-> TakeNamespace(p[2], here)]
           turn == CHOOSE f : f = [i \in 0 .. n |-> IF i = 0 THEN first
                                                    ELSE TakeNamespace(f[i - 1], here)]
<1>1. TakeNamespaces(stack, line, here) = turn[n]
  BY DEF TakeNamespaces
<1>2. n \in Nat
  BY LineOfTokens, CountType
<1>3. first \in Taken(T)
  BY DEF Taken
<1>4. G \in [(1 .. n) \X Taken(T) -> Taken(T)]
  BY TakeNamespaceType
<1> HIDE DEF n, first
<1>6. PICK g : IsCourse(g, n, Taken(T), first, G)
  <2> HIDE DEF G
  <2> QED
    BY <1>2, <1>3, <1>4, CourseExists
<1>7. g = [i \in 0 .. n |-> IF i = 0 THEN first ELSE TakeNamespace(g[i - 1], here)]
  <2>1. ASSUME NEW i \in 0 .. n, i # 0 PROVE g[i] = TakeNamespace(g[i - 1], here)
    <3>1. i \in 1 .. n /\ i - 1 \in 0 .. n
      BY <1>2, <2>1
    <3> QED
      BY <1>6, <3>1 DEF IsCourse
  <2> QED
    BY <1>6, <2>1 DEF IsCourse
<1>8. turn = [i \in 0 .. n |-> IF i = 0 THEN first ELSE TakeNamespace(turn[i - 1], here)]
  BY <1>7
<1> HIDE DEF turn
<1>9. turn[0] \in Taken(T)
  BY <1>2, <1>3, <1>8
<1>10. ASSUME NEW i \in 1 .. n, turn[i - 1] \in Taken(T) PROVE turn[i] \in Taken(T)
  BY <1>2, <1>8, <1>10, TakeNamespaceType
<1> DEFINE S == Taken(T)
<1>11. turn[0] \in S /\ \A i \in 1 .. n : turn[i - 1] \in S => turn[i] \in S
  BY <1>9, <1>10
<1> HIDE DEF S
<1>12. turn[n] \in S
  <2>1. \A i \in 0 .. n : turn[i] \in S
    BY <1>2, <1>11, CourseStays
  <2> QED
    BY <1>2, <2>1
<1> QED
  BY <1>1, <1>12 DEF S

(* The place of a class declaration.                                       *)
LEMMA ClassDeclType ==
  ASSUME NEW line \in Line, ClassDecl(line) # 0
  PROVE  /\ ClassDecl(line) \in Nat /\ line[ClassDecl(line)] \in {"class", "struct"}
         /\ line[ClassDecl(line) + 1] \in Token
<1> DEFINE indent == GetIndentLevel(line)
           more(k) == \/ k = indent + 1
                      \/ /\ k > indent + 2
                         /\ line[indent + 1] = "template"
                         /\ line[indent + 2] = "<" /\ line[k - 1] = ">"
                         /\ \A i \in indent + 2 .. k - 1 :
                              line[i] \in Words \cup {"<", ">", "class", "=", ","}
           heads == {k \in indent + 1 .. Len(line) - 1 :
                       /\ line[k] \in {"class", "struct"} /\ line[k + 1] \in Words
                       /\ more(k)}
           last == CHOOSE k \in heads : \A j \in heads : j <= k
<1>1. ClassDecl(line) = IF heads = {} THEN 0 ELSE last
  BY DEF ClassDecl
<1> HIDE DEF more
<1>2. indent \in Nat /\ Len(line) \in Nat /\ \A i \in 1 .. Len(line) : line[i] \in Token
  BY IndentType DEF Line
<1> HIDE DEF indent
<1>3. heads \in SUBSET (1 .. Len(line))
  BY <1>2
<1>4. \A k \in heads : /\ line[k] \in {"class", "struct"} /\ line[k + 1] \in Token
                       /\ k \in Nat
  BY <1>2
<1> HIDE DEF heads
<1>5. heads # {}
  BY <1>1
<1>6. \E k \in heads : \A j \in heads : j <= k
  BY <1>2, <1>3, <1>5, GreatestLine
<1>7. last \in heads
  BY <1>6
<1> HIDE DEF last
<1> QED
  BY <1>1, <1>4, <1>5, <1>7

LEMMA TakeClassType ==
  ASSUME NEW T \in SUBSET Token, NEW acc \in Taken(T), NEW lines, lines.raw_lines \in Seq(Line),
         NEW n \in 1 .. Len(lines.raw_lines)
  PROVE  TakeClass(acc, lines, n) \in Taken(T)
<1> DEFINE k == ClassDecl(acc.line)
           plain == Block(acc.line[k], acc.line[k + 1], n, FALSE)
           block == [plain EXCEPT !.indent = GetIndentLevel(lines.raw_lines[n])]
           new == [stack |-> Append(acc.stack, block),
                   line |-> SubSeq(acc.line, k + 2, Len(acc.line))]
<1>1. TakeClass(acc, lines, n) = acc \/ (k # 0 /\ TakeClass(acc, lines, n) = new)
  BY DEF TakeClass
<1>2. acc.stack \in Stacks(T) /\ acc.line \in Seq(T)
  BY DEF Taken
<1>3. CASE k # 0
  <2>1. k \in Nat /\ acc.line[k] \in Kinds /\ acc.line[k + 1] \in Token
    BY <1>2, <1>3, LineOfTokens, ClassDeclType DEF Kinds
  <2> HIDE DEF k
  <2>2. n \in Nat /\ FALSE \in BOOLEAN /\ lines.raw_lines[n] \in Line
    OBVIOUS
  <2>3. plain \in Blocks(T)
    BY <2>1, <2>2, BlockType
  <2>4. GetIndentLevel(lines.raw_lines[n]) \in Nat
    BY <2>2, IndentType DEF Line
  <2> HIDE DEF plain
  <2>5. block \in Blocks(T)
    BY <2>3, <2>4 DEF Blocks
  <2> HIDE DEF block
  <2>6. Append(acc.stack, block) \in Stacks(T)
    BY <1>2, <2>5, PushType
  <2>7. k + 2 \in Nat \ {0}
    BY <2>1
  <2>8. SubSeq(acc.line, k + 2, Len(acc.line)) \in Seq(T)
    BY <1>2, <2>7, CutTokens
  <2>9. new \in Taken(T)
    BY <2>6, <2>8 DEF Taken
  <2> QED
    BY <1>1, <2>9
<1> QED
  BY <1>1, <1>3

LEMMA UpdateAccessType ==
  ASSUME NEW T \in SUBSET Token, NEW stack \in Stacks(T), NEW line \in Line, NEW L, NEW n \in L
  PROVE  /\ UpdateAccess(stack, line, n).stack \in Stacks(T)
         /\ UpdateAccess(stack, line, n).errors \in Seq(Others(L))
<1> DEFINE keywords == {k \in DOMAIN line : line[k] \in {"public:", "private:"}}
           k == CHOOSE i \in keywords : \A j \in keywords : j <= i
           alone == \A i \in 1 .. k - 1 : line[i] = Blank
           error == Problem(n, <<"whitespace", "indent">>, 3)
           new == [Top(stack) EXCEPT !.access = line[k]]
           quiet == stack = <<>> \/ ~IsClass(Top(stack)) \/ keywords = {}
<1>1. /\ UpdateAccess(stack, line, n).stack = IF quiet THEN stack ELSE SetTop(stack, new)
      /\ UpdateAccess(stack, line, n).errors
           = IF ~quiet /\ alone /\ k - 1 # Top(stack).indent + 1 THEN <<error>> ELSE <<>>
  BY DEF UpdateAccess
<1>2. <<error>> \in Seq(Others(L))
  <2>1. <<"whitespace", "indent">> \in OtherCategories /\ 3 \in 0 .. 5
    BY DEF Categories, OtherCategories
  <2> QED
    BY <2>1, OneOther
<1>3. ASSUME ~quiet PROVE SetTop(stack, new) \in Stacks(T)
  <2>1. keywords \in SUBSET (1 .. Len(line)) /\ keywords # {} /\ Len(line) \in Nat
    BY <1>3 DEF Line
  <2>2. \A i \in keywords : line[i] \in {"", "public:", "private:"}
    OBVIOUS
  <2>3. stack # <<>>
    BY <1>3
  <2> HIDE DEF keywords
  <2>4. \E i \in keywords : \A j \in keywords : j <= i
    BY <2>1, GreatestLine
  <2>5. k \in keywords
    BY <2>4
  <2>6. line[k] \in {"", "public:", "private:"}
    BY <2>2, <2>5
  <2> HIDE DEF k
  <2>7. Top(stack) \in Blocks(T)
    BY <2>3, TopType
  <2>8. new \in Blocks(T)
    BY <2>6, <2>7 DEF Blocks
  <2> HIDE DEF new
  <2> QED
    BY <2>3, <2>8, SetTopType
<1> HIDE DEF quiet, error, new, alone, k
<1> QED
  BY <1>1, <1>2, <1>3, NoOther


(* The closing brace of a block.                                           *)
LEMMA ClassCheckEndType ==
  ASSUME NEW T \in SUBSET Token, NEW block \in Blocks(T), NEW lines, NEW n \in Nat
  PROVE  ClassCheckEnd(block, lines, n) \in Seq(Others(0 .. n))
<1> DEFINE start == block.starting_linenum
           macro(line) == \E k \in 1 .. Len(line) - 2 :
                            /\ line[k] = "DISALLOW" /\ line[k + 1] = "("
                            /\ line[k + 2] = block.name
           macros == {i \in start + 1 .. n - 1 : macro(lines.elided[i])}
           last == CHOOSE i \in macros : \A j \in macros : j <= i
           line == lines.elided[n]
           far == macros # {} /\ \E i \in last + 1 .. n - 1 : ~IsBlankLine(lines.elided[i])
           askew == First(line) = "}" /\ GetIndentLevel(line) # block.indent
           constructors == IF far THEN <<Problem(last, <<"readability", "constructors">>, 3)>>
                           ELSE <<>>
           indent == IF askew THEN <<Problem(n, <<"whitespace", "indent">>, 3)>> ELSE <<>>
<1>1. ClassCheckEnd(block, lines, n) = constructors \o indent
  BY DEF ClassCheckEnd
<1>2. start \in Nat
  BY DEF Blocks
<1> HIDE DEF start, macro, askew
<1>3. ASSUME far PROVE last \in 0 .. n
  <2>1. macros \in SUBSET (1 .. n) /\ macros # {}
    BY <1>2, <1>3
  <2> HIDE DEF macros
  <2>2. \E i \in macros : \A j \in macros : j <= i
    BY <2>1, GreatestLine
  <2>3. last \in macros
    BY <2>2
  <2> HIDE DEF last
  <2> QED
    BY <2>1, <2>3
<1> HIDE DEF far, last
<1>4. /\ <<"readability", "constructors">> \in OtherCategories
      /\ <<"whitespace", "indent">> \in OtherCategories /\ 3 \in 0 .. 5 /\ n \in 0 .. n
  BY DEF Categories, OtherCategories
<1>5. constructors \in Seq(Others(0 .. n))
  BY <1>3, <1>4, OneOther, NoOther
<1>6. indent \in Seq(Others(0 .. n))
  BY <1>4, OneOther, NoOther
<1> HIDE DEF constructors, indent
<1> QED
  BY <1>1, <1>5, <1>6, MoreOthers

LEMMA CheckEndType ==
  ASSUME NEW T \in SUBSET Token, NEW block \in Blocks(T), NEW lines, NEW n \in Nat
  PROVE  CheckEnd(block, lines, n) \in Seq(Others(0 .. n))
<1>1. <<"readability", "namespace">> \in OtherCategories /\ 5 \in 0 .. 5 /\ n \in 0 .. n
  BY DEF Categories, OtherCategories
<1>2. <<Problem(n, <<"readability", "namespace">>, 5)>> \in Seq(Others(0 .. n))
  BY <1>1, OneOther
<1>3. NamespaceCheckEnd(block, lines, n) \in Seq(Others(0 .. n))
  BY <1>2, NoOther DEF NamespaceCheckEnd
<1> QED
  BY <1>3, ClassCheckEndType, NoOther DEF CheckEnd

(* The loop over the braces.                                               *)
Braces(T, n) == [stack : Stacks(T), errors : Seq(Others(0 .. n)), piece : Seq(T)]

LEMMA OpenBraceType ==
  ASSUME NEW T \in SUBSET Token, NEW n \in Nat, NEW acc \in Braces(T, n)
  PROVE  OpenBrace(acc, n) \in Stacks(T)
<1> DEFINE seen == [Top(acc.stack) EXCEPT !.seen_open_brace = TRUE]
           extern == Block("extern", "", n, TRUE)
           plain == Block("block", "", n, TRUE)
           asm == IF MatchAsm(Append(acc.piece, "{")) THEN "block" ELSE "none"
           block == [plain EXCEPT !.inline_asm = asm]
<1>1. OpenBrace(acc, n) = IF ~SeenOpenBrace(acc.stack) THEN SetTop(acc.stack, seen)
                          ELSE IF acc.piece = <<"extern", Empty>> THEN Append(acc.stack, extern)
                          ELSE Append(acc.stack, block)
  BY DEF OpenBrace
<1>2. acc.stack \in Stacks(T)
  BY DEF Braces
<1>3. ASSUME ~SeenOpenBrace(acc.stack) PROVE SetTop(acc.stack, seen) \in Stacks(T)
  <2>1. acc.stack # <<>>
    BY <1>3 DEF SeenOpenBrace
  <2>2. Top(acc.stack) \in Blocks(T)
    BY <1>2, <2>1, TopType
  <2>3. seen \in Blocks(T)
    BY <2>2 DEF Blocks
  <2> QED
    BY <1>2, <2>1, <2>3, SetTopType
<1>4. "extern" \in Kinds /\ "block" \in Kinds /\ "" \in Token /\ TRUE \in BOOLEAN
  BY DEF Kinds, Token
<1>5. extern \in Blocks(T) /\ plain \in Blocks(T)
  BY <1>4, BlockType
<1>6. asm \in AsmAmong(T)
  <2>1. /\ Append(acc.piece, "{") \in Seq(T \cup {"{"}) /\ T \cup {"{"} \in SUBSET Token
    <3>1. acc.piece \in Seq(T)
      BY DEF Braces
    <3>2. "{" \in Token
      BY DEF Token
    <3> DEFINE more == T \cup {"{"}
    <3>3. T \subseteq more /\ "{" \in more
      OBVIOUS
    <3> HIDE DEF more
    <3>4. acc.piece \in Seq(more)
      BY <3>1, <3>3, SeqMonotonic
    <3>5. Append(acc.piece, "{") \in Seq(more)
      BY <3>3, <3>4, AppendProperties
    <3> QED
      BY <3>2, <3>5 DEF more
  <2>2. MatchAsm(Append(acc.piece, "{")) => "asm" \in T \cup {"{"}
    BY <2>1, MatchesAsm
  <2> QED
    BY <2>2 DEF AsmAmong, AsmStates
<1> HIDE DEF seen, extern, plain, asm
<1>7. block \in Blocks(T)
  BY <1>5, <1>6 DEF Blocks
<1> HIDE DEF block
<1> QED
  BY <1>1, <1>2, <1>3, <1>5, <1>7, PushType

LEMMA TakeTokenType ==
  ASSUME NEW T \in SUBSET Token, NEW n \in Nat, NEW acc \in Braces(T, n), NEW t \in T,
         NEW lines
  PROVE  TakeToken(acc, t, lines, n) \in Braces(T, n)
<1> DEFINE opened == [acc EXCEPT !.stack = OpenBrace(acc, n), !.piece = <<>>]
           ended == [acc EXCEPT !.stack = PopHead(@), !.piece = <<>>]
           errors == IF acc.stack = <<>> THEN acc.errors
                     ELSE acc.errors \o CheckEnd(Top(acc.stack), lines, n)
           closed == [stack |-> PopBlock(acc.stack), piece |-> <<>>, errors |-> errors]
           goes_on == [acc EXCEPT !.piece = Append(@, t)]
<1>1. TakeToken(acc, t, lines, n) \in {opened, ended, closed, goes_on}
  BY DEF TakeToken
<1>2. /\ acc.stack \in Stacks(T) /\ acc.piece \in Seq(T) /\ <<>> \in Seq(T)
      /\ acc.errors \in Seq(Others(0 .. n))
  BY DEF Braces
<1>3. opened \in Braces(T, n)
  BY <1>2, OpenBraceType DEF Braces
<1>4. PopHead(acc.stack) \in Stacks(T) /\ PopBlock(acc.stack) \in Stacks(T)
  BY <1>2, TopType DEF PopHead, PopBlock, SeenOpenBrace
<1>5. ended \in Braces(T, n)
  BY <1>2, <1>4 DEF Braces
<1>6. errors \in Seq(Others(0 .. n))
  <2>1. CASE acc.stack # <<>>
    <3>1. CheckEnd(Top(acc.stack), lines, n) \in Seq(Others(0 .. n))
      BY <1>2, <2>1, TopType, CheckEndType
    <3> QED
      BY <1>2, <3>1, MoreOthers
  <2> QED
    BY <1>2, <2>1
<1> HIDE DEF errors
<1>7. closed \in Braces(T, n)
  BY <1>2, <1>4, <1>6 DEF Braces
<1>8. goes_on \in Braces(T, n)
  BY <1>2, AppendProperties DEF Braces
<1> QED
  BY <1>1, <1>3, <1>5, <1>7, <1>8

LEMMA TakeBracesType ==
  ASSUME NEW T \in SUBSET Token, NEW stack \in Stacks(T), NEW line \in Seq(T), NEW lines,
         NEW here \in Nat
  PROVE  TakeBraces(stack, line, lines, here) \in Braces(T, here)
<1> DEFINE n == Len(line)
           B == Braces(T, here)
           first == [stack |-> stack, errors |-> <<>>, piece |-> <<>>]
           G == [p \in (1 .. n) \X B |-> TakeToken(p[2], line[p[1]], lines, here)]
           after == CHOOSE f : f = [i \in 0 .. n |->
                      IF i = 0 THEN first ELSE TakeToken(f[i - 1], line[i], lines, here)]
<1>1. n \in Nat /\ \A i \in 1 .. n : line[i] \in T
  OBVIOUS
<1>2. n \in Nat
  BY <1>1
<1>3. first \in B
  BY NoOther DEF Braces
<1>4. G \in [(1 .. n) \X B -> B]
  <2> HIDE DEF n
  <2> QED
    BY <1>1, TakeTokenType
<1>5. TakeBraces(stack, line, lines, here) = after[n]
  BY DEF TakeBraces
<1> HIDE DEF n, first
<1>6. PICK g : IsCourse(g, n, B, first, G)
  <2> HIDE DEF G, B
  <2> QED
    BY <1>2, <1>3, <1>4, CourseExists
<1>7. g = [i \in 0 .. n |-> IF i = 0 THEN first ELSE TakeToken(g[i - 1], line[i], lines, here)]
  <2>1. ASSUME NEW i \in 0 .. n, i # 0
        PROVE  g[i] = TakeToken(g[i - 1], line[i], lines, here)
    <3>1. i \in 1 .. n /\ i - 1 \in 0 .. n
      BY <1>2, <2>1
    <3> HIDE DEF B
    <3> QED
      BY <1>6, <3>1 DEF IsCourse
  <2> HIDE DEF B
  <2> QED
    BY <1>6, <2>1 DEF IsCourse
<1>8. after = [i \in 0 .. n |-> IF i = 0 THEN first
                                ELSE TakeToken(after[i - 1], line[i], lines, here)]
  BY <1>7
<1> HIDE DEF after
<1>9. after[0] \in B
  BY <1>2, <1>3, <1>8
<1>10. ASSUME NEW i \in 1 .. n, after[i - 1] \in B PROVE after[i] \in B
  BY <1>1, <1>8, <1>10, TakeTokenType
<1> HIDE DEF B
<1>11. after[n] \in B
  <2>1. \A i \in 1 .. n : after[i - 1] \in B => after[i] \in B
    BY <1>10
  <2>2. \A i \in 0 .. n : after[i] \in B
    BY <1>2, <1>9, <2>1, CourseStays
  <2> QED
    BY <1>2, <2>2
<1> QED
  BY <1>5, <1>11 DEF B

(* Update.                                                                 *)
LEMMA UpdateType ==
  ASSUME NEW T \in SUBSET Token, NEW nesting \in Nestings(T), NEW lines,
         lines.elided \in Seq(Seq(T)),
         lines.raw_lines \in Seq(Line), Len(lines.elided) = Len(lines.raw_lines),
         NEW n \in 1 .. Len(lines.raw_lines)
  PROVE  /\ Update(nesting, lines, n).nesting \in Nestings(T)
         /\ Update(nesting, lines, n).errors \in Seq(Others(0 .. n))
<1> DEFINE line == lines.elided[n]
           stack == nesting.stack
           pp == UpdatePreprocessor(nesting, line)
           counted == CountParentheses(pp.stack, line)
           spaces == TakeNamespaces(counted, line, n)
           class == TakeClass(spaces, lines, n)
           access == UpdateAccess(class.stack, class.line, n)
           braces == TakeBraces(access.stack, class.line, lines, n)
           top == IF stack = <<>> THEN NoBlock ELSE Top(stack)
<1>1. /\ Update(nesting, lines, n).nesting
           = [stack |-> braces.stack, previous_stack_top |-> top,
              previous_depth |-> Len(stack), pp_stack |-> pp.pp_stack]
      /\ Update(nesting, lines, n).errors = access.errors \o braces.errors
  BY DEF Update
<1>2. line \in Seq(T) /\ n \in Nat /\ n \in 0 .. n
  OBVIOUS
<1> HIDE DEF line
<1>3. stack \in Stacks(T) /\ pp \in Nestings(T)
  BY UpdatePreprocessorType DEF Nestings
<1>4. top \in Blocks(T) /\ Len(stack) \in Nat
  <2>1. "none" \in Kinds /\ "" \in Token /\ 0 \in Nat /\ FALSE \in BOOLEAN
    BY DEF Kinds, Token
  <2>2. NoBlock \in Blocks(T)
    BY <2>1, BlockType DEF NoBlock
  <2>3. stack # <<>> => Top(stack) \in Blocks(T)
    BY <1>3, TopType
  <2> HIDE DEF stack
  <2> QED
    BY <1>3, <2>2, <2>3 DEF Stacks
<1> HIDE DEF stack, pp, top
<1>5. pp.stack \in Stacks(T) /\ pp.pp_stack \in Seq(Branches(T))
  BY <1>3 DEF Nestings
<1>6. counted \in Stacks(T)
  BY <1>2, <1>5, CountParenthesesType
<1> HIDE DEF counted
<1>7. spaces \in Taken(T)
  BY <1>2, <1>6, TakeNamespacesType
<1> HIDE DEF spaces
<1>8. class \in Taken(T)
  BY <1>7, TakeClassType
<1> HIDE DEF class
<1>9. class.stack \in Stacks(T) /\ class.line \in Seq(T)
  BY <1>8 DEF Taken
<1>10. access.stack \in Stacks(T) /\ access.errors \in Seq(Others(0 .. n))
  BY <1>2, <1>9, LineOfTokens, UpdateAccessType
<1> HIDE DEF access
<1>11. braces \in Braces(T, n)
  BY <1>2, <1>9, <1>10, TakeBracesType
<1> HIDE DEF braces
<1>12. braces.stack \in Stacks(T) /\ braces.errors \in Seq(Others(0 .. n))
  BY <1>11 DEF Braces
<1>13. access.errors \o braces.errors \in Seq(Others(0 .. n))
  BY <1>10, <1>12, MoreOthers
<1>14. [stack |-> braces.stack, previous_stack_top |-> top,
        previous_depth |-> Len(stack), pp_stack |-> pp.pp_stack] \in Nestings(T)
  BY <1>4, <1>5, <1>12 DEF Nestings
<1> QED
  BY <1>1, <1>13, <1>14

LEMMA NamespaceIndentationType ==
  ASSUME NEW nesting, NEW lines, NEW L, NEW n \in L
  PROVE  CheckForNamespaceIndentation(nesting, lines, n) \in Seq(Others(L))
<1>1. <<"runtime", "indentation_namespace">> \in OtherCategories /\ 4 \in 0 .. 5
  BY DEF Categories, OtherCategories
<1>2. <<Problem(n, <<"runtime", "indentation_namespace">>, 4)>> \in Seq(Others(L))
  BY <1>1, OneOther
<1> QED
  BY <1>2, NoOther DEF CheckForNamespaceIndentation


-----------------------------------------------------------------------------
(* Function bodies: at most m lines are counted.                           *)
Functions(m) == [in_a_function : BOOLEAN, lines_in_function : 0 .. m,
                 current_function : Token]

LEMMA FunctionNameType ==
  ASSUME NEW line \in Line
  PROVE  FunctionName(line) \in Token
<1> DEFINE p == SelectInSeq(line, LAMBDA t : t = "(")
<1>1. p = PlaceOf("(", line)
  BY DEF SelectInSeq, PlaceOf
<1>2. FunctionName(line) \in {""} \cup (IF p > 1 THEN {line[p - 1]} ELSE {})
  BY DEF FunctionName
<1> HIDE DEF p
<1>3. p \in 0 .. Len(line)
  BY <1>1, PlaceType
<1>4. p > 1 => line[p - 1] \in Token
  BY <1>3 DEF Line
<1> QED
  BY <1>2, <1>4 DEF Token

LEMMA CheckType ==
  ASSUME NEW m \in Nat, NEW function \in Functions(m), NEW L, NEW n \in L
  PROVE  Check(function, VerboseLevel, n) \in Seq(Problems(L))
<1> DEFINE base == IF function.current_function = "TEST" THEN TestTrigger ELSE NormalTrigger
           lines == function.lines_in_function
           error == [linenum |-> n, category |-> <<"readability", "fn_size">>,
                     confidence |-> ErrorLevel(lines, base)]
<1>1. Check(function, VerboseLevel, n) \in {<<error>>, <<>>}
  BY DEF Check
<1>2. base \in Nat /\ lines \in Nat
  BY TriggersAssumption DEF Functions
<1> HIDE DEF base, lines
<1>3. ErrorLevel(lines, base) \in Confidences
  BY <1>2 DEF Confidences
<1>4. <<"readability", "fn_size">> \in Categories
  BY DEF Categories
<1>5. error \in Problems(L)
  BY <1>3, <1>4 DEF Problems
<1> HIDE DEF error
<1>6. <<error>> \in Seq(Problems(L))
  BY <1>5
<1> QED
  BY <1>1, <1>6, NoProblem

LEMMA FunctionLengthsType ==
  ASSUME NEW m \in Nat, NEW function \in Functions(m), NEW lines \in Seq(Line),
         NEW n \in 1 .. Len(lines), NEW after,
         after = CheckForFunctionLengths(function, lines, n, VerboseLevel)
  PROVE  /\ after.function \in Functions(m + 1)
         /\ after.errors \in Seq(Problems(0 .. n))
<1> DEFINE line == lines[n]
           endless == [linenum |-> n, category |-> <<"readability", "fn_size">>,
                       confidence |-> 5]
<1>1. after.function \in {Begin(FunctionName(line)), function, End(function),
                          CountLine(function)}
  BY DEF CheckForFunctionLengths
<1>2. after.errors \in {<<endless>>, Check(function, VerboseLevel, n), <<>>}
  BY DEF CheckForFunctionLengths
<1>3. line \in Line /\ n \in 0 .. n
  OBVIOUS
<1> HIDE DEF line
<1>4. Begin(FunctionName(line)) \in Functions(m + 1)
  BY <1>3, FunctionNameType DEF Begin, Functions
<1>5. function \in Functions(m + 1)
  BY DEF Functions
<1>6. End(function) \in Functions(m + 1)
  BY <1>5 DEF End, Functions
<1>7. CountLine(function) \in Functions(m + 1)
  <2>1. function.lines_in_function + 1 \in 0 .. m + 1
    BY DEF Functions
  <2> QED
    BY <1>5, <2>1 DEF CountLine, Functions
<1>8. <<"readability", "fn_size">> \in Categories /\ 5 \in 0 .. 5
  BY DEF Categories
<1>9. <<endless>> \in Seq(Problems(0 .. n))
  BY <1>3, <1>8, OneProblem
<1>10. Check(function, VerboseLevel, n) \in Seq(Problems(0 .. n))
  BY <1>3, CheckType
<1> QED
  BY <1>1, <1>2, <1>4, <1>5, <1>6, <1>7, <1>9, <1>10, NoProblem

-----------------------------------------------------------------------------
(* Includes: there is always a last list.                                  *)
IncludeStates(A, H) == [include_list : Seq(A) \ {<<>>}, section : 0 .. 4, last_header : H]
IsIncludeState(before) == \E A, H : before \in IncludeStates(A, H)

LEMMA WiderLists ==
  ASSUME NEW A, NEW list \in Seq(A), list # <<>>, NEW x
  PROVE  /\ Append(Front(list), x) \in Seq(A \cup {x}) \ {<<>>}
         /\ Append(list, x) \in Seq(A \cup {x}) \ {<<>>}
<1>1. Front(list) \in Seq(A)
  BY FrontAndLast
<1>2. Seq(A) \subseteq Seq(A \cup {x})
  BY SeqMonotonic
<1> QED
  BY <1>1, <1>2, AppendProperties

LEMMA ResetSectionType ==
  ASSUME NEW before, IsIncludeState(before), NEW directive
  PROVE  IsIncludeState(ResetSection(before, directive))
<1> DEFINE list == before.include_list
           new(l) == [include_list |-> l, section |-> InitialSection, last_header |-> 0]
<1>1. PICK A, H : before \in IncludeStates(A, H)
  BY DEF IsIncludeState
<1>2. list \in Seq(A) /\ list # <<>>
  BY <1>1 DEF IncludeStates
<1>3. ResetSection(before, directive) \in
        {new(Append(list, {})), new(Append(Front(list), {})), new(list)}
  BY DEF ResetSection
<1> HIDE DEF list
<1>4. ASSUME NEW B, NEW l \in Seq(B) \ {<<>>} PROVE IsIncludeState(new(l))
  <2>1. InitialSection \in 0 .. 4
    BY DEF InitialSection
  <2>2. new(l) \in IncludeStates(B, {0})
    BY <2>1 DEF IncludeStates
  <2> QED
    BY <2>2 DEF IsIncludeState
<1>5. /\ Append(list, {}) \in Seq(A \cup {{}}) \ {<<>>}
      /\ Append(Front(list), {}) \in Seq(A \cup {{}}) \ {<<>>}
  BY <1>2, WiderLists
<1> HIDE DEF new
<1> QED
  BY <1>2, <1>3, <1>4, <1>5

LEMMA IncludeOrderType ==
  ASSUME NEW A, NEW H, NEW before \in IncludeStates(A, H), NEW header_type
  PROVE  CheckNextIncludeOrder(before, header_type).state \in IncludeStates(A, H \cup {0})
<1> DEFINE section ==
             CASE header_type = "c" -> CSection
               [] header_type = "cpp" -> CppSection
               [] header_type \in {"likely", "possible"} /\ before.section <= MyHSection
                    -> MyHSection
               [] OTHER -> OtherHSection
           late == header_type \in {"c", "cpp"} /\ before.section > section
<1>1. CheckNextIncludeOrder(before, header_type).state
        = [before EXCEPT !.section = IF late THEN @ ELSE section,
                        !.last_header = IF late \/ before.section # section THEN 0 ELSE @]
  BY DEF CheckNextIncludeOrder
<1>2. section \in 0 .. 4
  BY DEF CSection, CppSection, MyHSection, OtherHSection
<1> HIDE DEF section, late
<1> QED
  BY <1>1, <1>2 DEF IncludeStates

LEMMA AddIncludeType ==
  ASSUME NEW before, IsIncludeState(before), NEW file, NEW lines, NEW header, NEW L, NEW n \in L
  PROVE  /\ IsIncludeState(AddInclude(before, file, lines, n, header).include)
         /\ AddInclude(before, file, lines, n, header).errors \in Seq(Others(L))
<1> DEFINE x == Last(before.include_list) \cup {<<header.name, n>>}
           listed == [before EXCEPT !.include_list = Append(Front(@), x)]
           order == CheckNextIncludeOrder(listed, ClassifyInclude(file, header))
           sorted == IsInAlphabeticalOrder(order.state, lines, n, header.rank)
           late == IF order.late THEN <<IncludeProblem(n, "include_order")>> ELSE <<>>
           early == IF sorted THEN <<>> ELSE <<IncludeProblem(n, "include_alpha")>>
<1>1. /\ AddInclude(before, file, lines, n, header).include
           = [order.state EXCEPT !.last_header = header.rank]
      /\ AddInclude(before, file, lines, n, header).errors = late \o early
  BY DEF AddInclude
<1>2. PICK A, H : before \in IncludeStates(A, H)
  BY DEF IsIncludeState
<1>3. Append(Front(before.include_list), x) \in Seq(A \cup {x}) \ {<<>>}
  <2>1. before.include_list \in Seq(A) /\ before.include_list # <<>>
    BY <1>2 DEF IncludeStates
  <2> HIDE DEF x
  <2> QED
    BY <2>1, WiderLists
<1> HIDE DEF x, sorted
<1>4. listed \in IncludeStates(A \cup {x}, H)
  BY <1>2, <1>3 DEF IncludeStates
<1> HIDE DEF listed
<1>5. order.state \in IncludeStates(A \cup {x}, H \cup {0})
  BY <1>4, IncludeOrderType
<1> HIDE DEF order
<1>6. [order.state EXCEPT !.last_header = header.rank] \in IncludeStates(A \cup {x}, {header.rank})
  BY <1>5 DEF IncludeStates
<1>7. /\ <<"build", "include_order">> \in OtherCategories
      /\ <<"build", "include_alpha">> \in OtherCategories /\ 4 \in 0 .. 5
  BY DEF Categories, OtherCategories
<1>8. late \in Seq(Others(L)) /\ early \in Seq(Others(L))
  BY <1>7, OneOther, NoOther DEF IncludeProblem
<1> HIDE DEF late, early
<1>9. late \o early \in Seq(Others(L))
  BY <1>8, MoreOthers
<1> QED
  BY <1>1, <1>6, <1>9 DEF IsIncludeState

LEMMA CheckIncludeLineType ==
  ASSUME NEW before, IsIncludeState(before), NEW file, NEW lines, NEW opts,
         NEW L, NEW n \in L, NEW after,
         after = CheckIncludeLine(before, file, lines, n, opts)
  PROVE  /\ IsIncludeState(after.include) /\ after.errors \in Seq(Others(L))
<1> DEFINE line == Strip(lines.lines[n])
           header == Header[line[2]]
           foreign == /\ header.ext \in GetNonHeaderExtensions(opts)
                      /\ header.dir # file.dir
           alone == ~header.system /\ header.dir = "" /\ header.ext = "h" /\ ~header.third
           subdir == IF alone THEN <<IncludeProblem(n, "include_subdir")>> ELSE <<>>
           again == [include |-> before, errors |-> <<IncludeProblem(n, "include")>>]
           added == AddInclude(before, file, lines, n, header)
           quiet == [include |-> before, errors |-> <<>>]
           rest == CASE FindHeader(before, header.name) -> again
                     [] ~FindHeader(before, header.name) /\ foreign -> again
                     [] /\ ~FindHeader(before, header.name) /\ ~foreign
                        /\ (header.name \in PassForOwn(file, opts) \/ ~header.third) -> added
                     [] OTHER -> quiet
<1>1. after = [rest EXCEPT !.errors = subdir \o @]
  BY DEF CheckIncludeLine
<1>2. /\ <<"build", "include_subdir">> \in OtherCategories
      /\ <<"build", "include">> \in OtherCategories /\ 4 \in 0 .. 5
  BY DEF Categories, OtherCategories
<1>3. /\ <<IncludeProblem(n, "include_subdir")>> \in Seq(Others(L))
      /\ <<IncludeProblem(n, "include")>> \in Seq(Others(L))
  BY <1>2, OneOther DEF IncludeProblem
<1>4. subdir \in Seq(Others(L))
  BY <1>3, NoOther
<1>5. rest \in {again, added, quiet}
  <2> HIDE DEF again, added, quiet, foreign
  <2> QED
    OBVIOUS
<1>6. added = [include |-> added.include, errors |-> added.errors]
  BY DEF AddInclude
<1>7. IsIncludeState(added.include) /\ added.errors \in Seq(Others(L))
  BY AddIncludeType
<1>10. /\ again = [include |-> again.include, errors |-> again.errors]
       /\ again.include = before /\ again.errors \in Seq(Others(L))
       /\ quiet = [include |-> quiet.include, errors |-> quiet.errors]
       /\ quiet.include = before /\ quiet.errors \in Seq(Others(L))
  BY <1>3, NoOther
<1> HIDE DEF subdir, rest, added, header, line, alone, foreign, again, quiet
<1>8. /\ IsIncludeState(rest.include) /\ rest.errors \in Seq(Others(L))
      /\ rest = [include |-> rest.include, errors |-> rest.errors]
  BY <1>5, <1>6, <1>7, <1>10
<1>9. after.include = rest.include /\ after.errors = subdir \o rest.errors
  BY <1>1, <1>8
<1> QED
  BY <1>4, <1>8, <1>9, MoreOthers

LEMMA CheckLanguageType ==
  ASSUME NEW before, IsIncludeState(before), NEW file, NEW lines, NEW opts,
         NEW L, NEW n \in L, NEW after,
         after = CheckLanguage(before, file, lines, n, opts)
  PROVE  /\ IsIncludeState(after.include) /\ after.errors \in Seq(Others(L))
<1> DEFINE line == lines.elided[n]
           included == CheckIncludeLine(before, file, lines, n, opts)
           reset == [include |-> ResetSection(before, First(line)), errors |-> <<>>]
           quiet == [include |-> before, errors |-> <<>>]
<1>1. after \in {included, reset, quiet}
  BY DEF CheckLanguage
<1>2. IsIncludeState(included.include) /\ included.errors \in Seq(Others(L))
  BY CheckIncludeLineType
<1>3. IsIncludeState(reset.include) /\ reset.errors = <<>>
  BY ResetSectionType
<1>4. quiet.include = before /\ quiet.errors = <<>>
  OBVIOUS
<1> HIDE DEF included, reset, quiet
<1> QED
  BY <1>1, <1>2, <1>3, <1>4, NoOther


-----------------------------------------------------------------------------
(* A line: the checkers keep their types, and every error is one of a line *)
(* up to this one.                                                         *)
AreCheckers(checkers, m) ==
  /\ checkers.nesting \in Nestings(Token) /\ checkers.function \in Functions(m)
  /\ IsIncludeState(checkers.include)

LEMMA OddErrors ==
  ASSUME NEW line, NEW L, NEW n \in L
  PROVE  NolintErrors(line, n) \in Seq(Others(L))
<1>1. <<"readability", "nolint">> \in OtherCategories /\ 5 \in 0 .. 5
  BY DEF Categories, OtherCategories
<1>2. <<[linenum |-> n, category |-> <<"readability", "nolint">>, confidence |-> 5]>>
        \in Seq(Others(L))
  BY <1>1, OneOther
<1> QED
  BY <1>2, NoOther DEF NolintErrors

LEMMA MultilineErrors ==
  ASSUME NEW line, NEW L, NEW n \in L
  PROVE  CheckForMultiline(line, n) \in Seq(Others(L))
<1> DEFINE comment == IF Count(line, "/*") > Count(line, "*/")
                      THEN <<Problem(n, <<"readability", "multiline_comment">>, 5)>> ELSE <<>>
           string == IF Count(line, Quote) % 2 = 1
                     THEN <<Problem(n, <<"readability", "multiline_string">>, 5)>> ELSE <<>>
<1>1. /\ <<"readability", "multiline_comment">> \in OtherCategories /\ 5 \in 0 .. 5
      /\ <<"readability", "multiline_string">> \in OtherCategories
  BY DEF Categories, OtherCategories
<1>2. /\ <<Problem(n, <<"readability", "multiline_comment">>, 5)>> \in Seq(Others(L))
      /\ <<Problem(n, <<"readability", "multiline_string">>, 5)>> \in Seq(Others(L))
  BY <1>1, OneOther
<1>3. comment \in Seq(Others(L)) /\ string \in Seq(Others(L))
  BY <1>2, NoOther
<1>4. CheckForMultiline(line, n) = comment \o string
  BY DEF CheckForMultiline
<1> HIDE DEF comment, string
<1> QED
  BY <1>3, <1>4, MoreOthers

LEMMA FeatureErrors ==
  ASSUME NEW lines, NEW L, NEW n \in L
  PROVE  FlagCxx11Features(lines, n) \in Seq(Others(L))
<1>1. <<"build", "c++11">> \in OtherCategories /\ 5 \in 0 .. 5
  BY DEF Categories, OtherCategories
<1>2. <<[linenum |-> n, category |-> <<"build", "c++11">>, confidence |-> 5]>>
        \in Seq(Others(L))
  BY <1>1, OneOther
<1> QED
  BY <1>2, NoOther DEF FlagCxx11Features

LEMMA LineType ==
  ASSUME NEW file, NEW text \in Seq(Line), NEW lines, lines = CleansedLines(text),
         NEW n \in 1 .. Len(text), NEW m \in Nat, NEW before, AreCheckers(before, m),
         NEW used, NEW opts, NEW after,
         after = LineProcessed(file, lines, n, before, used, opts)
  PROVE  /\ AreCheckers(after.checks, m + 1)
         /\ after.checks.known = ParseNolintSuppressions(before.known, text[n], n)
         /\ \E errors \in Seq(Problems(0 .. n)) :
              after.new = Judged(after.checks.known, used, errors)
<1> DEFINE raw == lines.raw_lines[n]
           known == ParseNolintSuppressions(before.known, raw, n)
           nested == Update(before.nesting, lines, n)
           indented == CheckForNamespaceIndentation(nested.nesting, lines, n)
           asm == InAsmBlock(nested.nesting)
           counted == CheckForFunctionLengths(before.function, lines.lines, n, VerboseLevel)
           included == CheckLanguage(before.include, file, lines, n, opts)
           odd == NolintErrors(raw, n)
           multiline == CheckForMultiline(lines.elided[n], n)
           looked == IF asm THEN <<>> ELSE counted.errors \o multiline \o included.errors
           features == FlagCxx11Features(lines, n)
           errors == odd \o nested.errors \o indented \o looked \o features
           P == Seq(Problems(0 .. n))
           function == IF asm THEN before.function ELSE counted.function
           include == IF asm THEN before.include ELSE included.include
<1>0. Seq(Others(0 .. n)) \subseteq P
  BY OthersAreProblems
<1>1. after = [checks |-> [nesting |-> nested.nesting, function |-> function,
                           include |-> include, known |-> known],
               new |-> Judged(known, used, errors)]
  BY DEF LineProcessed
<1>2. /\ lines.raw_lines = text /\ lines.lines \in Seq(Line) /\ Len(lines.lines) = Len(text)
      /\ lines.elided \in Seq(Line) /\ Len(lines.elided) = Len(text)
  BY CleansedType
<1>3. known = ParseNolintSuppressions(before.known, text[n], n)
  BY <1>2
<1>4. /\ before.nesting \in Nestings(Token) /\ before.function \in Functions(m)
      /\ IsIncludeState(before.include)
  BY DEF AreCheckers
<1>5. nested.nesting \in Nestings(Token) /\ nested.errors \in P
  <2>1. lines.elided \in Seq(Seq(Token)) /\ lines.raw_lines \in Seq(Line)
    BY <1>2 DEF Line
  <2> QED
    BY <1>0, <1>2, <1>4, <2>1, UpdateType
<1>6. n \in 0 .. n /\ n \in 1 .. Len(lines.lines)
  BY <1>2
<1>7. counted.function \in Functions(m + 1) /\ counted.errors \in P
  BY <1>2, <1>4, <1>6, FunctionLengthsType
<1>8. IsIncludeState(included.include) /\ included.errors \in P
  BY <1>0, <1>4, <1>6, CheckLanguageType
<1>9. odd \in P /\ multiline \in P /\ features \in P /\ indented \in P
  BY <1>0, <1>6, OddErrors, MultilineErrors, FeatureErrors, NamespaceIndentationType
<1>10. before.function \in Functions(m + 1)
  BY <1>4 DEF Functions
<1> HIDE DEF raw, known, nested, indented, asm, counted, included, odd, multiline, features
<1>11. looked \in P
  <2>1. counted.errors \o multiline \in P
    BY <1>7, <1>9, MoreProblems
  <2>2. counted.errors \o multiline \o included.errors \in P
    BY <1>8, <2>1, MoreProblems
  <2> HIDE DEF P
  <2>3. <<>> \in P
    BY NoProblem DEF P
  <2> QED
    BY <2>2, <2>3
<1> HIDE DEF looked
<1>12. errors \in P
  <2>1. odd \o nested.errors \in P
    BY <1>5, <1>9, MoreProblems
  <2>2. odd \o nested.errors \o indented \in P
    BY <1>9, <2>1, MoreProblems
  <2>3. odd \o nested.errors \o indented \o looked \in P
    BY <1>11, <2>2, MoreProblems
  <2> QED
    BY <1>9, <2>3, MoreProblems
<1>13. function \in Functions(m + 1) /\ IsIncludeState(include)
  BY <1>4, <1>7, <1>8, <1>10
<1> HIDE DEF errors, function, include
<1>14. /\ after.checks.nesting = nested.nesting /\ after.checks.function = function
       /\ after.checks.include = include /\ after.checks.known = known
       /\ after.new = Judged(known, used, errors)
  BY <1>1
<1>15. AreCheckers(after.checks, m + 1)
  BY <1>5, <1>13, <1>14 DEF AreCheckers
<1> QED
  BY <1>3, <1>12, <1>14, <1>15


-----------------------------------------------------------------------------
(* The end of a file.                                                      *)
LEMMA FlattenType ==
  ASSUME NEW A, NEW n \in Nat, NEW seqs \in [1 .. n -> Seq(A)]
  PROVE  FlattenSeq(seqs) \in Seq(A)
<1> DEFINE S == Seq(A)
           G == [p \in (1 .. n) \X S |-> p[2] \o seqs[p[1]]]
           flatten == CHOOSE f : f = [i \in 1 .. n |-> IF i = 1 THEN seqs[i]
                                                       ELSE f[i - 1] \o seqs[i]]
<1>1. Len(seqs) = n
  BY SequencesOf
<1>2. FlattenSeq(seqs) = IF n = 0 THEN seqs ELSE flatten[n]
  BY <1>1 DEF FlattenSeq
<1>3. <<>> \in S /\ \A i \in 1 .. n : seqs[i] \in S
  OBVIOUS
<1>4. \A a, b \in S : a \o b \in S
  BY ConcatProperties
<1> HIDE DEF S
<1>5. G \in [(1 .. n) \X S -> S]
  BY <1>3, <1>4
<1>6. PICK h : IsCourse(h, n, S, <<>>, G)
  <2> HIDE DEF G
  <2> QED
    BY <1>3, <1>5, CourseExists
<1>7. /\ \A i \in 0 .. n : h[i] \in S
      /\ \A i \in 1 .. n : h[i] = h[i - 1] \o seqs[i]
  <2>1. ASSUME NEW i \in 1 .. n PROVE i - 1 \in 0 .. n
    OBVIOUS
  <2> QED
    BY <1>6, <2>1 DEF IsCourse
<1>8. n # 0 => h[1] = seqs[1]
  <2>1. h[0] = <<>>
    BY <1>6 DEF IsCourse
  <2> SUFFICES ASSUME n # 0 PROVE h[1] = seqs[1]
    OBVIOUS
  <2>2. 1 \in 1 .. n /\ 1 - 1 = 0
    OBVIOUS
  <2>3. h[1] = <<>> \o seqs[1] /\ seqs[1] \in Seq(A)
    BY <1>7, <2>1, <2>2
  <2> QED
    BY <2>3, ConcatEmptySeq
<1> DEFINE g == [i \in 1 .. n |-> h[i]]
<1>9. g = [i \in 1 .. n |-> IF i = 1 THEN seqs[i] ELSE g[i - 1] \o seqs[i]]
  <2>1. ASSUME NEW i \in 1 .. n, i # 1 PROVE g[i] = g[i - 1] \o seqs[i]
    <3>1. i - 1 \in 1 .. n
      BY <2>1
    <3> QED
      BY <1>7, <3>1
  <2>2. ASSUME NEW i \in 1 .. n, i = 1 PROVE g[i] = seqs[i]
    <3>1. n # 0
      OBVIOUS
    <3> QED
      BY <1>8, <2>2, <3>1
  <2> HIDE DEF g
  <2>3. g = [i \in 1 .. n |-> g[i]]
    BY DEF g
  <2> QED
    BY <2>1, <2>2, <2>3
<1> HIDE DEF g
<1>10. flatten = [i \in 1 .. n |-> IF i = 1 THEN seqs[i] ELSE flatten[i - 1] \o seqs[i]]
  BY <1>9
<1> HIDE DEF flatten
<1> DEFINE f == [i \in 0 .. n |-> IF i = 0 THEN <<>> ELSE flatten[i]]
<1>11. f[0] \in S
  BY <1>3
<1>12. ASSUME NEW i \in 1 .. n, f[i - 1] \in S PROVE f[i] \in S
  <2>1. f[i] = flatten[i]
    OBVIOUS
  <2>2. CASE i = 1
    BY <1>3, <1>10, <2>1, <2>2
  <2>3. CASE i # 1
    <3>1. i - 1 \in 0 .. n /\ i - 1 # 0
      BY <2>3
    <3>2. f[i - 1] = flatten[i - 1]
      BY <3>1
    <3> HIDE DEF f
    <3>3. flatten[i] = flatten[i - 1] \o seqs[i]
      BY <1>10, <2>3
    <3> QED
      BY <1>3, <1>4, <1>12, <2>1, <3>2, <3>3
  <2> QED
    BY <2>2, <2>3
<1> HIDE DEF f
<1>13. \A i \in 0 .. n : f[i] \in S
  BY <1>11, <1>12, CourseStays
<1>14. n # 0 => flatten[n] \in S
  BY <1>13 DEF f
<1>15. CASE n = 0
  <2>1. seqs = <<>>
    BY <1>15
  <2> QED
    BY <1>2, <1>3, <1>15, <2>1 DEF S
<1>16. CASE n # 0
  BY <1>2, <1>14, <1>16 DEF S
<1> QED
  BY <1>15, <1>16

LEMMA ImageIsFinite ==
  ASSUME NEW S, IsFiniteSet(S), NEW T, NEW f \in [S -> T], \A t \in T : \E s \in S : f[s] = t
  PROVE  IsFiniteSet(T)
<1>1. f \in Surjection(S, T)
  BY DEF Surjection
<1> QED
  BY <1>1, FS_Surjection

LEMMA SetToSeqType ==
  ASSUME NEW S, IsFiniteSet(S)
  PROVE  SetToSeq(S) \in Seq(S)
<1> DEFINE n == Cardinality(S)
<1>1. n \in Nat /\ ExistsBijection(1 .. n, S)
  BY FS_CardinalityType
<1>2. SetToSeq(S) = CHOOSE f \in [1 .. n -> S] : IsInjective(f)
  BY DEF SetToSeq
<1> HIDE DEF n
<1>3. \E f \in [1 .. n -> S] : IsInjective(f)
  BY <1>1 DEF ExistsBijection, Bijection, Injection
<1>4. SetToSeq(S) \in [1 .. n -> S]
  BY <1>2, <1>3
<1> QED
  BY <1>1, <1>4, SequencesOf

LEMMA CompletedBlocksErrors ==
  ASSUME NEW nesting \in Nestings(Token)
  PROVE  CheckCompletedBlocks(nesting) \in Seq(Problems(Nat))
<1> DEFINE n == Len(nesting.stack)
           class(b) == <<Problem(b.starting_linenum, <<"build", "class">>, 5)>>
           space(b) == <<Problem(b.starting_linenum, <<"build", "namespaces">>, 5)>>
           incomplete(b) == CASE IsClass(b) -> class(b)
                              [] IsNamespace(b) -> space(b)
                              [] OTHER -> <<>>
           errors == [i \in 1 .. n |-> incomplete(nesting.stack[i])]
<1>1. nesting.stack \in Stacks(Token)
  BY DEF Nestings
<1>2. /\ n \in Nat /\ DOMAIN nesting.stack = 1 .. n
      /\ \A i \in 1 .. n : nesting.stack[i] \in Blocks(Token)
  BY <1>1 DEF Stacks
<1>3. CheckCompletedBlocks(nesting) = FlattenSeq(errors)
  BY <1>2 DEF CheckCompletedBlocks
<1>4. /\ <<"build", "class">> \in Categories /\ <<"build", "namespaces">> \in Categories
      /\ 5 \in 0 .. 5
  BY DEF Categories
<1>5. ASSUME NEW b \in Blocks(Token) PROVE incomplete(b) \in Seq(Problems(Nat))
  <2>1. b.starting_linenum \in Nat
    BY DEF Blocks
  <2>2. class(b) \in Seq(Problems(Nat)) /\ space(b) \in Seq(Problems(Nat))
    BY <1>4, <2>1, OneProblem
  <2> HIDE DEF class, space
  <2> QED
    BY <2>2, NoProblem
<1> HIDE DEF incomplete, n
<1>6. errors \in [1 .. n -> Seq(Problems(Nat))]
  BY <1>2, <1>5
<1> HIDE DEF errors
<1> QED
  BY <1>2, <1>3, <1>6, FlattenType

LEMMA BadCharacterErrors ==
  ASSUME NEW text \in Seq(Line)
  PROVE  CheckForBadCharacters(text) \in Seq(Problems(Nat))
<1> DEFINE n == Len(text)
           odd(i) == IF Contains(text[i], "INVALID")
                     THEN <<Problem(i, <<"readability", "utf8">>, 5)>> ELSE <<>>
           nul(i) == IF Contains(text[i], "NUL")
                     THEN <<Problem(i, <<"readability", "nul">>, 5)>> ELSE <<>>
           errors == [i \in 1 .. n |-> odd(i) \o nul(i)]
<1>1. n \in Nat /\ DOMAIN text = 1 .. n
  OBVIOUS
<1>2. CheckForBadCharacters(text) = FlattenSeq(errors)
  BY <1>1 DEF CheckForBadCharacters
<1>3. /\ <<"readability", "utf8">> \in Categories /\ <<"readability", "nul">> \in Categories
      /\ 5 \in 0 .. 5
  BY DEF Categories
<1>4. ASSUME NEW i \in Nat
      PROVE  odd(i) \in Seq(Problems(Nat)) /\ nul(i) \in Seq(Problems(Nat))
  BY <1>3, OneProblem, NoProblem
<1> HIDE DEF odd, nul, n
<1>5. \A i \in 1 .. n : odd(i) \o nul(i) \in Seq(Problems(Nat))
  BY <1>4, MoreProblems
<1>6. errors \in [1 .. n -> Seq(Problems(Nat))]
  BY <1>5
<1> HIDE DEF errors
<1> QED
  BY <1>1, <1>2, <1>6, FlattenType

LEMMA LineEndErrors ==
  ASSUME NEW file, file.text \in Seq(Line)
  PROVE  CheckLineEnds(file) \in Seq(Problems(Nat))
<1> DEFINE n == Len(file.text)
           ended == {i \in DOMAIN file.text : i < Len(file.text) \/ file.newline}
           error(i) == IF i \in file.crlf \cap ended
                       THEN <<Problem(i, <<"whitespace", "newline">>, 1)>> ELSE <<>>
           errors == [i \in 1 .. n |-> error(i)]
<1>1. n \in Nat /\ DOMAIN file.text = 1 .. n
  OBVIOUS
<1>2. CheckLineEnds(file) \in {<<>>, FlattenSeq(errors)}
  BY <1>1 DEF CheckLineEnds
<1>3. <<"whitespace", "newline">> \in Categories /\ 1 \in 0 .. 5
  BY DEF Categories
<1> HIDE DEF ended
<1>4. \A i \in Nat : error(i) \in Seq(Problems(Nat))
  BY <1>3, OneProblem, NoProblem
<1> HIDE DEF error, n
<1>5. errors \in [1 .. n -> Seq(Problems(Nat))]
  BY <1>4
<1> HIDE DEF errors
<1>6. FlattenSeq(errors) \in Seq(Problems(Nat))
  BY <1>1, <1>5, FlattenType
<1> QED
  BY <1>2, <1>6, NoProblem

LEMMA NewlineErrors ==
  ASSUME NEW file, file.text \in Seq(Line)
  PROVE  CheckForNewlineAtEOF(file) \in Seq(Problems(Nat))
<1>1. <<"whitespace", "ending_newline">> \in Categories /\ 5 \in 0 .. 5
      /\ Len(file.text) \in Nat
  BY DEF Categories
<1>2. <<Problem(Len(file.text), <<"whitespace", "ending_newline">>, 5)>> \in Seq(Problems(Nat))
  BY <1>1, OneProblem
<1> QED
  BY <1>2, NoProblem DEF CheckForNewlineAtEOF


LEMMA IncludeWhatYouUseErrors ==
  ASSUME NEW inc, NEW file, NEW lines, NEW opts
  PROVE  \E L : CheckForIncludeWhatYouUse(inc, file, lines, opts) \in Seq(Problems(L))
<1> DEFINE source == file.ext \in GetNonHeaderExtensions(opts)
           found == /\ source
                    /\ OwnHeader(file, opts) \cap Included(inc) # {}
                    /\ file.disk # NoHeader
           available == Included(inc) \cup (IF found THEN file.disk ELSE {})
           names == {Requires[w] : w \in DOMAIN Requires}
           missing == {n \in names \ available : UsedOn(lines, n) # {}}
           line(n) == CHOOSE i \in UsedOn(lines, n) : \A j \in UsedOn(lines, n) : j <= i
           error(n) == IncludeProblem(line(n), "include_what_you_use")
           errors == {error(n) : n \in missing}
           L == {line(n) : n \in missing}
<1>1. CheckForIncludeWhatYouUse(inc, file, lines, opts)
        = IF ~found /\ source THEN <<>> ELSE SetToSeq(errors)
  BY DEF CheckForIncludeWhatYouUse
<1>2. IsFiniteSet(names)
  <2> DEFINE f == [w \in DOMAIN Requires |-> Requires[w]]
  <2>1. f \in [DOMAIN Requires -> names] /\ \A n \in names : \E w \in DOMAIN Requires : f[w] = n
    OBVIOUS
  <2> HIDE DEF f, names
  <2> QED
    BY <2>1, RequiresAssumption, ImageIsFinite
<1>3. missing \in SUBSET names
  OBVIOUS
<1> HIDE DEF names, missing, line, found, source
<1>4. IsFiniteSet(missing)
  BY <1>2, <1>3, FS_Subset
<1>5. IsFiniteSet(errors)
  <2> DEFINE f == [n \in missing |-> error(n)]
  <2>1. f \in [missing -> errors] /\ \A e \in errors : \E n \in missing : f[n] = e
    OBVIOUS
  <2> HIDE DEF f, errors
  <2> QED
    BY <1>4, <2>1, ImageIsFinite
<1>6. <<"build", "include_what_you_use">> \in Categories /\ 4 \in Confidences
  BY DEF Categories, Confidences
<1>7. \A n \in missing : error(n) \in Problems(L)
  BY <1>6 DEF IncludeProblem, Problems
<1>8. errors \subseteq Problems(L)
  BY <1>7
<1> HIDE DEF errors, L
<1>9. SetToSeq(errors) \in Seq(errors) /\ Seq(errors) \subseteq Seq(Problems(L))
  BY <1>5, <1>8, SetToSeqType, SeqMonotonic
<1>10. CheckForIncludeWhatYouUse(inc, file, lines, opts) \in Seq(Problems(L))
  BY <1>1, <1>9, NoProblem
<1> QED
  BY <1>10

LEMMA HeaderFileErrors ==
  ASSUME NEW inc, NEW file, NEW opts
  PROVE  \E L : CheckHeaderFileIncluded(inc, file, opts) \in Seq(Problems(L))
<1> DEFINE list == SelectSeq(inc.include_list, LAMBDA s : s # {})
           lines == {pair[2] : pair \in Head(list)}
           first == IF list = <<>> THEN 0
                    ELSE CHOOSE i \in lines : \A j \in lines : i <= j
           error == [linenum |-> first, category |-> <<"build", "include">>, confidence |-> 5]
<1>1. CheckHeaderFileIncluded(inc, file, opts) \in {<<error>>, <<>>}
  BY DEF CheckHeaderFileIncluded
<1>2. <<"build", "include">> \in Categories /\ 5 \in 0 .. 5
  BY DEF Categories
<1> HIDE DEF first
<1>3. <<error>> \in Seq(Problems({first}))
  BY <1>2, OneProblem
<1> QED
  BY <1>1, <1>3, NoProblem

LEMMA WiderProblems ==
  ASSUME NEW L, NEW M, L \subseteq M, NEW errors \in Seq(Problems(L))
  PROVE  errors \in Seq(Problems(M))
<1>1. Problems(L) \subseteq Problems(M)
  BY DEF Problems
<1> QED
  BY <1>1, SeqMonotonic

JudgesProblems(list, known, used) ==
  \E L : \E errors \in Seq(Problems(L)) : list = Judged(known, used, errors)

LEMMA EndType ==
  ASSUME NEW file, file.text \in Seq(Line), NEW text \in Seq(Line),
         NEW lines, lines = CleansedLines(text),
         NEW m \in Nat, NEW before, AreCheckers(before, m), NEW used, NEW opts
  PROVE  JudgesProblems(Ended(file, lines, before, used, opts), before.known, used)
<1> DEFINE blocks == CheckCompletedBlocks(before.nesting)
           use == CheckForIncludeWhatYouUse(before.include, file, lines, opts)
           own == CheckHeaderFileIncluded(before.include, file, opts)
           bad == CheckForBadCharacters(lines.raw_lines)
           eof == CheckForNewlineAtEOF(file)
           ends == CheckLineEnds(file)
           errors == blocks \o use \o own \o bad \o eof \o ends
<1>1. Ended(file, lines, before, used, opts) = Judged(before.known, used, errors)
  BY DEF Ended
<1>2. PICK U : use \in Seq(Problems(U))
  BY IncludeWhatYouUseErrors
<1>3. PICK H : own \in Seq(Problems(H))
  BY HeaderFileErrors
<1> DEFINE L == Nat \cup U \cup H
           P == Seq(Problems(L))
<1>4. lines.raw_lines \in Seq(Line)
  BY CleansedType
<1>5. /\ blocks \in Seq(Problems(Nat)) /\ bad \in Seq(Problems(Nat))
      /\ eof \in Seq(Problems(Nat)) /\ ends \in Seq(Problems(Nat))
  BY <1>4, CompletedBlocksErrors, BadCharacterErrors, NewlineErrors, LineEndErrors
       DEF AreCheckers
<1> HIDE DEF blocks, use, own, bad, eof, ends
<1>6. Nat \subseteq L /\ U \subseteq L /\ H \subseteq L
  OBVIOUS
<1> HIDE DEF L
<1>7. /\ blocks \in P /\ bad \in P /\ eof \in P /\ ends \in P /\ use \in P /\ own \in P
  BY <1>2, <1>3, <1>5, <1>6, WiderProblems
<1>8. errors \in P
  <2>1. blocks \o use \in P
    BY <1>7, MoreProblems
  <2>2. blocks \o use \o own \in P
    BY <1>7, <2>1, MoreProblems
  <2>3. blocks \o use \o own \o bad \in P
    BY <1>7, <2>2, MoreProblems
  <2>4. blocks \o use \o own \o bad \o eof \in P
    BY <1>7, <2>3, MoreProblems
  <2> QED
    BY <1>7, <2>4, MoreProblems
<1> HIDE DEF errors
<1> QED
  BY <1>1, <1>8 DEF JudgesProblems


-----------------------------------------------------------------------------
(* Verdicts.                                                               *)
OwnVerdict(verdict, file) ==
  LET error == verdict.error
      printed == verdict.printed
  IN  /\ printed => IsWanted(file, error)
      /\ IsWanted(file, error) /\ ~MayBeSilenced(file, error) => printed
      /\ printed /\ IsSilenced(file, error) => IsEarly(file, error)

OwnVerdicts(file, L) ==
  {v \in [error : Problems(L), printed : BOOLEAN] : OwnVerdict(v, file)}
AreOwnVerdicts(list, file) == \E L : list \in Seq(OwnVerdicts(file, L))

LEMMA MoreVerdicts ==
  ASSUME NEW file, NEW s, AreOwnVerdicts(s, file), NEW t, AreOwnVerdicts(t, file)
  PROVE  AreOwnVerdicts(s \o t, file)
<1>1. PICK L : s \in Seq(OwnVerdicts(file, L))
  BY DEF AreOwnVerdicts
<1>2. PICK M : t \in Seq(OwnVerdicts(file, M))
  BY DEF AreOwnVerdicts
<1> DEFINE V(K) == OwnVerdicts(file, K)
           N == L \cup M
<1>3. \A K : K \subseteq N => V(K) \subseteq V(N)
  <2> SUFFICES ASSUME NEW K, K \subseteq N, NEW v \in V(K) PROVE v \in V(N)
    OBVIOUS
  <2>1. v \in [error : Problems(K), printed : BOOLEAN] /\ OwnVerdict(v, file)
    BY DEF OwnVerdicts
  <2>2. Problems(K) \subseteq Problems(N)
    BY DEF Problems
  <2> HIDE DEF N
  <2>3. v \in [error : Problems(N), printed : BOOLEAN]
    BY <2>1, <2>2
  <2> QED
    BY <2>1, <2>3 DEF OwnVerdicts
<1>4. L \subseteq N /\ M \subseteq N
  OBVIOUS
<1>5. V(L) \subseteq V(N) /\ V(M) \subseteq V(N)
  BY <1>3, <1>4
<1> HIDE DEF N
<1>6. s \in Seq(V(L)) /\ t \in Seq(V(M))
  BY <1>1, <1>2
<1> HIDE DEF V
<1>7. s \in Seq(V(N)) /\ t \in Seq(V(N))
  BY <1>5, <1>6, SeqMonotonic
<1>8. s \o t \in Seq(V(N))
  BY <1>7, ConcatProperties
<1> QED
  BY <1>8 DEF AreOwnVerdicts, V

LEMMA NoVerdicts == ASSUME NEW file PROVE AreOwnVerdicts(<<>>, file)
<1>1. <<>> \in Seq(OwnVerdicts(file, {}))
  OBVIOUS
<1> QED
  BY <1>1 DEF AreOwnVerdicts

(* Suppressions that say nothing the file does not say.                    *)
FilesOwn(known, file) ==
  /\ known.lines \subseteq Silences(file) \cup SilencedIn(WithoutRawStrings(file))
  /\ known.global \subseteq ProcessGlobalSuppresions(NoSuppressions, file.text).global

FiltersOn(file) == DefaultFilters \o command.filters \o ConfigFilters(file.configs)

LEMMA GlobalsOf ==
  ASSUME NEW file, NEW c
  PROVE  c \in ProcessGlobalSuppresions(NoSuppressions, file.text).global
           <=> \/ /\ \E i \in DOMAIN file.text : Contains(file.text[i], "LINT_C_FILE")
                  /\ c = <<"readability", "casting">>
               \/ /\ \E i \in DOMAIN file.text : Contains(file.text[i], "LINT_KERNEL_FILE")
                  /\ c = <<"whitespace", "tab">>
<1> DEFINE casting == IF \E i \in DOMAIN file.text : Contains(file.text[i], "LINT_C_FILE")
                      THEN {<<"readability", "casting">>} ELSE {}
           tab == IF \E i \in DOMAIN file.text : Contains(file.text[i], "LINT_KERNEL_FILE")
                  THEN {<<"whitespace", "tab">>} ELSE {}
           new == ProcessGlobalSuppresions(NoSuppressions, file.text)
<1>1. new = [NoSuppressions EXCEPT !.global = casting \cup tab]
  BY DEF ProcessGlobalSuppresions
<1>2. c \in casting <=> /\ \E i \in DOMAIN file.text : Contains(file.text[i], "LINT_C_FILE")
                        /\ c = <<"readability", "casting">>
  OBVIOUS
<1>3. c \in tab <=> /\ \E i \in DOMAIN file.text : Contains(file.text[i], "LINT_KERNEL_FILE")
                    /\ c = <<"whitespace", "tab">>
  OBVIOUS
<1> HIDE DEF casting, tab, new
<1>4. new.global = casting \cup tab
  BY <1>1 DEF NoSuppressions
<1> QED
  BY <1>2, <1>3, <1>4 DEF new

(* An error that the file itself silences, and nothing else, is not        *)
(* printed, if it is not judged too early.                                 *)
LEMMA JudgedAreOwn ==
  ASSUME NEW file, NEW known, FilesOwn(known, file), NEW used, used = FiltersOn(file),
         NEW L, NEW errors \in Seq(Problems(L)),
         \A i \in DOMAIN errors :
           IsSilenced(file, errors[i]) =>
             \/ IsEarly(file, errors[i])
             \/ IsErrorSuppressedByNolint(known, errors[i].category, errors[i].linenum)
  PROVE  AreOwnVerdicts(Judged(known, used, errors), file)
<1> DEFINE v(i) == [error |-> errors[i],
                    printed |-> ShouldPrintError(known, used, VerboseLevel, errors[i])]
           n == Len(errors)
<1>1. n \in Nat /\ DOMAIN errors = 1 .. n /\ \A i \in 1 .. n : errors[i] \in Problems(L)
  OBVIOUS
<1>2. Judged(known, used, errors) = [i \in DOMAIN errors |-> v(i)]
  BY DEF Judged
<1>3. ASSUME NEW i \in 1 .. n PROVE v(i) \in OwnVerdicts(file, L)
  <2> DEFINE e == errors[i]
             p == ShouldPrintError(known, used, VerboseLevel, e)
             silenced == IsErrorSuppressedByNolint(known, e.category, e.linenum)
  <2>1. p <=> ~silenced /\ IsWanted(file, e)
    BY DEF ShouldPrintError, IsWanted, FiltersOn
  <2>2. silenced => MayBeSilenced(file, e)
    BY GlobalsOf DEF IsErrorSuppressedByNolint, MayBeSilenced, Silence, FilesOwn
  <2>3. IsSilenced(file, e) => IsEarly(file, e) \/ silenced
    BY <1>1
  <2>4. p \in BOOLEAN
    BY DEF ShouldPrintError
  <2>5. e \in Problems(L)
    BY <1>1
  <2> HIDE DEF e, p, silenced
  <2> DEFINE w == [error |-> e, printed |-> p]
  <2>6. w.error = e /\ w.printed = p /\ w \in [error : Problems(L), printed : BOOLEAN]
    BY <2>4, <2>5
  <2> HIDE DEF w
  <2>7. OwnVerdict(w, file)
    BY <2>1, <2>2, <2>3, <2>6 DEF OwnVerdict
  <2>8. w \in OwnVerdicts(file, L)
    BY <2>6, <2>7 DEF OwnVerdicts
  <2> QED
    BY <2>8 DEF w, e, p
<1> HIDE DEF v, n
<1>4. Judged(known, used, errors) \in [1 .. n -> OwnVerdicts(file, L)]
  BY <1>1, <1>2, <1>3
<1>5. Judged(known, used, errors) \in Seq(OwnVerdicts(file, L))
  BY <1>1, <1>4, SequencesOf
<1> QED
  BY <1>5 DEF AreOwnVerdicts


(* An error on a line whose suppressions have been read is suppressed when *)
(* the file silences it.                                                   *)
LEMMA ReadSilencesSuppress ==
  ASSUME NEW file, IsList(file.text), NEW known, NEW n \in Nat, AreOwn(known, file, n),
         NEW L, NEW error \in Problems(L), IsSilenced(file, error),
         Len(file.text) <= n \/ (error.linenum \in Nat /\ error.linenum <= n)
  PROVE  IsErrorSuppressedByNolint(known, error.category, error.linenum)
<1> DEFINE text == RemoveMultiLineComments(file.text)
           k == error.linenum
<1>1. DOMAIN text = 1 .. Len(file.text) /\ Len(file.text) \in Nat
  BY DEF RemoveMultiLineComments, IsList
<1>2. known.global = ProcessGlobalSuppresions(NoSuppressions, file.text).global
  BY DEF AreOwn
<1>3. \A i \in 1 .. n : Known(text[i]) => SilencedBy(text, i) \in known.lines
  BY DEF AreOwn
<1>4. error.category \in Categories
  BY DEF Problems
<1>5. \A c \in Categories \cup {AnyCategory} : c \notin LegacyCategories \cup UnknownCategories
  <2>1. \A a, b, x : <<a, b>> # <<x>> /\ <<>> # <<x>>
    <3> SUFFICES ASSUME NEW a, NEW b, NEW x PROVE <<a, b>> # <<x>> /\ <<>> # <<x>>
      OBVIOUS
    <3>1. Len(<<a, b>>) = 2 /\ Len(<<x>>) = 1 /\ Len(<<>>) = 0
      OBVIOUS
    <3> QED
      BY <3>1
  <2>2. ASSUME NEW x PROVE \A c \in Categories : c # <<x>>
    BY <2>1 DEF Categories
  <2> QED
    BY <2>1, <2>2 DEF LegacyCategories, UnknownCategories, AnyCategory
<1>6. ASSUME NEW c \in {error.category, AnyCategory}, <<c, k>> \in Silences(file)
      PROVE  <<c, k>> \in known.lines
  <2> HIDE DEF text
  <2>1. PICK i \in DOMAIN text : NolintsOf(text[i]) # <<>> /\ <<c, k>> = SilencedBy(text, i)
    BY <1>6 DEF Silences, SilencedIn, text
  <2> DEFINE nolint == Nolint[Head(NolintsOf(text[i]))]
  <2>2. c = nolint.category /\ k = IF nolint.next THEN i + 1 ELSE i
    BY <2>1 DEF SilencedBy
  <2>3. Known(text[i])
    BY <1>4, <1>5, <1>6, <2>1, <2>2 DEF Known
  <2> HIDE DEF nolint
  <2>4. i \in Nat \ {0} /\ i <= k /\ i <= Len(file.text)
    BY <1>1, <2>1, <2>2
  <2>5. i \in 1 .. n
    <3>1. CASE Len(file.text) <= n
      BY <1>1, <2>4, <3>1
    <3>2. CASE k \in Nat /\ k <= n
      BY <2>4, <3>2
    <3> QED
      BY <3>1, <3>2
  <2> QED
    BY <1>3, <2>1, <2>3, <2>5
<1> HIDE DEF text
<1>7. CASE \/ <<error.category, k>> \in Silences(file) \/ <<AnyCategory, k>> \in Silences(file)
  BY <1>6, <1>7 DEF IsErrorSuppressedByNolint
<1>8. CASE error.category \in known.global
  BY <1>8 DEF IsErrorSuppressedByNolint
<1> HIDE DEF k
<1>9. \/ <<error.category, k>> \in Silences(file) \/ <<AnyCategory, k>> \in Silences(file)
      \/ error.category \in known.global
  BY <1>2, GlobalsOf DEF IsSilenced, Silence, k
<1> QED
  BY <1>7, <1>8, <1>9

LEMMA OwnSuppressions ==
  ASSUME NEW file, NEW known, NEW n, AreOwn(known, file, n)
  PROVE  FilesOwn(known, file)
BY DEF AreOwn, FilesOwn

(* The verdicts on a line, and those behind the last line.                 *)
LEMMA LineVerdictsAreOwn ==
  ASSUME NEW file, IsList(file.text), NEW known, NEW n \in Nat, AreOwn(known, file, n),
         NEW used, used = FiltersOn(file), NEW errors \in Seq(Problems(0 .. n))
  PROVE  AreOwnVerdicts(Judged(known, used, errors), file)
<1>1. FilesOwn(known, file)
  BY OwnSuppressions
<1>2. ASSUME NEW i \in DOMAIN errors, IsSilenced(file, errors[i])
      PROVE  IsErrorSuppressedByNolint(known, errors[i].category, errors[i].linenum)
  <2>1. errors[i] \in Problems(0 .. n)
    OBVIOUS
  <2>2. errors[i].linenum \in 0 .. n
    BY <2>1 DEF Problems
  <2> QED
    BY <1>2, <2>1, <2>2, ReadSilencesSuppress
<1> QED
  BY <1>1, <1>2, JudgedAreOwn

LEMMA LastVerdictsAreOwn ==
  ASSUME NEW file, IsList(file.text), NEW known, NEW n \in Nat, AreOwn(known, file, n),
         Len(file.text) <= n, NEW used, used = FiltersOn(file),
         NEW L, NEW errors \in Seq(Problems(L))
  PROVE  AreOwnVerdicts(Judged(known, used, errors), file)
<1>1. FilesOwn(known, file)
  BY OwnSuppressions
<1>2. ASSUME NEW i \in DOMAIN errors, IsSilenced(file, errors[i])
      PROVE  IsErrorSuppressedByNolint(known, errors[i].category, errors[i].linenum)
  <2>1. errors[i] \in Problems(L)
    OBVIOUS
  <2> QED
    BY <1>2, <2>1, ReadSilencesSuppress
<1> QED
  BY <1>1, <1>2, JudgedAreOwn


(* The header guard judges before the lines are read: its errors are early *)
(* ones, that the suppressions of the lines come too late for.             *)
LEMMA GuardErrors ==
  ASSUME NEW lines, NEW stage, LooksAt(stage, lines)
  PROVE  /\ stage.errors \in Seq(Problems({stage.linenum}))
         /\ \A i \in DOMAIN stage.errors :
              stage.errors[i].category = <<"build", "header_guard">>
<1> DEFINE n == stage.linenum
           less == <<GuardProblem(n, 0)>>
           more == <<GuardProblem(n, 5)>>
<1>1. <<"build", "header_guard">> \in Categories /\ 0 \in 0 .. 5 /\ 5 \in 0 .. 5
  BY DEF Categories
<1>2. n \in {n} /\ \A k : GuardProblem(n, k) = Problem(n, <<"build", "header_guard">>, k)
  BY DEF GuardProblem, Problem
<1>3. /\ less \in Seq(Problems({n})) /\ more \in Seq(Problems({n}))
      /\ <<>> \in Seq(Problems({n}))
  BY <1>1, <1>2, OneProblem, NoProblem
<1>4. \A e \in {<<>>, less, more} :
        \A i \in DOMAIN e : e[i].category = <<"build", "header_guard">>
  BY DEF GuardProblem
<1>5. stage.errors \in {<<>>, less, more}
  BY DEF LooksAt
<1> HIDE DEF less, more
<1> QED
  BY <1>3, <1>4, <1>5

LEMMA StageVerdictsAreOwn ==
  ASSUME NEW file, NEW lines, lines = WithoutRawStrings(file), NEW stage,
         LooksAt(stage, lines),
         \E i \in DOMAIN CheckForHeaderGuard(lines) :
           CheckForHeaderGuard(lines)[i].linenum = stage.linenum,
         NEW known, FilesOwn(known, file), NEW before,
         GrownFrom(before.known, known, lines), AreOwnVerdicts(before.new, file),
         NEW used, used = FiltersOn(file), NEW after,
         after = GuardStage(before, stage, lines, used)
  PROVE  AreOwnVerdicts(after.new, file)
<1> DEFINE n == stage.linenum
           odd == IF n = 0 THEN <<>> ELSE NolintErrors(lines[n], n)
           errors == stage.errors
<1>1. /\ after.new = before.new \o Judged(before.known, used, odd)
                                \o Judged(after.known, used, errors)
  BY DEF GuardStage
<1>2. FilesOwn(before.known, file) /\ FilesOwn(after.known, file)
  <2>1. GrownFrom(after.known, known, lines)
    BY StageReadsItsLine
  <2> QED
    BY <2>1 DEF GrownFrom, FilesOwn
<1>3. /\ errors \in Seq(Problems({n}))
      /\ \A i \in DOMAIN errors : IsEarly(file, errors[i])
  BY GuardErrors DEF IsEarly
<1>4. /\ odd \in Seq(Problems({n}))
      /\ \A i \in DOMAIN odd : IsEarly(file, odd[i])
  <2>1. n \in {n}
    OBVIOUS
  <2>2. odd \in Seq(Problems({n}))
    BY <2>1, OddErrors, NoOther, OthersAreProblems
  <2> DEFINE e == [linenum |-> n, category |-> <<"readability", "nolint">>, confidence |-> 5]
  <2>3. odd \in {<<>>, <<e>>}
    BY DEF NolintErrors
  <2>4. IsEarly(file, e)
    BY DEF IsEarly
  <2> HIDE DEF odd, e
  <2>5. \A i \in DOMAIN odd : odd[i] = e
    BY <2>3
  <2> QED
    BY <2>2, <2>4, <2>5
<1> HIDE DEF odd, errors, n
<1>5. /\ AreOwnVerdicts(Judged(before.known, used, odd), file)
      /\ AreOwnVerdicts(Judged(after.known, used, errors), file)
  BY <1>2, <1>3, <1>4, JudgedAreOwn
<1> QED
  BY <1>1, <1>5, MoreVerdicts

LEMMA GuardVerdictsAreOwn ==
  ASSUME NEW file, NEW lines, lines = WithoutRawStrings(file), NEW stages,
         Len(stages) \in Nat, \A i \in 1 .. Len(stages) : LooksAt(stages[i], lines),
         Len(stages) = 0 \/ stages = CheckForHeaderGuard(lines),
         DOMAIN CheckForHeaderGuard(lines) = 1 .. Len(CheckForHeaderGuard(lines)),
         NEW known, IsRecord(known), FilesOwn(known, file),
         NEW used, used = FiltersOn(file)
  PROVE  AreOwnVerdicts(GuardVerdicts(stages, lines, known, used).new, file)
<1> DEFINE n == Len(stages)
           after == CHOOSE f : Reads(f, n, stages, lines, known, used)
<1>1. GuardVerdicts(stages, lines, known, used) = after[n]
  BY DEF GuardVerdicts, Reads
<1>2. Reads(after, n, stages, lines, known, used)
  BY ReadsExists
<1> HIDE DEF after
<1> DEFINE G == {s \in {after[i] : i \in 0 .. n} :
                   GrownFrom(s.known, known, lines) /\ AreOwnVerdicts(s.new, file)}
<1>3. after[0] \in G
  <2>1. after[0] = [known |-> known, new |-> <<>>] /\ 0 \in 0 .. n
    BY <1>2 DEF Reads
  <2>2. after[0].known = known /\ after[0].new = <<>>
    BY <2>1
  <2>3. AreOwnVerdicts(after[0].new, file)
    BY <2>2, NoVerdicts
  <2> QED
    BY <2>1, <2>2, <2>3 DEF GrownFrom
<1>4. ASSUME NEW i \in 1 .. n, after[i - 1] \in G PROVE after[i] \in G
  <2>1. after[i] = GuardStage(after[i - 1], stages[i], lines, used)
    BY <1>2 DEF Reads
  <2>2. \E j \in DOMAIN CheckForHeaderGuard(lines) :
          CheckForHeaderGuard(lines)[j].linenum = stages[i].linenum
    <3>1. n # 0 /\ stages = CheckForHeaderGuard(lines)
      OBVIOUS
    <3> QED
      BY <3>1
  <2>3. GrownFrom(after[i].known, known, lines)
    BY <1>4, <2>1, StageReadsItsLine
  <2>4. AreOwnVerdicts(after[i].new, file)
    BY <1>4, <2>1, <2>2, StageVerdictsAreOwn
  <2> QED
    BY <2>3, <2>4
<1> HIDE DEF G
<1>5. after[n] \in G
  <2>1. n \in Nat
    OBVIOUS
  <2>2. \A i \in 1 .. n : after[i - 1] \in G => after[i] \in G
    BY <1>4
  <2> HIDE DEF n
  <2>3. \A i \in 0 .. n : after[i] \in G
    BY <1>3, <2>1, <2>2, CourseStays
  <2> QED
    BY <2>1, <2>3
<1> QED
  BY <1>1, <1>5 DEF G

LEMMA UnclosedCommentErrors ==
  ASSUME NEW text
  PROVE  \E L : UnclosedComment(text) \in Seq(Problems(L))
<1> DEFINE n == CommentScan(text).unclosed + 1
<1>1. UnclosedComment(text) \in
        {<<>>, <<Problem(n, <<"readability", "multiline_comment">>, 5)>>}
  BY DEF UnclosedComment
<1>2. <<"readability", "multiline_comment">> \in Categories /\ 5 \in 0 .. 5 /\ n \in {n}
  BY DEF Categories
<1> HIDE DEF n
<1>3. <<Problem(n, <<"readability", "multiline_comment">>, 5)>> \in Seq(Problems({n}))
  BY <1>2, OneProblem
<1> QED
  BY <1>1, <1>3, NoProblem

(* The copyright is missing on line 0, where no NOLINT can stand.          *)
LEMMA CopyrightErrors ==
  ASSUME NEW file, IsList(file.text)
  PROVE  /\ CheckForCopyright(file.text) \in Seq(Problems({0}))
         /\ \A i \in DOMAIN CheckForCopyright(file.text) :
              ~IsSilenced(file, CheckForCopyright(file.text)[i])
<1> DEFINE e == Problem(0, <<"legal", "copyright">>, 5)
           text == RemoveMultiLineComments(file.text)
<1>1. CheckForCopyright(file.text) \in {<<>>, <<e>>}
  BY DEF CheckForCopyright
<1>2. <<"legal", "copyright">> \in Categories /\ 5 \in 0 .. 5 /\ 0 \in {0}
  BY DEF Categories
<1>3. <<e>> \in Seq(Problems({0})) /\ <<>> \in Seq(Problems({0}))
  BY <1>2, OneProblem, NoProblem
<1>4. ASSUME NEW c PROVE <<c, 0>> \notin Silences(file)
  <2>1. DOMAIN text = 1 .. Len(file.text) /\ Len(file.text) \in Nat
    BY DEF RemoveMultiLineComments, IsList
  <2> HIDE DEF text
  <2>2. ASSUME NEW i \in DOMAIN text PROVE <<c, 0>> # SilencedBy(text, i)
    <3> DEFINE nolint == Nolint[Head(NolintsOf(text[i]))]
               k == IF nolint.next THEN i + 1 ELSE i
    <3>1. SilencedBy(text, i) = <<nolint.category, k>>
      BY DEF SilencedBy
    <3>2. k # 0
      BY <2>1
    <3> HIDE DEF nolint, k
    <3> QED
      BY <3>1, <3>2
  <2> QED
    BY <2>2 DEF Silences, SilencedIn, text
<1>5. e.linenum = 0 /\ e.category = <<"legal", "copyright">>
  BY DEF Problem
<1>6. e.category # <<"readability", "casting">> /\ e.category # <<"whitespace", "tab">>
  BY <1>5
<1> HIDE DEF e
<1>7. ~IsSilenced(file, e)
  BY <1>4, <1>5, <1>6 DEF IsSilenced, Silence
<1>8. \A i \in DOMAIN CheckForCopyright(file.text) : CheckForCopyright(file.text)[i] = e
  BY <1>1
<1> QED
  BY <1>1, <1>3, <1>7, <1>8


LEMMA GlobalsHaveNoLines ==
  ASSUME NEW text, NEW known, known = ProcessGlobalSuppresions(NoSuppressions, text)
  PROVE  IsRecord(known) /\ known.lines = {}
<1> DEFINE casting == IF \E i \in DOMAIN text : Contains(text[i], "LINT_C_FILE")
                      THEN {<<"readability", "casting">>} ELSE {}
           tab == IF \E i \in DOMAIN text : Contains(text[i], "LINT_KERNEL_FILE")
                  THEN {<<"whitespace", "tab">>} ELSE {}
<1>1. known = [NoSuppressions EXCEPT !.global = casting \cup tab]
  BY DEF ProcessGlobalSuppresions
<1> HIDE DEF casting, tab
<1> QED
  BY <1>1 DEF NoSuppressions, IsRecord

LEMMA StartVerdictsAreOwn ==
  ASSUME NEW file, file.text \in Seq(Line), NEW used, used = FiltersOn(file), NEW opts
  PROVE  AreOwnVerdicts(Started(file, used, opts).new, file)
<1> DEFINE text == file.text
           global == ProcessGlobalSuppresions(NoSuppressions, text)
           lines == WithoutRawStrings(file)
           all == CheckForHeaderGuard(lines)
           stages == IF file.ext \in GetHeaderExtensions(opts) THEN all ELSE <<>>
           guard == GuardVerdicts(stages, lines, global, used)
           copyright == CheckForCopyright(text)
           comment == UnclosedComment(text)
<1>1. Started(file, used, opts).new = Judged(NoSuppressions, used, copyright)
                                      \o Judged(global, used, comment) \o guard.new
  BY DEF Started, ResetNolintSuppressions, WithoutRawStrings, CleansedLines
<1>2. IsList(text)
  BY DEF IsList
<1>3. IsList(lines)
  <2>1. RemoveMultiLineComments(text) \in Seq(Line)
    BY RemoveType
  <2>2. lines \in Seq(Line)
    BY <2>1, CleanseRawType DEF WithoutRawStrings
  <2> QED
    BY <2>2 DEF IsList
<1> HIDE DEF lines
<1>4. IsList(all) /\ \A i \in 1 .. Len(all) : LooksAt(all[i], lines)
  BY <1>3, StagesLookAtLines
<1> HIDE DEF all
<1>5. /\ Len(stages) \in Nat /\ \A i \in 1 .. Len(stages) : LooksAt(stages[i], lines)
      /\ Len(stages) = 0 \/ stages = all
      /\ DOMAIN all = 1 .. Len(all)
  <2>1. stages = all \/ stages = <<>>
    OBVIOUS
  <2> HIDE DEF stages
  <2>2. Len(<<>>) = 0 /\ Len(all) \in Nat /\ DOMAIN all = 1 .. Len(all)
    BY <1>4 DEF IsList
  <2>3. CASE stages = all
    BY <1>4, <2>2, <2>3
  <2>4. CASE stages = <<>>
    BY <2>2, <2>4
  <2> QED
    BY <2>1, <2>3, <2>4
<1>6. IsRecord(global) /\ global.lines = {}
  BY GlobalsHaveNoLines
<1>7. FilesOwn(global, file) /\ FilesOwn(NoSuppressions, file)
  BY <1>6 DEF FilesOwn, NoSuppressions
<1> HIDE DEF stages, global
<1>8. AreOwnVerdicts(guard.new, file)
  BY <1>5, <1>6, <1>7, GuardVerdictsAreOwn DEF all, lines
<1>9. AreOwnVerdicts(Judged(NoSuppressions, used, copyright), file)
  BY <1>2, <1>7, CopyrightErrors, JudgedAreOwn
<1>10. AreOwnVerdicts(Judged(global, used, comment), file)
  <2>1. PICK L : comment \in Seq(Problems(L))
    BY UnclosedCommentErrors
  <2>2. \A i \in DOMAIN comment : IsEarly(file, comment[i])
    BY DEF IsEarly
  <2> QED
    BY <1>7, <2>1, <2>2, JudgedAreOwn
<1> QED
  <2> HIDE DEF guard
  <2> QED
    BY <1>1, <1>8, <1>9, <1>10, MoreVerdicts


-----------------------------------------------------------------------------
(* Filters.                                                                *)
LEMMA ConfigFiltersType ==
  ASSUME NEW configs, IsList(configs),
         \A i \in DOMAIN configs : configs[i].filters \in Seq(Filters)
  PROVE  ConfigFilters(configs) \in Seq(Filters)
<1> DEFINE read == Overrides(configs)
           n == Len(read)
           S == Seq(Filters)
           given == [i \in DOMAIN read |-> read[i].filters]
           turned == Reverse(given)
<1>1. n \in Nat /\ DOMAIN read = 1 .. n /\ \A i \in 1 .. n : read[i].filters \in S
  BY OverridesAreAList DEF IsList
<1>2. ConfigFilters(configs) = FlattenSeq(turned)
  BY DEF ConfigFilters
<1> HIDE DEF S, read, n
<1>3. given \in [1 .. n -> S]
  BY <1>1
<1> HIDE DEF given
<1>4. given \in Seq(S) /\ Len(given) = n
  BY <1>1, <1>3, SequencesOf
<1>5. turned \in [1 .. n -> S]
  <2>1. turned = [i \in 1 .. n |-> given[n - i + 1]]
    BY <1>4 DEF Reverse
  <2>2. \A i \in 1 .. n : n - i + 1 \in 1 .. n
    BY <1>1
  <2> QED
    BY <1>3, <2>1, <2>2
<1> HIDE DEF turned
<1>6. FlattenSeq(turned) \in Seq(Filters)
  BY <1>1, <1>5, FlattenType DEF S
<1> QED
  BY <1>2, <1>6

SomeFilters == Filters \cup {DefaultFilters[1]}
FilterLists == {f \in Seq(SomeFilters) : Signed(f)}

LEMMA DefaultFiltersType == DefaultFilters \in FilterLists
<1>1. DefaultFilters \in Seq(SomeFilters)
  BY DEF DefaultFilters, SomeFilters
<1>2. Signed(DefaultFilters)
  BY DEF DefaultFilters, Signed
<1> QED
  BY <1>1, <1>2 DEF FilterLists

LEMMA AddedFiltersType ==
  ASSUME NEW list \in FilterLists, NEW more \in Seq(Filters), Signed(more)
  PROVE  AddFilters(list, more) \in FilterLists
<1>1. list \in Seq(SomeFilters) /\ more \in Seq(SomeFilters)
  <2>1. Filters \subseteq SomeFilters
    BY DEF SomeFilters
  <2>2. more \in Seq(SomeFilters)
    BY <2>1, SeqMonotonic
  <2> QED
    BY <2>2 DEF FilterLists
<1> DEFINE both == list \o more
<1>2. /\ both \in Seq(SomeFilters) /\ Len(both) = Len(list) + Len(more)
      /\ \A i \in 1 .. Len(both) :
           both[i] = IF i <= Len(list) THEN list[i] ELSE more[i - Len(list)]
  BY <1>1, ConcatProperties
<1> HIDE DEF both
<1>3. ASSUME NEW i \in DOMAIN both PROVE both[i].sign \in {"+", "-"}
  <2>1. i \in 1 .. Len(both) /\ Len(list) \in Nat /\ Len(more) \in Nat
    BY <1>1, <1>2
  <2>2. CASE i <= Len(list)
    <3>1. i \in DOMAIN list /\ both[i] = list[i]
      BY <1>1, <1>2, <2>1, <2>2
    <3> QED
      BY <3>1 DEF FilterLists, Signed
  <2>3. CASE ~ (i <= Len(list))
    <3>1. i - Len(list) \in DOMAIN more /\ both[i] = more[i - Len(list)]
      BY <1>1, <1>2, <2>1, <2>3
    <3> QED
      BY <3>1 DEF Signed
  <2> QED
    BY <2>2, <2>3
<1>4. both \in FilterLists
  BY <1>2, <1>3 DEF FilterLists, Signed
<1> QED
  BY <1>4 DEF AddFilters, both


(* A report counts the errors it prints, once each.                        *)
LEMMA ReportCounts ==
  ASSUME verdicts = [i \in DOMAIN command.files |-> verdicts[i]], index \in DOMAIN command.files,
         command' = command, NEW A, verdicts[index] \in Seq(A), NEW B, NEW new \in Seq(B),
         Report(new), IsFiniteSet(PrintedErrors), error_count = Cardinality(PrintedErrors)
  PROVE  IsFiniteSet(PrintedErrors') /\ error_count' = Cardinality(PrintedErrors')
<1> DEFINE old == verdicts[index]
           m == Len(old)
           both == old \o new
           K == {k \in DOMAIN new : new[k].printed}
           Q == {<<index, m + k>> : k \in K}
<1>1. /\ m \in Nat /\ Len(new) \in Nat /\ DOMAIN old = 1 .. m /\ DOMAIN new = 1 .. Len(new)
  OBVIOUS
<1>2. /\ DOMAIN both = 1 .. m + Len(new)
      /\ \A k \in 1 .. m : both[k] = old[k]
      /\ \A k \in 1 .. Len(new) : both[m + k] = new[k]
  <2>1. old \in Seq(A \cup B) /\ new \in Seq(A \cup B)
    BY SeqMonotonic
  <2>2. /\ both \in Seq(A \cup B) /\ Len(both) = Len(old) + Len(new)
        /\ \A i \in 1 .. Len(both) :
             both[i] = IF i <= Len(old) THEN old[i] ELSE new[i - Len(old)]
    BY <2>1, ConcatProperties
  <2> HIDE DEF both
  <2>3. DOMAIN both = 1 .. m + Len(new)
    BY <2>2
  <2>4. \A k \in 1 .. m : k \in 1 .. m + Len(new) /\ k <= m
    BY <1>1
  <2>5. \A k \in 1 .. Len(new) : m + k \in 1 .. m + Len(new) /\ ~ (m + k <= m) /\ m + k - m = k
    BY <1>1
  <2>6. \A k \in 1 .. m : both[k] = old[k]
    BY <2>2, <2>4
  <2>7. \A k \in 1 .. Len(new) : both[m + k] = new[k]
    BY <2>2, <2>5
  <2> QED
    BY <2>3, <2>6, <2>7
<1>3. /\ verdicts' = [i \in DOMAIN command'.files |-> verdicts'[i]]
      /\ verdicts'[index] = both
      /\ \A i \in DOMAIN command.files : i # index => verdicts'[i] = verdicts[i]
  BY ReportChangesItsFile
<1> HIDE DEF both
<1>4. DOMAIN verdicts = DOMAIN command.files /\ DOMAIN verdicts' = DOMAIN command.files
  BY <1>3
<1> DEFINE In(x, v) == \E i \in DOMAIN v : \E k \in DOMAIN v[i] : v[i][k].printed /\ x = <<i, k>>
<1>5. \A x : x \in PrintedErrors <=> In(x, verdicts)
  BY DEF PrintedErrors
<1>6. \A x : x \in PrintedErrors' <=> In(x, verdicts')
  BY DEF PrintedErrors
<1>7. ASSUME NEW x PROVE In(x, verdicts') <=> In(x, verdicts) \/ x \in Q
  <2>1. ASSUME In(x, verdicts) PROVE In(x, verdicts')
    <3>0. PICK i \in DOMAIN verdicts :
            \E k \in DOMAIN verdicts[i] : verdicts[i][k].printed /\ x = <<i, k>>
      BY <2>1
    <3>1. PICK k \in DOMAIN verdicts[i] : verdicts[i][k].printed /\ x = <<i, k>>
      BY <3>0
    <3>2. CASE i = index
      <4>1. k \in 1 .. m /\ k \in DOMAIN both /\ both[k] = old[k]
        <5>1. k \in DOMAIN old
          BY <3>1, <3>2
        <5>2. k \in 1 .. m /\ k \in 1 .. m + Len(new)
          <6> HIDE DEF m, old
          <6> QED
            BY <1>1, <5>1
        <5> HIDE DEF m, old
        <5> QED
          BY <1>2, <5>2
      <4> QED
        BY <1>3, <1>4, <3>1, <3>2, <4>1
    <3>3. CASE i # index
      BY <1>3, <1>4, <3>1, <3>3
    <3> QED
      BY <3>2, <3>3
  <2>2. ASSUME x \in Q PROVE In(x, verdicts')
    <3>1. PICK k \in K : x = <<index, m + k>>
      BY <2>2
    <3>2. k \in 1 .. Len(new) /\ new[k].printed
      BY <1>1, <3>1
    <3>3. m + k \in DOMAIN both /\ both[m + k] = new[k]
      BY <1>1, <1>2, <3>2
    <3> QED
      BY <1>3, <1>4, <3>1, <3>2, <3>3
  <2>3. ASSUME In(x, verdicts') PROVE In(x, verdicts) \/ x \in Q
    <3>0. PICK i \in DOMAIN verdicts' :
            \E k \in DOMAIN verdicts'[i] : verdicts'[i][k].printed /\ x = <<i, k>>
      BY <2>3
    <3>1. PICK k \in DOMAIN verdicts'[i] : verdicts'[i][k].printed /\ x = <<i, k>>
      BY <3>0
    <3>2. CASE i # index
      BY <1>3, <1>4, <3>1, <3>2
    <3>3. CASE i = index /\ k \in 1 .. m
      BY <1>1, <1>2, <1>3, <1>4, <3>1, <3>3
    <3>4. CASE i = index /\ k \notin 1 .. m
      <4>1. k \in 1 .. m + Len(new)
        BY <1>2, <1>3, <3>1, <3>4
      <4>2. k - m \in 1 .. Len(new) /\ m + (k - m) = k
        BY <1>1, <3>4, <4>1
      <4>3. both[m + (k - m)] = new[k - m]
        BY <1>2, <4>2
      <4>4. new[k - m].printed
        BY <1>3, <3>1, <3>4, <4>2, <4>3
      <4>5. k - m \in K /\ x = <<index, m + (k - m)>>
        BY <1>1, <3>1, <3>4, <4>2, <4>4
      <4> QED
        BY <4>5
    <3> QED
      BY <3>2, <3>3, <3>4
  <2> QED
    BY <2>1, <2>2, <2>3
<1>8. PrintedErrors' = PrintedErrors \cup Q
  <2> HIDE DEF In, Q
  <2> QED
    BY <1>5, <1>6, <1>7
<1>9. PrintedErrors \cap Q = {}
  <2> SUFFICES ASSUME NEW x \in Q, In(x, verdicts) PROVE FALSE
    BY <1>5
  <2>0. PICK i \in DOMAIN verdicts : \E k \in DOMAIN verdicts[i] : x = <<i, k>>
    OBVIOUS
  <2>1. PICK k \in DOMAIN verdicts[i] : x = <<i, k>>
    BY <2>0
  <2>2. PICK j \in K : x = <<index, m + j>>
    OBVIOUS
  <2>3. i = index /\ k = m + j
    BY <2>1, <2>2
  <2>4. k \in 1 .. m /\ j \in 1 .. Len(new)
    BY <1>1, <2>1, <2>2, <2>3
  <2> QED
    BY <1>1, <2>3, <2>4
<1> HIDE DEF In
<1>10. IsFiniteSet(K) /\ Cardinality(K) \in Nat
  <2>1. K \in SUBSET (1 .. Len(new))
    BY <1>1
  <2>2. IsFiniteSet(1 .. Len(new))
    <3>1. 1 \in Int /\ Len(new) \in Int
      BY <1>1
    <3> QED
      BY <3>1, FS_Interval
  <2> HIDE DEF K
  <2> QED
    BY <2>1, <2>2, FS_Subset, FS_CardinalityType
<1>11. IsFiniteSet(Q) /\ Cardinality(Q) = Cardinality(K)
  <2> DEFINE f == [k \in K |-> <<index, m + k>>]
  <2>1. \A k \in K : k \in Nat
    BY <1>1
  <2>2. f \in [K -> Q] /\ \A q \in Q : \E k \in K : f[k] = q
    OBVIOUS
  <2>3. \A j, k \in K : f[j] = f[k] => j = k
    BY <1>1, <2>1
  <2> HIDE DEF f, K, Q
  <2>4. f \in Bijection(K, Q)
    BY <2>2, <2>3 DEF Bijection, Injection, Surjection, IsInjective
  <2>5. ExistsBijection(K, Q)
    BY <2>4 DEF ExistsBijection
  <2> QED
    BY <1>10, <2>5, FS_Bijection
<1>12. error_count' = error_count + Cardinality(K)
  BY DEF Report
<1> HIDE DEF K, Q
<1>13. /\ IsFiniteSet(PrintedErrors \cup Q)
       /\ Cardinality(PrintedErrors \cup Q) = Cardinality(PrintedErrors) + Cardinality(Q)
  <2>1. /\ IsFiniteSet(PrintedErrors \cup Q)
        /\ Cardinality(PrintedErrors \cup Q)
             = Cardinality(PrintedErrors) + Cardinality(Q) - Cardinality(PrintedErrors \cap Q)
    BY <1>11, FS_Union
  <2>2. Cardinality(PrintedErrors \cap Q) = 0
    BY <1>9, FS_EmptySet
  <2>3. Cardinality(PrintedErrors) \in Nat /\ Cardinality(Q) \in Nat
    BY <1>11, FS_CardinalityType
  <2> QED
    BY <2>1, <2>2, <2>3
<1> QED
  BY <1>8, <1>11, <1>12, <1>13


-----------------------------------------------------------------------------
(* The invariant of a whole run: types, own verdicts, and the count.       *)
InvocationInv ==
  /\ IsList(command.files) /\ command.filters \in Seq(Filters)
  /\ \A i \in DOMAIN command.files : IsFile(command.files[i])
  /\ index \in 1 .. Len(command.files) + 1

CheckersInv ==
  /\ \E text \in Seq(Line) : clean_lines = CleansedLines(text)
  /\ linenum \in 1 .. Len(clean_lines.lines) + 1
  /\ AreCheckers(checks, linenum - 1)

VerdictsInv ==
  /\ verdicts = [i \in DOMAIN command.files |-> verdicts[i]]
  /\ \A i \in DOMAIN command.files : AreOwnVerdicts(verdicts[i], command.files[i])
  /\ IsFiniteSet(PrintedErrors) /\ error_count = Cardinality(PrintedErrors)

RunInv ==
  /\ pc \in {"arguments", "file", "line", "done", "died"} /\ exit \in {0, 1}
  /\ filters \in FilterLists /\ filters_backup \in FilterLists
  /\ InvocationInv /\ CheckersInv /\ VerdictsInv

LEMMA NewNestings ==
  ASSUME NEW T
  PROVE  NewNestingState \in Nestings(T)
<1>1. "none" \in Kinds /\ "" \in Token
  BY DEF Kinds, Token
<1>2. NoBlock \in Blocks(T)
  BY <1>1, BlockType DEF NoBlock
<1>3. <<>> \in Stacks(T) /\ <<>> \in Seq(Branches(T))
  BY DEF Stacks
<1> QED
  BY <1>2, <1>3 DEF NewNestingState, Nestings

LEMMA NewCheckers ==
  ASSUME NEW known
  PROVE  AreCheckers([nesting |-> NewNestingState, function |-> NewFunctionState,
                      include |-> NewIncludeState, known |-> known], 0)
<1>1. NewNestingState \in Nestings(Token)
  BY NewNestings
<1>2. NewFunctionState \in Functions(0)
  BY DEF NewFunctionState, Functions, Token
<1>3. NewIncludeState \in IncludeStates({{}}, {0})
  BY DEF NewIncludeState, IncludeStates, InitialSection
<1>4. IsIncludeState(NewIncludeState)
  BY <1>3 DEF IsIncludeState
<1> QED
  BY <1>1, <1>2, <1>4 DEF AreCheckers

LEMMA FileType ==
  ASSUME NEW f, IsFile(f)
  PROVE  f.text \in Seq(Line) /\ ConfigFilters(f.configs) \in Seq(Filters)
<1>1. STRING \subseteq Token
  BY DEF Token
<1>2. Seq(STRING) \subseteq Line
  BY <1>1, SeqMonotonic DEF Line
<1>3. Seq(Seq(STRING)) \subseteq Seq(Line)
  BY <1>2, SeqMonotonic
<1> QED
  BY <1>3, ConfigFiltersType DEF IsFile

LEMMA VerdictsStayOwn ==
  ASSUME command' = command, NEW i, AreOwnVerdicts(verdicts'[i], command.files[i])
  PROVE  AreOwnVerdicts(verdicts[i], command.files[i])'
BY DEF AreOwnVerdicts, OwnVerdicts, OwnVerdict, IsWanted

LEMMA InitRunInv == Init => RunInv
<1> SUFFICES ASSUME Init PROVE RunInv
  OBVIOUS
<1>1. /\ pc = "arguments" /\ index = 1 /\ linenum = 1 /\ exit = 0 /\ error_count = 0
      /\ clean_lines = CleansedLines(<<>>)
      /\ filters = DefaultFilters /\ filters_backup = DefaultFilters
      /\ verdicts = [i \in DOMAIN command.files |-> <<>>]
  BY DEF Init
<1>2. /\ IsList(command.files) /\ command.filters \in Seq(Filters)
      /\ \A i \in DOMAIN command.files : IsFile(command.files[i])
  BY InvocationsAssumption DEF Init
<1>3. index \in 1 .. Len(command.files) + 1
  BY <1>1, <1>2 DEF IsList
<1>4. /\ \E text \in Seq(Line) : clean_lines = CleansedLines(text)
      /\ linenum \in 1 .. Len(clean_lines.lines) + 1
  <2>1. <<>> \in Seq(Line) /\ Len(<<>>) = 0
    OBVIOUS
  <2>2. \E text \in Seq(Line) : clean_lines = CleansedLines(text)
    BY <1>1, <2>1
  <2>3. Len(clean_lines.lines) = 0
    BY <1>1, <2>1, CleansedType
  <2>4. linenum \in 1 .. Len(clean_lines.lines) + 1
    BY <1>1, <2>3
  <2> QED
    BY <2>2, <2>4
<1>5. AreCheckers(checks, linenum - 1)
  <2>1. linenum - 1 = 0
    BY <1>1
  <2>2. checks = [nesting |-> NewNestingState, function |-> NewFunctionState,
                  include |-> NewIncludeState, known |-> suppressions]
    BY DEF Init, checks
  <2> QED
    BY <2>1, <2>2, NewCheckers
<1>6. verdicts = [i \in DOMAIN command.files |-> verdicts[i]]
  BY <1>1
<1>7. \A i \in DOMAIN command.files : AreOwnVerdicts(verdicts[i], command.files[i])
  BY <1>1, NoVerdicts
<1>8. PrintedErrors = {}
  BY <1>1 DEF PrintedErrors
<1>9. IsFiniteSet(PrintedErrors) /\ error_count = Cardinality(PrintedErrors)
  BY <1>1, <1>8, FS_EmptySet
<1> QED
  BY <1>1, <1>2, <1>3, <1>4, <1>5, <1>6, <1>7, <1>9, DefaultFiltersType
     DEF RunInv, InvocationInv, CheckersInv, VerdictsInv

(* The steps that judge nothing.                                           *)
LEMMA QuietStepKeepsRunInv ==
  ASSUME RunInv, UNCHANGED <<command, state, error_count, verdicts>>,
         pc' \in {"arguments", "file", "line", "done", "died"},
         index' \in 1 .. Len(command.files) + 1,
         filters' \in FilterLists, filters_backup' \in FilterLists, exit' \in {0, 1}
  PROVE  RunInv'
<1>1. /\ clean_lines' = clean_lines /\ linenum' = linenum /\ checks' = checks
      /\ command' = command /\ verdicts' = verdicts /\ error_count' = error_count
  BY DEF state, checks
<1>2. PrintedErrors' = PrintedErrors
  BY <1>1 DEF PrintedErrors
<1>3. InvocationInv'
  BY <1>1 DEF RunInv, InvocationInv
<1>4. CheckersInv'
  BY <1>1 DEF RunInv, CheckersInv
<1>5. \A i \in DOMAIN command.files : AreOwnVerdicts(verdicts[i], command.files[i])'
  BY <1>1, VerdictsStayOwn DEF RunInv, VerdictsInv
<1>6. VerdictsInv'
  BY <1>1, <1>2, <1>5 DEF RunInv, VerdictsInv
<1> QED
  BY <1>3, <1>4, <1>6 DEF RunInv

(* The steps that report on the file that is looked at.                    *)
LEMMA ReportKeepsRunInv ==
  ASSUME RunInv, HasFile, command' = command, exit' = exit,
         NEW new, AreOwnVerdicts(new, File), Report(new),
         pc' \in {"arguments", "file", "line", "done", "died"},
         index' \in 1 .. Len(command.files) + 1,
         filters' \in FilterLists, filters_backup' \in FilterLists,
         \E text \in Seq(Line) : clean_lines' = CleansedLines(text),
         linenum' \in 1 .. Len(clean_lines'.lines) + 1,
         AreCheckers(checks', linenum' - 1)
  PROVE  RunInv'
<1>1. index \in DOMAIN command.files
  BY DEF RunInv, InvocationInv, HasFile, IsList
<1>2. verdicts = [i \in DOMAIN command.files |-> verdicts[i]]
  BY DEF RunInv, VerdictsInv
<1>3. PICK L : verdicts[index] \in Seq(OwnVerdicts(File, L))
  BY <1>1 DEF RunInv, VerdictsInv, AreOwnVerdicts, File
<1>4. PICK M : new \in Seq(OwnVerdicts(File, M))
  BY DEF AreOwnVerdicts
<1>5. /\ verdicts' = [i \in DOMAIN command'.files |-> verdicts'[i]]
      /\ verdicts'[index] = verdicts[index] \o new
      /\ \A i \in DOMAIN command.files : i # index => verdicts'[i] = verdicts[i]
  BY <1>1, <1>2, ReportChangesItsFile
<1>6. IsFiniteSet(PrintedErrors') /\ error_count' = Cardinality(PrintedErrors')
  BY <1>1, <1>2, <1>3, <1>4, ReportCounts DEF RunInv, VerdictsInv
<1>7. ASSUME NEW i \in DOMAIN command.files PROVE AreOwnVerdicts(verdicts[i], command.files[i])'
  <2>1. CASE i = index
    <3>1. AreOwnVerdicts(verdicts[index], File)
      BY <1>1 DEF RunInv, VerdictsInv, File
    <3>2. AreOwnVerdicts(verdicts[index] \o new, File)
      BY <3>1, MoreVerdicts
    <3> QED
      BY <1>5, <2>1, <3>2, VerdictsStayOwn DEF File
  <2>2. CASE i # index
    BY <1>5, <2>2, VerdictsStayOwn DEF RunInv, VerdictsInv
  <2> QED
    BY <2>1, <2>2
<1>8. InvocationInv'
  BY DEF RunInv, InvocationInv
<1>9. CheckersInv'
  BY DEF CheckersInv
<1>10. VerdictsInv'
  BY <1>5, <1>6, <1>7 DEF VerdictsInv
<1> QED
  BY <1>8, <1>9, <1>10 DEF RunInv


(* What is known while a file is open.                                     *)
LEMMA OpenFile ==
  ASSUME IInv, RunInv, HasFile
  PROVE  /\ index \in DOMAIN command.files /\ IsFile(File)
         /\ File.text \in Seq(Line) /\ IsList(File.text)
         /\ RemoveMultiLineComments(File.text) \in Seq(Line)
         /\ Len(RemoveMultiLineComments(File.text)) = Len(File.text)
         /\ ConfigFilters(File.configs) \in Seq(Filters)
         /\ index' = index \/ index' = index + 1 => index' \in 1 .. Len(command.files) + 1
<1>1. /\ index \in 1 .. Len(command.files) /\ index \in DOMAIN command.files
      /\ Len(command.files) \in Nat
  BY DEF RunInv, InvocationInv, HasFile, IsList
<1>2. IsFile(File)
  BY <1>1 DEF RunInv, InvocationInv, File
<1>3. File.text \in Seq(Line) /\ ConfigFilters(File.configs) \in Seq(Filters)
  BY <1>2, FileType
<1>4. IsList(File.text)
  BY <1>3 DEF IsList
<1>5. /\ RemoveMultiLineComments(File.text) \in Seq(Line)
      /\ Len(RemoveMultiLineComments(File.text)) = Len(File.text)
  BY <1>3, RemoveType
<1>6. index' = index \/ index' = index + 1 => index' \in 1 .. Len(command.files) + 1
  BY <1>1
<1> QED
  BY <1>1, <1>2, <1>3, <1>4, <1>5, <1>6

LEMMA StartFileKeepsRunInv ==
  ASSUME IInv, RunInv, StartFile
  PROVE  RunInv'
<1> DEFINE added == AddFilters(filters, ConfigFilters(File.configs))
           start == Started(File, added, NewOptions)
           text == RemoveMultiLineComments(File.text)
<1>1. /\ pc = "file" /\ HasFile /\ Signed(ConfigFilters(File.configs))
      /\ filters_backup' = filters /\ filters' = added
      /\ Report(start.new)
      /\ suppressions' = start.known
      /\ clean_lines' = CleansedLines(text) /\ linenum' = 1
      /\ nesting_state' = NewNestingState /\ function_state' = NewFunctionState
      /\ include_state' = NewIncludeState
      /\ pc' = "line" /\ command' = command /\ index' = index /\ exit' = exit
  BY DEF StartFile, IsOpened
<1>2. /\ File.text \in Seq(Line) /\ text \in Seq(Line)
      /\ ConfigFilters(File.configs) \in Seq(Filters)
      /\ index' \in 1 .. Len(command.files) + 1
  BY <1>1, OpenFile
<1>3. added = FiltersOn(File)
  BY <1>1 DEF IInv, FiltersAreOwn, AddFilters, FiltersOn
<1>4. filters' \in FilterLists /\ filters_backup' \in FilterLists
  BY <1>1, <1>2, AddedFiltersType DEF RunInv
<1> HIDE DEF added
<1>5. AreOwnVerdicts(start.new, File)
  BY <1>2, <1>3, StartVerdictsAreOwn
<1> HIDE DEF start, text
<1>6. \E t \in Seq(Line) : clean_lines' = CleansedLines(t)
  BY <1>1, <1>2
<1>7. linenum' \in 1 .. Len(clean_lines'.lines) + 1
  <2>1. Len(clean_lines'.lines) \in Nat
    BY <1>1, <1>2, CleansedType
  <2> QED
    BY <1>1, <2>1
<1>8. AreCheckers(checks', linenum' - 1)
  <2>1. checks' = [nesting |-> NewNestingState, function |-> NewFunctionState,
                   include |-> NewIncludeState, known |-> start.known]
    BY <1>1 DEF checks
  <2>2. linenum' - 1 = 0
    BY <1>1
  <2> QED
    BY <2>1, <2>2, NewCheckers
<1> QED
  BY <1>1, <1>2, <1>4, <1>5, <1>6, <1>7, <1>8, ReportKeepsRunInv

LEMMA ProcessLineKeepsRunInv ==
  ASSUME IInv, RunInv, ProcessLine
  PROVE  RunInv'
<1> DEFINE line == LineProcessed(File, clean_lines, linenum, checks, filters, options)
           text == RemoveMultiLineComments(File.text)
<1>1. /\ pc = "line" /\ linenum <= Len(clean_lines.lines)
      /\ suppressions' = line.checks.known /\ nesting_state' = line.checks.nesting
      /\ function_state' = line.checks.function /\ include_state' = line.checks.include
      /\ Report(line.new)
      /\ linenum' = linenum + 1
      /\ pc' = pc /\ command' = command /\ index' = index /\ clean_lines' = clean_lines
      /\ filters' = filters /\ filters_backup' = filters_backup /\ exit' = exit
  BY DEF ProcessLine, Becomes
<1>2. /\ HasFile /\ clean_lines = CleansedLines(text) /\ filters = FiltersOn(File)
  BY <1>1 DEF IInv, FiltersAreOwn, AddFilters, FiltersOn
<1>3. /\ text \in Seq(Line) /\ IsList(File.text) /\ index' \in 1 .. Len(command.files) + 1
  BY <1>1, <1>2, OpenFile
<1> HIDE DEF text
<1>4. /\ Len(clean_lines.lines) = Len(text) /\ Len(text) \in Nat
  BY <1>2, <1>3, CleansedType
<1>5. linenum \in 1 .. Len(text) /\ linenum \in Nat /\ linenum - 1 \in Nat
  BY <1>1, <1>4 DEF RunInv, CheckersInv
<1>6. AreCheckers(checks, linenum - 1)
  BY DEF RunInv, CheckersInv
<1>7. checks' = [nesting |-> line.checks.nesting, function |-> line.checks.function,
                 include |-> line.checks.include, known |-> line.checks.known]
  BY <1>1 DEF checks
<1>8. line.checks = checks'
  <2>1. line.checks = [nesting |-> line.checks.nesting, function |-> line.checks.function,
                       include |-> line.checks.include, known |-> line.checks.known]
    BY DEF LineProcessed
  <2> QED
    BY <1>7, <2>1
<1>9. /\ AreCheckers(line.checks, linenum - 1 + 1)
      /\ \E errors \in Seq(Problems(0 .. linenum)) :
           line.new = Judged(line.checks.known, filters, errors)
  BY <1>2, <1>3, <1>5, <1>6, LineType
<1> HIDE DEF line
<1>10. AreOwn(suppressions', File, linenum)
  <2>1. SuppressionsAreOwn' /\ pc' = "line"
    BY <1>1, ProcessLineKeepsIInv DEF IInv
  <2>2. File' = File /\ linenum' - 1 = linenum
    BY <1>1, <1>5 DEF File
  <2> QED
    BY <2>1, <2>2 DEF SuppressionsAreOwn
<1>11. AreOwnVerdicts(line.new, File)
  BY <1>1, <1>2, <1>3, <1>5, <1>9, <1>10, LineVerdictsAreOwn
<1>12. AreCheckers(checks', linenum' - 1)
  <2>1. linenum' - 1 = linenum - 1 + 1
    BY <1>1, <1>5
  <2> QED
    BY <1>8, <1>9, <2>1
<1>13. \E t \in Seq(Line) : clean_lines' = CleansedLines(t)
  BY <1>1, <1>2, <1>3
<1>14. linenum' \in 1 .. Len(clean_lines'.lines) + 1
  BY <1>1, <1>4, <1>5
<1>15. filters' \in FilterLists /\ filters_backup' \in FilterLists
  BY <1>1 DEF RunInv
<1> QED
  BY <1>1, <1>2, <1>3, <1>11, <1>12, <1>13, <1>14, <1>15, ReportKeepsRunInv DEF RunInv

LEMMA EndFileKeepsRunInv ==
  ASSUME IInv, RunInv, EndFile
  PROVE  RunInv'
<1> DEFINE ended == Ended(File, clean_lines, checks, filters, options)
           text == RemoveMultiLineComments(File.text)
<1>1. /\ pc = "line" /\ linenum > Len(clean_lines.lines) /\ Report(ended)
      /\ filters' = filters_backup /\ filters_backup' = filters_backup
      /\ index' = index + 1 /\ pc' = "file" /\ command' = command /\ exit' = exit
      /\ clean_lines' = clean_lines /\ linenum' = linenum /\ checks' = checks
  BY DEF EndFile, NextFile, Restored, state, checks
<1>2. /\ HasFile /\ clean_lines = CleansedLines(text) /\ filters = FiltersOn(File)
      /\ AreOwn(suppressions, File, linenum - 1)
  BY <1>1 DEF IInv, FiltersAreOwn, AddFilters, FiltersOn, SuppressionsAreOwn
<1>3. /\ text \in Seq(Line) /\ Len(text) = Len(File.text) /\ File.text \in Seq(Line)
      /\ IsList(File.text) /\ index' \in 1 .. Len(command.files) + 1
  BY <1>1, <1>2, OpenFile
<1> HIDE DEF text
<1>4. /\ Len(clean_lines.lines) = Len(text) /\ Len(text) \in Nat
  BY <1>2, <1>3, CleansedType
<1>5. linenum - 1 \in Nat /\ Len(File.text) <= linenum - 1
  BY <1>1, <1>3, <1>4 DEF RunInv, CheckersInv
<1>6. AreCheckers(checks, linenum - 1) /\ checks.known = suppressions
  BY DEF RunInv, CheckersInv, checks
<1>7. JudgesProblems(ended, checks.known, filters)
  BY <1>2, <1>3, <1>5, <1>6, EndType
<1> HIDE DEF ended
<1>8. AreOwnVerdicts(ended, File)
  BY <1>2, <1>3, <1>5, <1>6, <1>7, LastVerdictsAreOwn DEF JudgesProblems
<1>9. CheckersInv'
  BY <1>1 DEF RunInv, CheckersInv
<1>10. filters' \in FilterLists /\ filters_backup' \in FilterLists
  BY <1>1 DEF RunInv
<1> QED
  BY <1>1, <1>2, <1>3, <1>8, <1>9, <1>10, ReportKeepsRunInv DEF RunInv, CheckersInv

LEMMA NextRunInv == IInv /\ RunInv /\ [Next]_vars => RunInv'
<1> SUFFICES ASSUME IInv, RunInv, [Next]_vars PROVE RunInv'
  OBVIOUS
<1> DEFINE Places == {"arguments", "file", "line", "done", "died"}
           Indexes == 1 .. Len(command.files) + 1
<1>0. /\ pc \in Places /\ exit \in {0, 1} /\ index \in Indexes
      /\ filters \in FilterLists /\ filters_backup \in FilterLists
  BY DEF RunInv, InvocationInv
<1>1. CASE ParseArguments
  <2>1. /\ pc = "arguments" /\ pc' = "file" /\ Signed(command.filters)
        /\ filters' = AddFilters(DefaultFilters, command.filters)
        /\ UNCHANGED <<command, state, error_count, verdicts>>
        /\ index' = index /\ filters_backup' = filters_backup /\ exit' = exit
    BY <1>1 DEF ParseArguments
  <2>2. filters' \in FilterLists
    BY <2>1, DefaultFiltersType, AddedFiltersType DEF RunInv, InvocationInv
  <2> QED
    BY <1>0, <2>1, <2>2, QuietStepKeepsRunInv
<1>2. CASE NoFiles \/ DieOfFilter \/ DieOfConfig \/ Exit
  <2>1. /\ pc' \in {"done", "died"} /\ exit' \in {exit, 0, 1}
        /\ UNCHANGED <<command, state, error_count, verdicts>>
        /\ index' = index /\ filters' = filters /\ filters_backup' = filters_backup
    BY <1>2 DEF NoFiles, DieOfFilter, DieOfConfig, Exit
  <2> QED
    BY <1>0, <2>1, QuietStepKeepsRunInv
<1>3. CASE ExcludeFile \/ SkipFile
  <2>1. /\ pc' = pc /\ HasFile
        /\ UNCHANGED <<command, state, error_count, verdicts>>
        /\ index' = index + 1 /\ exit' = exit
        /\ filters_backup' = filters /\ filters' = filters
    BY <1>3 DEF ExcludeFile, SkipFile, IsOpened
  <2>2. index' \in Indexes
    BY <2>1, OpenFile
  <2> QED
    BY <1>0, <2>1, <2>2, QuietStepKeepsRunInv
<1>4. CASE StartFile
  BY <1>4, StartFileKeepsRunInv
<1>5. CASE ProcessLine
  BY <1>5, ProcessLineKeepsRunInv
<1>6. CASE EndFile
  BY <1>6, EndFileKeepsRunInv
<1>7. CASE UNCHANGED vars
  <2>1. /\ pc' = pc /\ exit' = exit /\ index' = index
        /\ UNCHANGED <<command, state, error_count, verdicts>>
        /\ filters' = filters /\ filters_backup' = filters_backup
    BY <1>7 DEF vars
  <2> QED
    BY <1>0, <2>1, QuietStepKeepsRunInv
<1> QED
  BY <1>1, <1>2, <1>3, <1>4, <1>5, <1>6, <1>7 DEF Next

(* Every moment of a run has the shape the code relies on: whatever is in  *)
(* the files, PopBlock, UpdatePreprocessor and ResetSection never ask for  *)
(* the top of an empty list, every filter has the sign AddFilters asks for *)
(* (cpplint.py:935), a function counts no more lines than were looked at,  *)
(* and error_count is the number of printed errors, each counted once      *)
(* (cpplint.py:963).                                                       *)
THEOREM TypeCorrect == Spec => []TypeOK
<1>1. RunInv => TypeOK
  <2> SUFFICES ASSUME RunInv PROVE TypeOK
    OBVIOUS
  <2>1. PICK text \in Seq(Line) : clean_lines = CleansedLines(text)
    BY DEF RunInv, CheckersInv
  <2>2. Len(clean_lines.lines) \in Nat /\ linenum \in 1 .. Len(clean_lines.lines) + 1
    BY <2>1, CleansedType DEF RunInv, CheckersInv
  <2>3. /\ nesting_state \in Nestings(Token) /\ function_state \in Functions(linenum - 1)
        /\ IsIncludeState(include_state)
    BY DEF RunInv, CheckersInv, AreCheckers, checks
  <2>4. \A i \in DOMAIN nesting_state.stack : nesting_state.stack[i].inline_asm \in AsmStates
    <3>1. nesting_state.stack \in Seq(Blocks(Token))
      BY <2>3 DEF Nestings, Stacks
    <3> DEFINE s == nesting_state.stack
    <3>2. \A i \in DOMAIN s : s[i] \in Blocks(Token)
      BY <3>1
    <3> QED
      BY <3>2, AsmType DEF Blocks
  <2>5. /\ include_state.include_list # <<>>
        /\ include_state.section \in InitialSection .. OtherHSection
    <3>1. PICK A, H : include_state \in IncludeStates(A, H)
      BY <2>3 DEF IsIncludeState
    <3> QED
      BY <3>1 DEF IncludeStates, InitialSection, OtherHSection
  <2>6. function_state.lines_in_function \in 0 .. Len(clean_lines.lines)
    <3>1. function_state.lines_in_function \in 0 .. linenum - 1
      BY <2>3 DEF Functions
    <3> QED
      BY <2>2, <3>1
  <2>7. Signed(filters) /\ Signed(filters_backup)
    BY DEF RunInv, FilterLists
  <2>8. error_count = Cardinality(PrintedErrors)
    BY DEF RunInv, VerdictsInv
  <2> QED
    BY <2>2, <2>4, <2>5, <2>6, <2>7, <2>8 DEF TypeOK, RunInv, InvocationInv
<1> QED
  BY <1>1, InitIInv, NextIInv, InitRunInv, NextRunInv, PTL DEF Spec

(* An error is printed just when the command line, the configurations      *)
(* above the file and the NOLINT comments of the file itself say so, in    *)
(* every file and at every moment: the suppressions and filters a verdict  *)
(* was passed under were that file's own (cpplint.py:1410, 6333, 6382).    *)
THEOREM AllVerdictsAreOwn == Spec => []VerdictsAreOwn
<1>1. IInv /\ RunInv => VerdictsAreOwn
  <2> SUFFICES ASSUME IInv, RunInv PROVE VerdictsAreOwn
    OBVIOUS
  <2>1. FiltersAreOwn /\ SuppressionsAreOwn
    BY DEF IInv
  <2>2. ASSUME NEW i \in DOMAIN verdicts, NEW k \in DOMAIN verdicts[i]
        PROVE  OwnVerdict(verdicts[i][k], command.files[i])
    <3>1. AreOwnVerdicts(verdicts[i], command.files[i])
      BY DEF RunInv, VerdictsInv
    <3>2. PICK L : verdicts[i] \in Seq(OwnVerdicts(command.files[i], L))
      BY <3>1 DEF AreOwnVerdicts
    <3>3. verdicts[i][k] \in OwnVerdicts(command.files[i], L)
      BY <3>2
    <3> QED
      BY <3>3 DEF OwnVerdicts
  <2> QED
    BY <2>1, <2>2 DEF VerdictsAreOwn, OwnVerdict
<1> QED
  BY <1>1, InitIInv, NextIInv, InitRunInv, NextRunInv, PTL DEF Spec

-----------------------------------------------------------------------------
(* Function lengths.  The heads and the closing braces of the lines up to  *)
(* n, the head that no other of them is behind, and the code behind it.    *)
Heads(lines, n) ==
  {h \in 1 .. n : /\ StartsFunction(lines[h]) /\ BodyLine(lines, h) # 0
                  /\ HasBody(lines[BodyLine(lines, h)])}
Closes(line) == line = <<"}">>
Ends(lines, n) == {i \in 1 .. n : Closes(lines[i])}
Inside(lines, n) ==
  {h \in Heads(lines, n) : \A i \in Heads(lines, n) \cup Ends(lines, n) : i <= h}
Body(lines, h, n) ==
  {i \in h + 1 .. n : ~IsBlankLine(lines[i]) /\ ~StartsFunction(lines[i])}

\* The state of the counter behind line n.
Counted(function, lines, n) ==
  /\ function.in_a_function <=> Inside(lines, n) # {}
  /\ \A h \in Inside(lines, n) :
       /\ function.lines_in_function = Cardinality(Body(lines, h, n))
       /\ function.current_function = FunctionName(lines[h])

\* Line e closes a function that is too long.
IsLong(lines, e) ==
  \E h \in Inside(lines, e - 1) :
    Cardinality(Body(lines, h, e - 1))
      > (IF FunctionName(lines[h]) = "TEST" THEN TestTrigger ELSE NormalTrigger)
          * 2 ^ VerboseLevel

\* There is an error of a function's length on line e.
IsSize(error, e) == error.category = <<"readability", "fn_size">> /\ error.linenum = e
HasSize(errors, e) == \E k \in DOMAIN errors : IsSize(errors[k], e)

LEMMA BraceStartsNothing == ~StartsFunction(<<"}">>)
<1>1. PICK line, open : line = <<"}">> /\ open = "("
  OBVIOUS
<1>2. line[1] # open /\ Len(line) = 1
  <2>1. line[1] = "}" /\ "}" # "("
    BY <1>1, Zenon
  <2>2. Len(line) = 1
    BY <1>1
  <2> QED
    BY <1>1, <2>1, <2>2, Zenon
<1> DEFINE p == SelectInSeq(line, LAMBDA t : t = "(")
<1>3. p = PlaceOf(open, line)
  BY <1>1, Zenon DEF SelectInSeq, PlaceOf
<1>4. ~(p > 1) => FunctionName(line) = ""
  BY Zenon DEF FunctionName
<1> HIDE DEF p
<1>5. p = 0
  <2> DEFINE S == {i \in 1 .. Len(line) : line[i] = open}
  <2>1. S = {}
    BY <1>2
  <2>2. PlaceOf(open, line) = IF S # {} THEN Min(S) ELSE 0
    BY DEF PlaceOf
  <2> HIDE DEF S
  <2> QED
    BY <1>3, <2>1, <2>2
<1>6. ~(p > 1)
  BY <1>5
<1> QED
  BY <1>1, <1>4, <1>6, Zenon DEF StartsFunction

\* One more line: what it adds to the heads, the braces and the code.
LEMMA MarksGrow ==
  ASSUME NEW lines, NEW n \in Nat \ {0}
  PROVE  /\ n \notin Heads(lines, n) => Heads(lines, n) = Heads(lines, n - 1)
         /\ ~Closes(lines[n]) => Ends(lines, n) = Ends(lines, n - 1)
<1>1. 1 .. n = (1 .. n - 1) \cup {n}
  OBVIOUS
<1>2. ASSUME n \notin Heads(lines, n) PROVE Heads(lines, n) = Heads(lines, n - 1)
  BY <1>1, <1>2 DEF Heads
<1>3. ASSUME ~Closes(lines[n]) PROVE Ends(lines, n) = Ends(lines, n - 1)
  BY <1>1, <1>3 DEF Ends
<1> QED
  BY <1>2, <1>3

LEMMA BodyGrows ==
  ASSUME NEW lines, NEW n \in Nat \ {0}, NEW h \in 1 .. n - 1
  PROVE  Cardinality(Body(lines, h, n)) =
           IF ~IsBlankLine(lines[n]) /\ ~StartsFunction(lines[n])
           THEN Cardinality(Body(lines, h, n - 1)) + 1 ELSE Cardinality(Body(lines, h, n - 1))
<1> DEFINE before == Body(lines, h, n - 1)
           counts == ~IsBlankLine(lines[n]) /\ ~StartsFunction(lines[n])
<1>1. Body(lines, h, n) = IF counts THEN before \cup {n} ELSE before
  <2>1. h + 1 .. n = (h + 1 .. n - 1) \cup {n}
    OBVIOUS
  <2> QED
    BY <2>1 DEF Body
<1>2. before \in SUBSET (h + 1 .. n - 1)
  BY DEF Body
<1>3. IsFiniteSet(h + 1 .. n - 1)
  BY FS_Interval
<1> HIDE DEF before, counts
<1>4. IsFiniteSet(before) /\ n \notin before
  <2>1. n \notin h + 1 .. n - 1
    OBVIOUS
  <2> QED
    BY <1>2, <1>3, <2>1, FS_Subset
<1>5. Cardinality(before \cup {n}) = Cardinality(before) + 1
  BY <1>4, FS_AddElement
<1> QED
  BY <1>1, <1>5 DEF before, counts

LEMMA CountedStep ==
  ASSUME NEW m \in Nat, NEW function \in Functions(m), NEW lines, NEW n \in Nat \ {0},
         Counted(function, lines, n - 1), NEW after,
         after = CheckForFunctionLengths(function, lines, n, VerboseLevel)
  PROVE  Counted(after.function, lines, n)
<1> DEFINE line == lines[n]
           starts == StartsFunction(line)
           isHead == n \in Heads(lines, n)
           old == Inside(lines, n - 1)
           new == Inside(lines, n)
<1>1. isHead <=> starts /\ BodyLine(lines, n) # 0 /\ HasBody(lines[BodyLine(lines, n)])
  BY DEF Heads
<1>2. Closes(line) => ~starts
  BY BraceStartsNothing, Zenon DEF Closes
<1>3. /\ Heads(lines, n - 1) \in SUBSET (1 .. n - 1) /\ Ends(lines, n - 1) \in SUBSET (1 .. n - 1)
      /\ old \in SUBSET (1 .. n - 1)
  BY DEF Heads, Ends, Inside
<1>4. /\ isHead => after.function = Begin(FunctionName(line))
      /\ Closes(line) => after.function = End(function)
      /\ ~starts /\ ~Closes(line) /\ ~IsBlankLine(line) => after.function = CountLine(function)
      /\ ~isHead /\ ~Closes(line) /\ (starts \/ IsBlankLine(line)) => after.function = function
  BY <1>1, <1>2, Zenon DEF CheckForFunctionLengths, Closes
<1> HIDE DEF isHead
<1>5. CASE isHead
  <2>1. /\ n \in Heads(lines, n)
        /\ \A i \in Heads(lines, n) \cup Ends(lines, n) : i \in 1 .. n
    BY <1>5 DEF isHead, Heads, Ends
  <2>2. new = {n}
    BY <2>1 DEF Inside
  <2>3. Body(lines, n, n) = {}
    BY DEF Body
  <2>4. Cardinality(Body(lines, n, n)) = 0
    BY <2>3, FS_EmptySet
  <2>5. after.function = Begin(FunctionName(line))
    BY <1>4, <1>5
  <2> QED
    BY <2>2, <2>4, <2>5 DEF Counted, Begin
<1>6. CASE Closes(line)
  <2>1. ~isHead
    BY <1>1, <1>2, <1>6
  <2>2. Heads(lines, n) = Heads(lines, n - 1)
    BY <2>1, MarksGrow DEF isHead
  <2>3. n \in Ends(lines, n)
    BY <1>6 DEF Ends
  <2>4. new = {}
    BY <1>3, <2>2, <2>3 DEF Inside
  <2>5. after.function = End(function)
    BY <1>4, <1>6
  <2>6. after.function.in_a_function = FALSE
    BY <2>5 DEF End, Functions
  <2> QED
    BY <2>4, <2>6 DEF Counted
<1>7. CASE ~isHead /\ ~Closes(line)
  <2>1. Heads(lines, n) = Heads(lines, n - 1) /\ Ends(lines, n) = Ends(lines, n - 1)
    BY <1>7, MarksGrow DEF isHead
  <2>2. new = old
    BY <2>1 DEF Inside
  <2>3. \A h \in old : Cardinality(Body(lines, h, n)) =
          IF ~IsBlankLine(line) /\ ~starts
          THEN Cardinality(Body(lines, h, n - 1)) + 1 ELSE Cardinality(Body(lines, h, n - 1))
    BY <1>3, BodyGrows
  <2>4. /\ function.in_a_function <=> old # {}
        /\ \A h \in old : /\ function.lines_in_function = Cardinality(Body(lines, h, n - 1))
                          /\ function.current_function = FunctionName(lines[h])
    BY DEF Counted
  <2>5. CASE ~starts /\ ~IsBlankLine(line)
    <3>1. after.function = CountLine(function)
      BY <1>4, <1>7, <2>5
    <3>2. /\ after.function.in_a_function = function.in_a_function
          /\ after.function.current_function = function.current_function
          /\ function.in_a_function =>
               after.function.lines_in_function = function.lines_in_function + 1
      BY <3>1 DEF CountLine, Functions
    <3> HIDE DEF old, new
    <3> QED
      BY <2>2, <2>3, <2>4, <2>5, <3>2 DEF Counted, new
  <2>6. CASE starts \/ IsBlankLine(line)
    <3>1. after.function = function
      BY <1>4, <1>7, <2>6
    <3> HIDE DEF old
    <3> QED
      BY <2>2, <2>3, <2>4, <2>6, <3>1 DEF Counted
  <2> QED
    BY <2>5, <2>6
<1> QED
  BY <1>5, <1>6, <1>7

(* The errors of that step: of the line itself, and at a closing brace one *)
(* just when the function is too long.                                     *)
LEMMA SizeErrors ==
  ASSUME NEW m \in Nat, NEW function \in Functions(m), NEW lines, NEW n \in Nat \ {0},
         Counted(function, lines, n - 1), NEW errors,
         errors = CheckForFunctionLengths(function, lines, n, VerboseLevel).errors
  PROVE  /\ \A e : HasSize(errors, e) => e = n
         /\ Closes(lines[n]) => (HasSize(errors, n) <=> IsLong(lines, n))
<1> DEFINE base == IF function.current_function = "TEST" THEN TestTrigger ELSE NormalTrigger
           error(k) == [linenum |-> n, category |-> <<"readability", "fn_size">>,
                        confidence |-> k]
           long == /\ function.in_a_function
                   /\ function.lines_in_function > base * 2 ^ VerboseLevel
           level == ErrorLevel(function.lines_in_function, base)
<1>1. errors \in {<<>>, <<error(5)>>, <<error(level)>>}
  BY DEF CheckForFunctionLengths, Check
<1>2. \A e : HasSize(errors, e) => e = n
  <2> SUFFICES ASSUME NEW e, NEW k \in DOMAIN errors, errors[k].linenum = e PROVE e = n
    BY DEF HasSize, IsSize
  <2>1. \A j : error(j).linenum = n
    OBVIOUS
  <2> HIDE DEF error, level
  <2> QED
    BY <1>1, <2>1
<1>3. ASSUME Closes(lines[n]) PROVE HasSize(errors, n) <=> IsLong(lines, n)
  <2>1. errors = IF long THEN <<error(level)>> ELSE <<>>
    BY <1>3, BraceStartsNothing, Zenon DEF CheckForFunctionLengths, Check, Closes
  <2>2. HasSize(<<error(level)>>, n) /\ ~HasSize(<<>>, n)
    <3>1. error(level).category = <<"readability", "fn_size">> /\ error(level).linenum = n
      OBVIOUS
    <3> HIDE DEF error
    <3> QED
      BY <3>1 DEF HasSize, IsSize
  <2>3. HasSize(errors, n) <=> long
    <3> HIDE DEF error, long, level
    <3> QED
      BY <2>1, <2>2
  <2>4. /\ function.in_a_function <=> Inside(lines, n - 1) # {}
        /\ \A h \in Inside(lines, n - 1) :
             /\ function.lines_in_function = Cardinality(Body(lines, h, n - 1))
             /\ function.current_function = FunctionName(lines[h])
    BY DEF Counted
  <2>5. long <=> IsLong(lines, n)
    BY <2>4 DEF IsLong
  <2> QED
    BY <2>3, <2>5
<1> QED
  BY <1>2, <1>3

-----------------------------------------------------------------------------
(* Includes outside of every group.  There is one list of includes for the *)
(* file and one for every #if so far; Lists is their number behind line n. *)
Openings(lines, n) == {k \in 1 .. n : First(lines.elided[k]) \in {"#if", "#ifndef"}}
Closings(lines, n) == {k \in 1 .. n : First(lines.elided[k]) = "#endif"}
Lists(lines, n) == 1 + Cardinality(Openings(lines, n))
LevelAt(lines, n) == Cardinality(Openings(lines, n)) - Cardinality(Closings(lines, n))

LEMMA ListsGrow ==
  ASSUME NEW lines, NEW n \in Nat, NEW i \in 0 .. n
  PROVE  /\ Lists(lines, n) \in Nat /\ Lists(lines, i) \in 1 .. Lists(lines, n)
         /\ LevelAt(lines, i) = 0 /\ LevelAt(lines, n) > 0 => Lists(lines, i) < Lists(lines, n)
<1> DEFINE open(k) == Openings(lines, k)
           closed(k) == Closings(lines, k)
<1>1. open(n) \in SUBSET (1 .. n) /\ closed(n) \in SUBSET (1 .. n)
  BY DEF Openings, Closings
<1>2. open(i) \in SUBSET open(n) /\ closed(i) \in SUBSET closed(n)
  BY DEF Openings, Closings
<1>3. IsFiniteSet(1 .. n)
  BY FS_Interval
<1> HIDE DEF open, closed
<1>4. IsFiniteSet(open(n)) /\ IsFiniteSet(closed(n))
  BY <1>1, <1>3, FS_Subset
<1>5. /\ IsFiniteSet(open(i)) /\ Cardinality(open(i)) <= Cardinality(open(n))
      /\ IsFiniteSet(closed(i)) /\ Cardinality(closed(i)) <= Cardinality(closed(n))
  BY <1>2, <1>4, FS_Subset
<1>6. /\ Cardinality(open(n)) \in Nat /\ Cardinality(open(i)) \in Nat
      /\ Cardinality(closed(n)) \in Nat /\ Cardinality(closed(i)) \in Nat
  BY <1>4, <1>5, FS_CardinalityType
<1>7. /\ Lists(lines, n) = 1 + Cardinality(open(n)) /\ Lists(lines, i) = 1 + Cardinality(open(i))
      /\ LevelAt(lines, n) = Cardinality(open(n)) - Cardinality(closed(n))
      /\ LevelAt(lines, i) = Cardinality(open(i)) - Cardinality(closed(i))
  BY DEF Lists, LevelAt, open, closed
<1> QED
  BY <1>5, <1>6, <1>7

LEMMA ListsStep ==
  ASSUME NEW lines, NEW n \in Nat \ {0}
  PROVE  Lists(lines, n) = IF First(lines.elided[n]) \in {"#if", "#ifndef"}
                           THEN Lists(lines, n - 1) + 1 ELSE Lists(lines, n - 1)
<1> DEFINE before == Openings(lines, n - 1)
           opens == First(lines.elided[n]) \in {"#if", "#ifndef"}
<1>1. /\ 1 .. n = (1 .. n - 1) \cup {n} /\ n - 1 \in Nat /\ n \notin 1 .. n - 1
  OBVIOUS
<1>2. Openings(lines, n) = IF opens THEN before \cup {n} ELSE before
  BY <1>1 DEF Openings
<1>3. before \in SUBSET (1 .. n - 1) /\ n \notin before
  BY <1>1 DEF Openings
<1> HIDE DEF before, opens
<1>4. IsFiniteSet(1 .. n - 1)
  BY <1>1, FS_Interval
<1>5. IsFiniteSet(before)
  BY <1>3, <1>4, FS_Subset
<1>6. Cardinality(before) \in Nat /\ Cardinality(before \cup {n}) = Cardinality(before) + 1
  BY <1>3, <1>5, FS_CardinalityType, FS_AddElement
<1>7. Lists(lines, n - 1) = 1 + Cardinality(before)
  BY DEF Lists, before
<1>8. Lists(lines, n) = IF opens THEN 1 + Cardinality(before \cup {n}) ELSE 1 + Cardinality(before)
  BY <1>2 DEF Lists
<1> QED
  BY <1>6, <1>7, <1>8 DEF opens

(* One of the first m lists has the path.                                  *)
Holds(list, m, name) == \E p \in 1 .. m : \E pair \in list[p] : pair[1] = name

\* What becomes of a list with a new last element, or with another one.
GrowsWell(list, x) ==
  /\ Len(Append(list, x)) = Len(list) + 1
  /\ \A p \in 1 .. Len(list) : Append(list, x)[p] = list[p]
  /\ Len(Append(Front(list), x)) = Len(list) /\ Append(Front(list), x)[Len(list)] = x
  /\ \A p \in 1 .. Len(list) - 1 : Append(Front(list), x)[p] = list[p]

LEMMA NewLists ==
  ASSUME NEW A, NEW list \in Seq(A), list # <<>>, NEW x
  PROVE  GrowsWell(list, x)
<1> DEFINE B == A \cup {x}
<1>1. A \subseteq B /\ x \in B
  OBVIOUS
<1>2. /\ Front(list) \in Seq(A) /\ Len(Front(list)) = Len(list) - 1 /\ Len(list) \in Nat \ {0}
      /\ \A p \in 1 .. Len(list) - 1 : Front(list)[p] = list[p]
  BY FrontAndLast
<1> HIDE DEF B
<1>3. list \in Seq(B) /\ Front(list) \in Seq(B)
  BY <1>1, <1>2, SeqMonotonic
<1> DEFINE front == Front(list)
<1>4. /\ Len(Append(list, x)) = Len(list) + 1
      /\ \A p \in 1 .. Len(list) : Append(list, x)[p] = list[p]
  BY <1>1, <1>3, AppendProperties
<1> HIDE DEF front
<1>5. /\ Len(Append(front, x)) = Len(front) + 1 /\ Append(front, x)[Len(front) + 1] = x
      /\ \A p \in 1 .. Len(front) : Append(front, x)[p] = front[p]
  BY <1>1, <1>3, AppendProperties DEF front
<1>6. Len(front) + 1 = Len(list)
  BY <1>2 DEF front
<1> QED
  BY <1>2, <1>4, <1>5, <1>6 DEF front, GrowsWell

\* What the lists up to the last one that counts have, the new lists have.
KeepsLists(list, new, last) ==
  \A m \in 1 .. last : \A name : Holds(list, m, name) => Holds(new, m, name)

\* The last list that a directive leaves alone.
LastKept(list, directive) ==
  IF directive \in {"#else", "#elif"} THEN Len(list) - 1 ELSE Len(list)

LEMMA ResetLists ==
  ASSUME NEW before, IsIncludeState(before), NEW directive, NEW list, NEW new,
         list = before.include_list, new = ResetSection(before, directive).include_list
  PROVE  /\ Len(new) = IF directive \in {"#if", "#ifndef"} THEN Len(list) + 1 ELSE Len(list)
         /\ KeepsLists(list, new, LastKept(list, directive))
<1>1. PICK A, H : before \in IncludeStates(A, H)
  BY DEF IsIncludeState
<1>2. list \in Seq(A) /\ list # <<>> /\ Len(list) \in Nat
  BY <1>1 DEF IncludeStates
<1>3. new = CASE directive \in {"#if", "#ifndef"} -> Append(list, {})
              [] directive \in {"#else", "#elif"} -> Append(Front(list), {})
              [] OTHER -> list
  BY DEF ResetSection
<1>4. /\ Len(Append(list, {})) = Len(list) + 1
      /\ \A p \in 1 .. Len(list) : Append(list, {})[p] = list[p]
      /\ Len(Append(Front(list), {})) = Len(list)
      /\ \A p \in 1 .. Len(list) - 1 : Append(Front(list), {})[p] = list[p]
  <2>1. GrowsWell(list, {})
    BY <1>2, NewLists
  <2> QED
    BY <2>1 DEF GrowsWell
<1>5. Len(new) = IF directive \in {"#if", "#ifndef"} THEN Len(list) + 1 ELSE Len(list)
  BY <1>3, <1>4
<1>6. ASSUME NEW m \in 1 .. LastKept(list, directive), NEW name, Holds(list, m, name)
      PROVE  Holds(new, m, name)
  <2>1. PICK p \in 1 .. m : \E pair \in list[p] : pair[1] = name
    BY <1>6 DEF Holds
  <2>2. p \in 1 .. Len(list) /\ (directive \in {"#else", "#elif"} => p \in 1 .. Len(list) - 1)
    BY <1>2, <1>6, <2>1 DEF LastKept
  <2>3. new[p] = list[p]
    BY <1>3, <1>4, <2>2
  <2> QED
    BY <2>1, <2>3 DEF Holds
<1> QED
  BY <1>5, <1>6 DEF KeepsLists

LEMMA AddIncludeList ==
  ASSUME NEW before, IsIncludeState(before), NEW file, NEW lines, NEW header, NEW n
  PROVE  AddInclude(before, file, lines, n, header).include.include_list
           = Append(Front(before.include_list),
                    Last(before.include_list) \cup {<<header.name, n>>})
<1> DEFINE x == Last(before.include_list) \cup {<<header.name, n>>}
           new == Append(Front(before.include_list), x)
           listed == [before EXCEPT !.include_list = Append(Front(@), x)]
           order == CheckNextIncludeOrder(listed, ClassifyInclude(file, header))
<1>1. AddInclude(before, file, lines, n, header).include
        = [order.state EXCEPT !.last_header = header.rank]
  BY DEF AddInclude
<1>2. PICK A, H : before \in IncludeStates(A, H)
  BY DEF IsIncludeState
<1>3. listed = [include_list |-> new, section |-> before.section,
                last_header |-> before.last_header]
  <2>1. before = [include_list |-> before.include_list, section |-> before.section,
                  last_header |-> before.last_header]
    BY <1>2 DEF IncludeStates
  <2>2. listed = [before EXCEPT !.include_list = new]
    OBVIOUS
  <2> HIDE DEF new, listed
  <2> QED
    BY <2>1, <2>2
<1> HIDE DEF listed
<1>4. PICK section, last :
        order.state = [listed EXCEPT !.section = section, !.last_header = last]
  BY DEF CheckNextIncludeOrder
<1> HIDE DEF order, new
<1>5. order.state = [include_list |-> new, section |-> section, last_header |-> last]
  BY <1>3, <1>4
<1> QED
  BY <1>1, <1>5 DEF new

(* What an include line does to the lists: they keep what they have, and   *)
(* get the path when it can be listed; a path they have is an error.       *)
CanBeListed(header, file, opts) ==
  /\ header.ext \in GetNonHeaderExtensions(opts) => header.dir = file.dir
  /\ header.third => header.name \in PassForOwn(file, opts)

IsRaised(e, errors) == \E k \in DOMAIN errors : errors[k] = e

LEMMA ErrorBehind ==
  ASSUME NEW A, NEW s \in Seq(A), NEW e \in A
  PROVE  IsRaised(e, s \o <<e>>)
<1> DEFINE k == Len(s) + 1
<1>1. <<e>> \in Seq(A) /\ Len(<<e>>) = 1 /\ <<e>>[1] = e /\ Len(s) \in Nat
  OBVIOUS
<1>2. k \in DOMAIN (s \o <<e>>) /\ (s \o <<e>>)[k] = <<e>>[1]
  BY <1>1, ConcatProperties
<1> QED
  BY <1>1, <1>2 DEF IsRaised

LEMMA IncludeLineLists ==
  ASSUME NEW before, IsIncludeState(before), NEW file, NEW lines, NEW opts, NEW n,
         NEW after, after = CheckIncludeLine(before, file, lines, n, opts),
         NEW list, list = before.include_list, NEW new, new = after.include.include_list,
         NEW header, header = Header[Strip(lines.lines[n])[2]]
  PROVE  /\ Len(new) = Len(list)
         /\ KeepsLists(list, new, Len(list))
         /\ CanBeListed(header, file, opts) => Holds(new, Len(list), header.name)
         /\ Holds(list, Len(list), header.name) =>
              IsRaised(IncludeProblem(n, "include"), after.errors)
<1> DEFINE foreign == /\ header.ext \in GetNonHeaderExtensions(opts)
                      /\ header.dir # file.dir
           alone == ~header.system /\ header.dir = "" /\ header.ext = "h" /\ ~header.third
           subdir == IF alone THEN <<IncludeProblem(n, "include_subdir")>> ELSE <<>>
           found == FindHeader(before, header.name)
           own == header.name \in PassForOwn(file, opts) \/ ~header.third
           again == [include |-> before, errors |-> <<IncludeProblem(n, "include")>>]
           added == AddInclude(before, file, lines, n, header)
           quiet == [include |-> before, errors |-> <<>>]
           rest == CASE found -> again
                     [] ~found /\ foreign -> again
                     [] ~found /\ ~foreign /\ own -> added
                     [] OTHER -> quiet
<1>1. after = [rest EXCEPT !.errors = subdir \o @]
  BY DEF CheckIncludeLine
<1>2. PICK A, H : before \in IncludeStates(A, H)
  BY DEF IsIncludeState
<1>3. list \in Seq(A) /\ list # <<>> /\ Len(list) \in Nat \ {0} /\ DOMAIN list = 1 .. Len(list)
  BY <1>2 DEF IncludeStates
<1>4. found <=> Holds(list, Len(list), header.name)
  BY <1>3 DEF FindHeader, Holds
<1>5. CanBeListed(header, file, opts) => ~foreign /\ own
  BY DEF CanBeListed
<1> DEFINE x == Last(list) \cup {<<header.name, n>>}
<1>6. added.include.include_list = Append(Front(list), x)
  BY AddIncludeList
<1>7. added = [include |-> added.include, errors |-> added.errors]
  BY DEF AddInclude
<1>8. rest \in {again, added, quiet}
  <2> HIDE DEF again, added, quiet, foreign, found, own
  <2> QED
    OBVIOUS
<1>9. /\ found => rest = again
      /\ ~found /\ ~foreign /\ own => rest = added
  <2> HIDE DEF again, added, quiet, foreign, found, own
  <2> QED
    OBVIOUS
<1> HIDE DEF rest, added, foreign, found, own, alone
<1>10. after.include = rest.include /\ after.errors = subdir \o rest.errors
  <2>1. rest = [include |-> rest.include, errors |-> rest.errors]
    <3>1. again = [include |-> again.include, errors |-> again.errors]
      OBVIOUS
    <3>2. quiet = [include |-> quiet.include, errors |-> quiet.errors]
      OBVIOUS
    <3> HIDE DEF again, quiet
    <3> QED
      BY <1>7, <1>8, <3>1, <3>2
  <2> HIDE DEF again, quiet, subdir
  <2> QED
    BY <1>1, <2>1
<1>11. new \in {list, Append(Front(list), x)} /\ (rest = added => new = Append(Front(list), x))
  <2>1. again.include = before /\ quiet.include = before
    OBVIOUS
  <2> HIDE DEF again, quiet, x
  <2> QED
    BY <1>6, <1>8, <1>10, <2>1
<1>12. GrowsWell(list, x)
  <2> HIDE DEF x
  <2> QED
    BY <1>3, NewLists
<1>13. Len(new) = Len(list)
  BY <1>11, <1>12 DEF GrowsWell
<1>14. \A p \in 1 .. Len(list) : list[p] \subseteq new[p]
  <2> SUFFICES ASSUME NEW p \in 1 .. Len(list) PROVE list[p] \subseteq new[p]
    OBVIOUS
  <2>1. Last(list) = list[Len(list)]
    BY DEF Last
  <2>2. CASE p = Len(list)
    <3>1. Append(Front(list), x)[p] = Last(list) \cup {<<header.name, n>>}
      BY <1>12, <2>2 DEF GrowsWell
    <3> HIDE DEF x
    <3> QED
      BY <1>11, <2>1, <2>2, <3>1
  <2>3. CASE p # Len(list)
    <3>1. p \in 1 .. Len(list) - 1
      BY <1>3, <2>3
    <3>2. Append(Front(list), x)[p] = list[p]
      BY <1>12, <3>1 DEF GrowsWell
    <3> HIDE DEF x
    <3> QED
      BY <1>11, <3>2
  <2> QED
    BY <2>2, <2>3
<1>15. ASSUME NEW m \in 1 .. Len(list), NEW name, Holds(list, m, name) PROVE Holds(new, m, name)
  <2>1. PICK p \in 1 .. m : \E pair \in list[p] : pair[1] = name
    BY <1>15 DEF Holds
  <2>2. p \in 1 .. Len(list)
    BY <1>3, <1>15, <2>1
  <2> QED
    BY <1>14, <2>1, <2>2 DEF Holds
<1>16. ASSUME CanBeListed(header, file, opts) PROVE Holds(new, Len(list), header.name)
  <2>1. CASE found
    BY <1>3, <1>4, <1>15, <2>1
  <2>2. CASE ~found
    <3>1. new = Append(Front(list), x)
      BY <1>5, <1>9, <1>11, <1>16, <2>2
    <3>2. new[Len(list)] = Last(list) \cup {<<header.name, n>>}
      BY <1>12, <3>1 DEF GrowsWell
    <3>3. <<header.name, n>> \in new[Len(list)] /\ <<header.name, n>>[1] = header.name
      BY <3>2
    <3> QED
      BY <1>3, <3>3 DEF Holds
  <2> QED
    BY <2>1, <2>2
<1>17. ASSUME Holds(list, Len(list), header.name)
       PROVE  IsRaised(IncludeProblem(n, "include"), after.errors)
  <2> DEFINE e == IncludeProblem(n, "include")
             other == IncludeProblem(n, "include_subdir")
             E == {e, other}
  <2>1. rest.errors = <<e>>
    BY <1>4, <1>9, <1>17
  <2>2. after.errors = subdir \o <<e>>
    BY <1>10, <2>1
  <2>3. subdir \in Seq(E) /\ e \in E
    <3>1. subdir \in {<<>>, <<other>>}
      OBVIOUS
    <3> HIDE DEF e, other, subdir
    <3>2. <<>> \in Seq(E) /\ <<other>> \in Seq(E)
      OBVIOUS
    <3> QED
      BY <3>1, <3>2
  <2> HIDE DEF e, E, subdir
  <2>4. IsRaised(e, subdir \o <<e>>)
    BY <2>3, ErrorBehind
  <2> QED
    BY <2>2, <2>4 DEF e
<1> QED
  BY <1>13, <1>15, <1>16, <1>17 DEF KeepsLists

(* The lists behind line n, from those behind the line before.             *)
NameOn(lines, i) == Header[Strip(lines.lines[i])[2]].name

OldStay(lines, n, list, new) ==
  \A i \in 1 .. n - 1 : \A name :
    LevelAt(lines, i) = 0 /\ Holds(list, Lists(lines, i), name)
      => Holds(new, Lists(lines, i), name)

ListedOrRaised(lines, n, list, new, errors, file, opts) ==
  First(lines.elided[n]) = "#include" =>
    /\ CanBeListed(Header[Strip(lines.lines[n])[2]], file, opts)
         => Holds(new, Lists(lines, n), NameOn(lines, n))
    /\ \A i \in 1 .. n - 1 :
         Holds(list, Lists(lines, i), NameOn(lines, n)) =>
           IsRaised(IncludeProblem(n, "include"), errors)

\* The lists when line n is reached, which does not start a branch on its own.
AtLine(lines, n, list) ==
  /\ Len(list) = Lists(lines, n - 1)
  /\ First(lines.elided[n]) \in {"#else", "#elif"} => LevelAt(lines, n) > 0

LEMMA LanguageLists ==
  ASSUME NEW before, IsIncludeState(before), NEW file, NEW lines, NEW opts, NEW n \in Nat \ {0},
         NEW after, after = CheckLanguage(before, file, lines, n, opts),
         NEW list, list = before.include_list, NEW new, new = after.include.include_list,
         AtLine(lines, n, list)
  PROVE  /\ Len(new) = Lists(lines, n)
         /\ OldStay(lines, n, list, new)
         /\ ListedOrRaised(lines, n, list, new, after.errors, file, opts)
<1> DEFINE first == First(lines.elided[n])
           header == Header[Strip(lines.lines[n])[2]]
           directives == {"#if", "#ifndef", "#elif", "#else", "#endif"}
<1>0. /\ Len(list) = Lists(lines, n - 1)
      /\ first \in {"#else", "#elif"} => LevelAt(lines, n) > 0
  BY DEF AtLine
<1>1. /\ Lists(lines, n) = IF first \in {"#if", "#ifndef"} THEN Len(list) + 1 ELSE Len(list)
      /\ Len(list) \in Nat
  BY <1>0, ListsStep, ListsGrow
<1>2. ASSUME NEW i \in 1 .. n - 1
      PROVE  /\ Lists(lines, i) \in 1 .. Len(list)
             /\ LevelAt(lines, i) = 0 /\ first \in {"#else", "#elif"} =>
                  Lists(lines, i) < Len(list)
  <2>1. n - 1 \in Nat /\ i \in 0 .. n - 1 /\ n \in Nat /\ i \in 0 .. n
    OBVIOUS
  <2>2. Lists(lines, i) \in 1 .. Len(list)
    BY <1>0, <2>1, ListsGrow
  <2>3. LevelAt(lines, i) = 0 /\ LevelAt(lines, n) > 0 => Lists(lines, i) < Lists(lines, n)
    BY <2>1, ListsGrow
  <2>4. first \in {"#else", "#elif"} => Lists(lines, n) = Len(list)
    BY <1>1
  <2> QED
    BY <1>0, <2>2, <2>3, <2>4
<1>3. ASSUME NEW i \in 1 .. n - 1, NEW name, Holds(list, Lists(lines, i), name)
      PROVE  Holds(list, Len(list), name)
  <2>1. PICK p \in 1 .. Lists(lines, i) : \E pair \in list[p] : pair[1] = name
    BY <1>3 DEF Holds
  <2>2. p \in 1 .. Len(list)
    BY <1>1, <1>2, <2>1
  <2> QED
    BY <2>1, <2>2 DEF Holds
<1>4. CASE first = "#include"
  <2>1. after = CheckIncludeLine(before, file, lines, n, opts)
    BY <1>4 DEF CheckLanguage
  <2>2. /\ Len(new) = Len(list)
        /\ KeepsLists(list, new, Len(list))
        /\ CanBeListed(header, file, opts) => Holds(new, Len(list), header.name)
        /\ Holds(list, Len(list), header.name) =>
             IsRaised(IncludeProblem(n, "include"), after.errors)
    BY <2>1, IncludeLineLists
  <2>3. Lists(lines, n) = Len(list) /\ NameOn(lines, n) = header.name
    BY <1>1, <1>4 DEF NameOn
  <2> QED
    BY <1>2, <1>3, <1>4, <2>2, <2>3 DEF KeepsLists, OldStay, ListedOrRaised
<1>5. CASE first \in directives
  <2>1. new = ResetSection(before, first).include_list
    BY <1>5 DEF CheckLanguage
  <2>2. /\ Len(new) = IF first \in {"#if", "#ifndef"} THEN Len(list) + 1 ELSE Len(list)
        /\ KeepsLists(list, new, LastKept(list, first))
    BY <2>1, ResetLists
  <2>3. \A i \in 1 .. n - 1 :
          LevelAt(lines, i) = 0 => Lists(lines, i) \in 1 .. LastKept(list, first)
    BY <1>1, <1>2 DEF LastKept
  <2> QED
    BY <1>1, <1>5, <2>2, <2>3 DEF KeepsLists, OldStay, ListedOrRaised
<1>6. CASE first # "#include" /\ first \notin directives
  <2>1. new = list
    BY <1>6 DEF CheckLanguage
  <2> QED
    BY <1>1, <1>6, <2>1 DEF OldStay, ListedOrRaised
<1> QED
  BY <1>4, <1>5, <1>6

(* The nesting of a line without assembler, and the errors about includes  *)
(* among those of the line.                                                *)
LEMMA RaisedInPart ==
  ASSUME NEW A, NEW s \in Seq(A), NEW t \in Seq(A), NEW e, IsRaised(e, s) \/ IsRaised(e, t)
  PROVE  IsRaised(e, s \o t)
<1>1. /\ Len(s) \in Nat /\ Len(t) \in Nat /\ DOMAIN s = 1 .. Len(s) /\ DOMAIN t = 1 .. Len(t)
  OBVIOUS
<1>2. /\ s \o t \in Seq(A) /\ Len(s \o t) = Len(s) + Len(t)
      /\ \A i \in 1 .. Len(s) + Len(t) : (s \o t)[i] = IF i <= Len(s) THEN s[i] ELSE t[i - Len(s)]
  BY ConcatProperties
<1> DEFINE both == s \o t
<1>3. DOMAIN both = 1 .. Len(s) + Len(t)
  BY <1>2
<1>4. CASE IsRaised(e, s)
  <2>1. PICK k \in 1 .. Len(s) : s[k] = e
    BY <1>1, <1>4 DEF IsRaised
  <2>2. k \in DOMAIN both /\ both[k] = e
    BY <1>1, <1>2, <1>3, <2>1
  <2> QED
    BY <2>2 DEF IsRaised
<1>5. CASE IsRaised(e, t)
  <2>1. PICK k \in 1 .. Len(t) : t[k] = e
    BY <1>1, <1>5 DEF IsRaised
  <2> DEFINE j == Len(s) + k
  <2>2. j \in 1 .. Len(s) + Len(t) /\ ~(j <= Len(s)) /\ j - Len(s) = k
    BY <1>1, <2>1
  <2>3. both[j] = e
    BY <1>2, <2>1, <2>2
  <2> HIDE DEF both, j
  <2>4. IsRaised(e, both)
    BY <1>3, <2>2, <2>3 DEF IsRaised
  <2> QED
    BY <2>4 DEF both
<1> QED
  BY <1>4, <1>5

IsReported(e, verdict_list) == \E k \in DOMAIN verdict_list : verdict_list[k].error = e

LEMMA JudgedAreReported ==
  ASSUME NEW known, NEW used, NEW errors, NEW e, IsRaised(e, errors)
  PROVE  IsReported(e, Judged(known, used, errors))
<1>1. PICK k \in DOMAIN errors : errors[k] = e
  BY DEF IsRaised
<1> QED
  BY <1>1 DEF IsReported, Judged

LEMMA JudgedType ==
  ASSUME NEW known, NEW used, NEW A, NEW errors \in Seq(A)
  PROVE  \E B : Judged(known, used, errors) \in Seq(B)
<1> DEFINE v(i) == [error |-> errors[i],
                    printed |-> ShouldPrintError(known, used, VerboseLevel, errors[i])]
           n == Len(errors)
           B == {v(i) : i \in 1 .. n}
<1>1. n \in Nat /\ DOMAIN errors = 1 .. n
  OBVIOUS
<1>2. Judged(known, used, errors) = [i \in 1 .. n |-> v(i)]
  BY <1>1 DEF Judged
<1> HIDE DEF v, n
<1>3. [i \in 1 .. n |-> v(i)] \in [1 .. n -> B]
  OBVIOUS
<1> HIDE DEF B
<1>4. [i \in 1 .. n |-> v(i)] \in Seq(B)
  BY <1>1, <1>3, SequencesOf
<1> QED
  BY <1>2, <1>4

LEMMA RaisedOnlyInParts ==
  ASSUME NEW A, NEW s \in Seq(A), NEW t \in Seq(A), NEW e, IsRaised(e, s \o t)
  PROVE  IsRaised(e, s) \/ IsRaised(e, t)
<1> DEFINE both == s \o t
<1>1. /\ Len(s) \in Nat /\ Len(t) \in Nat /\ DOMAIN s = 1 .. Len(s) /\ DOMAIN t = 1 .. Len(t)
      /\ DOMAIN both = 1 .. Len(s) + Len(t)
      /\ \A i \in 1 .. Len(s) + Len(t) : both[i] = IF i <= Len(s) THEN s[i] ELSE t[i - Len(s)]
  BY ConcatProperties
<1> HIDE DEF both
<1>2. PICK k \in 1 .. Len(s) + Len(t) : both[k] = e
  BY <1>1 DEF IsRaised, both
<1>3. CASE k <= Len(s)
  <2>1. k \in DOMAIN s /\ s[k] = e
    BY <1>1, <1>2, <1>3
  <2> QED
    BY <2>1 DEF IsRaised
<1>4. CASE ~(k <= Len(s))
  <2>1. k - Len(s) \in DOMAIN t /\ t[k - Len(s)] = e
    BY <1>1, <1>2, <1>4
  <2> QED
    BY <2>1 DEF IsRaised
<1> QED
  BY <1>3, <1>4

(* A function's length among the errors of a line, and among verdicts.     *)
HasSizeVerdict(list, e) == \E k \in DOMAIN list : IsSize(list[k].error, e)
SameSizes(errors, list) == \A e : HasSizeVerdict(list, e) <=> HasSize(errors, e)

LEMMA SizesOfParts ==
  ASSUME NEW A, NEW s \in Seq(A), NEW t \in Seq(A), NEW e
  PROVE  /\ HasSize(s \o t, e) <=> HasSize(s, e) \/ HasSize(t, e)
         /\ HasSizeVerdict(s \o t, e) <=> HasSizeVerdict(s, e) \/ HasSizeVerdict(t, e)
<1> DEFINE both == s \o t
<1>1. \A x : IsRaised(x, both) <=> IsRaised(x, s) \/ IsRaised(x, t)
  BY RaisedInPart, RaisedOnlyInParts
<1> HIDE DEF both
<1>2. \A errors : HasSize(errors, e) <=> \E x : IsRaised(x, errors) /\ IsSize(x, e)
  BY DEF HasSize, IsRaised
<1>3. \A list : HasSizeVerdict(list, e) <=> \E x : IsRaised(x, list) /\ IsSize(x.error, e)
  BY DEF HasSizeVerdict, IsRaised
<1>4. HasSize(both, e) <=> HasSize(s, e) \/ HasSize(t, e)
  BY <1>1, <1>2
<1>5. HasSizeVerdict(both, e) <=> HasSizeVerdict(s, e) \/ HasSizeVerdict(t, e)
  BY <1>1, <1>3
<1> QED
  BY <1>4, <1>5 DEF both

LEMMA OthersHaveNoSize ==
  ASSUME NEW L, NEW errors \in Seq(Others(L)), NEW e
  PROVE  ~HasSize(errors, e)
<1>1. \A x \in Others(L) : ~IsSize(x, e)
  BY DEF Others, OtherCategories, IsSize
<1>2. \A k \in DOMAIN errors : errors[k] \in Others(L)
  OBVIOUS
<1> QED
  BY <1>1, <1>2 DEF HasSize

LEMMA JudgedSizes ==
  ASSUME NEW known, NEW used, NEW errors
  PROVE  SameSizes(errors, Judged(known, used, errors))
<1> DEFINE list == Judged(known, used, errors)
<1>1. DOMAIN list = DOMAIN errors /\ \A k \in DOMAIN errors : list[k].error = errors[k]
  BY DEF Judged
<1> HIDE DEF list
<1>2. SameSizes(errors, list)
  BY <1>1 DEF SameSizes, HasSize, HasSizeVerdict
<1> QED
  BY <1>2 DEF list

\* The tokens of the lines, none of which is assembler.
IsWithoutAsm(T, lines) == T \in SUBSET Token /\ "asm" \notin T /\ lines.elided \in Seq(Seq(T))

AllReported(errors, verdict_list) ==
  \A e : IsRaised(e, errors) => IsReported(e, verdict_list)

\* What such a line becomes, when its includes and its function's length are
\* what CheckLanguage and CheckForFunctionLengths make them.
LineBecomes(T, after, included, counted) ==
  /\ after.checks.nesting \in Nestings(T)
  /\ after.checks.include = included.include
  /\ after.checks.function = counted.function
  /\ AllReported(included.errors, after.new)
  /\ SameSizes(counted.errors, after.new)

LEMMA LineWithoutAsm ==
  ASSUME NEW file, NEW text \in Seq(Line), NEW lines, lines = CleansedLines(text),
         NEW T, IsWithoutAsm(T, lines),
         NEW n \in 1 .. Len(text), NEW m \in Nat, NEW before, AreCheckers(before, m),
         before.nesting \in Nestings(T), NEW used, NEW opts, NEW after,
         after = LineProcessed(file, lines, n, before, used, opts),
         NEW included, included = CheckLanguage(before.include, file, lines, n, opts),
         NEW counted,
         counted = CheckForFunctionLengths(before.function, lines.lines, n, VerboseLevel)
  PROVE  LineBecomes(T, after, included, counted)
<1> DEFINE raw == lines.raw_lines[n]
           known == ParseNolintSuppressions(before.known, raw, n)
           nested == Update(before.nesting, lines, n)
           indented == CheckForNamespaceIndentation(nested.nesting, lines, n)
           asm == InAsmBlock(nested.nesting)
           odd == NolintErrors(raw, n)
           multiline == CheckForMultiline(lines.elided[n], n)
           features == FlagCxx11Features(lines, n)
           first == counted.errors \o multiline
           looked == first \o included.errors
           other == odd \o nested.errors \o indented
           front == other \o looked
           errors == front \o features
           O == Seq(Others(0 .. n))
           P == Seq(Problems(0 .. n))
<1>1. T \in SUBSET Token /\ "asm" \notin T /\ lines.elided \in Seq(Seq(T))
  BY DEF IsWithoutAsm
<1>2. /\ lines.raw_lines = text /\ lines.lines \in Seq(Line) /\ Len(lines.lines) = Len(text)
      /\ Len(lines.elided) = Len(text) /\ n \in 0 .. n /\ n \in 1 .. Len(lines.lines)
  BY CleansedType
<1>3. nested.nesting \in Nestings(T) /\ nested.errors \in O
  BY <1>1, <1>2, UpdateType
<1>4. ~asm
  <2>1. nested.nesting.stack \in Stacks(T)
    BY <1>3 DEF Nestings
  <2>2. nested.nesting.stack # <<>> => Top(nested.nesting.stack) \in Blocks(T)
    BY <1>1, <2>1, TopType
  <2> HIDE DEF nested
  <2> QED
    BY <1>1, <2>2 DEF InAsmBlock, Blocks, AsmAmong
<1>5. /\ after.checks.nesting = nested.nesting /\ after.checks.include = included.include
      /\ after.checks.function = counted.function
      /\ after.new = Judged(known, used, errors)
  <2> HIDE DEF raw, known, nested, indented, asm, odd, multiline, features
  <2> QED
    BY <1>4 DEF LineProcessed, raw, known, nested, indented, asm, odd, multiline, features
<1>6. counted.errors \in P
  BY <1>2, FunctionLengthsType DEF AreCheckers
<1>7. included.errors \in O
  BY <1>1, <1>2, CheckLanguageType DEF AreCheckers
<1>8. odd \in O /\ multiline \in O /\ features \in O /\ indented \in O
  BY <1>1, <1>2, OddErrors, MultilineErrors, FeatureErrors, NamespaceIndentationType
<1> HIDE DEF raw, known, nested, indented, asm, odd, multiline, features
<1>9. other \in O
  <2>1. odd \o nested.errors \in O
    BY <1>3, <1>8, MoreOthers
  <2> QED
    BY <1>8, <2>1, MoreOthers
<1> HIDE DEF other
<1>10. /\ multiline \in P /\ included.errors \in P /\ other \in P /\ features \in P
  BY <1>7, <1>8, <1>9, OthersAreProblems
<1>11. first \in P
  BY <1>6, <1>10, MoreProblems
<1>12. looked \in P
  <2> HIDE DEF first
  <2> QED
    BY <1>10, <1>11, MoreProblems
<1>13. front \in P
  <2> HIDE DEF looked
  <2> QED
    BY <1>10, <1>12, MoreProblems
<1>14. ASSUME NEW e, IsRaised(e, included.errors) PROVE IsReported(e, after.new)
  <2>1. IsRaised(e, looked)
    <3> HIDE DEF first
    <3> QED
      BY <1>10, <1>11, <1>14, RaisedInPart
  <2>2. IsRaised(e, front)
    <3> HIDE DEF looked
    <3> QED
      BY <1>10, <1>12, <2>1, RaisedInPart
  <2>3. IsRaised(e, errors)
    <3> HIDE DEF front
    <3> QED
      BY <1>10, <1>13, <2>2, RaisedInPart
  <2> HIDE DEF errors
  <2> QED
    BY <1>5, <2>3, JudgedAreReported
<1>15. ASSUME NEW e PROVE HasSize(errors, e) <=> HasSize(counted.errors, e)
  <2>1. /\ ~HasSize(multiline, e) /\ ~HasSize(included.errors, e) /\ ~HasSize(other, e)
        /\ ~HasSize(features, e)
    BY <1>7, <1>8, <1>9, OthersHaveNoSize
  <2>2. HasSize(first, e) <=> HasSize(counted.errors, e) \/ HasSize(multiline, e)
    BY <1>6, <1>10, SizesOfParts
  <2>3. HasSize(looked, e) <=> HasSize(first, e) \/ HasSize(included.errors, e)
    <3> HIDE DEF first
    <3> QED
      BY <1>10, <1>11, SizesOfParts
  <2>4. HasSize(front, e) <=> HasSize(other, e) \/ HasSize(looked, e)
    <3> HIDE DEF looked
    <3> QED
      BY <1>10, <1>12, SizesOfParts
  <2>5. HasSize(errors, e) <=> HasSize(front, e) \/ HasSize(features, e)
    <3> HIDE DEF front
    <3> QED
      BY <1>10, <1>13, SizesOfParts
  <2> QED
    BY <2>1, <2>2, <2>3, <2>4, <2>5
<1>16. SameSizes(counted.errors, after.new)
  <2> HIDE DEF errors
  <2> QED
    BY <1>5, <1>15, JudgedSizes DEF SameSizes
<1> QED
  BY <1>3, <1>5, <1>14, <1>16 DEF AllReported, LineBecomes

\* The same for a line without assembler, where the error is one of its verdicts.
ListedOrReported(lines, n, list, new, news, file, opts) ==
  First(lines.elided[n]) = "#include" =>
    /\ CanBeListed(Header[Strip(lines.lines[n])[2]], file, opts)
         => Holds(new, Lists(lines, n), NameOn(lines, n))
    /\ \A i \in 1 .. n - 1 :
         Holds(list, Lists(lines, i), NameOn(lines, n)) =>
           IsReported(IncludeProblem(n, "include"), news)

ListsAfter(T, file, lines, n, opts, list, after) ==
  LET new == after.checks.include.include_list
  IN  /\ after.checks.nesting \in Nestings(T) /\ Len(new) = Lists(lines, n)
      /\ OldStay(lines, n, list, new)
      /\ ListedOrReported(lines, n, list, new, after.new, file, opts)
      /\ \E B : after.new \in Seq(B)

LEMMA LineLists ==
  ASSUME NEW file, NEW text \in Seq(Line), NEW lines, lines = CleansedLines(text),
         NEW T, IsWithoutAsm(T, lines),
         NEW n \in 1 .. Len(text), NEW m \in Nat, NEW before, AreCheckers(before, m),
         before.nesting \in Nestings(T), NEW used, NEW opts, NEW after,
         after = LineProcessed(file, lines, n, before, used, opts),
         NEW list, list = before.include.include_list, AtLine(lines, n, list)
  PROVE  ListsAfter(T, file, lines, n, opts, list, after)
<1> DEFINE included == CheckLanguage(before.include, file, lines, n, opts)
           include == before.include
           new == after.checks.include.include_list
<1>1. n \in Nat \ {0} /\ IsIncludeState(include) /\ list = include.include_list
  BY DEF AreCheckers
<1>2. included = CheckLanguage(include, file, lines, n, opts)
  OBVIOUS
<1> HIDE DEF included
<1>3. /\ after.checks.nesting \in Nestings(T) /\ after.checks.include = included.include
      /\ AllReported(included.errors, after.new)
  <2> PICK counted :
        counted = CheckForFunctionLengths(before.function, lines.lines, n, VerboseLevel)
    OBVIOUS
  <2>1. LineBecomes(T, after, included, counted)
    BY <1>2, LineWithoutAsm
  <2> QED
    BY <2>1 DEF LineBecomes
<1>4. \E errors \in Seq(Problems(0 .. n)) : after.new = Judged(after.checks.known, used, errors)
  BY LineType
<1> HIDE DEF include
<1>5. new = included.include.include_list
  BY <1>3
<1>6. /\ Len(new) = Lists(lines, n)
      /\ OldStay(lines, n, list, new)
      /\ ListedOrRaised(lines, n, list, new, included.errors, file, opts)
  BY <1>1, <1>2, <1>5, LanguageLists
<1>7. ListedOrReported(lines, n, list, new, after.new, file, opts)
  BY <1>3, <1>6 DEF AllReported, ListedOrRaised, ListedOrReported
<1>8. \E B : after.new \in Seq(B)
  BY <1>4, JudgedType
<1> QED
  BY <1>3, <1>6, <1>7, <1>8 DEF ListsAfter

-----------------------------------------------------------------------------
(* The invariant: no block of assembler is open, there is a list for every *)
(* #if, the name of a listed include outside of every group is in one of   *)
(* the lists there were at its line, and every later line with it has its  *)
(* error.  No #else empties such a list: behind that line it can only be   *)
(* in a group that was opened later, with a list of its own.               *)
IsTop(i) == IsListed(i) /\ Level(i) = 0

IsKept(i, n) ==
  /\ Holds(include_state.include_list, Lists(clean_lines, i), HeaderOf(i).name)
  /\ \A j \in i + 1 .. n :
       IsInclude(j) /\ HeaderOf(j).name = HeaderOf(i).name
         => Raised(<<"build", "include">>, j)

ListsInv(n) ==
  /\ nesting_state \in Nestings(Token \ {"asm"})
  /\ Len(include_state.include_list) = Lists(clean_lines, n)
  /\ \A i \in 1 .. n : IsTop(i) => IsKept(i, n)

KeptInv ==
  pc = "line" /\ ~HasAsm /\ GroupsMatch(Len(clean_lines.lines)) => ListsInv(linenum - 1)

LEMMA NoListsYet == ASSUME NEW lines PROVE Lists(lines, 0) = 1
<1>1. Openings(lines, 0) = {}
  BY DEF Openings
<1> QED
  BY <1>1, FS_EmptySet DEF Lists

LEMMA StartFileKeepsKeptInv ==
  ASSUME StartFile
  PROVE  KeptInv'
<1>1. /\ linenum' = 1 /\ nesting_state' = NewNestingState /\ include_state' = NewIncludeState
  BY DEF StartFile
<1>2. NewNestingState \in Nestings(Token \ {"asm"})
  BY NewNestings
<1>3. Len(NewIncludeState.include_list) = 1 /\ linenum' - 1 = 0
  BY <1>1 DEF NewIncludeState
<1>4. Lists(clean_lines', linenum' - 1) = 1
  BY <1>3, NoListsYet
<1>5. 1 .. linenum' - 1 = {}
  BY <1>1
<1> QED
  BY <1>1, <1>2, <1>3, <1>4, <1>5 DEF KeptInv, ListsInv

(* A report on a file leaves what was raised in it, and adds its own.      *)
LEMMA ReportRaises ==
  ASSUME verdicts = [i \in DOMAIN command.files |-> verdicts[i]], index \in DOMAIN command.files,
         command' = command, index' = index, NEW A, verdicts[index] \in Seq(A),
         NEW B, NEW new \in Seq(B), Report(new)
  PROVE  /\ \A c, n : Raised(c, n) => Raised(c, n)'
         /\ \A e : IsReported(e, new) => Raised(e.category, e.linenum)'
<1> DEFINE old == verdicts[index]
           both == old \o new
<1>1. verdicts'[index'] = both
  BY ReportChangesItsFile
<1>2. old \in Seq(A \cup B) /\ new \in Seq(A \cup B)
  BY SeqMonotonic
<1>3. /\ both \in Seq(A \cup B) /\ Len(both) = Len(old) + Len(new)
      /\ \A i \in 1 .. Len(old) + Len(new) :
           both[i] = IF i <= Len(old) THEN old[i] ELSE new[i - Len(old)]
  BY <1>2, ConcatProperties
<1>4. /\ Len(old) \in Nat /\ Len(new) \in Nat /\ DOMAIN old = 1 .. Len(old)
      /\ DOMAIN new = 1 .. Len(new)
  BY <1>2
<1> HIDE DEF both
<1>5. DOMAIN both = 1 .. Len(old) + Len(new)
  BY <1>3
<1>6. ASSUME NEW c, NEW n, Raised(c, n) PROVE Raised(c, n)'
  <2>1. PICK k \in 1 .. Len(old) : old[k].error.category = c /\ old[k].error.linenum = n
    BY <1>4, <1>6 DEF Raised
  <2>2. k \in DOMAIN both /\ both[k] = old[k]
    BY <1>3, <1>4, <1>5, <2>1
  <2> HIDE DEF old
  <2>3. \E j \in DOMAIN both : both[j].error.category = c /\ both[j].error.linenum = n
    BY <2>1, <2>2
  <2> QED
    BY <1>1, <2>3 DEF Raised
<1>7. ASSUME NEW e, IsReported(e, new) PROVE Raised(e.category, e.linenum)'
  <2>1. PICK k \in 1 .. Len(new) : new[k].error = e
    BY <1>4, <1>7 DEF IsReported
  <2> DEFINE j == Len(old) + k
  <2>2. j \in 1 .. Len(old) + Len(new) /\ ~(j <= Len(old)) /\ j - Len(old) = k
    BY <1>4, <2>1
  <2> HIDE DEF j, old
  <2>3. j \in DOMAIN both /\ both[j] = new[k]
    BY <1>3, <1>5, <2>2
  <2>4. \E i \in DOMAIN both : /\ both[i].error.category = e.category
                               /\ both[i].error.linenum = e.linenum
    BY <2>1, <2>3
  <2> QED
    BY <1>1, <2>4 DEF Raised
<1> QED
  BY <1>6, <1>7

LEMMA LinesWithoutAsm ==
  ASSUME clean_lines.elided \in Seq(Line), ~HasAsm
  PROVE  clean_lines.elided \in Seq(Seq(Token \ {"asm"}))
<1> DEFINE T == Token \ {"asm"}
           elided == clean_lines.elided
           n == Len(elided)
<1>1. n \in Nat /\ elided = [i \in 1 .. n |-> elided[i]] /\ \A i \in 1 .. n : elided[i] \in Line
  OBVIOUS
<1>2. ASSUME NEW i \in 1 .. n PROVE elided[i] \in Seq(T)
  <2>1. elided[i] \in Seq(Token) /\ ~Contains(elided[i], "asm")
    BY <1>1 DEF Line, HasAsm
  <2> DEFINE line == elided[i]
  <2> HIDE DEF elided, n
  <2>2. /\ Len(line) \in Nat /\ line = [k \in 1 .. Len(line) |-> line[k]]
        /\ \A k \in 1 .. Len(line) : line[k] \in Token /\ line[k] # "asm"
    BY <2>1 DEF Contains
  <2> HIDE DEF line
  <2>3. line \in [1 .. Len(line) -> T]
    BY <2>2
  <2>4. line \in Seq(T)
    BY <2>2, <2>3, SequencesOf
  <2> QED
    BY <2>4 DEF line
<1> DEFINE Rows == Seq(T)
<1> HIDE DEF elided, T, n
<1>3. elided \in [1 .. n -> Rows]
  BY <1>1, <1>2
<1> HIDE DEF Rows
<1>4. elided \in Seq(Rows)
  BY <1>1, <1>3, SequencesOf
<1> QED
  BY <1>4 DEF elided, T, Rows

LEMMA ProcessLineKeepsKeptInv ==
  ASSUME IInv, RunInv, KeptInv, ProcessLine
  PROVE  KeptInv'
<1> PICK n \in Nat \ {0} : n = linenum
  BY DEF IInv
<1> PICK line : line = LineProcessed(File, clean_lines, n, checks, filters, options)
  OBVIOUS
<1> PICK T : T = Token \ {"asm"}
  OBVIOUS
<1> DEFINE list == include_state.include_list
           new == line.checks.include.include_list
<1>1. /\ pc = "line" /\ n <= Len(clean_lines.lines) /\ linenum' = n + 1
      /\ nesting_state' = line.checks.nesting /\ include_state' = line.checks.include
      /\ Report(line.new) /\ command' = command /\ index' = index
      /\ clean_lines' = clean_lines /\ options' = options
  BY DEF ProcessLine, Becomes
<1>2. HasFile /\ clean_lines = CleansedLines(RemoveMultiLineComments(File.text))
  BY <1>1 DEF IInv
<1>3. PICK text \in Seq(Line) : clean_lines = CleansedLines(text)
  BY <1>2, OpenFile
<1>4. index \in DOMAIN command.files /\ File' = File
  BY <1>1, <1>2, OpenFile DEF File
<1>5. /\ Len(clean_lines.lines) = Len(text) /\ Len(text) \in Nat
      /\ clean_lines.elided \in Seq(Line) /\ Len(clean_lines.elided) = Len(text)
  BY <1>3, CleansedType
<1>6. n \in 1 .. Len(text) /\ n - 1 \in Nat /\ linenum' - 1 = n
  BY <1>1, <1>5
<1>7. /\ AreCheckers(checks, n - 1)
      /\ checks.include = include_state /\ checks.nesting = nesting_state
  BY DEF RunInv, CheckersInv, checks
<1> SUFFICES ASSUME ~HasAsm, GroupsMatch(Len(clean_lines.lines))
             PROVE  ListsInv(linenum - 1)'
  <2>1. HasAsm' <=> HasAsm
    BY <1>1 DEF HasAsm
  <2>2. GroupsMatch(Len(clean_lines.lines))' <=> GroupsMatch(Len(clean_lines.lines))
    BY <1>1 DEF GroupsMatch, Level, OpensGroup, ClosesGroup, ElseOfGroup, Directive
  <2> QED
    BY <2>1, <2>2 DEF KeptInv
<1>8. ListsInv(n - 1)
  BY <1>1 DEF KeptInv
<1>9. /\ line.checks.nesting \in Nestings(T) /\ Len(new) = Lists(clean_lines, n)
      /\ OldStay(clean_lines, n, list, new)
      /\ ListedOrReported(clean_lines, n, list, new, line.new, File, options)
      /\ \E B : line.new \in Seq(B)
  <2>1. IsWithoutAsm(T, clean_lines)
    BY <1>5, LinesWithoutAsm DEF IsWithoutAsm
  <2>2. nesting_state \in Nestings(T) /\ Len(list) = Lists(clean_lines, n - 1)
    BY <1>8 DEF ListsInv
  <2>3. AtLine(clean_lines, n, list)
    BY <1>5, <1>6, <2>2
       DEF AtLine, GroupsMatch, ElseOfGroup, Directive, Level, LevelAt, Openings, Closings,
           OpensGroup, ClosesGroup
  <2> PICK before : before = checks
    OBVIOUS
  <2> HIDE DEF list, new
  <2>4. /\ AreCheckers(before, n - 1) /\ before.nesting \in Nestings(T)
        /\ list = before.include.include_list
        /\ line = LineProcessed(File, clean_lines, n, before, filters, options)
    BY <1>7, <2>2 DEF list
  <2>5. ListsAfter(T, File, clean_lines, n, options, list, line)
    BY <1>3, <1>6, <2>1, <2>3, <2>4, LineLists
  <2> QED
    BY <2>5 DEF ListsAfter, new
<1>10. /\ \A c, j : Raised(c, j) => Raised(c, j)'
       /\ \A e : IsReported(e, line.new) => Raised(e.category, e.linenum)'
  <2>1. verdicts = [i \in DOMAIN command.files |-> verdicts[i]]
    BY DEF RunInv, VerdictsInv
  <2>2. PICK A : verdicts[index] \in Seq(A)
    BY <1>4 DEF RunInv, VerdictsInv, AreOwnVerdicts
  <2> QED
    BY <1>1, <1>4, <1>9, <2>1, <2>2, ReportRaises
<1>11. ASSUME NEW i PROVE (IsTop(i)' <=> IsTop(i)) /\ (IsInclude(i)' <=> IsInclude(i))
                          /\ HeaderOf(i)' = HeaderOf(i)
  BY <1>1, <1>4 DEF IsTop, IsListed, IsInclude, Directive, HeaderOf, Level, OpensGroup, ClosesGroup
<1>12. ASSUME NEW i \in 1 .. n - 1, IsTop(i) PROVE IsKept(i, n)'
  <2>1. IsKept(i, n - 1) /\ LevelAt(clean_lines, i) = 0
    BY <1>8, <1>12 DEF ListsInv, IsTop, Level, LevelAt, Openings, Closings, OpensGroup,
                       ClosesGroup, Directive
  <2>2. Holds(new, Lists(clean_lines, i), HeaderOf(i).name)
    BY <1>9, <2>1 DEF IsKept, OldStay
  <2>3. ASSUME NEW j \in i + 1 .. n, IsInclude(j), HeaderOf(j).name = HeaderOf(i).name
        PROVE  Raised(<<"build", "include">>, j)'
    <3>1. CASE j # n
      <4>1. j \in i + 1 .. n - 1
        BY <2>3, <3>1
      <4>2. Raised(<<"build", "include">>, j)
        BY <2>1, <2>3, <4>1 DEF IsKept
      <4> QED
        BY <1>10, <4>2
    <3>2. CASE j = n
      <4> PICK e : e = IncludeProblem(n, "include")
        OBVIOUS
      <4>1. Holds(list, Lists(clean_lines, i), NameOn(clean_lines, n))
        BY <2>1, <2>3, <3>2 DEF IsKept, NameOn, HeaderOf
      <4>2. First(clean_lines.elided[n]) = "#include"
        BY <2>3, <3>2 DEF IsInclude, Directive
      <4>3. IsReported(e, line.new)
        BY <1>9, <4>1, <4>2 DEF ListedOrReported
      <4>4. e.category = <<"build", "include">> /\ e.linenum = n
        BY DEF IncludeProblem, Problem
      <4>5. Raised(e.category, e.linenum)'
        BY <1>10, <4>3
      <4> QED
        BY <3>2, <4>4, <4>5
    <3> QED
      BY <3>1, <3>2
  <2>4. ASSUME NEW j \in i + 1 .. n, IsInclude(j)', HeaderOf(j)'.name = HeaderOf(i)'.name
        PROVE  Raised(<<"build", "include">>, j)'
    BY <1>11, <2>3, <2>4
  <2> QED
    BY <1>1, <1>11, <2>2, <2>4 DEF IsKept
<1>13. ASSUME IsTop(n) PROVE IsKept(n, n)'
  <2>1. /\ First(clean_lines.elided[n]) = "#include"
        /\ CanBeListed(Header[Strip(clean_lines.lines[n])[2]], File, options)
    BY <1>13 DEF IsTop, IsListed, IsInclude, Directive, HeaderOf, CanBeListed
  <2>2. Holds(new, Lists(clean_lines, n), HeaderOf(n).name)
    BY <1>9, <2>1 DEF NameOn, HeaderOf, ListedOrReported
  <2>3. n + 1 .. n = {}
    OBVIOUS
  <2> QED
    BY <1>1, <1>11, <2>2, <2>3 DEF IsKept
<1>14. ASSUME NEW i \in 1 .. n, IsTop(i)' PROVE IsKept(i, n)'
  <2>1. i \in 1 .. n - 1 \/ i = n
    OBVIOUS
  <2>2. IsTop(i)
    BY <1>11, <1>14
  <2> QED
    BY <1>12, <1>13, <2>1, <2>2
<1>15. /\ nesting_state' \in Nestings(Token \ {"asm"})
       /\ Len(include_state'.include_list) = Lists(clean_lines', n)
  BY <1>1, <1>9
<1>16. ListsInv(n)'
  BY <1>14, <1>15 DEF ListsInv
<1> QED
  BY <1>6, <1>16 DEF ListsInv

LEMMA NextKeptInv == IInv /\ RunInv /\ KeptInv /\ [Next]_vars => KeptInv'
<1> SUFFICES ASSUME IInv, RunInv, KeptInv, [Next]_vars PROVE KeptInv'
  OBVIOUS
<1>1. CASE StartFile
  BY <1>1, StartFileKeepsKeptInv
<1>2. CASE ProcessLine
  BY <1>2, ProcessLineKeepsKeptInv
<1>3. CASE \/ ParseArguments \/ NoFiles \/ DieOfFilter \/ ExcludeFile \/ DieOfConfig \/ SkipFile
           \/ EndFile \/ Exit
  <2>1. pc' # "line"
    BY <1>3 DEF ParseArguments, NoFiles, DieOfFilter, ExcludeFile, DieOfConfig, SkipFile, IsOpened,
                EndFile, NextFile, Exit
  <2> QED
    BY <2>1 DEF KeptInv
<1>4. CASE UNCHANGED vars
  <2>1. /\ pc' = pc /\ linenum' = linenum /\ clean_lines' = clean_lines /\ options' = options
        /\ command' = command /\ index' = index /\ verdicts' = verdicts
        /\ nesting_state' = nesting_state /\ include_state' = include_state
    BY <1>4 DEF vars, state
  <2>2. /\ HasAsm' <=> HasAsm
        /\ GroupsMatch(Len(clean_lines.lines))' <=> GroupsMatch(Len(clean_lines.lines))
    BY <2>1 DEF HasAsm, GroupsMatch, Level, OpensGroup, ClosesGroup, ElseOfGroup, Directive
  <2>3. ListsInv(linenum - 1)' <=> ListsInv(linenum - 1)
    <3>1. ASSUME NEW i, NEW n PROVE (IsTop(i)' <=> IsTop(i)) /\ (IsKept(i, n)' <=> IsKept(i, n))
      BY <2>1 DEF IsTop, IsListed, IsKept, IsInclude, Directive, HeaderOf, Level, OpensGroup,
                  ClosesGroup, Raised, File
    <3> PICK n : n = linenum - 1
      OBVIOUS
    <3>2. ListsInv(n)' <=> ListsInv(n)
      BY <2>1, <3>1 DEF ListsInv
    <3>3. linenum' - 1 = n
      BY <2>1
    <3> QED
      BY <3>2, <3>3 DEF ListsInv
  <2> QED
    BY <2>1, <2>2, <2>3 DEF KeptInv
<1> QED
  BY <1>1, <1>2, <1>3, <1>4 DEF Next

(* A listed include outside of every group is among the includes at the    *)
(* end of its file, and every later line with its path has its error,      *)
(* whatever was included and branched in between (cpplint.py:4813, 5837):  *)
(* the list the path went to is not the one an #else empties, because a    *)
(* group that is open later was opened later, and has a list behind it.    *)
THEOREM TopLevelIncludesAreRemembered == Spec => []TopLevelIncludesAreKept
<1>1. IInv /\ RunInv /\ KeptInv => TopLevelIncludesAreKept
  <2> SUFFICES ASSUME IInv, RunInv, KeptInv, AllLinesDone,
                      GroupsMatch(Len(clean_lines.lines)), ~HasAsm,
                      NEW i \in 1 .. Len(clean_lines.lines), IsListed(i), Level(i) = 0
               PROVE  /\ HeaderOf(i).name \in Included(include_state)
                      /\ \A j \in i + 1 .. Len(clean_lines.lines) :
                           IsInclude(j) /\ HeaderOf(j).name = HeaderOf(i).name
                             => Raised(<<"build", "include">>, j)
    BY DEF TopLevelIncludesAreKept
  <2> DEFINE n == Len(clean_lines.lines)
             list == include_state.include_list
  <2>1. n \in Nat /\ linenum - 1 = n
    <3>1. PICK text \in Seq(Line) : clean_lines = CleansedLines(text)
      BY DEF RunInv, CheckersInv
    <3>2. n \in Nat
      BY <3>1, CleansedType
    <3> QED
      BY <3>2 DEF RunInv, CheckersInv, AllLinesDone
  <2>2. ListsInv(n)
    BY <2>1 DEF KeptInv, AllLinesDone
  <2>3. IsKept(i, n) /\ Len(list) = Lists(clean_lines, n)
    BY <2>2 DEF ListsInv, IsTop
  <2>4. Lists(clean_lines, i) \in 1 .. Len(list) /\ Len(list) \in Nat
    <3>1. i \in 0 .. n
      BY <2>1
    <3> QED
      BY <2>1, <2>3, <3>1, ListsGrow
  <2>5. DOMAIN list = 1 .. Len(list)
    <3>1. PICK A, H : include_state \in IncludeStates(A, H)
      BY DEF RunInv, CheckersInv, AreCheckers, IsIncludeState, checks
    <3> QED
      BY <3>1 DEF IncludeStates
  <2>6. PICK p \in 1 .. Lists(clean_lines, i) : \E pair \in list[p] : pair[1] = HeaderOf(i).name
    BY <2>3 DEF IsKept, Holds
  <2>7. p \in DOMAIN list
    BY <2>4, <2>5, <2>6
  <2>8. HeaderOf(i).name \in Included(include_state)
    BY <2>6, <2>7 DEF Included
  <2> QED
    BY <2>3, <2>8 DEF IsKept
<1>2. Init => KeptInv
  BY DEF Init, KeptInv
<1> QED
  BY <1>1, <1>2, InitIInv, NextIInv, InitRunInv, NextRunInv, NextKeptInv, PTL DEF Spec

-----------------------------------------------------------------------------
(* The verdicts on functions' lengths: none is there when the lines begin, *)
(* and a line adds its own.                                                *)
Sizeless(list) == \E A : list \in Seq(A) /\ \A e : ~HasSizeVerdict(list, e)

LEMMA NoSizeless == Sizeless(<<>>)
<1>1. <<>> \in Seq({}) /\ \A e : ~HasSizeVerdict(<<>>, e)
  BY DEF HasSizeVerdict
<1> QED
  BY <1>1 DEF Sizeless

LEMMA MoreSizeless ==
  ASSUME NEW s, Sizeless(s), NEW t, Sizeless(t)
  PROVE  Sizeless(s \o t)
<1>1. PICK A : s \in Seq(A) /\ \A e : ~HasSizeVerdict(s, e)
  BY DEF Sizeless
<1>2. PICK B : t \in Seq(B) /\ \A e : ~HasSizeVerdict(t, e)
  BY DEF Sizeless
<1> DEFINE C == A \cup B
<1>3. s \in Seq(C) /\ t \in Seq(C)
  BY <1>1, <1>2, SeqMonotonic
<1> HIDE DEF C
<1>4. s \o t \in Seq(C)
  BY <1>3, ConcatProperties
<1>5. \A e : ~HasSizeVerdict(s \o t, e)
  BY <1>1, <1>2, <1>3, SizesOfParts
<1> QED
  BY <1>4, <1>5 DEF Sizeless

LEMMA JudgedSizeless ==
  ASSUME NEW known, NEW used, NEW A, NEW errors \in Seq(A), \A e : ~HasSize(errors, e)
  PROVE  Sizeless(Judged(known, used, errors))
<1> DEFINE list == Judged(known, used, errors)
<1>1. PICK B : list \in Seq(B)
  BY JudgedType
<1>2. SameSizes(errors, list)
  BY JudgedSizes
<1> HIDE DEF list
<1>3. Sizeless(list)
  BY <1>1, <1>2 DEF Sizeless, SameSizes
<1> QED
  BY <1>3 DEF list

LEMMA OthersSizeless ==
  ASSUME NEW known, NEW used, NEW L, NEW errors \in Seq(Others(L))
  PROVE  Sizeless(Judged(known, used, errors))
BY OthersHaveNoSize, JudgedSizeless

LEMMA StageSizeless ==
  ASSUME NEW lines, NEW stage, LooksAt(stage, lines), NEW before, Sizeless(before.new),
         NEW used, NEW after, after = GuardStage(before, stage, lines, used)
  PROVE  Sizeless(after.new)
<1> DEFINE n == stage.linenum
           odd == IF n = 0 THEN <<>> ELSE NolintErrors(lines[n], n)
           errors == stage.errors
<1>1. /\ after.new = before.new \o Judged(before.known, used, odd)
                                \o Judged(after.known, used, errors)
  BY DEF GuardStage
<1>2. n \in {n}
  OBVIOUS
<1>3. odd \in Seq(Others({n}))
  BY <1>2, OddErrors, NoOther
<1>4. /\ errors \in Seq(Problems({n}))
      /\ \A i \in DOMAIN errors : errors[i].category = <<"build", "header_guard">>
  BY GuardErrors
<1> HIDE DEF odd, errors, n
<1>5. \A e : ~HasSize(errors, e)
  <2>1. \A e, x : x.category = <<"build", "header_guard">> => ~IsSize(x, e)
    BY DEF IsSize
  <2> QED
    BY <1>4, <2>1 DEF HasSize
<1>6. /\ Sizeless(Judged(before.known, used, odd))
      /\ Sizeless(Judged(after.known, used, errors))
  BY <1>3, <1>4, <1>5, OthersSizeless, JudgedSizeless
<1>7. Sizeless(before.new \o Judged(before.known, used, odd))
  BY <1>6, MoreSizeless
<1> QED
  BY <1>1, <1>6, <1>7, MoreSizeless

LEMMA GuardSizeless ==
  ASSUME NEW lines, NEW stages, Len(stages) \in Nat,
         \A i \in 1 .. Len(stages) : LooksAt(stages[i], lines), NEW known, NEW used
  PROVE  Sizeless(GuardVerdicts(stages, lines, known, used).new)
<1> DEFINE n == Len(stages)
           after == CHOOSE f : Reads(f, n, stages, lines, known, used)
<1>1. GuardVerdicts(stages, lines, known, used) = after[n]
  BY DEF GuardVerdicts, Reads
<1>2. Reads(after, n, stages, lines, known, used)
  BY ReadsExists
<1> HIDE DEF after
<1> DEFINE G == {s \in {after[i] : i \in 0 .. n} : Sizeless(s.new)}
<1>3. after[0] \in G
  <2>1. after[0] = [known |-> known, new |-> <<>>] /\ 0 \in 0 .. n
    BY <1>2 DEF Reads
  <2> QED
    BY <2>1, NoSizeless
<1>4. \A i \in 1 .. n : after[i - 1] \in G => after[i] \in G
  <2> SUFFICES ASSUME NEW i \in 1 .. n, after[i - 1] \in G PROVE after[i] \in G
    OBVIOUS
  <2>1. after[i] = GuardStage(after[i - 1], stages[i], lines, used) /\ i \in 0 .. n
    BY <1>2 DEF Reads
  <2>2. Sizeless(after[i].new)
    BY <2>1, StageSizeless
  <2> QED
    BY <2>1, <2>2
<1> HIDE DEF G
<1>5. after[n] \in G
  <2>1. n \in Nat
    OBVIOUS
  <2> HIDE DEF n
  <2>2. \A i \in 0 .. n : after[i] \in G
    BY <1>3, <1>4, <2>1, CourseStays
  <2> QED
    BY <2>1, <2>2
<1> QED
  BY <1>1, <1>5 DEF G

LEMMA StartSizeless ==
  ASSUME NEW file, file.text \in Seq(Line), NEW used, NEW opts
  PROVE  Sizeless(Started(file, used, opts).new)
<1> DEFINE text == file.text
           global == ProcessGlobalSuppresions(NoSuppressions, text)
           lines == WithoutRawStrings(file)
           all == CheckForHeaderGuard(lines)
           stages == IF file.ext \in GetHeaderExtensions(opts) THEN all ELSE <<>>
           guard == GuardVerdicts(stages, lines, global, used)
           copyright == CheckForCopyright(text)
           comment == UnclosedComment(text)
           begin == CommentScan(text).unclosed + 1
<1>1. Started(file, used, opts).new = Judged(NoSuppressions, used, copyright)
                                      \o Judged(global, used, comment) \o guard.new
  BY DEF Started, ResetNolintSuppressions, WithoutRawStrings, CleansedLines
<1>2. copyright \in Seq(Others({0})) /\ comment \in Seq(Others({begin}))
  <2>1. copyright \in {<<>>, <<Problem(0, <<"legal", "copyright">>, 5)>>}
    BY DEF CheckForCopyright
  <2>2. comment \in {<<>>, <<Problem(begin, <<"readability", "multiline_comment">>, 5)>>}
    BY DEF UnclosedComment
  <2>3. /\ <<"legal", "copyright">> \in OtherCategories
        /\ <<"readability", "multiline_comment">> \in OtherCategories /\ 5 \in 0 .. 5
    BY DEF Categories, OtherCategories
  <2> HIDE DEF copyright, comment, begin
  <2>4. /\ <<Problem(0, <<"legal", "copyright">>, 5)>> \in Seq(Others({0}))
        /\ <<Problem(begin, <<"readability", "multiline_comment">>, 5)>> \in Seq(Others({begin}))
    BY <2>3, OneOther
  <2> QED
    BY <2>1, <2>2, <2>4, NoOther
<1>3. Len(stages) \in Nat /\ \A i \in 1 .. Len(stages) : LooksAt(stages[i], lines)
  <2>1. RemoveMultiLineComments(text) \in Seq(Line)
    BY RemoveType
  <2>2. lines \in Seq(Line)
    BY <2>1, CleanseRawType DEF WithoutRawStrings
  <2> HIDE DEF lines
  <2>3. IsList(all) /\ \A i \in 1 .. Len(all) : LooksAt(all[i], lines)
    BY <2>2, StagesLookAtLines DEF IsList
  <2>4. stages = all \/ stages = <<>>
    OBVIOUS
  <2>5. Len(<<>>) = 0 /\ Len(all) \in Nat
    BY <2>3 DEF IsList
  <2> HIDE DEF all, stages
  <2> QED
    BY <2>3, <2>4, <2>5
<1> HIDE DEF stages, global, lines
<1>4. Sizeless(guard.new)
  BY <1>3, GuardSizeless
<1>5. /\ Sizeless(Judged(NoSuppressions, used, copyright))
      /\ Sizeless(Judged(global, used, comment))
  <2> HIDE DEF copyright, comment, begin
  <2> QED
    BY <1>2, OthersSizeless
<1> HIDE DEF guard, copyright, comment
<1> QED
  BY <1>1, <1>4, <1>5, MoreSizeless

(* The verdicts of the lines up to n.                                      *)
SizesRight(list, lines, n) ==
  /\ \A e : HasSizeVerdict(list, e) => e \in 1 .. n
  /\ \A e \in 1 .. n : Closes(lines[e]) => (HasSizeVerdict(list, e) <=> IsLong(lines, e))

SizesAfter(T, lines, n, old, after) ==
  /\ after.checks.nesting \in Nestings(T)
  /\ Counted(after.checks.function, lines.lines, n)
  /\ SizesRight(old \o after.new, lines.lines, n)

LEMMA LineSizes ==
  ASSUME NEW file, NEW text \in Seq(Line), NEW lines, lines = CleansedLines(text),
         NEW T, IsWithoutAsm(T, lines),
         NEW n \in 1 .. Len(text), NEW m \in Nat, NEW before, AreCheckers(before, m),
         before.nesting \in Nestings(T), NEW used, NEW opts, NEW after,
         after = LineProcessed(file, lines, n, before, used, opts),
         Counted(before.function, lines.lines, n - 1),
         NEW A, NEW old \in Seq(A), SizesRight(old, lines.lines, n - 1)
  PROVE  SizesAfter(T, lines, n, old, after)
<1>1. PICK counted : counted = CheckForFunctionLengths(before.function, lines.lines, n,
                                                       VerboseLevel)
  OBVIOUS
<1>2. /\ after.checks.nesting \in Nestings(T) /\ after.checks.function = counted.function
      /\ SameSizes(counted.errors, after.new)
  <2> PICK included : included = CheckLanguage(before.include, file, lines, n, opts)
    OBVIOUS
  <2>1. LineBecomes(T, after, included, counted)
    BY <1>1, LineWithoutAsm
  <2> QED
    BY <2>1 DEF LineBecomes
<1>3. PICK B : after.new \in Seq(B)
  <2>1. \E errors \in Seq(Problems(0 .. n)) :
          after.new = Judged(after.checks.known, used, errors)
    BY LineType
  <2> QED
    BY <2>1, JudgedType
<1>4. n \in Nat \ {0} /\ before.function \in Functions(m)
  BY DEF AreCheckers
<1>5. PICK all, function : all = lines.lines /\ function = before.function
  OBVIOUS
<1>6. /\ Counted(counted.function, lines.lines, n)
      /\ \A e : HasSize(counted.errors, e) => e = n
      /\ Closes(lines.lines[n]) => (HasSize(counted.errors, n) <=> IsLong(lines.lines, n))
  <2>1. /\ function \in Functions(m) /\ Counted(function, all, n - 1)
        /\ counted = CheckForFunctionLengths(function, all, n, VerboseLevel)
    BY <1>1, <1>4, <1>5
  <2>2. Counted(counted.function, all, n)
    BY <1>4, <2>1, CountedStep
  <2>3. /\ \A e : HasSize(counted.errors, e) => e = n
        /\ Closes(all[n]) => (HasSize(counted.errors, n) <=> IsLong(all, n))
    BY <1>4, <2>1, SizeErrors
  <2> QED
    BY <1>5, <2>2, <2>3
<1>7. \A e : HasSizeVerdict(old \o after.new, e)
               <=> HasSizeVerdict(old, e) \/ HasSize(counted.errors, e)
  <2>1. old \in Seq(A \cup B) /\ after.new \in Seq(A \cup B)
    BY <1>3, SeqMonotonic
  <2>2. \A e : HasSizeVerdict(old \o after.new, e)
                 <=> HasSizeVerdict(old, e) \/ HasSizeVerdict(after.new, e)
    BY <2>1, SizesOfParts
  <2> QED
    BY <1>2, <2>2 DEF SameSizes
<1>8. SizesRight(old \o after.new, lines.lines, n)
  <2> PICK list : list = old \o after.new
    OBVIOUS
  <2>1. \A e : HasSizeVerdict(list, e) => e \in 1 .. n
    BY <1>4, <1>6, <1>7 DEF SizesRight
  <2>2. ASSUME NEW e \in 1 .. n, Closes(lines.lines[e])
        PROVE  HasSizeVerdict(list, e) <=> IsLong(lines.lines, e)
    <3>1. CASE e = n
      <4>1. ~HasSizeVerdict(old, e)
        BY <1>4, <3>1 DEF SizesRight
      <4> QED
        BY <1>6, <1>7, <2>2, <3>1, <4>1
    <3>2. CASE e # n
      <4>1. e \in 1 .. n - 1
        BY <1>4, <3>2
      <4> QED
        BY <1>6, <1>7, <2>2, <3>2, <4>1 DEF SizesRight
    <3> QED
      BY <3>1, <3>2
  <2> QED
    BY <2>1, <2>2 DEF SizesRight
<1> QED
  BY <1>2, <1>6, <1>8 DEF SizesAfter

(* The invariant: the counter is that of the lines so far, and so are the  *)
(* verdicts on functions' lengths, as long as no block is of assembler.    *)
SizesInv(n) ==
  /\ nesting_state \in Nestings(Token \ {"asm"})
  /\ Counted(function_state, clean_lines.lines, n)
  /\ SizesRight(verdicts[index], clean_lines.lines, n)

LengthsInv == pc = "line" /\ ~HasAsm => SizesInv(linenum - 1)

LEMMA StartFileKeepsLengthsInv ==
  ASSUME IInv, RunInv, JudgedInv, StartFile
  PROVE  LengthsInv'
<1> PICK start : start = Started(File, AddFilters(filters, ConfigFilters(File.configs)), NewOptions)
  OBVIOUS
<1>1. /\ pc = "file" /\ HasFile /\ Report(start.new) /\ linenum' = 1
      /\ nesting_state' = NewNestingState /\ function_state' = NewFunctionState
      /\ command' = command /\ index' = index
  BY DEF StartFile, IsOpened
<1>2. index \in DOMAIN command.files /\ File.text \in Seq(Line)
  BY <1>1, OpenFile
<1>3. Sizeless(start.new)
  BY <1>2, StartSizeless
<1>4. verdicts'[index'] = verdicts[index] \o start.new /\ verdicts[index] = <<>>
  BY <1>1, <1>2, ReportChangesItsFile DEF JudgedInv
<1>5. Sizeless(verdicts'[index'])
  BY <1>3, <1>4, NoSizeless, MoreSizeless
<1> PICK list, lines : list = verdicts'[index'] /\ lines = clean_lines'.lines
  OBVIOUS
<1>6. SizesRight(list, lines, 0)
  <2>1. \A e : ~HasSizeVerdict(list, e)
    BY <1>5 DEF Sizeless
  <2>2. 1 .. 0 = {}
    OBVIOUS
  <2> QED
    BY <2>1, <2>2 DEF SizesRight
<1>7. Counted(NewFunctionState, lines, 0)
  <2>1. NewFunctionState.in_a_function = FALSE
    BY DEF NewFunctionState
  <2>2. Inside(lines, 0) = {}
    BY DEF Inside, Heads
  <2> QED
    BY <2>1, <2>2 DEF Counted
<1>8. NewNestingState \in Nestings(Token \ {"asm"})
  BY NewNestings
<1>9. linenum' - 1 = 0
  BY <1>1
<1> QED
  BY <1>1, <1>6, <1>7, <1>8, <1>9 DEF LengthsInv, SizesInv

LEMMA ProcessLineKeepsLengthsInv ==
  ASSUME IInv, RunInv, LengthsInv, ProcessLine
  PROVE  LengthsInv'
<1> PICK n \in Nat \ {0} : n = linenum
  BY DEF IInv
<1> PICK line : line = LineProcessed(File, clean_lines, n, checks, filters, options)
  OBVIOUS
<1> PICK T : T = Token \ {"asm"}
  OBVIOUS
<1>1. /\ pc = "line" /\ n <= Len(clean_lines.lines) /\ linenum' = n + 1
      /\ nesting_state' = line.checks.nesting /\ function_state' = line.checks.function
      /\ Report(line.new) /\ command' = command /\ index' = index
      /\ clean_lines' = clean_lines
  BY DEF ProcessLine, Becomes
<1>2. HasFile /\ clean_lines = CleansedLines(RemoveMultiLineComments(File.text))
  BY <1>1 DEF IInv
<1>3. PICK text \in Seq(Line) : clean_lines = CleansedLines(text)
  BY <1>2, OpenFile
<1>4. index \in DOMAIN command.files
  BY <1>1, <1>2, OpenFile
<1>5. /\ Len(clean_lines.lines) = Len(text) /\ Len(text) \in Nat
      /\ clean_lines.elided \in Seq(Line)
  BY <1>3, CleansedType
<1>6. n \in 1 .. Len(text) /\ n - 1 \in Nat /\ linenum' - 1 = n
  BY <1>1, <1>5
<1>7. /\ AreCheckers(checks, n - 1)
      /\ checks.function = function_state /\ checks.nesting = nesting_state
  BY DEF RunInv, CheckersInv, checks
<1> SUFFICES ASSUME ~HasAsm PROVE SizesInv(linenum - 1)'
  <2>1. HasAsm' <=> HasAsm
    BY <1>1 DEF HasAsm
  <2> QED
    BY <2>1 DEF LengthsInv
<1>8. SizesInv(n - 1)
  BY <1>1 DEF LengthsInv
<1>9. IsWithoutAsm(T, clean_lines)
  BY <1>5, LinesWithoutAsm DEF IsWithoutAsm
<1>10. verdicts = [i \in DOMAIN command.files |-> verdicts[i]]
  BY DEF RunInv, VerdictsInv
<1>11. PICK A : verdicts[index] \in Seq(A)
  BY <1>4 DEF RunInv, VerdictsInv, AreOwnVerdicts
<1> PICK before, old : before = checks /\ old = verdicts[index]
  OBVIOUS
<1>12. SizesAfter(T, clean_lines, n, old, line)
  <2>1. /\ AreCheckers(before, n - 1) /\ before.nesting \in Nestings(T)
        /\ Counted(before.function, clean_lines.lines, n - 1)
        /\ old \in Seq(A) /\ SizesRight(old, clean_lines.lines, n - 1)
        /\ line = LineProcessed(File, clean_lines, n, before, filters, options)
    BY <1>7, <1>8, <1>11 DEF SizesInv
  <2> QED
    BY <1>3, <1>6, <1>9, <2>1, LineSizes
<1>13. verdicts'[index'] = old \o line.new
  BY <1>1, <1>4, <1>10, ReportChangesItsFile
<1>14. SizesInv(n)'
  BY <1>1, <1>12, <1>13 DEF SizesAfter, SizesInv
<1> QED
  BY <1>6, <1>14 DEF SizesInv

LEMMA NextLengthsInv == IInv /\ RunInv /\ JudgedInv /\ LengthsInv /\ [Next]_vars => LengthsInv'
<1> SUFFICES ASSUME IInv, RunInv, JudgedInv, LengthsInv, [Next]_vars PROVE LengthsInv'
  OBVIOUS
<1>1. CASE StartFile
  BY <1>1, StartFileKeepsLengthsInv
<1>2. CASE ProcessLine
  BY <1>2, ProcessLineKeepsLengthsInv
<1>3. CASE \/ ParseArguments \/ NoFiles \/ DieOfFilter \/ ExcludeFile \/ DieOfConfig \/ SkipFile
           \/ EndFile \/ Exit
  <2>1. pc' # "line"
    BY <1>3 DEF ParseArguments, NoFiles, DieOfFilter, ExcludeFile, DieOfConfig, SkipFile, IsOpened,
                EndFile, NextFile, Exit
  <2> QED
    BY <2>1 DEF LengthsInv
<1>4. CASE UNCHANGED vars
  <2>1. /\ pc' = pc /\ linenum' = linenum /\ clean_lines' = clean_lines
        /\ index' = index /\ verdicts' = verdicts
        /\ nesting_state' = nesting_state /\ function_state' = function_state
    BY <1>4 DEF vars, state
  <2>2. HasAsm' <=> HasAsm
    BY <2>1 DEF HasAsm
  <2>3. SizesInv(linenum - 1)' <=> SizesInv(linenum - 1)
    BY <2>1 DEF SizesInv
  <2> QED
    BY <2>1, <2>2, <2>3 DEF LengthsInv
<1> QED
  BY <1>1, <1>2, <1>3, <1>4 DEF Next

(* In a file without inline assembler the error of a function's length is  *)
(* at a closing brace just when the code behind the last head is longer    *)
(* than the trigger, whatever functions, declarations and blank lines came *)
(* before (cpplint.py:1268, 3282): the counter is the number of lines of   *)
(* code behind that head, and stands still when there is none.             *)
THEOREM LongFunctionsAreFound == Spec => []LongFunctionsAreReported
<1>1. RunInv /\ LengthsInv => LongFunctionsAreReported
  <2> DEFINE lines == clean_lines.lines
             list == verdicts[index]
             n == Len(lines)
  <2> SUFFICES ASSUME RunInv, LengthsInv, AllLinesDone, ~HasAsm,
                      NEW e \in DOMAIN lines, Closes(lines[e]),
                      NEW inside,
                      inside = {h \in {i \in 1 .. e - 1 : IsHead(i)} :
                                  \A i \in {k \in 1 .. e - 1 : IsHead(k)}
                                           \cup {k \in 1 .. e - 1 : Closes(lines[k])} : i <= h}
               PROVE  Raised(<<"readability", "fn_size">>, e)
                        <=> \E h \in inside : Cardinality(BodyLines(h, e)) > Trigger(h)
    BY Zenon DEF LongFunctionsAreReported, Closes
  <2>1. n \in Nat /\ linenum - 1 = n /\ DOMAIN lines = 1 .. n
    <3>1. PICK text \in Seq(Line) : clean_lines = CleansedLines(text)
      BY DEF RunInv, CheckersInv
    <3>2. lines \in Seq(Line)
      BY <3>1, CleansedType
    <3> HIDE DEF lines
    <3>3. n \in Nat /\ DOMAIN lines = 1 .. n
      BY <3>2
    <3> QED
      BY <3>3 DEF RunInv, CheckersInv, AllLinesDone, lines
  <2>2. SizesRight(list, lines, n)
    BY <2>1 DEF LengthsInv, AllLinesDone, SizesInv
  <2>3. HasSizeVerdict(list, e) <=> IsLong(lines, e)
    <3> HIDE DEF lines, list
    <3> QED
      BY <2>1, <2>2 DEF SizesRight
  <2>4. Raised(<<"readability", "fn_size">>, e) <=> HasSizeVerdict(list, e)
    BY DEF Raised, HasSizeVerdict, IsSize
  <2>5. Inside(lines, e - 1) = inside
    BY DEF Inside, Heads, Ends, IsHead
  <2>6. \A h : BodyLines(h, e) = Body(lines, h, e - 1)
    BY DEF BodyLines, Body
  <2>7. \A h : Trigger(h) = (IF FunctionName(lines[h]) = "TEST" THEN TestTrigger
                             ELSE NormalTrigger) * 2 ^ VerboseLevel
    BY DEF Trigger
  <2>8. IsLong(lines, e) <=> \E h \in inside : Cardinality(BodyLines(h, e)) > Trigger(h)
    BY <2>5, <2>6, <2>7, Zenon DEF IsLong
  <2> QED
    BY <2>3, <2>4, <2>8
<1>2. Init => LengthsInv
  BY DEF Init, LengthsInv
<1> QED
  BY <1>1, <1>2, InitIInv, NextIInv, InitRunInv, NextRunInv, InitJudgedInv, NextJudgedInv,
     NextLengthsInv, PTL DEF Spec

-----------------------------------------------------------------------------
(* Tokens are of one kind only, and the loop over the braces tells them     *)
(* apart the same way.                                                      *)
LEMMA KindsOfTokens ==
  ASSUME NEW t
  PROVE  /\ ~(BeginsBlock(t) /\ EndsBlock(t)) /\ ~(BeginsBlock(t) /\ EndsStatement(t))
         /\ ~(EndsBlock(t) /\ EndsStatement(t))
         /\ t \in HeadWords => ~BeginsBlock(t) /\ ~EndsBlock(t) /\ ~EndsStatement(t)
BY Zenon DEF BeginsBlock, EndsBlock, EndsStatement, HeadWords

LEMMA StackBehindToken ==
  ASSUME NEW T, NEW n, NEW acc \in Braces(T, n), NEW t, NEW lines, NEW stack,
         stack = TakeToken(acc, t, lines, n).stack
  PROVE  /\ BeginsBlock(t) => stack = OpenBrace(acc, n)
         /\ EndsBlock(t) => stack = PopBlock(acc.stack)
         /\ EndsStatement(t) => stack = PopHead(acc.stack)
         /\ ~BeginsBlock(t) /\ ~EndsBlock(t) /\ ~EndsStatement(t) => stack = acc.stack
<1> DEFINE opened == [acc EXCEPT !.stack = OpenBrace(acc, n), !.piece = <<>>]
           ended == [acc EXCEPT !.stack = PopHead(@), !.piece = <<>>]
           errors == IF acc.stack = <<>> THEN acc.errors
                     ELSE acc.errors \o CheckEnd(Top(acc.stack), lines, n)
           closed == [stack |-> PopBlock(acc.stack), piece |-> <<>>, errors |-> errors]
           goes_on == [acc EXCEPT !.piece = Append(@, t)]
           taken == CASE BeginsBlock(t) -> opened [] EndsStatement(t) -> ended
                      [] EndsBlock(t) -> closed [] OTHER -> goes_on
<1>1. TakeToken(acc, t, lines, n) = taken
  BY Zenon DEF TakeToken, BeginsBlock, EndsBlock, EndsStatement
<1>2. /\ opened.stack = OpenBrace(acc, n) /\ ended.stack = PopHead(acc.stack)
      /\ closed.stack = PopBlock(acc.stack) /\ goes_on.stack = acc.stack
  BY DEF Braces
<1> HIDE DEF opened, ended, closed, goes_on
<1> QED
  BY <1>1, <1>2, KindsOfTokens

\* What the scan of the braces knows.
BraceStates ==
  [depth : Nat, waits : HeadWords \cup {"nothing"}, inner : BOOLEAN, clear : BOOLEAN]

\* Tokens the scan of the braces passes over.
IsQuiet(t) ==
  ~BeginsBlock(t) /\ ~EndsBlock(t) /\ ~EndsStatement(t) /\ t \notin HeadWords

LEMMA BracesBehindToken ==
  ASSUME NEW b \in BraceStates, NEW t, NEW new, new = BraceToken(b, t)
  PROVE  /\ new \in BraceStates /\ (new.clear => b.clear)
         /\ BeginsBlock(t) => new.depth = b.depth + 1 /\ new.clear = b.clear
         /\ EndsBlock(t) => /\ new.depth = IF b.depth > 0 THEN b.depth - 1 ELSE b.depth
                            /\ new.clear => b.waits = "nothing"
         /\ ~BeginsBlock(t) /\ ~EndsBlock(t) => new.depth = b.depth
         /\ t \in HeadWords /\ ~b.inner => /\ new.waits = t
                                           /\ new.clear => b.waits = "nothing"
         /\ EndsStatement(t) => (new.clear => b.waits # "namespace")
         /\ ~BeginsBlock(t) /\ ~EndsStatement(t) =>
              new.waits = b.waits \/ (t \in HeadWords /\ new.waits = t)
         /\ IsQuiet(t) => new.waits = b.waits /\ new.clear = b.clear
         /\ t \in HeadWords /\ new.clear /\ b.waits # "nothing" => new.waits = b.waits
         /\ new.inner = StartsList(t)
<1> DEFINE starts == StartsList(t)
<1>1. starts \in BOOLEAN
  BY DEF StartsList
<1>2. \A w \in HeadWords : w # "nothing"
  BY DEF HeadWords
<1>3. new.inner = starts
  BY DEF BraceToken
<1> HIDE DEF starts
<1>4. new \in BraceStates
  <2> DEFINE head == t \in HeadWords /\ ~b.inner
             depth == CASE BeginsBlock(t) -> b.depth + 1
                        [] EndsBlock(t) /\ b.depth > 0 -> b.depth - 1
                        [] OTHER -> b.depth
             waits == CASE head -> t
                        [] BeginsBlock(t) \/ EndsStatement(t) -> "nothing"
                        [] OTHER -> b.waits
             clear == /\ b.clear
                      /\ head \/ EndsBlock(t) => b.waits = "nothing"
                      /\ EndsStatement(t) => b.waits # "namespace"
  <2>1. new = [depth |-> depth, waits |-> waits, inner |-> starts, clear |-> clear]
    BY DEF BraceToken, starts
  <2>2. depth \in Nat
    BY KindsOfTokens DEF BraceStates
  <2>3. waits \in HeadWords \cup {"nothing"}
    BY KindsOfTokens DEF BraceStates
  <2>4. clear \in BOOLEAN
    OBVIOUS
  <2> HIDE DEF depth, waits, clear
  <2> QED
    BY <1>1, <2>1, <2>2, <2>3, <2>4 DEF BraceStates
<1> QED
  BY <1>2, <1>3, <1>4, KindsOfTokens DEF BraceToken, BraceStates, IsQuiet, starts

-----------------------------------------------------------------------------
(* Stacks whose blocks have seen their braces, but for the last one.        *)
SameFlags(stack, new) ==
  /\ Len(new) = Len(stack)
  /\ \A i \in 1 .. Len(stack) : new[i].seen_open_brace = stack[i].seen_open_brace

LastSeen(stack) == Len(stack) > 0 => stack[Len(stack)].seen_open_brace

\* A stack fits the braces of the code, as long as that is clear.
Fits(stack, b) ==
  b.clear => /\ \A i \in 1 .. Len(stack) - 1 : stack[i].seen_open_brace
             /\ b.depth = IF LastSeen(stack) THEN Len(stack) ELSE Len(stack) - 1
             /\ ~LastSeen(stack) => b.waits # "nothing"

LEMMA SeenIsLastSeen ==
  ASSUME NEW T, NEW stack \in Stacks(T)
  PROVE  SeenOpenBrace(stack) <=> LastSeen(stack)
<1>1. stack = <<>> <=> Len(stack) = 0
  BY DEF Stacks
<1>2. Len(stack) \in Nat
  BY DEF Stacks
<1> QED
  BY <1>1, <1>2 DEF SeenOpenBrace, LastSeen, Top, Last

LEMMA SameFlagsFit ==
  ASSUME NEW T, NEW stack \in Stacks(T), NEW new, SameFlags(stack, new), NEW b, Fits(stack, b)
  PROVE  Fits(new, b)
<1>1. Len(stack) \in Nat
  BY DEF Stacks
<1> QED
  BY <1>1 DEF SameFlags, Fits, LastSeen

LEMMA FlagsOfSetTop ==
  ASSUME NEW T, NEW stack \in Stacks(T), stack # <<>>, NEW block
  PROVE  /\ Len(SetTop(stack, block)) = Len(stack) /\ Len(stack) \in Nat \ {0}
         /\ SetTop(stack, block)[Len(stack)] = block
         /\ \A i \in 1 .. Len(stack) - 1 : SetTop(stack, block)[i] = stack[i]
BY DEF Stacks, SetTop

LEMMA FlagsOfPush ==
  ASSUME NEW T, NEW stack \in Stacks(T), NEW block
  PROVE  /\ Len(Append(stack, block)) = Len(stack) + 1 /\ Len(stack) \in Nat
         /\ Append(stack, block)[Len(stack) + 1] = block
         /\ \A i \in 1 .. Len(stack) : Append(stack, block)[i] = stack[i]
<1> DEFINE A == Blocks(T) \cup {block}
<1>1. stack \in Seq(A) /\ block \in A
  <2>1. Blocks(T) \subseteq A /\ block \in A
    OBVIOUS
  <2> HIDE DEF A
  <2> QED
    BY <2>1, SeqMonotonic DEF Stacks
<1> HIDE DEF A
<1> QED
  BY <1>1, AppendProperties

LEMMA FlagsOfFront ==
  ASSUME NEW T, NEW stack \in Stacks(T), stack # <<>>
  PROVE  /\ Len(Front(stack)) = Len(stack) - 1 /\ Len(stack) \in Nat \ {0}
         /\ \A i \in 1 .. Len(stack) - 1 : Front(stack)[i] = stack[i]
BY FrontAndLast DEF Stacks

\* A token of the loop over the braces.
LEMMA FitsToken ==
  ASSUME NEW T, NEW n, NEW acc \in Braces(T, n), NEW t, NEW lines,
         NEW b \in BraceStates, Fits(acc.stack, b)
  PROVE  Fits(TakeToken(acc, t, lines, n).stack, BraceToken(b, t))
<1> PICK stack \in Stacks(T) : stack = acc.stack
  BY DEF Braces
<1> PICK after : after = TakeToken(acc, t, lines, n).stack
  OBVIOUS
<1> PICK new : new = BraceToken(b, t)
  OBVIOUS
<1>1. /\ new \in BraceStates /\ (new.clear => b.clear)
      /\ BeginsBlock(t) => new.depth = b.depth + 1 /\ new.clear = b.clear
      /\ EndsBlock(t) => /\ new.depth = IF b.depth > 0 THEN b.depth - 1 ELSE b.depth
                         /\ new.clear => b.waits = "nothing"
      /\ ~BeginsBlock(t) /\ ~EndsBlock(t) => new.depth = b.depth
      /\ ~BeginsBlock(t) /\ ~EndsStatement(t) =>
           new.waits = b.waits \/ (t \in HeadWords /\ new.waits = t)
  BY BracesBehindToken
<1>2. /\ BeginsBlock(t) => after = OpenBrace(acc, n)
      /\ EndsBlock(t) => after = PopBlock(stack)
      /\ EndsStatement(t) => after = PopHead(stack)
      /\ ~BeginsBlock(t) /\ ~EndsBlock(t) /\ ~EndsStatement(t) => after = stack
  BY StackBehindToken
<1>3. SeenOpenBrace(stack) <=> LastSeen(stack)
  BY SeenIsLastSeen
<1>4. b.depth \in Nat /\ Len(stack) \in Nat /\ Fits(stack, b)
  BY DEF BraceStates, Stacks
<1>5. CASE BeginsBlock(t)
  <2>1. CASE ~LastSeen(stack)
    <3>0. PICK block : block = [Top(stack) EXCEPT !.seen_open_brace = TRUE]
      OBVIOUS
    <3>1. after = SetTop(stack, block)
      BY <1>2, <1>3, <1>5, <2>1, <3>0 DEF OpenBrace
    <3>2. stack # <<>>
      BY <1>3, <2>1 DEF SeenOpenBrace
    <3>3. block.seen_open_brace
      <4>1. Top(stack) \in Blocks(T)
        BY <3>2, FrontAndLast DEF Top, Stacks
      <4> QED
        BY <3>0, <4>1 DEF Blocks
    <3>4. /\ Len(after) = Len(stack) /\ Len(stack) \in Nat \ {0} /\ after[Len(stack)] = block
          /\ \A i \in 1 .. Len(stack) - 1 : after[i] = stack[i]
      BY <3>1, <3>2, FlagsOfSetTop
    <3> QED
      BY <1>1, <1>4, <1>5, <2>1, <3>3, <3>4 DEF Fits, LastSeen
  <2>2. CASE LastSeen(stack)
    <3>1. PICK block : after = Append(stack, block) /\ block.seen_open_brace
      <4> DEFINE extern == Block("extern", "", n, TRUE)
                 plain == Block("block", "", n, TRUE)
                 asm == IF MatchAsm(Append(acc.piece, "{")) THEN "block" ELSE "none"
                 block == [plain EXCEPT !.inline_asm = asm]
      <4>1. OpenBrace(acc, n) = IF ~SeenOpenBrace(acc.stack)
                                THEN SetTop(acc.stack,
                                            [Top(acc.stack) EXCEPT !.seen_open_brace = TRUE])
                                ELSE IF acc.piece = <<"extern", Empty>>
                                THEN Append(acc.stack, extern) ELSE Append(acc.stack, block)
        BY DEF OpenBrace
      <4>2. extern.seen_open_brace /\ block.seen_open_brace
        <5> HIDE DEF asm
        <5> QED
          BY DEF Block
      <4> HIDE DEF extern, block
      <4> QED
        BY <1>2, <1>3, <1>5, <2>2, <4>1, <4>2
    <3>2. /\ Len(after) = Len(stack) + 1 /\ Len(stack) \in Nat /\ after[Len(stack) + 1] = block
          /\ \A i \in 1 .. Len(stack) : after[i] = stack[i]
      BY <3>1, FlagsOfPush
    <3> QED
      BY <1>1, <1>4, <1>5, <2>2, <3>1, <3>2 DEF Fits, LastSeen
  <2> QED
    BY <2>1, <2>2
<1>6. CASE EndsBlock(t)
  <2>1. CASE stack = <<>>
    <3>1. after = stack /\ Len(stack) = 0
      BY <1>2, <1>6, <2>1 DEF PopBlock
    <3> QED
      BY <1>1, <1>4, <1>6, <3>1 DEF Fits, LastSeen
  <2>2. CASE stack # <<>>
    <3>1. after = Front(stack)
      BY <1>2, <1>6, <2>2 DEF PopBlock
    <3>2. /\ Len(after) = Len(stack) - 1 /\ Len(stack) \in Nat \ {0}
          /\ \A i \in 1 .. Len(stack) - 1 : after[i] = stack[i]
      BY <2>2, <3>1, FlagsOfFront
    <3>3. ASSUME new.clear
          PROVE  /\ \A i \in 1 .. Len(stack) - 1 : stack[i].seen_open_brace
                 /\ LastSeen(stack) /\ b.depth = Len(stack) /\ new.depth = Len(stack) - 1
      BY <1>1, <1>4, <1>6, <3>2, <3>3 DEF Fits
    <3>4. ASSUME new.clear
          PROVE  LastSeen(after) /\ \A i \in 1 .. Len(after) - 1 : after[i].seen_open_brace
      <4>1. /\ Len(after) > 0 => Len(after) \in 1 .. Len(stack) - 1
            /\ \A i \in 1 .. Len(after) - 1 : i \in 1 .. Len(stack) - 1
        BY <3>2
      <4>2. \A i \in 1 .. Len(stack) - 1 : after[i].seen_open_brace
        BY <3>2, <3>3, <3>4
      <4> QED
        BY <4>1, <4>2 DEF LastSeen
    <3> QED
      BY <3>2, <3>3, <3>4 DEF Fits
  <2> QED
    BY <2>1, <2>2
<1>7. CASE EndsStatement(t)
  <2>1. CASE LastSeen(stack)
    <3>1. after = stack
      BY <1>2, <1>3, <1>7, <2>1 DEF PopHead
    <3> QED
      BY <1>1, <1>4, <1>7, <2>1, <3>1, KindsOfTokens DEF Fits
  <2>2. CASE ~LastSeen(stack)
    <3>1. after = Front(stack) /\ stack # <<>>
      BY <1>2, <1>3, <1>7, <2>2 DEF PopHead, SeenOpenBrace
    <3>2. /\ Len(after) = Len(stack) - 1 /\ Len(stack) \in Nat \ {0}
          /\ \A i \in 1 .. Len(stack) - 1 : after[i] = stack[i]
      BY <3>1, FlagsOfFront
    <3>3. ASSUME new.clear
          PROVE  /\ \A i \in 1 .. Len(stack) - 1 : after[i].seen_open_brace
                 /\ new.depth = Len(after)
      <4>1. new.depth = b.depth /\ b.clear
        BY <1>1, <1>7, <3>3, KindsOfTokens
      <4>2. /\ \A i \in 1 .. Len(stack) - 1 : stack[i].seen_open_brace
            /\ b.depth = Len(stack) - 1
        BY <1>4, <2>2, <4>1 DEF Fits
      <4> QED
        BY <3>2, <4>1, <4>2
    <3>4. /\ Len(after) > 0 => Len(after) \in 1 .. Len(stack) - 1
          /\ \A i \in 1 .. Len(after) - 1 : i \in 1 .. Len(stack) - 1
      BY <3>2
    <3> QED
      BY <3>3, <3>4 DEF Fits, LastSeen
  <2> QED
    BY <2>1, <2>2
<1>8. CASE ~BeginsBlock(t) /\ ~EndsBlock(t) /\ ~EndsStatement(t)
  <2>1. new.waits # "nothing" \/ new.waits = b.waits
    BY <1>1, <1>8 DEF HeadWords
  <2> QED
    BY <1>1, <1>2, <1>4, <1>8, <2>1 DEF Fits
<1> QED
  BY <1>5, <1>6, <1>7, <1>8

\* What stands behind position p of a line.
Behind(line, p) == SubSeq(line, p + 1, Len(line))

LEMMA BehindPlace ==
  ASSUME NEW T, NEW line \in Seq(T), NEW p \in 0 .. Len(line)
  PROVE  /\ Behind(line, p) \in Seq(T) /\ Len(line) \in Nat
         /\ Len(Behind(line, p)) = Len(line) - p
         /\ \A i \in 1 .. Len(line) - p : Behind(line, p)[i] = line[p + i]
<1>1. Len(line) \in Nat /\ p \in Nat /\ p + 1 \in Int /\ \A i \in p + 1 .. Len(line) : line[i] \in T
  OBVIOUS
<1>2. /\ Behind(line, p) \in Seq(T)
      /\ Len(Behind(line, p)) = IF p + 1 <= Len(line) THEN Len(line) - (p + 1) + 1 ELSE 0
      /\ \A i \in 1 .. Len(line) - (p + 1) + 1 : Behind(line, p)[i] = line[p + 1 + i - 1]
  BY <1>1, SubSeqProperties DEF Behind
<1>3. Len(Behind(line, p)) = Len(line) - p
  BY <1>1, <1>2
<1>4. ASSUME NEW i \in 1 .. Len(line) - p PROVE Behind(line, p)[i] = line[p + i]
  <2>1. i \in 1 .. Len(line) - (p + 1) + 1 /\ p + 1 + i - 1 = p + i
    BY <1>1
  <2> QED
    BY <1>2, <2>1
<1> QED
  BY <1>1, <1>2, <1>3, <1>4

LEMMA BehindBehind ==
  ASSUME NEW T, NEW line \in Seq(T), NEW p \in 0 .. Len(line), NEW q \in 0 .. Len(line) - p
  PROVE  Behind(Behind(line, p), q) = Behind(line, p + q)
<1> DEFINE rest == Behind(line, p)
           left == Behind(rest, q)
           right == Behind(line, p + q)
           n == Len(line) - (p + q)
<1>1. rest \in Seq(T) /\ Len(rest) = Len(line) - p /\ Len(line) \in Nat
      /\ \A i \in 1 .. Len(line) - p : rest[i] = line[p + i]
  BY BehindPlace
<1> HIDE DEF rest
<1>2. q \in 0 .. Len(rest) /\ p + q \in 0 .. Len(line) /\ Len(rest) - q = n /\ n \in Nat
  BY <1>1
<1>3. left \in Seq(T) /\ Len(left) = n /\ \A i \in 1 .. n : left[i] = rest[q + i]
  <2>1. rest \in Seq(T) /\ q \in 0 .. Len(rest)
    BY <1>1, <1>2
  <2>2. /\ left \in Seq(T) /\ Len(left) = Len(rest) - q
        /\ \A i \in 1 .. Len(rest) - q : left[i] = rest[q + i]
    BY <2>1, BehindPlace
  <2> HIDE DEF left, n
  <2> QED
    BY <1>2, <2>2
<1>4. right \in Seq(T) /\ Len(right) = n /\ \A i \in 1 .. n : right[i] = line[p + q + i]
  BY <1>1, <1>2, BehindPlace
<1> HIDE DEF left, right
<1>5. ASSUME NEW i \in 1 .. n PROVE left[i] = right[i]
  <2>1. q + i \in 1 .. Len(line) - p /\ p + (q + i) = p + q + i
    BY <1>1, <1>2
  <2> QED
    BY <1>1, <1>3, <1>4, <2>1
<1>6. left = right
  <2> HIDE DEF n
  <2>1. left = [i \in 1 .. n |-> left[i]] /\ right = [i \in 1 .. n |-> right[i]]
    BY <1>3, <1>4
  <2> QED
    BY <1>5, <2>1
<1> QED
  BY <1>6 DEF left, right, rest

LEMMA TailIsBehind ==
  ASSUME NEW T, NEW line \in Seq(T), NEW p \in 0 .. Len(line) - 1
  PROVE  Tail(Behind(line, p)) = Behind(line, p + 1) /\ Head(Behind(line, p)) = line[p + 1]
<1> DEFINE rest == Behind(line, p)
<1>1. p \in 0 .. Len(line) /\ Len(line) \in Nat /\ 1 \in 0 .. Len(line) - p
  OBVIOUS
<1>2. rest \in Seq(T) /\ Len(rest) = Len(line) - p
      /\ \A i \in 1 .. Len(line) - p : rest[i] = line[p + i]
  BY <1>1, BehindPlace
<1>3. Behind(rest, 1) = Behind(line, p + 1)
  BY <1>1, BehindBehind
<1> HIDE DEF rest
<1>4. Tail(rest) = Behind(rest, 1)
  BY <1>1, <1>2 DEF Behind
<1>5. Head(rest) = line[p + 1]
  BY <1>1, <1>2
<1> QED
  BY <1>3, <1>4, <1>5 DEF rest

-----------------------------------------------------------------------------
(* The braces of a line, as a scan: behind every token what is known there. *)
IsScan(f, line, b) ==
  /\ f \in [0 .. Len(line) -> BraceStates]
  /\ f[0] = [b EXCEPT !.inner = FALSE]
  /\ \A i \in 1 .. Len(line) : f[i] = BraceToken(f[i - 1], line[i])

LEMMA ScanExists ==
  ASSUME NEW b \in BraceStates, NEW line, Len(line) \in Nat
  PROVE  \E f : IsScan(f, line, b) /\ BraceLine(b, line) = f[Len(line)]
<1> DEFINE n == Len(line)
           S == BraceStates
           first == [b EXCEPT !.inner = FALSE]
           G == [p \in (1 .. n) \X S |-> BraceToken(p[2], line[p[1]])]
           behind == CHOOSE f : f = [i \in 0 .. n |->
                       IF i = 0 THEN first ELSE BraceToken(f[i - 1], line[i])]
<1>1. BraceLine(b, line) = behind[n]
  BY DEF BraceLine
<1>2. first \in S /\ n \in Nat
  BY DEF BraceStates
<1>3. G \in [(1 .. n) \X S -> S]
  <2> HIDE DEF n
  <2> QED
    BY BracesBehindToken
<1> HIDE DEF n, first
<1>4. PICK g : IsCourse(g, n, S, first, G)
  <2> HIDE DEF G, S
  <2> QED
    BY <1>2, <1>3, CourseExists
<1>5. g = [i \in 0 .. n |-> IF i = 0 THEN first ELSE BraceToken(g[i - 1], line[i])]
  <2>1. ASSUME NEW i \in 0 .. n, i # 0 PROVE g[i] = BraceToken(g[i - 1], line[i])
    <3>1. i \in 1 .. n /\ i - 1 \in 0 .. n
      BY <1>2, <2>1
    <3> HIDE DEF S
    <3>2. g[i] = G[<<i, g[i - 1]>>] /\ g[i - 1] \in S
      BY <1>4, <3>1 DEF IsCourse
    <3> QED
      BY <3>1, <3>2
  <2> HIDE DEF S
  <2> QED
    BY <1>4, <2>1 DEF IsCourse
<1>6. behind = [i \in 0 .. n |-> IF i = 0 THEN first ELSE BraceToken(behind[i - 1], line[i])]
  BY <1>5
<1> HIDE DEF behind, G
<1>7. behind[0] = first /\ \A i \in 1 .. n : behind[i] = BraceToken(behind[i - 1], line[i])
  <2>1. 0 \in 0 .. n /\ \A i \in 1 .. n : i \in 0 .. n /\ i # 0
    BY <1>2
  <2> QED
    BY <1>6, <2>1
<1>8. \A i \in 0 .. n : behind[i] \in S
  <2>1. behind[0] \in S /\ \A i \in 1 .. n : behind[i - 1] \in S => behind[i] \in S
    <3>1. ASSUME NEW i \in 1 .. n, behind[i - 1] \in S PROVE behind[i] \in S
      <4>1. BraceToken(behind[i - 1], line[i]) \in S
        BY <3>1, BracesBehindToken
      <4> QED
        BY <1>7, <4>1
    <3> QED
      BY <1>2, <1>7, <3>1
  <2> HIDE DEF S
  <2> QED
    BY <1>2, <2>1, CourseStays
<1>9. behind \in [0 .. n -> S]
  BY <1>6, <1>8
<1>10. IsScan(behind, line, b)
  BY <1>7, <1>9 DEF IsScan, n, first
<1> QED
  BY <1>1, <1>10 DEF n

(* What holds of the scan along a stretch of the line.                      *)
LEMMA StretchStays ==
  ASSUME NEW f, NEW A, NEW p \in Nat, NEW q \in Nat, p <= q, f[p] \in A,
         \A i \in p + 1 .. q : f[i - 1] \in A => f[i] \in A
  PROVE  f[q] \in A
<1> DEFINE g == [i \in 0 .. q - p |-> f[p + i]]
<1>1. q - p \in Nat /\ 0 \in 0 .. q - p /\ q - p \in 0 .. q - p /\ p + (q - p) = q /\ p + 0 = p
  OBVIOUS
<1>2. g[0] \in A /\ g[q - p] = f[q]
  BY <1>1
<1>3. ASSUME NEW i \in 1 .. q - p, g[i - 1] \in A PROVE g[i] \in A
  <2>1. /\ p + i \in p + 1 .. q /\ (p + i) - 1 = p + (i - 1)
        /\ i \in 0 .. q - p /\ i - 1 \in 0 .. q - p
    OBVIOUS
  <2> QED
    BY <1>3, <2>1
<1> HIDE DEF g
<1>4. \A i \in 0 .. q - p : g[i] \in A
  BY <1>1, <1>2, <1>3, CourseStays
<1> QED
  BY <1>1, <1>2, <1>4

LEMMA ScanStep ==
  ASSUME NEW f, NEW line, NEW b, IsScan(f, line, b), NEW i \in 1 .. Len(line), Len(line) \in Nat
  PROVE  /\ f[i - 1] \in BraceStates /\ f[i] \in BraceStates
         /\ f[i] = BraceToken(f[i - 1], line[i])
<1>1. i \in 0 .. Len(line) /\ i - 1 \in 0 .. Len(line)
  OBVIOUS
<1> QED
  BY <1>1 DEF IsScan

(* A stretch with tokens the scan passes over.                              *)
LEMMA QuietStretch ==
  ASSUME NEW f, NEW line, NEW b, IsScan(f, line, b), Len(line) \in Nat,
         NEW p \in 0 .. Len(line), NEW q \in p .. Len(line),
         \A i \in p + 1 .. q : IsQuiet(line[i]) /\ ~StartsList(line[i]),
         ~f[p].inner
  PROVE  /\ f[q].depth = f[p].depth /\ f[q].waits = f[p].waits /\ f[q].clear = f[p].clear
         /\ ~f[q].inner
<1> DEFINE Same(x) == /\ x.depth = f[p].depth /\ x.waits = f[p].waits
                      /\ x.clear = f[p].clear /\ ~x.inner
           A == {x \in BraceStates : Same(x)}
<1>1. f[p] \in A
  BY DEF IsScan
<1>2. ASSUME NEW i \in p + 1 .. q, f[i - 1] \in A PROVE f[i] \in A
  <2>1. i \in 1 .. Len(line)
    OBVIOUS
  <2> PICK x : x = f[i - 1]
    OBVIOUS
  <2> PICK y : y = f[i]
    OBVIOUS
  <2>2. x \in BraceStates /\ y \in BraceStates /\ y = BraceToken(x, line[i]) /\ Same(x)
    BY <1>2, <2>1, ScanStep
  <2>3. Same(y)
    <3>1. IsQuiet(line[i]) /\ ~StartsList(line[i])
      OBVIOUS
    <3> QED
      BY <2>2, <3>1, BracesBehindToken DEF IsQuiet
  <2> QED
    BY <2>2, <2>3
<1> HIDE DEF A
<1>3. f[q] \in A
  BY <1>1, <1>2, StretchStays
<1> QED
  BY <1>3 DEF A

(* A stretch behind the head of a namespace, up to its brace.               *)
LEMMA WaitingStretch ==
  ASSUME NEW f, NEW line, NEW b, IsScan(f, line, b), Len(line) \in Nat,
         NEW p \in 0 .. Len(line), NEW q \in p .. Len(line),
         \A i \in p + 1 .. q : ~BeginsBlock(line[i]),
         f[p].waits = "namespace", f[q].clear
  PROVE  f[q].depth = f[p].depth /\ f[p].clear
<1> DEFINE Waits(x) ==
             x.clear => x.waits = "namespace" /\ x.depth = f[p].depth /\ f[p].clear
           A == {x \in BraceStates : Waits(x)}
<1>1. f[p] \in A
  BY DEF IsScan
<1>2. ASSUME NEW i \in p + 1 .. q, f[i - 1] \in A PROVE f[i] \in A
  <2>1. i \in 1 .. Len(line)
    OBVIOUS
  <2> PICK x : x = f[i - 1]
    OBVIOUS
  <2> PICK y : y = f[i]
    OBVIOUS
  <2>2. x \in BraceStates /\ y \in BraceStates /\ y = BraceToken(x, line[i]) /\ Waits(x)
    BY <1>2, <2>1, ScanStep
  <2>3. Waits(y)
    <3>1. ~BeginsBlock(line[i])
      OBVIOUS
    <3> PICK t : t = line[i]
      OBVIOUS
    <3>2. /\ y.clear => x.clear
          /\ EndsBlock(t) => (y.clear => x.waits = "nothing")
          /\ ~BeginsBlock(t) /\ ~EndsBlock(t) => y.depth = x.depth
          /\ EndsStatement(t) => (y.clear => x.waits # "namespace")
          /\ ~BeginsBlock(t) /\ ~EndsStatement(t) =>
               y.waits = x.waits \/ (t \in HeadWords /\ y.waits = t)
          /\ t \in HeadWords /\ y.clear /\ x.waits # "nothing" => y.waits = x.waits
      BY <2>2, BracesBehindToken
    <3> QED
      BY <2>2, <3>1, <3>2
  <2> QED
    BY <2>2, <2>3
<1> HIDE DEF A
<1>3. f[q] \in A
  BY <1>1, <1>2, StretchStays
<1> QED
  BY <1>3 DEF A

(* A stretch without braces and ends of statements.                         *)
LEMMA PlainStretch ==
  ASSUME NEW f, NEW line, NEW b, IsScan(f, line, b), Len(line) \in Nat,
         NEW p \in 0 .. Len(line), NEW q \in p .. Len(line),
         \A i \in p + 1 .. q : /\ ~BeginsBlock(line[i]) /\ ~EndsBlock(line[i])
                               /\ ~EndsStatement(line[i])
  PROVE  /\ f[q].depth = f[p].depth /\ (f[q].clear => f[p].clear)
         /\ f[p].waits # "nothing" => f[q].waits # "nothing"
<1> DEFINE Goes(x) == /\ x.depth = f[p].depth /\ (x.clear => f[p].clear)
                      /\ f[p].waits # "nothing" => x.waits # "nothing"
           A == {x \in BraceStates : Goes(x)}
<1>1. f[p] \in A
  BY DEF IsScan
<1>2. ASSUME NEW i \in p + 1 .. q, f[i - 1] \in A PROVE f[i] \in A
  <2>1. i \in 1 .. Len(line)
    OBVIOUS
  <2> PICK x : x = f[i - 1]
    OBVIOUS
  <2> PICK y : y = f[i]
    OBVIOUS
  <2>2. x \in BraceStates /\ y \in BraceStates /\ y = BraceToken(x, line[i]) /\ Goes(x)
    BY <1>2, <2>1, ScanStep
  <2>3. Goes(y)
    <3>1. ~BeginsBlock(line[i]) /\ ~EndsBlock(line[i]) /\ ~EndsStatement(line[i])
      OBVIOUS
    <3> PICK t : t = line[i]
      OBVIOUS
    <3>2. /\ y.clear => x.clear
          /\ ~BeginsBlock(t) /\ ~EndsBlock(t) => y.depth = x.depth
          /\ ~BeginsBlock(t) /\ ~EndsStatement(t) =>
               y.waits = x.waits \/ (t \in HeadWords /\ y.waits = t)
      BY <2>2, BracesBehindToken
    <3>3. t \in HeadWords => t # "nothing"
      BY DEF HeadWords
    <3> QED
      BY <2>2, <3>1, <3>2, <3>3
  <2> QED
    BY <2>2, <2>3
<1> HIDE DEF A
<1>3. f[q] \in A
  BY <1>1, <1>2, StretchStays
<1> QED
  BY <1>3 DEF A

-----------------------------------------------------------------------------
(* Words, blanks and what else may stand before a head are passed over.     *)
LEMMA QuietTokens ==
  ASSUME NEW t, t \in Words \cup {Blank}
  PROVE  IsQuiet(t) /\ ~StartsList(t)
<1>1. ~BeginsBlock(t)
  BY Zenon DEF Words, Blank, BeginsBlock
<1>2. ~EndsBlock(t)
  BY Zenon DEF Words, Blank, EndsBlock
<1>3. ~EndsStatement(t)
  BY Zenon DEF Words, Blank, EndsStatement
<1>4. t \notin HeadWords
  BY Zenon DEF Words, Blank, HeadWords
<1>5. ~StartsList(t)
  BY Zenon DEF Words, Blank, StartsList
<1> QED
  BY <1>1, <1>2, <1>3, <1>4, <1>5 DEF IsQuiet

LEMMA TemplateTokens ==
  ASSUME NEW t, t \in Words \cup {"<", ">", "class", "=", ","} \/ t = "template"
  PROVE  ~BeginsBlock(t) /\ ~EndsBlock(t) /\ ~EndsStatement(t)
<1>1. ~BeginsBlock(t)
  BY Zenon DEF Words, BeginsBlock
<1>2. ~EndsBlock(t)
  BY Zenon DEF Words, EndsBlock
<1>3. ~EndsStatement(t)
  BY Zenon DEF Words, EndsStatement
<1> QED
  BY <1>1, <1>2, <1>3

LEMMA HeadTokens ==
  ASSUME NEW t, t \in HeadWords \/ t = ">" \/ BeginsBlock(t)
  PROVE  ~StartsList(t)
BY Zenon DEF HeadWords, StartsList, BeginsBlock

LEMMA IndentIsBlank ==
  ASSUME NEW line \in Line, NEW d, d = GetIndentLevel(line)
  PROVE  /\ d \in 0 .. Len(line) /\ \A i \in 1 .. d : line[i] = Blank
<1> DEFINE words == {i \in DOMAIN line : line[i] # Blank}
<1>1. d = IF words = {} THEN Len(line) ELSE (CHOOSE i \in words : \A j \in words : i <= j) - 1
  BY DEF GetIndentLevel
<1>2. DOMAIN line = 1 .. Len(line) /\ Len(line) \in Nat
  BY DEF Line
<1>3. words \in SUBSET Nat
  BY <1>2
<1>4. d \in 0 .. Len(line)
  BY IndentType
<1>5. ASSUME NEW i \in 1 .. d PROVE line[i] = Blank
  <2> SUFFICES ASSUME i \in words PROVE FALSE
    BY <1>2, <1>4
  <2> HIDE DEF words
  <2>1. \E x \in words : \A y \in words : x <= y
    BY <1>3, LeastLine
  <2> DEFINE x == CHOOSE x \in words : \A y \in words : x <= y
  <2>2. x \in Nat /\ x <= i
    BY <1>3, <2>1
  <2>3. d = x - 1
    BY <1>1
  <2> QED
    BY <2>2, <2>3
<1> QED
  BY <1>4, <1>5

LEMMA PlaceIsFirst ==
  ASSUME NEW line \in Line, NEW t, NEW r, r = PlaceOf(t, line), r # 0
  PROVE  r \in 1 .. Len(line) /\ line[r] = t /\ \A i \in 1 .. r - 1 : line[i] # t
<1> DEFINE I == {i \in 1 .. Len(line) : line[i] = t}
<1>1. r = Min(I) /\ I # {} /\ I \in SUBSET Nat
  BY DEF PlaceOf
<1>2. Len(line) \in Nat
  BY DEF Line
<1>3. r \in I /\ \A j \in I : r <= j
  <2> HIDE DEF I
  <2>1. \E x \in I : \A y \in I : x <= y
    BY <1>1, LeastLine
  <2>2. Min(I) = CHOOSE x \in I : \A y \in I : x <= y
    BY DEF Min
  <2> QED
    BY <1>1, <2>1, <2>2
<1> QED
  BY <1>2, <1>3

-----------------------------------------------------------------------------
\* What is left of the line, and the stack so far, stand at position p.
StandsAt(acc, f, line, p) == acc.line = Behind(line, p) /\ Fits(acc.stack, f[p])

Stands(acc, f, line) ==
  \E p \in 0 .. Len(line) : StandsAt(acc, f, line, p) /\ ~f[p].inner

\* A head that is pushed on a stack without others that wait.
LEMMA PushedHeadFits ==
  ASSUME NEW T, NEW stack \in Stacks(T), NEW block, NEW before, NEW b,
         Fits(stack, before),
         b.clear => before.clear /\ before.waits = "nothing",
         b.depth = IF block.seen_open_brace THEN before.depth + 1 ELSE before.depth,
         ~block.seen_open_brace => b.waits # "nothing"
  PROVE  Fits(Append(stack, block), b)
<1> PICK new : new = Append(stack, block)
  OBVIOUS
<1>1. /\ Len(new) = Len(stack) + 1 /\ Len(stack) \in Nat /\ new[Len(stack) + 1] = block
      /\ \A i \in 1 .. Len(stack) : new[i] = stack[i]
  BY FlagsOfPush
<1>2. ASSUME b.clear
      PROVE  /\ \A i \in 1 .. Len(stack) : stack[i].seen_open_brace
             /\ before.depth = Len(stack)
  BY <1>1, <1>2 DEF Fits, LastSeen
<1>3. LastSeen(new) <=> block.seen_open_brace
  BY <1>1 DEF LastSeen
<1>4. ASSUME b.clear PROVE \A i \in 1 .. Len(new) - 1 : new[i].seen_open_brace
  BY <1>1, <1>2, <1>4
<1> QED
  BY <1>1, <1>2, <1>3, <1>4 DEF Fits

LEMMA NamespaceFits ==
  ASSUME NEW T \in SUBSET Token, NEW line \in Seq(T), NEW f, NEW b, IsScan(f, line, b),
         NEW acc \in Taken(T), Stands(acc, f, line), NEW n \in Nat
  PROVE  Stands(TakeNamespace(acc, n), f, line)
<1>1. CASE First(acc.line) # "namespace"
  BY <1>1 DEF TakeNamespace
<1>2. CASE First(acc.line) = "namespace"
  <2> DEFINE after == Tail(Strip(acc.line))
             named == after # <<>> /\ Head(after) \in Words
             rest == IF named THEN Tail(after) ELSE after
             brace == SelectInSeq(rest, LAMBDA t : t = "{")
             name == IF named THEN Head(after) ELSE ""
             block == Block("namespace", name, n, brace # 0)
             new == [stack |-> Append(acc.stack, block),
                     line |-> SubSeq(rest, brace + 1, Len(rest))]
  <2>1. TakeNamespace(acc, n) = new
    BY <1>2 DEF TakeNamespace
  <2>2. PICK p \in 0 .. Len(line) : StandsAt(acc, f, line, p) /\ ~f[p].inner
    BY DEF Stands
  <2>3. /\ acc.line = Behind(line, p) /\ acc.line \in Seq(T) /\ Len(acc.line) = Len(line) - p
        /\ \A i \in 1 .. Len(line) - p : acc.line[i] = line[p + i]
        /\ Len(line) \in Nat /\ acc.line \in Line
    BY <2>2, BehindPlace, LineOfTokens DEF StandsAt
  <2>4. PICK d \in 0 .. Len(line) - p : d = GetIndentLevel(acc.line)
                                        /\ \A i \in 1 .. d : acc.line[i] = Blank
    BY <2>3, IndentIsBlank
  <2>5. Strip(acc.line) = Behind(line, p + d) /\ p + d \in 0 .. Len(line)
    <3>1. Strip(acc.line) = Behind(acc.line, d)
      BY <2>4 DEF Strip, Behind
    <3>2. Behind(acc.line, d) = Behind(line, p + d)
      BY <2>3, BehindBehind
    <3>3. p + d \in 0 .. Len(line)
      BY <2>3
    <3> QED
      BY <3>1, <3>2, <3>3
  <2>6. p + d < Len(line) /\ line[p + d + 1] = "namespace" /\ after = Behind(line, p + d + 1)
    <3>1. Strip(acc.line) # <<>> /\ Head(Strip(acc.line)) = "namespace"
      BY <1>2 DEF First
    <3>2. Len(Strip(acc.line)) = Len(line) - (p + d)
      BY <2>5, BehindPlace
    <3>3. p + d < Len(line)
      <4>1. Strip(acc.line) \in Seq(T)
        BY <2>5, BehindPlace
      <4> HIDE DEF after
      <4> QED
        BY <2>3, <2>5, <3>1, <3>2, <4>1
    <3>4. p + d \in 0 .. Len(line) - 1
      BY <2>3, <2>5, <3>3
    <3> QED
      BY <2>5, <3>1, <3>3, <3>4, TailIsBehind
  <2> PICK q \in 1 .. Len(line) : q = p + d + 1
    BY <2>3, <2>5, <2>6
  <2>7. /\ f[q].depth = f[p].depth /\ f[q].waits = "namespace" /\ ~f[q].inner
        /\ f[q].clear => f[p].clear /\ f[p].waits = "nothing"
    <3>1. /\ f[p + d].depth = f[p].depth /\ f[p + d].waits = f[p].waits
          /\ f[p + d].clear = f[p].clear /\ ~f[p + d].inner
      <4> PICK e \in p .. Len(line) : e = p + d
        BY <2>3, <2>5
      <4>1. ASSUME NEW i \in p + 1 .. e PROVE IsQuiet(line[i]) /\ ~StartsList(line[i])
        <5>1. i - p \in 1 .. d /\ i - p \in 1 .. Len(line) - p /\ p + (i - p) = i
          BY <2>3
        <5>2. line[i] = Blank
          BY <2>3, <2>4, <5>1
        <5> QED
          BY <5>2, QuietTokens
      <4>2. /\ f[e].depth = f[p].depth /\ f[e].waits = f[p].waits
            /\ f[e].clear = f[p].clear /\ ~f[e].inner
        <5>1. \A i \in p + 1 .. e : IsQuiet(line[i]) /\ ~StartsList(line[i])
          BY <4>1
        <5>2. ~f[p].inner /\ Len(line) \in Nat
          BY <2>2, <2>3
        <5> QED
          BY <5>1, <5>2, QuietStretch
      <4> QED
        BY <4>2
    <3>2. f[q - 1] \in BraceStates /\ f[q] = BraceToken(f[q - 1], line[q]) /\ q - 1 = p + d
      BY <2>3, ScanStep
    <3>3. line[q] = "namespace" /\ line[q] \in HeadWords
      BY <2>6 DEF HeadWords
    <3>4. ~BeginsBlock(line[q]) /\ ~EndsBlock(line[q]) /\ ~StartsList(line[q])
      BY <3>3, KindsOfTokens, HeadTokens
    <3> QED
      BY <3>1, <3>2, <3>3, <3>4, BracesBehindToken
  <2>8. PICK s \in q .. Len(line) :
          /\ rest = Behind(line, s)
          /\ f[s].depth = f[q].depth /\ f[s].waits = f[q].waits /\ f[s].clear = f[q].clear
          /\ ~f[s].inner
    <3>1. CASE ~named
      <4>1. rest = Behind(line, q)
        BY <2>6, <3>1
      <4>2. q \in q .. Len(line)
        BY <2>3
      <4>3. ~f[q].inner
        BY <2>7
      <4> HIDE DEF rest
      <4> QED
        BY <4>1, <4>2, <4>3
    <3>2. CASE named
      <4>1. q < Len(line)
        <5>1. after \in Seq(T) /\ Len(after) = Len(line) - q /\ after # <<>>
          <6>1. q \in 0 .. Len(line) /\ after = Behind(line, q)
            BY <2>6
          <6>2. after # <<>>
            BY <3>2
          <6> QED
            BY <6>1, <6>2, BehindPlace
        <5> HIDE DEF after
        <5> QED
          BY <5>1
      <4>2. Tail(after) = Behind(line, q + 1) /\ Head(after) = line[q + 1]
        <5>1. q \in 0 .. Len(line) - 1
          BY <2>3, <4>1
        <5> QED
          BY <2>6, <5>1, TailIsBehind
      <4>3. q + 1 \in q .. Len(line) /\ q \in 0 .. Len(line)
        BY <2>3, <4>1
      <4>4. \A i \in q + 1 .. q + 1 : IsQuiet(line[i]) /\ ~StartsList(line[i])
        <5>1. IsQuiet(line[q + 1]) /\ ~StartsList(line[q + 1])
          BY <3>2, <4>2, QuietTokens
        <5> QED
          BY <5>1
      <4>5. /\ f[q + 1].depth = f[q].depth /\ f[q + 1].waits = f[q].waits
            /\ f[q + 1].clear = f[q].clear /\ ~f[q + 1].inner
        BY <2>3, <2>7, <4>3, <4>4, QuietStretch
      <4> QED
        BY <3>2, <4>2, <4>3, <4>5
    <3> QED
      BY <3>1, <3>2
  <2>9. PICK open : BeginsBlock(open) /\ brace = PlaceOf(open, rest)
                    /\ \A t : BeginsBlock(t) => t = open
    <3>1. BeginsBlock("{") /\ \A t : BeginsBlock(t) => t = "{"
      BY Zenon DEF BeginsBlock
    <3>2. brace = PlaceOf("{", rest)
      BY DEF SelectInSeq, PlaceOf
    <3> QED
      BY <3>1, <3>2, Zenon
  <2> HIDE DEF after, named, name, rest, brace
  <2>10. /\ rest \in Seq(T) /\ rest \in Line /\ Len(rest) = Len(line) - s
         /\ \A i \in 1 .. Len(line) - s : rest[i] = line[s + i]
         /\ s \in 0 .. Len(line)
    <3>1. s \in 0 .. Len(line)
      OBVIOUS
    <3> QED
      BY <2>8, <3>1, BehindPlace, LineOfTokens
  <2>11. acc.stack \in Stacks(T) /\ Fits(acc.stack, f[p])
    BY <2>2 DEF Taken, StandsAt
  <2>12. block.seen_open_brace = (brace # 0)
    BY DEF Block
  <2> HIDE DEF block
  <2>13. new.stack = Append(acc.stack, block) /\ new.line = Behind(rest, brace)
    BY DEF Behind
  <2>14. CASE brace = 0
    <3>1. new.line = Behind(line, s)
      <4>1. 0 \in 0 .. Len(line) - s /\ s + 0 = s
        BY <2>3
      <4> QED
        BY <2>8, <2>10, <2>13, <2>14, <4>1, BehindBehind
    <3>2. Fits(new.stack, f[s])
      <4>1. f[s].waits # "nothing"
        BY <2>7, <2>8
      <4>2. Fits(Append(acc.stack, block), f[s])
        <5>1. /\ f[s].depth = f[p].depth
              /\ f[s].clear => f[p].clear /\ f[p].waits = "nothing"
          BY <2>7, <2>8
        <5>2. ~block.seen_open_brace
          BY <2>12, <2>14
        <5> QED
          BY <2>11, <4>1, <5>1, <5>2, PushedHeadFits
      <4> QED
        BY <2>13, <4>2
    <3> HIDE DEF new
    <3> QED
      BY <2>1, <2>8, <2>10, <3>1, <3>2 DEF Stands, StandsAt
  <2>15. CASE brace # 0
    <3>1. /\ brace \in 1 .. Len(line) - s /\ rest[brace] = open
          /\ \A i \in 1 .. brace - 1 : rest[i] # open
      BY <2>9, <2>10, <2>15, PlaceIsFirst
    <3> PICK r \in s + 1 .. Len(line) : r = s + brace
      <4>1. /\ s \in Nat /\ Len(line) \in Nat /\ brace \in Nat \ {0}
            /\ brace <= Len(line) - s
        BY <2>3, <2>10, <3>1
      <4>2. s + brace \in s + 1 .. Len(line)
        BY <4>1
      <4> QED
        BY <4>2
    <3>2. line[r] = open /\ new.line = Behind(line, r)
      <4>1. brace \in 0 .. Len(line) - s
        BY <3>1
      <4>2. Behind(rest, brace) = Behind(line, r)
        BY <2>8, <2>10, <4>1, BehindBehind
      <4> QED
        BY <2>10, <2>13, <3>1, <4>2
    <3>3. ASSUME NEW i \in s + 1 .. r - 1 PROVE ~BeginsBlock(line[i])
      <4>1. i - s \in 1 .. brace - 1 /\ i - s \in 1 .. Len(line) - s /\ s + (i - s) = i
        BY <2>3, <3>1
      <4> QED
        BY <2>9, <2>10, <3>1, <4>1
    <3>4. f[r - 1].clear => f[r - 1].depth = f[s].depth /\ f[s].clear
      <4> PICK e \in s .. Len(line) : e = r - 1
        BY <2>3
      <4>1. \A i \in s + 1 .. e : ~BeginsBlock(line[i])
        BY <3>3
      <4>2. f[s].waits = "namespace" /\ s \in 0 .. Len(line)
        BY <2>7, <2>8, <2>10
      <4>3. ASSUME f[e].clear PROVE f[e].depth = f[s].depth /\ f[s].clear
        <5>1. Len(line) \in Nat /\ e \in s .. Len(line)
          BY <2>3
        <5> QED
          BY <4>1, <4>2, <4>3, <5>1, WaitingStretch
      <4> QED
        BY <4>3
    <3>5. /\ f[r].clear => f[r].depth = f[p].depth + 1 /\ f[p].clear /\ f[p].waits = "nothing"
          /\ ~f[r].inner
      <4>1. r \in 1 .. Len(line)
        BY <2>3
      <4>2. f[r - 1] \in BraceStates /\ f[r] = BraceToken(f[r - 1], line[r])
        BY <2>3, <4>1, ScanStep
      <4>3. BeginsBlock(line[r]) /\ ~StartsList(line[r])
        BY <2>9, <3>2, HeadTokens
      <4> QED
        BY <2>7, <2>8, <3>4, <4>2, <4>3, BracesBehindToken
    <3>6. Fits(new.stack, f[r])
      <4>1. CASE f[r].clear
        <5>1. Fits(Append(acc.stack, block), f[r])
          BY <2>11, <2>12, <2>15, <3>5, <4>1, PushedHeadFits
        <5> QED
          BY <2>13, <5>1
      <4> QED
        BY <4>1 DEF Fits
    <3>7. r \in 0 .. Len(line)
      OBVIOUS
    <3> HIDE DEF new
    <3> QED
      BY <2>1, <3>2, <3>5, <3>6, <3>7 DEF Stands, StandsAt
  <2> QED
    BY <2>14, <2>15
<1> QED
  BY <1>1, <1>2

LEMMA NamespacesFit ==
  ASSUME NEW T \in SUBSET Token, NEW line \in Seq(T), NEW f, NEW b, IsScan(f, line, b),
         NEW stack \in Stacks(T), Fits(stack, f[0]), NEW here \in Nat
  PROVE  Stands(TakeNamespaces(stack, line, here), f, line)
<1> DEFINE n == Count(line, "namespace")
           S == Taken(T)
           first == [stack |-> stack, line |-> line]
           G == [p \in (1 .. n) \X S |-> TakeNamespace(p[2], here)]
           turn == CHOOSE g : g = [i \in 0 .. n |-> IF i = 0 THEN first
                                                    ELSE TakeNamespace(g[i - 1], here)]
           A == {x \in S : Stands(x, f, line)}
<1>1. TakeNamespaces(stack, line, here) = turn[n]
  BY DEF TakeNamespaces
<1>2. n \in Nat
  BY LineOfTokens, CountType
<1>3. first \in A
  <2>1. Len(line) \in Nat /\ 0 \in 0 .. Len(line)
    OBVIOUS
  <2>2. Behind(line, 0) = line
    <3>1. SubSeq(line, 1, Len(line)) = line
      OBVIOUS
    <3> QED
      BY <3>1 DEF Behind
  <2>3. ~f[0].inner
    <3>1. f[0] = [b EXCEPT !.inner = FALSE] /\ f[0] \in BraceStates
      BY <2>1 DEF IsScan
    <3> QED
      BY <3>1 DEF BraceStates
  <2>4. StandsAt(first, f, line, 0)
    BY <2>2 DEF StandsAt
  <2>5. first \in S
    BY DEF Taken
  <2> QED
    BY <2>1, <2>3, <2>4, <2>5 DEF Stands
<1>4. G \in [(1 .. n) \X S -> S]
  BY TakeNamespaceType
<1>5. \A x \in A : TakeNamespace(x, here) \in A
  BY TakeNamespaceType, NamespaceFits
<1>6. first \in S
  BY <1>3
<1> HIDE DEF n, first
<1>7. PICK g : IsCourse(g, n, S, first, G)
  <2> HIDE DEF G, S
  <2> QED
    BY <1>2, <1>4, <1>6, CourseExists
<1>8. g = [i \in 0 .. n |-> IF i = 0 THEN first ELSE TakeNamespace(g[i - 1], here)]
  <2>1. ASSUME NEW i \in 0 .. n, i # 0 PROVE g[i] = TakeNamespace(g[i - 1], here)
    <3>1. i \in 1 .. n /\ i - 1 \in 0 .. n
      BY <1>2, <2>1
    <3> HIDE DEF S
    <3>2. g[i] = G[<<i, g[i - 1]>>] /\ g[i - 1] \in S
      BY <1>7, <3>1 DEF IsCourse
    <3> QED
      BY <3>1, <3>2
  <2> HIDE DEF S
  <2> QED
    BY <1>7, <2>1 DEF IsCourse
<1>9. turn = [i \in 0 .. n |-> IF i = 0 THEN first ELSE TakeNamespace(turn[i - 1], here)]
  BY <1>8
<1> HIDE DEF turn, A
<1>10. turn[0] \in A /\ \A i \in 1 .. n : turn[i - 1] \in A => turn[i] \in A
  <2>1. turn[0] = first /\ \A i \in 1 .. n : turn[i] = TakeNamespace(turn[i - 1], here)
    BY <1>2, <1>9
  <2> QED
    BY <1>3, <1>5, <2>1
<1>11. turn[n] \in A
  <2>1. \A i \in 0 .. n : turn[i] \in A
    BY <1>2, <1>10, CourseStays
  <2> QED
    BY <1>2, <2>1
<1> QED
  BY <1>1, <1>11 DEF A

(* The head of a class, and what stands in front of it.                     *)
IsPlain(t) == ~BeginsBlock(t) /\ ~EndsBlock(t) /\ ~EndsStatement(t)

LEMMA ClassDeclPlace ==
  ASSUME NEW line \in Line, NEW k, k = ClassDecl(line), k # 0
  PROVE  /\ k \in 1 .. Len(line) - 1 /\ line[k] \in {"class", "struct"} /\ line[k + 1] \in Words
         /\ \A i \in 1 .. k - 1 : IsPlain(line[i])
         /\ k > 1 => ~StartsList(line[k - 1])
<1> DEFINE indent == GetIndentLevel(line)
           template(x) == /\ x > indent + 2
                          /\ line[indent + 1] = "template"
                          /\ line[indent + 2] = "<" /\ line[x - 1] = ">"
                          /\ \A i \in indent + 2 .. x - 1 :
                               line[i] \in Words \cup {"<", ">", "class", "=", ","}
           more(x) == x = indent + 1 \/ template(x)
           heads == {x \in indent + 1 .. Len(line) - 1 :
                       /\ line[x] \in {"class", "struct"} /\ line[x + 1] \in Words
                       /\ more(x)}
           last == CHOOSE x \in heads : \A j \in heads : j <= x
<1>1. ClassDecl(line) = IF heads = {} THEN 0 ELSE last
  BY DEF ClassDecl
<1> HIDE DEF template
<1>2. indent \in 0 .. Len(line) /\ Len(line) \in Nat /\ \A i \in 1 .. indent : line[i] = Blank
  BY IndentIsBlank DEF Line
<1> HIDE DEF indent
<1>3. heads \in SUBSET (1 .. Len(line))
  BY <1>2
<1>4. k \in heads
  <2> HIDE DEF heads
  <2>1. heads # {}
    BY <1>1
  <2>2. \E x \in heads : \A j \in heads : j <= x
    BY <1>2, <1>3, <2>1, GreatestLine
  <2> QED
    BY <1>1, <2>1, <2>2
<1> HIDE DEF last
<1>5. k \in indent + 1 .. Len(line) - 1 /\ k \in 1 .. Len(line) - 1
  BY <1>2, <1>4
<1>6. ASSUME NEW t, t = Blank PROVE IsPlain(t) /\ ~StartsList(t)
  BY <1>6, QuietTokens DEF IsPlain, IsQuiet
<1>7. ASSUME template(k)
      PROVE  /\ \A i \in indent + 1 .. k - 1 : IsPlain(line[i])
             /\ ~StartsList(line[k - 1])
  <2>1. line[indent + 1] = "template" /\ line[k - 1] = ">" /\ k > indent + 2
    BY <1>7 DEF template
  <2>2. \A i \in indent + 2 .. k - 1 : line[i] \in Words \cup {"<", ">", "class", "=", ","}
    BY <1>7 DEF template
  <2>3. \A i \in indent + 2 .. k - 1 : IsPlain(line[i])
    BY <2>2, TemplateTokens, Zenon DEF IsPlain
  <2>4. IsPlain(line[indent + 1])
    BY <2>1, TemplateTokens, Zenon DEF IsPlain
  <2>5. ~StartsList(line[k - 1])
    BY <2>1, HeadTokens, Zenon
  <2>6. \A i \in indent + 1 .. k - 1 : i = indent + 1 \/ i \in indent + 2 .. k - 1
    BY <1>2, <1>5
  <2> QED
    BY <2>3, <2>4, <2>5, <2>6
<1>8. ASSUME NEW i \in 1 .. k - 1 PROVE IsPlain(line[i])
  <2>1. CASE i <= indent
    <3>1. line[i] = Blank
      BY <1>2, <2>1
    <3> QED
      BY <1>6, <3>1
  <2>2. CASE i > indent
    <3>1. k # indent + 1 /\ i \in indent + 1 .. k - 1
      BY <1>2, <1>5, <2>2
    <3>2. template(k)
      BY <1>4, <3>1
    <3> QED
      BY <1>7, <3>1, <3>2
  <2> QED
    BY <1>2, <1>5, <2>1, <2>2
<1>9. ASSUME k > 1 PROVE ~StartsList(line[k - 1])
  <2>1. CASE k = indent + 1
    <3>1. line[k - 1] = Blank
      BY <1>2, <1>9, <2>1
    <3> QED
      BY <1>6, <3>1
  <2>2. CASE k # indent + 1
    BY <1>4, <1>7, <2>2
  <2> QED
    BY <2>1, <2>2
<1> QED
  BY <1>4, <1>5, <1>8, <1>9

LEMMA ClassFits ==
  ASSUME NEW T \in SUBSET Token, NEW line \in Seq(T), NEW f, NEW b, IsScan(f, line, b),
         NEW acc \in Taken(T), Stands(acc, f, line), NEW lines, NEW n
  PROVE  \E p \in 0 .. Len(line) : StandsAt(TakeClass(acc, lines, n), f, line, p)
<1> DEFINE k == ClassDecl(acc.line)
           plain == Block(acc.line[k], acc.line[k + 1], n, FALSE)
           block == [plain EXCEPT !.indent = GetIndentLevel(lines.raw_lines[n])]
           new == [stack |-> Append(acc.stack, block),
                   line |-> SubSeq(acc.line, k + 2, Len(acc.line))]
<1>1. TakeClass(acc, lines, n) = acc \/ (k # 0 /\ TakeClass(acc, lines, n) = new)
  BY DEF TakeClass
<1>2. PICK p \in 0 .. Len(line) : StandsAt(acc, f, line, p) /\ ~f[p].inner
  BY DEF Stands
<1>3. ASSUME k # 0 PROVE \E e \in 0 .. Len(line) : StandsAt(new, f, line, e)
  <2>1. /\ acc.line = Behind(line, p) /\ acc.line \in Seq(T) /\ Len(acc.line) = Len(line) - p
        /\ \A i \in 1 .. Len(line) - p : acc.line[i] = line[p + i]
        /\ Len(line) \in Nat /\ acc.line \in Line
    BY <1>2, BehindPlace, LineOfTokens DEF StandsAt
  <2>2. block.seen_open_brace = FALSE
    BY DEF Block
  <2>3. Len(line) \in Nat
    OBVIOUS
  <2> HIDE DEF k, plain, block, new
  <2>4. /\ k \in 1 .. Len(line) - p - 1 /\ acc.line[k] \in {"class", "struct"}
        /\ acc.line[k + 1] \in Words /\ \A i \in 1 .. k - 1 : IsPlain(acc.line[i])
        /\ k > 1 => ~StartsList(acc.line[k - 1])
    <3>1. k = ClassDecl(acc.line)
      BY DEF k
    <3> QED
      BY <1>3, <2>1, <3>1, ClassDeclPlace
  <2>5. k \in 1 .. Len(line) - p - 1
    BY <2>4
  <2> PICK h \in p + 1 .. Len(line) - 1 : h = p + k
    BY <2>3, <2>5
  <2>6. /\ h \in 1 .. Len(line) /\ h - 1 \in p .. Len(line) /\ h - 1 \in 0 .. Len(line)
        /\ h + 1 \in 1 .. Len(line) /\ (h + 1) - 1 = h
    BY <2>3
  <2>7. line[h] \in HeadWords /\ line[h + 1] \in Words
    <3>1. k \in 1 .. Len(line) - p /\ k + 1 \in 1 .. Len(line) - p /\ p + (k + 1) = h + 1
      BY <2>1, <2>4
    <3> QED
      BY <2>1, <2>4, <3>1 DEF HeadWords
  <2>8. f[h - 1].depth = f[p].depth /\ (f[h - 1].clear => f[p].clear)
        /\ (f[p].waits # "nothing" => f[h - 1].waits # "nothing")
    <3> PICK e \in p .. Len(line) : e = h - 1
      BY <2>6
    <3>1. \A i \in p + 1 .. e : /\ ~BeginsBlock(line[i]) /\ ~EndsBlock(line[i])
                                /\ ~EndsStatement(line[i])
      <4>1. ASSUME NEW i \in p + 1 .. e PROVE IsPlain(line[i])
        <5>1. i - p \in 1 .. k - 1 /\ i - p \in 1 .. Len(line) - p /\ p + (i - p) = i
          BY <2>1, <2>4
        <5> QED
          BY <2>1, <2>4, <5>1
      <4> QED
        BY <4>1 DEF IsPlain
    <3>2. Len(line) \in Nat
      BY <2>1
    <3>3. f[e].depth = f[p].depth /\ (f[e].clear => f[p].clear)
          /\ (f[p].waits # "nothing" => f[e].waits # "nothing")
      BY <3>1, <3>2, PlainStretch
    <3> QED
      BY <3>3
  <2>9. ~f[h - 1].inner
    <3>1. CASE k = 1
      BY <1>2, <2>6, <3>1
    <3>2. CASE k > 1
      <4>1. h - 1 \in 1 .. Len(line) /\ k - 1 \in 1 .. Len(line) - p /\ p + (k - 1) = h - 1
        BY <2>3, <2>5, <3>2
      <4>2. ~StartsList(line[h - 1])
        BY <2>1, <2>4, <3>2, <4>1
      <4>3. /\ f[h - 1] = BraceToken(f[(h - 1) - 1], line[h - 1])
            /\ f[(h - 1) - 1] \in BraceStates
        BY <2>3, <4>1, ScanStep
      <4> QED
        BY <4>2, <4>3, BracesBehindToken
    <3> QED
      BY <2>4, <3>1, <3>2
  <2>10. /\ f[h].depth = f[p].depth /\ f[h].waits # "nothing" /\ ~f[h].inner
         /\ f[h].clear => f[p].clear /\ f[p].waits = "nothing"
    <3>1. f[h - 1] \in BraceStates /\ f[h] = BraceToken(f[h - 1], line[h])
      <4>1. h \in 1 .. Len(line)
        BY <2>6
      <4> QED
        BY <2>3, <4>1, ScanStep
    <3>2. /\ ~BeginsBlock(line[h]) /\ ~EndsBlock(line[h]) /\ ~StartsList(line[h])
          /\ line[h] # "nothing"
      BY <2>7, KindsOfTokens, HeadTokens DEF HeadWords
    <3> QED
      BY <2>7, <2>8, <2>9, <3>1, <3>2, BracesBehindToken
  <2>11. /\ f[h + 1].depth = f[h].depth /\ f[h + 1].waits = f[h].waits
         /\ f[h + 1].clear = f[h].clear
    <3>1. f[h] \in BraceStates /\ f[h + 1] = BraceToken(f[h], line[h + 1])
      <4> PICK e \in 1 .. Len(line) : e = h + 1
        BY <2>6
      <4>1. f[e - 1] \in BraceStates /\ f[e] = BraceToken(f[e - 1], line[e]) /\ e - 1 = h
        <5>1. e - 1 = h
          BY <2>6
        <5> QED
          BY <2>3, <5>1, ScanStep
      <4> QED
        BY <4>1
    <3>2. IsQuiet(line[h + 1])
      BY <2>7, QuietTokens
    <3>3. ~BeginsBlock(line[h + 1]) /\ ~EndsBlock(line[h + 1])
      BY <3>2 DEF IsQuiet
    <3> QED
      BY <3>1, <3>2, <3>3, BracesBehindToken
  <2>12. Fits(Append(acc.stack, block), f[h + 1])
    <3>1. acc.stack \in Stacks(T) /\ Fits(acc.stack, f[p])
      BY <1>2 DEF Taken, StandsAt
    <3> QED
      BY <2>2, <2>10, <2>11, <3>1, PushedHeadFits
  <2>13. SubSeq(acc.line, k + 2, Len(acc.line)) = Behind(line, h + 1)
    <3>1. k + 1 \in 0 .. Len(line) - p /\ p + (k + 1) = h + 1 /\ (k + 1) + 1 = k + 2
      BY <2>1, <2>4
    <3>2. Behind(acc.line, k + 1) = Behind(line, h + 1)
      BY <2>1, <3>1, BehindBehind
    <3> QED
      BY <3>1, <3>2 DEF Behind
  <2>14. StandsAt(new, f, line, h + 1) /\ h + 1 \in 0 .. Len(line)
    BY <2>6, <2>12, <2>13 DEF StandsAt, new
  <2> QED
    BY <2>14
<1> HIDE DEF k, new
<1> QED
  BY <1>1, <1>2, <1>3

(* Parentheses and access do not change which blocks have seen a brace.     *)
LEMMA SetTopFlags ==
  ASSUME NEW T, NEW stack \in Stacks(T), stack # <<>>, NEW block,
         block.seen_open_brace = Top(stack).seen_open_brace
  PROVE  SameFlags(stack, SetTop(stack, block))
<1>1. /\ Len(SetTop(stack, block)) = Len(stack) /\ Len(stack) \in Nat \ {0}
      /\ SetTop(stack, block)[Len(stack)] = block
      /\ \A i \in 1 .. Len(stack) - 1 : SetTop(stack, block)[i] = stack[i]
  BY FlagsOfSetTop
<1>2. Top(stack) = stack[Len(stack)]
  BY DEF Top, Last
<1>3. \A i \in 1 .. Len(stack) : i = Len(stack) \/ i \in 1 .. Len(stack) - 1
  BY <1>1
<1> QED
  BY <1>1, <1>2, <1>3 DEF SameFlags

LEMMA CountParenthesesFlags ==
  ASSUME NEW T \in SUBSET Token, NEW stack \in Stacks(T), NEW line
  PROVE  SameFlags(stack, CountParentheses(stack, line))
<1> DEFINE block == Top(stack)
           change == Count(line, "(") - Count(line, ")")
           open == block.open_parentheses + change
           asm == CASE block.inline_asm \in {"none", "end"} ->
                         IF change # 0 /\ open = 1 /\ MatchAsm(line)
                         THEN "inside" ELSE "none"
                    [] block.inline_asm = "inside" /\ open = 0 -> "end"
                    [] OTHER -> block.inline_asm
           new == [block EXCEPT !.open_parentheses = open, !.inline_asm = asm]
<1>1. CountParentheses(stack, line) = IF stack = <<>> THEN stack ELSE SetTop(stack, new)
  BY DEF CountParentheses
<1>2. CASE stack # <<>>
  <2>1. block \in Blocks(T)
    BY <1>2, TopType
  <2> HIDE DEF block, open, asm
  <2>2. new.seen_open_brace = block.seen_open_brace
    BY <2>1 DEF Blocks
  <2> HIDE DEF new
  <2> QED
    BY <1>1, <1>2, <2>2, SetTopFlags DEF block
<1>3. CASE stack = <<>>
  BY <1>1, <1>3 DEF SameFlags
<1> QED
  BY <1>2, <1>3

LEMMA UpdateAccessFlags ==
  ASSUME NEW T \in SUBSET Token, NEW stack \in Stacks(T), NEW line, NEW n
  PROVE  SameFlags(stack, UpdateAccess(stack, line, n).stack)
<1> DEFINE keywords == {k \in DOMAIN line : line[k] \in {"public:", "private:"}}
           k == CHOOSE i \in keywords : \A j \in keywords : j <= i
           new == [Top(stack) EXCEPT !.access = line[k]]
           quiet == stack = <<>> \/ ~IsClass(Top(stack)) \/ keywords = {}
<1>1. UpdateAccess(stack, line, n).stack = IF quiet THEN stack ELSE SetTop(stack, new)
  BY DEF UpdateAccess
<1> HIDE DEF k
<1>2. CASE ~quiet
  <2>1. stack # <<>>
    BY <1>2
  <2>2. Top(stack) \in Blocks(T)
    BY <2>1, TopType
  <2>3. new.seen_open_brace = Top(stack).seen_open_brace
    BY <2>2 DEF Blocks
  <2> HIDE DEF new, quiet
  <2> QED
    BY <1>1, <1>2, <2>1, <2>3, SetTopFlags
<1>3. CASE quiet
  BY <1>1, <1>3 DEF SameFlags
<1> QED
  BY <1>2, <1>3

(* The loop over the braces, from position p of the line to its end.        *)
LEMMA BracesFit ==
  ASSUME NEW T \in SUBSET Token, NEW line \in Seq(T), NEW f, NEW b, IsScan(f, line, b),
         NEW p \in 0 .. Len(line), NEW stack \in Stacks(T), Fits(stack, f[p]),
         NEW lines, NEW here \in Nat
  PROVE  Fits(TakeBraces(stack, Behind(line, p), lines, here).stack, f[Len(line)])
<1> DEFINE rest == Behind(line, p)
           n == Len(rest)
           B == Braces(T, here)
           first == [stack |-> stack, errors |-> <<>>, piece |-> <<>>]
           G == [x \in (1 .. n) \X B |-> TakeToken(x[2], rest[x[1]], lines, here)]
           after == CHOOSE g : g = [i \in 0 .. n |->
                      IF i = 0 THEN first ELSE TakeToken(g[i - 1], rest[i], lines, here)]
           fits == [i \in 0 .. n |-> IF after[i] \in B THEN Fits(after[i].stack, f[p + i])
                                     ELSE FALSE]
<1>1. /\ rest \in Seq(T) /\ n = Len(line) - p /\ n \in Nat
      /\ \A i \in 1 .. n : rest[i] = line[p + i] /\ rest[i] \in T
  <2>1. /\ rest \in Seq(T) /\ Len(line) \in Nat /\ n = Len(line) - p
        /\ \A i \in 1 .. Len(line) - p : rest[i] = line[p + i]
    BY BehindPlace
  <2> HIDE DEF rest
  <2> QED
    BY <2>1
<1>2. first \in B
  BY NoOther DEF Braces
<1>3. TakeBraces(stack, rest, lines, here) = after[n]
  BY DEF TakeBraces
<1>4. Len(line) \in Nat /\ p + n = Len(line) /\ p + 0 = p
  BY <1>1
<1> HIDE DEF rest, n
<1>5. G \in [(1 .. n) \X B -> B]
  BY <1>1, TakeTokenType
<1>6. first.stack = stack
  OBVIOUS
<1> HIDE DEF first
<1>7. PICK g : IsCourse(g, n, B, first, G)
  <2> HIDE DEF G, B
  <2> QED
    BY <1>1, <1>2, <1>5, CourseExists
<1>8. g = [i \in 0 .. n |-> IF i = 0 THEN first ELSE TakeToken(g[i - 1], rest[i], lines, here)]
  <2>1. ASSUME NEW i \in 0 .. n, i # 0
        PROVE  g[i] = TakeToken(g[i - 1], rest[i], lines, here)
    <3>1. i \in 1 .. n /\ i - 1 \in 0 .. n
      BY <1>1, <2>1
    <3> HIDE DEF B
    <3> QED
      BY <1>7, <3>1 DEF IsCourse
  <2> HIDE DEF B
  <2> QED
    BY <1>7, <2>1 DEF IsCourse
<1>9. after = [i \in 0 .. n |-> IF i = 0 THEN first
                                ELSE TakeToken(after[i - 1], rest[i], lines, here)]
  BY <1>8
<1> HIDE DEF after, B
<1>10. /\ after[0] = first
       /\ \A i \in 1 .. n : after[i] = TakeToken(after[i - 1], rest[i], lines, here)
  <2>1. 0 \in 0 .. n /\ \A i \in 1 .. n : i \in 0 .. n /\ i # 0
    BY <1>1
  <2> HIDE DEF G
  <2> QED
    BY <1>9, <2>1
<1>11. fits[0] \in {TRUE}
  <2>1. 0 \in 0 .. n
    BY <1>1
  <2>2. after[0] \in B /\ after[0].stack = stack
    BY <1>2, <1>6, <1>10
  <2>3. fits[0] = Fits(after[0].stack, f[p + 0])
    BY <2>1, <2>2
  <2>4. fits[0] = Fits(stack, f[p])
    BY <1>4, <2>2, <2>3
  <2> HIDE DEF fits
  <2>5. Fits(stack, f[p]) \in BOOLEAN
    BY DEF Fits
  <2> QED
    BY <2>4, <2>5
<1>12. ASSUME NEW i \in 1 .. n, fits[i - 1] \in {TRUE} PROVE fits[i] \in {TRUE}
  <2>1. i \in 0 .. n /\ i - 1 \in 0 .. n /\ p + i \in 1 .. Len(line) /\ p + (i - 1) = (p + i) - 1
    BY <1>1, <1>4
  <2> PICK x : x = after[i - 1]
    OBVIOUS
  <2>2. x \in B /\ Fits(x.stack, f[(p + i) - 1])
    BY <1>12, <2>1
  <2>3. after[i] = TakeToken(x, rest[i], lines, here)
    BY <1>10
  <2>4. after[i] \in B
    BY <1>1, <2>2, <2>3, TakeTokenType DEF B
  <2>5. Fits(after[i].stack, f[p + i])
    <3> PICK j \in 1 .. Len(line) : j = p + i
      BY <2>1
    <3>1. f[j - 1] \in BraceStates /\ f[j] = BraceToken(f[j - 1], line[j])
      BY <1>4, ScanStep
    <3>2. Fits(x.stack, f[j - 1]) /\ line[j] = rest[i]
      BY <1>1, <2>2
    <3>3. Fits(TakeToken(x, rest[i], lines, here).stack, BraceToken(f[j - 1], rest[i]))
      BY <2>2, <3>1, <3>2, FitsToken DEF B
    <3> QED
      BY <2>3, <3>1, <3>2, <3>3
  <2> QED
    BY <2>1, <2>4, <2>5
<1> HIDE DEF fits
<1>13. fits[n] = TRUE
  <2>1. \A i \in 1 .. n : fits[i - 1] \in {TRUE} => fits[i] \in {TRUE}
    BY <1>12
  <2>2. \A i \in 0 .. n : fits[i] \in {TRUE}
    BY <1>1, <1>11, <2>1, CourseStays
  <2>3. n \in 0 .. n
    BY <1>1
  <2>4. fits[n] \in {TRUE}
    BY <2>2, <2>3
  <2> QED
    BY <2>4
<1>14. Fits(after[n].stack, f[p + n])
  BY <1>1, <1>13 DEF fits
<1> QED
  BY <1>3, <1>4, <1>14 DEF rest

-----------------------------------------------------------------------------
\* The stack behind line n, from the one UpdatePreprocessor leaves.
StackBehind(stack, lines, n) ==
  LET line == lines.elided[n]
      spaces == TakeNamespaces(CountParentheses(stack, line), line, n)
      class == TakeClass(spaces, lines, n)
      access == UpdateAccess(class.stack, class.line, n).stack
  IN  TakeBraces(access, class.line, lines, n).stack

\* The code of the file, as the checkers see it.
AreCodeLines(lines, m) ==
  /\ m \in Nat /\ lines.elided \in Seq(Line) /\ Len(lines.elided) = m
  /\ lines.raw_lines \in Seq(Line) /\ Len(lines.raw_lines) = m

LEMMA UpdateStack ==
  ASSUME NEW nesting, NEW lines, NEW n, NEW pp,
         pp = UpdatePreprocessor(nesting, lines.elided[n])
  PROVE  /\ Update(nesting, lines, n).nesting.stack = StackBehind(pp.stack, lines, n)
         /\ Update(nesting, lines, n).nesting.pp_stack = pp.pp_stack
BY DEF Update, StackBehind

LEMMA LineFits ==
  ASSUME NEW lines, NEW m, AreCodeLines(lines, m), NEW n \in 1 .. m,
         NEW stack \in Stacks(Token), NEW b \in BraceStates, Fits(stack, b)
  PROVE  /\ StackBehind(stack, lines, n) \in Stacks(Token)
         /\ BraceLine(b, lines.elided[n]) \in BraceStates
         /\ Fits(StackBehind(stack, lines, n), BraceLine(b, lines.elided[n]))
<1> DEFINE line == lines.elided[n]
           counted == CountParentheses(stack, line)
           spaces == TakeNamespaces(counted, line, n)
           class == TakeClass(spaces, lines, n)
           access == UpdateAccess(class.stack, class.line, n).stack
           braces == TakeBraces(access, class.line, lines, n)
<1>1. /\ line \in Seq(Token) /\ line \in Line /\ n \in Nat /\ Token \in SUBSET Token
      /\ Len(line) \in Nat /\ n \in 1 .. Len(lines.raw_lines) /\ lines.raw_lines \in Seq(Line)
  BY DEF AreCodeLines, Line
<1>2. StackBehind(stack, lines, n) = braces.stack
  BY DEF StackBehind
<1> HIDE DEF line
<1>3. PICK f : IsScan(f, line, b) /\ BraceLine(b, line) = f[Len(line)]
  BY <1>1, ScanExists
<1>4. counted \in Stacks(Token) /\ Fits(counted, f[0])
  <2>1. SameFlags(stack, counted) /\ counted \in Stacks(Token)
    BY <1>1, CountParenthesesFlags, CountParenthesesType
  <2>2. f[0] = [b EXCEPT !.inner = FALSE]
    BY <1>3 DEF IsScan
  <2>3. f[0].depth = b.depth /\ f[0].waits = b.waits /\ f[0].clear = b.clear
    BY <2>2 DEF BraceStates
  <2>4. Fits(stack, f[0])
    BY <2>3 DEF Fits
  <2> HIDE DEF counted
  <2> QED
    BY <2>1, <2>4, SameFlagsFit
<1> HIDE DEF counted
<1>5. spaces \in Taken(Token) /\ Stands(spaces, f, line)
  BY <1>1, <1>3, <1>4, TakeNamespacesType, NamespacesFit
<1> HIDE DEF spaces
<1>6. class \in Taken(Token) /\ \E p \in 0 .. Len(line) : StandsAt(class, f, line, p)
  <2>1. class \in Taken(Token)
    BY <1>1, <1>5, TakeClassType
  <2>2. \E p \in 0 .. Len(line) : StandsAt(class, f, line, p)
    BY <1>1, <1>3, <1>5, ClassFits
  <2> QED
    BY <2>1, <2>2
<1> HIDE DEF class
<1>7. PICK p \in 0 .. Len(line) : class.line = Behind(line, p) /\ Fits(class.stack, f[p])
  BY <1>6 DEF StandsAt
<1>8. class.stack \in Stacks(Token) /\ class.line \in Seq(Token) /\ class.line \in Line
  BY <1>6 DEF Taken, Line
<1>9. access \in Stacks(Token) /\ Fits(access, f[p])
  <2>1. n \in 0 .. n
    BY <1>1
  <2>2. access \in Stacks(Token) /\ SameFlags(class.stack, access)
    BY <1>1, <1>8, <2>1, UpdateAccessType, UpdateAccessFlags
  <2> HIDE DEF access
  <2> QED
    BY <1>7, <1>8, <2>2, SameFlagsFit
<1> HIDE DEF access
<1>10. braces \in Braces(Token, n)
  BY <1>1, <1>8, <1>9, TakeBracesType
<1>11. Fits(braces.stack, f[Len(line)])
  BY <1>1, <1>3, <1>7, <1>9, BracesFit
<1> HIDE DEF braces
<1>12. f[Len(line)] \in BraceStates
  <2>1. Len(line) \in 0 .. Len(line)
    BY <1>1
  <2> QED
    BY <1>3, <2>1 DEF IsScan
<1>13. braces.stack \in Stacks(Token)
  BY <1>10 DEF Braces
<1> QED
  BY <1>2, <1>3, <1>11, <1>12, <1>13 DEF line

-----------------------------------------------------------------------------
(* Conditional groups.  A group is known by the line that opens it.         *)
StartsGroup(lines, i) == First(lines.elided[i]) \in {"#if", "#ifndef"}
StartsPart(lines, i) == First(lines.elided[i]) \in {"#else", "#elif"}
EndsGroup(lines, i) == First(lines.elided[i]) = "#endif"

\* Line i and all before it are in the group that line p opens, at its level.
Within(lines, p, i) == \A k \in p .. i : LevelAt(lines, k) >= LevelAt(lines, p)
\* Line e starts another branch of the group.
PartOf(lines, p, e) ==
  StartsPart(lines, e) /\ LevelAt(lines, e) = LevelAt(lines, p) /\ Within(lines, p, e)

\* At line n, line i is in the branch that counts of the group of line p.
IsShown(lines, p, i, n) ==
  StartsGroup(lines, p) /\ Within(lines, p, i) =>
    IF Within(lines, p, n) THEN \A e \in p .. n : PartOf(lines, p, e) => e <= i
    ELSE \A e \in p .. n : PartOf(lines, p, e) => i < e

CountsAt(lines, i, n) == \A p \in 1 .. i : IsShown(lines, p, i, n)
CountedAt(lines, n) == {i \in 1 .. n : CountsAt(lines, i, n)}

LevelsMatch(lines, n) ==
  \A i \in 1 .. n : LevelAt(lines, i) >= 0 /\ (StartsPart(lines, i) => LevelAt(lines, i) > 0)

LEMMA CountStep ==
  ASSUME NEW n \in Nat \ {0}, NEW S
  PROVE  /\ Cardinality({k \in 1 .. n - 1 : k \in S}) \in Nat
         /\ Cardinality({k \in 1 .. n : k \in S}) =
              IF n \in S THEN Cardinality({k \in 1 .. n - 1 : k \in S}) + 1
              ELSE Cardinality({k \in 1 .. n - 1 : k \in S})
<1> DEFINE before == {k \in 1 .. n - 1 : k \in S}
           upto == {k \in 1 .. n : k \in S}
<1>1. 1 .. n = (1 .. n - 1) \cup {n} /\ n - 1 \in Nat /\ n \notin 1 .. n - 1
  OBVIOUS
<1>2. upto = IF n \in S THEN before \cup {n} ELSE before
  BY <1>1
<1>3. before \in SUBSET (1 .. n - 1) /\ n \notin before
  BY <1>1
<1> HIDE DEF before, upto
<1>4. IsFiniteSet(1 .. n - 1)
  BY <1>1, FS_Interval
<1>5. IsFiniteSet(before)
  BY <1>3, <1>4, FS_Subset
<1>6. Cardinality(before) \in Nat /\ Cardinality(before \cup {n}) = Cardinality(before) + 1
  BY <1>3, <1>5, FS_CardinalityType, FS_AddElement
<1>7. Cardinality(upto) = IF n \in S THEN Cardinality(before) + 1 ELSE Cardinality(before)
  BY <1>2, <1>6
<1> QED
  BY <1>6, <1>7 DEF before, upto

LEMMA LevelSteps ==
  ASSUME NEW lines, NEW n \in Nat \ {0}
  PROVE  /\ LevelAt(lines, n - 1) \in Int
         /\ LevelAt(lines, n) = CASE StartsGroup(lines, n) -> LevelAt(lines, n - 1) + 1
                                  [] EndsGroup(lines, n) -> LevelAt(lines, n - 1) - 1
                                  [] OTHER -> LevelAt(lines, n - 1)
         /\ ~(StartsGroup(lines, n) /\ EndsGroup(lines, n))
         /\ ~(StartsGroup(lines, n) /\ StartsPart(lines, n))
         /\ ~(StartsPart(lines, n) /\ EndsGroup(lines, n))
<1>1. /\ ~(StartsGroup(lines, n) /\ EndsGroup(lines, n))
      /\ ~(StartsGroup(lines, n) /\ StartsPart(lines, n))
      /\ ~(StartsPart(lines, n) /\ EndsGroup(lines, n))
  BY DEF StartsGroup, EndsGroup, StartsPart
<1> DEFINE S == {k \in 1 .. n : StartsGroup(lines, k)}
           E == {k \in 1 .. n : EndsGroup(lines, k)}
<1>2. /\ Openings(lines, n - 1) = {k \in 1 .. n - 1 : k \in S}
      /\ Openings(lines, n) = {k \in 1 .. n : k \in S}
      /\ Closings(lines, n - 1) = {k \in 1 .. n - 1 : k \in E}
      /\ Closings(lines, n) = {k \in 1 .. n : k \in E}
      /\ n \in S <=> StartsGroup(lines, n)
      /\ n \in E <=> EndsGroup(lines, n)
  BY DEF Openings, Closings, StartsGroup, EndsGroup
<1> HIDE DEF S, E
<1>3. /\ Cardinality(Openings(lines, n - 1)) \in Nat
      /\ Cardinality(Openings(lines, n)) = IF StartsGroup(lines, n)
                                           THEN Cardinality(Openings(lines, n - 1)) + 1
                                           ELSE Cardinality(Openings(lines, n - 1))
  BY <1>2, CountStep
<1>4. /\ Cardinality(Closings(lines, n - 1)) \in Nat
      /\ Cardinality(Closings(lines, n)) = IF EndsGroup(lines, n)
                                           THEN Cardinality(Closings(lines, n - 1)) + 1
                                           ELSE Cardinality(Closings(lines, n - 1))
  BY <1>2, CountStep
<1> QED
  BY <1>1, <1>3, <1>4 DEF LevelAt

LEMMA LevelsAreInts == ASSUME NEW lines PROVE \A n \in Nat : LevelAt(lines, n) \in Int
<1> SUFFICES ASSUME NEW n \in Nat PROVE LevelAt(lines, n) \in Int
  OBVIOUS
<1>1. n + 1 \in Nat \ {0} /\ (n + 1) - 1 = n
  OBVIOUS
<1> QED
  BY <1>1, LevelSteps

-----------------------------------------------------------------------------
(* Two groups of a level are not open at once.                              *)
LEMMA OneGroupOfALevel ==
  ASSUME NEW lines, NEW n \in Nat, NEW p \in 1 .. n, NEW o \in 1 .. n,
         StartsGroup(lines, p), StartsGroup(lines, o), LevelAt(lines, p) = LevelAt(lines, o),
         Within(lines, p, n), Within(lines, o, n)
  PROVE  p = o
<1>1. ASSUME NEW a \in 1 .. n, NEW b \in 1 .. n, a < b, StartsGroup(lines, b),
             LevelAt(lines, a) = LevelAt(lines, b), Within(lines, a, n)
      PROVE  FALSE
  <2>1. b \in Nat \ {0} /\ b - 1 \in a .. n
    BY <1>1
  <2>2. LevelAt(lines, b) = LevelAt(lines, b - 1) + 1 /\ LevelAt(lines, b - 1) \in Int
    BY <1>1, <2>1, LevelSteps
  <2>3. LevelAt(lines, b - 1) >= LevelAt(lines, a)
    BY <1>1, <2>1 DEF Within
  <2> QED
    BY <1>1, <2>2, <2>3
<1>2. ~(p < o) /\ ~(o < p)
  BY <1>1
<1> QED
  BY <1>2

(* What the branches of a group show of a line stays as it is as long as    *)
(* the group does not end and no other branch starts.                       *)
LEMMA ShownStays ==
  ASSUME NEW lines, NEW n \in Nat, NEW m \in 0 .. n, NEW i \in 1 .. m, NEW p \in 1 .. i,
         Within(lines, p, m) => /\ Within(lines, p, n)
                                /\ \A e \in m + 1 .. n : ~PartOf(lines, p, e)
  PROVE  IsShown(lines, p, i, n) <=> IsShown(lines, p, i, m)
<1>1. Within(lines, p, n) => Within(lines, p, m)
  BY DEF Within
<1>2. \A e \in p .. n : e \in p .. m \/ e \in m + 1 .. n
  OBVIOUS
<1>3. \A e \in p .. m : e \in p .. n
  OBVIOUS
<1>4. ASSUME NEW e \in m + 1 .. n, PartOf(lines, p, e) PROVE Within(lines, p, m)
  BY <1>4 DEF PartOf, Within
<1>5. \A e \in m + 1 .. n : ~PartOf(lines, p, e)
  BY <1>4
<1> QED
  BY <1>1, <1>2, <1>3, <1>5 DEF IsShown

LEMMA WithinGoesOn ==
  ASSUME NEW lines, NEW n \in Nat, NEW m \in 0 .. n, NEW p \in Nat, Within(lines, p, m),
         \A k \in m + 1 .. n : LevelAt(lines, k) >= LevelAt(lines, p)
  PROVE  Within(lines, p, n)
<1>1. \A k \in p .. n : k \in p .. m \/ k \in m + 1 .. n
  OBVIOUS
<1> QED
  BY <1>1 DEF Within

LEMMA LineCountsAtItself ==
  ASSUME NEW lines, NEW n \in Nat PROVE CountsAt(lines, n, n)
BY DEF CountsAt, IsShown

\* The lines that count when those up to line m count as they did, and those
\* between it and line n do not.
LEMMA CountedAreThese ==
  ASSUME NEW lines, NEW n \in Nat \ {0}, NEW m \in 0 .. n - 1,
         \A i \in 1 .. m : \A p \in 1 .. i : IsShown(lines, p, i, n) <=> IsShown(lines, p, i, m),
         \A i \in m + 1 .. n - 1 : ~CountsAt(lines, i, n)
  PROVE  CountedAt(lines, n) = CountedAt(lines, m) \cup {n}
<1>1. CountsAt(lines, n, n)
  BY LineCountsAtItself
<1>2. \A i \in 1 .. n : i \in 1 .. m \/ i \in m + 1 .. n - 1 \/ i = n
  OBVIOUS
<1>3. \A i \in 1 .. m : i \in 1 .. n
  OBVIOUS
<1>4. \A i \in 1 .. m : CountsAt(lines, i, n) <=> CountsAt(lines, i, m)
  BY DEF CountsAt
<1> QED
  BY <1>1, <1>2, <1>3, <1>4 DEF CountedAt

\* The innermost open group, the one of line o, has no other branch.
HasNoParts(lines, o, n) == \A e \in o .. n : ~PartOf(lines, o, e)
IsInnermost(lines, o, n) ==
  StartsGroup(lines, o) /\ Within(lines, o, n) /\ LevelAt(lines, o) = LevelAt(lines, n)

LEMMA PlainLineCounts ==
  ASSUME NEW lines, NEW n \in Nat \ {0}, ~StartsPart(lines, n),
         EndsGroup(lines, n) => \A o \in 1 .. n - 1 :
                                  IsInnermost(lines, o, n - 1) => HasNoParts(lines, o, n - 1)
  PROVE  CountedAt(lines, n) = CountedAt(lines, n - 1) \cup {n}
<1>1. /\ LevelAt(lines, n - 1) \in Int
      /\ LevelAt(lines, n) = CASE StartsGroup(lines, n) -> LevelAt(lines, n - 1) + 1
                               [] EndsGroup(lines, n) -> LevelAt(lines, n - 1) - 1
                               [] OTHER -> LevelAt(lines, n - 1)
      /\ ~(StartsGroup(lines, n) /\ EndsGroup(lines, n))
  BY LevelSteps
<1>2. \A k \in Nat : LevelAt(lines, k) \in Int
  BY LevelsAreInts
<1>3. n - 1 \in 0 .. n /\ n - 1 \in Nat /\ (n - 1) + 1 = n /\ n - 1 \in 0 .. n - 1
  OBVIOUS
<1>4. ASSUME NEW i \in 1 .. n - 1, NEW p \in 1 .. i
      PROVE  IsShown(lines, p, i, n) <=> IsShown(lines, p, i, n - 1)
  <2>0. \A e : ~(e = n /\ PartOf(lines, p, e))
    BY DEF PartOf
  <2>1. Within(lines, p, n - 1) => LevelAt(lines, p) <= LevelAt(lines, n - 1)
    BY DEF Within
  <2>2. CASE Within(lines, p, n - 1) => LevelAt(lines, p) <= LevelAt(lines, n)
    <3>1. ASSUME Within(lines, p, n - 1) PROVE Within(lines, p, n)
      <4>1. LevelAt(lines, p) <= LevelAt(lines, n)
        BY <2>2, <3>1
      <4>2. \A k \in (n - 1) + 1 .. n : k = n
        BY <1>3
      <4>3. LevelAt(lines, p) \in Int /\ LevelAt(lines, n) \in Int
        BY <1>2
      <4>4. \A k \in (n - 1) + 1 .. n : LevelAt(lines, k) >= LevelAt(lines, p)
        BY <4>1, <4>2, <4>3
      <4> QED
        BY <1>3, <3>1, <4>4, WithinGoesOn
    <3>2. \A e \in (n - 1) + 1 .. n : ~PartOf(lines, p, e)
      BY <1>3, <2>0
    <3> QED
      BY <1>3, <3>1, <3>2, ShownStays
  <2>3. CASE Within(lines, p, n - 1) /\ LevelAt(lines, p) > LevelAt(lines, n)
    <3>1. LevelAt(lines, p) = LevelAt(lines, n - 1) /\ EndsGroup(lines, n)
      BY <1>1, <1>2, <2>1, <2>3
    <3>2. StartsGroup(lines, p) => HasNoParts(lines, p, n - 1)
      BY <2>3, <3>1 DEF IsInnermost
    <3>3. \A e \in p .. n : e \in p .. n - 1 \/ e = n
      OBVIOUS
    <3>4. StartsGroup(lines, p) => \A e \in p .. n : ~PartOf(lines, p, e)
      BY <2>0, <3>2, <3>3 DEF HasNoParts
    <3>5. StartsGroup(lines, p) => \A e \in p .. n - 1 : ~PartOf(lines, p, e)
      BY <3>2 DEF HasNoParts
    <3> QED
      BY <3>4, <3>5 DEF IsShown
  <2> QED
    BY <1>2, <2>2, <2>3
<1>5. \A i \in (n - 1) + 1 .. n - 1 : ~CountsAt(lines, i, n)
  BY <1>3
<1> QED
  BY <1>3, <1>4, <1>5, CountedAreThese

\* At an #else, the lines before its #if count and none of the other branches.
LEMMA PartCounts ==
  ASSUME NEW lines, NEW n \in Nat \ {0}, StartsPart(lines, n),
         NEW o \in 1 .. n - 1, IsInnermost(lines, o, n)
  PROVE  CountedAt(lines, n) = CountedAt(lines, o - 1) \cup {n}
<1>1. \A k \in Nat : LevelAt(lines, k) \in Int
  BY LevelsAreInts
<1>2. /\ o - 1 \in 0 .. n - 1 /\ o - 1 \in 0 .. n /\ (o - 1) + 1 = o /\ o \in Nat \ {0}
      /\ o - 1 \in Nat
  OBVIOUS
<1>3. LevelAt(lines, o) = LevelAt(lines, o - 1) + 1
  BY <1>2, LevelSteps DEF IsInnermost
<1>4. \A k \in o .. n : LevelAt(lines, k) >= LevelAt(lines, o)
  BY DEF IsInnermost, Within
<1>5. ASSUME NEW i \in 1 .. o - 1, NEW p \in 1 .. i
      PROVE  IsShown(lines, p, i, n) <=> IsShown(lines, p, i, o - 1)
  <2>1. ASSUME Within(lines, p, o - 1)
        PROVE  /\ Within(lines, p, n)
               /\ \A e \in (o - 1) + 1 .. n : ~PartOf(lines, p, e)
    <3>1. LevelAt(lines, p) <= LevelAt(lines, o - 1) /\ p \in Nat
      BY <2>1 DEF Within
    <3>2. \A k \in o .. n : LevelAt(lines, k) > LevelAt(lines, p) /\ k \in Nat
      BY <1>1, <1>2, <1>3, <1>4, <3>1
    <3>3. \A k \in (o - 1) + 1 .. n : /\ LevelAt(lines, k) >= LevelAt(lines, p)
                                      /\ LevelAt(lines, k) # LevelAt(lines, p)
      BY <1>1, <1>2, <3>1, <3>2
    <3>4. Within(lines, p, n)
      BY <1>2, <2>1, <3>1, <3>3, WithinGoesOn
    <3> QED
      BY <3>3, <3>4 DEF PartOf
  <2> QED
    BY <1>2, <2>1, ShownStays
<1>6. ASSUME NEW i \in (o - 1) + 1 .. n - 1 PROVE ~CountsAt(lines, i, n)
  <2>1. o \in 1 .. i /\ n \in o .. n /\ ~(n <= i)
    BY <1>2
  <2>2. PartOf(lines, o, n) /\ Within(lines, o, n) /\ StartsGroup(lines, o)
    BY DEF IsInnermost, PartOf
  <2>3. Within(lines, o, i)
    BY <2>2 DEF Within
  <2>4. ~IsShown(lines, o, i, n)
    BY <2>1, <2>2, <2>3 DEF IsShown
  <2> QED
    BY <2>1, <2>4 DEF CountsAt
<1> QED
  BY <1>2, <1>5, <1>6, CountedAreThese

\* At an #endif, the lines before the first #else count and none behind it.
LEMMA EndCounts ==
  ASSUME NEW lines, NEW n \in Nat \ {0}, EndsGroup(lines, n),
         NEW o \in 1 .. n - 1, IsInnermost(lines, o, n - 1),
         NEW e \in o .. n - 1, PartOf(lines, o, e),
         \A d \in o .. n - 1 : PartOf(lines, o, d) => e <= d
  PROVE  CountedAt(lines, n) = CountedAt(lines, e - 1) \cup {n}
<1>1. \A k \in Nat : LevelAt(lines, k) \in Int
  BY LevelsAreInts
<1>2. /\ e \in Nat \ {0} /\ e - 1 \in 0 .. n - 1 /\ e - 1 \in 0 .. n /\ (e - 1) + 1 = e
      /\ o \in Nat \ {0} /\ e - 1 \in Nat
  OBVIOUS
<1>3. o # e /\ StartsGroup(lines, o) /\ Within(lines, o, n - 1)
  BY <1>2, LevelSteps DEF IsInnermost, PartOf
<1>4. LevelAt(lines, n) = LevelAt(lines, o) - 1
  BY LevelSteps DEF IsInnermost
<1>5. LevelAt(lines, e) = LevelAt(lines, o) /\ LevelAt(lines, e - 1) = LevelAt(lines, e)
  BY <1>2, LevelSteps DEF PartOf
<1>6. ~StartsPart(lines, n)
  BY LevelSteps
<1>7. \A k \in o .. n - 1 : LevelAt(lines, k) >= LevelAt(lines, o)
  BY <1>3 DEF Within
<1>8. ~Within(lines, o, n)
  BY <1>1, <1>4 DEF Within
<1>9. \A d \in o .. n : PartOf(lines, o, d) => e <= d
  <2>1. \A d \in o .. n : d \in o .. n - 1 \/ d = n
    OBVIOUS
  <2> QED
    BY <1>6, <2>1 DEF PartOf
<1>10. ASSUME NEW i \in 1 .. e - 1, NEW p \in 1 .. i
       PROVE  IsShown(lines, p, i, n) <=> IsShown(lines, p, i, e - 1)
  <2>1. CASE p = o
    <3>1. \A d \in o .. n : PartOf(lines, o, d) => i < d
      BY <1>9
    <3>2. \A d \in o .. e - 1 : ~PartOf(lines, o, d)
      BY <1>9
    <3> QED
      BY <1>8, <2>1, <3>1, <3>2 DEF IsShown
  <2>2. CASE ~StartsGroup(lines, p)
    BY <2>2 DEF IsShown
  <2>3. CASE p # o /\ StartsGroup(lines, p)
    <3>1. ASSUME Within(lines, p, e - 1)
          PROVE  /\ Within(lines, p, n)
                 /\ \A d \in (e - 1) + 1 .. n : ~PartOf(lines, p, d)
      <4>1. LevelAt(lines, p) <= LevelAt(lines, o)
        <5>1. LevelAt(lines, e - 1) >= LevelAt(lines, p)
          BY <1>2, <3>1 DEF Within
        <5> QED
          BY <1>1, <1>5, <5>1
      <4>2. LevelAt(lines, p) # LevelAt(lines, o)
        <5>1. Within(lines, o, e - 1)
          BY <1>3 DEF Within
        <5>2. p \in 1 .. e - 1 /\ o \in 1 .. e - 1
          BY <1>3
        <5> QED
          BY <1>2, <1>3, <2>3, <3>1, <5>1, <5>2, OneGroupOfALevel
      <4>3. \A k \in e .. n - 1 : LevelAt(lines, k) > LevelAt(lines, p) /\ k \in Nat
        BY <1>1, <1>7, <4>1, <4>2
      <4>4. LevelAt(lines, n) >= LevelAt(lines, p)
        BY <1>1, <1>4, <4>1, <4>2
      <4>5. \A k \in (e - 1) + 1 .. n : k \in e .. n - 1 \/ k = n
        OBVIOUS
      <4>6. \A k \in (e - 1) + 1 .. n : LevelAt(lines, k) >= LevelAt(lines, p)
        BY <1>1, <4>3, <4>4, <4>5
      <4>7. Within(lines, p, n)
        BY <1>2, <3>1, <4>6, WithinGoesOn
      <4>8. \A k \in (e - 1) + 1 .. n : ~PartOf(lines, p, k)
        BY <1>1, <1>6, <4>3, <4>5 DEF PartOf
      <4> QED
        BY <4>7, <4>8
    <3> QED
      BY <1>2, <3>1, ShownStays
  <2> QED
    BY <2>1, <2>2, <2>3
<1>11. ASSUME NEW i \in (e - 1) + 1 .. n - 1 PROVE ~CountsAt(lines, i, n)
  <2>1. o \in 1 .. i /\ e \in o .. n /\ ~(i < e)
    BY <1>2
  <2>2. Within(lines, o, i)
    BY <1>3 DEF Within
  <2>3. ~IsShown(lines, o, i, n)
    BY <1>3, <1>8, <2>1, <2>2 DEF IsShown
  <2> QED
    BY <2>1, <2>3 DEF CountsAt
<1> QED
  BY <1>2, <1>10, <1>11, CountedAreThese

-----------------------------------------------------------------------------
(* The stack behind the lines of a set, in their order.                     *)
StackThrough(lines, C, n) ==
  LET behind[i \in 0 .. n] ==
        IF i = 0 THEN <<>>
        ELSE LET before == behind[i - 1]
             IN  IF i \in C THEN StackBehind(before, lines, i) ELSE before
  IN  behind[n]

IsRun(f, lines, C, n) ==
  /\ f \in [0 .. n -> Stacks(Token)] /\ f[0] = <<>>
  /\ \A i \in 1 .. n : f[i] = IF i \in C THEN StackBehind(f[i - 1], lines, i) ELSE f[i - 1]

LEMMA StackBehindType ==
  ASSUME NEW lines, NEW m, AreCodeLines(lines, m), NEW n \in 1 .. m, NEW stack \in Stacks(Token)
  PROVE  StackBehind(stack, lines, n) \in Stacks(Token)
<1> PICK b \in BraceStates : ~b.clear
  <2> DEFINE b == [depth |-> 0, waits |-> "nothing", inner |-> FALSE, clear |-> FALSE]
  <2>1. b \in BraceStates /\ ~b.clear
    BY DEF BraceStates
  <2> QED
    BY <2>1
<1>1. Fits(stack, b)
  BY DEF Fits
<1> QED
  BY <1>1, LineFits

LEMMA RunExists ==
  ASSUME NEW lines, NEW m, AreCodeLines(lines, m), NEW n \in 0 .. m, NEW C
  PROVE  \E f : IsRun(f, lines, C, n) /\ StackThrough(lines, C, n) = f[n]
<1> DEFINE S == Stacks(Token)
           first == <<>>
           G == [x \in (1 .. n) \X S |-> IF x[1] \in C THEN StackBehind(x[2], lines, x[1])
                                         ELSE x[2]]
           behind == CHOOSE f : f = [i \in 0 .. n |->
                       IF i = 0 THEN first
                       ELSE IF i \in C THEN StackBehind(f[i - 1], lines, i) ELSE f[i - 1]]
<1>1. StackThrough(lines, C, n) = behind[n]
  BY DEF StackThrough
<1>2. first \in S /\ n \in Nat /\ m \in Nat
  BY DEF Stacks, AreCodeLines
<1>3. ASSUME NEW i \in 1 .. n, NEW s \in S PROVE StackBehind(s, lines, i) \in S
  <2>1. i \in 1 .. m
    BY <1>2
  <2> QED
    BY <2>1, StackBehindType
<1>4. G \in [(1 .. n) \X S -> S]
  <2> HIDE DEF S
  <2> QED
    BY <1>3
<1> HIDE DEF first
<1>5. PICK g : IsCourse(g, n, S, first, G)
  <2> HIDE DEF G, S
  <2> QED
    BY <1>2, <1>4, CourseExists
<1>6. g = [i \in 0 .. n |-> IF i = 0 THEN first
                            ELSE IF i \in C THEN StackBehind(g[i - 1], lines, i) ELSE g[i - 1]]
  <2>1. ASSUME NEW i \in 0 .. n, i # 0
        PROVE  g[i] = IF i \in C THEN StackBehind(g[i - 1], lines, i) ELSE g[i - 1]
    <3>1. i \in 1 .. n /\ i - 1 \in 0 .. n
      BY <1>2, <2>1
    <3> HIDE DEF S
    <3>2. g[i] = G[<<i, g[i - 1]>>] /\ g[i - 1] \in S
      BY <1>5, <3>1 DEF IsCourse
    <3> QED
      BY <3>1, <3>2
  <2> HIDE DEF S
  <2> QED
    BY <1>5, <2>1 DEF IsCourse
<1>7. behind = [i \in 0 .. n |-> IF i = 0 THEN first
                  ELSE IF i \in C THEN StackBehind(behind[i - 1], lines, i) ELSE behind[i - 1]]
  BY <1>6
<1> HIDE DEF behind, G
<1>8. /\ behind[0] = first
      /\ \A i \in 1 .. n : behind[i] = IF i \in C THEN StackBehind(behind[i - 1], lines, i)
                                       ELSE behind[i - 1]
  <2>1. 0 \in 0 .. n /\ \A i \in 1 .. n : i \in 0 .. n /\ i # 0
    BY <1>2
  <2> QED
    BY <1>7, <2>1
<1> HIDE DEF S
<1>9. \A i \in 0 .. n : behind[i] \in S
  <2>1. behind[0] \in S /\ \A i \in 1 .. n : behind[i - 1] \in S => behind[i] \in S
    BY <1>2, <1>3, <1>8
  <2> QED
    BY <1>2, <2>1, CourseStays
<1>10. behind \in [0 .. n -> S]
  BY <1>7, <1>9
<1>11. IsRun(behind, lines, C, n)
  BY <1>8, <1>10 DEF IsRun, first, S
<1> QED
  BY <1>1, <1>11

LEMMA RunGoesOn ==
  ASSUME NEW lines, NEW k, AreCodeLines(lines, k), NEW n \in 1 .. k, NEW m \in 0 .. n - 1,
         NEW D \in SUBSET (1 .. m)
  PROVE  StackThrough(lines, D \cup {n}, n) = StackBehind(StackThrough(lines, D, m), lines, n)
<1> DEFINE C == D \cup {n}
<1>1. k \in Nat
  BY DEF AreCodeLines
<1>2. /\ n \in 0 .. k /\ m \in 0 .. k /\ n \in 1 .. n /\ n - 1 \in 0 .. n - 1 /\ n - 1 \in Nat
      /\ m \in Nat /\ m \in 0 .. m /\ n \in C
  BY <1>1
<1>3. PICK f : IsRun(f, lines, C, n) /\ StackThrough(lines, C, n) = f[n]
  BY <1>2, RunExists
<1>4. PICK g : IsRun(g, lines, D, m) /\ StackThrough(lines, D, m) = g[m]
  BY <1>2, RunExists
<1>5. \A i \in 1 .. n - 1 : i \in C <=> i \in D
  BY <1>1
<1> HIDE DEF C
<1>6. f[0] = <<>> /\ g[0] = <<>>
  BY <1>3, <1>4 DEF IsRun
<1>7. \A i \in 1 .. n : f[i] = IF i \in C THEN StackBehind(f[i - 1], lines, i) ELSE f[i - 1]
  BY <1>3 DEF IsRun
<1>8. \A i \in 1 .. m : g[i] = IF i \in D THEN StackBehind(g[i - 1], lines, i) ELSE g[i - 1]
  BY <1>4 DEF IsRun
<1> DEFINE upto(i) == IF i <= m THEN i ELSE m
           same == [i \in 0 .. n - 1 |-> f[i] = g[upto(i)]]
<1>9. ASSUME NEW i \in 1 .. n - 1, same[i - 1] \in {TRUE} PROVE same[i] \in {TRUE}
  <2>1. i \in 1 .. n /\ i - 1 \in 0 .. n - 1 /\ i \in 0 .. n - 1
    BY <1>1
  <2>2. f[i - 1] = g[upto(i - 1)]
    BY <1>9, <2>1
  <2>3. f[i] = IF i \in D THEN StackBehind(f[i - 1], lines, i) ELSE f[i - 1]
    BY <1>5, <1>7, <2>1
  <2>4. CASE i <= m
    <3>1. i \in 1 .. m /\ upto(i - 1) = i - 1 /\ upto(i) = i
      BY <1>1, <2>4
    <3>2. f[i] = g[i]
      BY <1>8, <2>2, <2>3, <3>1
    <3> QED
      BY <2>1, <3>1, <3>2
  <2>5. CASE i > m
    <3>1. i \notin D /\ upto(i - 1) = m /\ upto(i) = m
      BY <1>1, <2>5
    <3>2. f[i] = g[m]
      BY <2>2, <2>3, <3>1
    <3> QED
      BY <2>1, <3>1, <3>2
  <2>6. i <= m \/ i > m
    BY <1>2, <2>1
  <2> QED
    BY <2>4, <2>5, <2>6
<1>10. same[0] \in {TRUE}
  <2>1. 0 \in 0 .. n - 1 /\ upto(0) = 0
    BY <1>2
  <2> QED
    BY <1>6, <2>1
<1>11. \A i \in 0 .. n - 1 : same[i] \in {TRUE}
  <2> HIDE DEF same
  <2>1. \A i \in 1 .. n - 1 : same[i - 1] \in {TRUE} => same[i] \in {TRUE}
    BY <1>9
  <2> QED
    BY <1>2, <1>10, <2>1, CourseStays
<1>12. f[n - 1] = g[m]
  <2>1. upto(n - 1) = m
    BY <1>2
  <2>2. same[n - 1]
    BY <1>2, <1>11
  <2> QED
    BY <1>2, <2>1, <2>2
<1>13. f[n] = StackBehind(f[n - 1], lines, n)
  BY <1>2, <1>7
<1> QED
  BY <1>3, <1>4, <1>12, <1>13 DEF C

-----------------------------------------------------------------------------
(* The stack of line n is the one behind the lines that count there.        *)
StackAt(lines, n) == StackThrough(lines, CountedAt(lines, n), n)

LEMMA StackGoesOn ==
  ASSUME NEW lines, NEW k, AreCodeLines(lines, k), NEW n \in 1 .. k, NEW m \in 0 .. n - 1,
         CountedAt(lines, n) = CountedAt(lines, m) \cup {n}
  PROVE  StackAt(lines, n) = StackBehind(StackAt(lines, m), lines, n)
<1>1. CountedAt(lines, m) \in SUBSET (1 .. m)
  BY DEF CountedAt
<1> QED
  BY <1>1, RunGoesOn DEF StackAt

\* What is counted line by line at the end of the file is said of one line.
LEMMA CountsIsCountsAt ==
  ASSUME NEW n \in Nat, NEW i \in 1 .. n
  PROVE  Counts(i, n) <=> i \in CountedAt(clean_lines, n)
<1>1. \A k : LevelAt(clean_lines, k) = Level(k)
  BY DEF LevelAt, Level, Openings, Closings, OpensGroup, ClosesGroup, Directive
<1>2. ASSUME NEW o \in 1 .. i
      PROVE  (OpensGroup(o) /\ i \in GroupOf(o, n) =>
                IF IsClosed(o, n) THEN \A e \in ElsesOf(o, n) : i < e
                ELSE \A e \in ElsesOf(o, n) : e <= i)
             <=> IsShown(clean_lines, o, i, n)
  <2>1. \A j \in o .. n : j \in GroupOf(o, n) <=> Within(clean_lines, o, j)
    BY <1>1 DEF GroupOf, Within
  <2>2. IsClosed(o, n) <=> ~Within(clean_lines, o, n)
    <3>1. n \in o .. n
      OBVIOUS
    <3>2. Within(clean_lines, o, n) => \A j \in o .. n : Within(clean_lines, o, j)
      BY DEF Within
    <3>3. GroupOf(o, n) \subseteq o .. n
      BY DEF GroupOf
    <3>4. GroupOf(o, n) = o .. n <=> Within(clean_lines, o, n)
      BY <2>1, <3>1, <3>2, <3>3
    <3> QED
      BY <3>4 DEF IsClosed
  <2>3. ElsesOf(o, n) = {e \in o .. n : PartOf(clean_lines, o, e)}
    <3>1. GroupOf(o, n) = {j \in o .. n : Within(clean_lines, o, j)}
      BY <1>1 DEF GroupOf, Within
    <3> QED
      BY <1>1, <3>1 DEF ElsesOf, PartOf, StartsPart, ElseOfGroup, Directive
  <2>4. i \in o .. n
    OBVIOUS
  <2>5. OpensGroup(o) <=> StartsGroup(clean_lines, o)
    BY DEF OpensGroup, StartsGroup, Directive
  <2> QED
    BY <2>1, <2>2, <2>3, <2>4, <2>5 DEF IsShown
<1>3. Counts(i, n) <=> CountsAt(clean_lines, i, n)
  BY <1>2 DEF Counts, CountsAt
<1> QED
  BY <1>3 DEF CountedAt

(* UpdatePreprocessor, place by place of the N groups it remembers: old and *)
(* new are those before and behind the line, stack and after the stacks.    *)
GroupsStep(lines, n, stack, after, old, new, N) ==
  /\ N \in Nat
  /\ StartsGroup(lines, n) =>
       /\ Len(new) = N + 1 /\ after = stack
       /\ \A i \in 1 .. N : new[i] = old[i]
       /\ new[N + 1].stack_before_if = stack /\ ~new[N + 1].seen_else
  /\ StartsPart(lines, n) /\ N > 0 =>
       /\ Len(new) = N /\ after = old[N].stack_before_if
       /\ \A i \in 1 .. N - 1 : new[i] = old[i]
       /\ new[N].stack_before_if = old[N].stack_before_if /\ new[N].seen_else
       /\ new[N].stack_before_else = IF old[N].seen_else THEN old[N].stack_before_else
                                     ELSE stack
  /\ EndsGroup(lines, n) /\ N > 0 =>
       /\ Len(new) = N - 1 /\ \A i \in 1 .. N - 1 : new[i] = old[i]
       /\ after = IF old[N].seen_else THEN old[N].stack_before_else ELSE stack
  /\ ~StartsGroup(lines, n) /\ ~StartsPart(lines, n) /\ ~EndsGroup(lines, n) =>
       new = old /\ after = stack

LEMMA GroupsBehindLine ==
  ASSUME NEW nesting \in Nestings(Token), NEW lines, NEW n \in Nat \ {0}, NEW pp,
         pp = UpdatePreprocessor(nesting, lines.elided[n]),
         NEW old, old = nesting.pp_stack, NEW new, new = pp.pp_stack, NEW N, N = Len(old)
  PROVE  GroupsStep(lines, n, nesting.stack, pp.stack, old, new, N)
<1> DEFINE info == Last(old)
           opened == [stack_before_if |-> nesting.stack, stack_before_else |-> <<>>,
                      seen_else |-> FALSE]
           parted == SaveFirstBranch(info, nesting.stack)
           at_if == [nesting EXCEPT !.pp_stack = Append(@, opened)]
           at_else == [nesting EXCEPT !.pp_stack = Append(Front(@), parted),
                                      !.stack = info.stack_before_if]
           at_endif == [nesting EXCEPT
                          !.pp_stack = Front(@),
                          !.stack = IF info.seen_else THEN info.stack_before_else ELSE @]
           starts == StartsGroup(lines, n)
           parts == StartsPart(lines, n)
           ends == EndsGroup(lines, n)
<1>1. pp = CASE starts -> at_if [] parts /\ old # <<>> -> at_else
             [] ends /\ old # <<>> -> at_endif [] OTHER -> nesting
  BY DEF UpdatePreprocessor, StartsGroup, StartsPart, EndsGroup
<1>2. ~(starts /\ parts) /\ ~(starts /\ ends) /\ ~(parts /\ ends)
  BY LevelSteps
<1> HIDE DEF starts, parts, ends
<1>3. old \in Seq(Branches(Token)) /\ N \in Nat /\ (old # <<>> <=> N > 0)
  <2>1. old \in Seq(Branches(Token))
    BY DEF Nestings
  <2> QED
    BY <2>1
<1>4. /\ at_if.pp_stack = Append(old, opened) /\ at_if.stack = nesting.stack
      /\ at_else.pp_stack = Append(Front(old), parted) /\ at_else.stack = info.stack_before_if
      /\ at_endif.pp_stack = Front(old)
      /\ at_endif.stack = IF info.seen_else THEN info.stack_before_else ELSE nesting.stack
  <2> HIDE DEF opened, parted, info
  <2> QED
    BY DEF Nestings
<1>5. opened.stack_before_if = nesting.stack /\ ~opened.seen_else
  OBVIOUS
<1> HIDE DEF at_if, at_else, at_endif, opened
<1>6. CASE starts
  <2> DEFINE A == Branches(Token) \cup {opened}
  <2>1. old \in Seq(A) /\ opened \in A
    <3>1. Branches(Token) \subseteq A /\ opened \in A
      OBVIOUS
    <3> HIDE DEF A
    <3> QED
      BY <1>3, <3>1, SeqMonotonic
  <2> HIDE DEF A
  <2>2. /\ Len(Append(old, opened)) = N + 1 /\ Append(old, opened)[N + 1] = opened
        /\ \A i \in 1 .. N : Append(old, opened)[i] = old[i]
    BY <2>1, AppendProperties
  <2>3. new = Append(old, opened) /\ pp.stack = nesting.stack
    BY <1>1, <1>2, <1>4, <1>6
  <2>4. ~parts /\ ~ends
    BY <1>2, <1>6
  <2> QED
    BY <1>3, <1>5, <1>6, <2>2, <2>3, <2>4 DEF starts, parts, ends, GroupsStep
<1>7. CASE ~starts /\ parts /\ old # <<>>
  <2>1. GrowsWell(old, parted)
    BY <1>3, <1>7, NewLists
  <2>2. new = Append(Front(old), parted) /\ pp.stack = info.stack_before_if
    BY <1>1, <1>2, <1>4, <1>7
  <2>3. info = old[N] /\ info \in Branches(Token)
    BY <1>3, <1>7, FrontAndLast DEF Last
  <2>4. /\ parted.stack_before_if = info.stack_before_if /\ parted.seen_else
        /\ parted.stack_before_else = IF info.seen_else THEN info.stack_before_else
                                      ELSE nesting.stack
    <3> HIDE DEF info
    <3> QED
      BY <2>3 DEF SaveFirstBranch, Branches
  <2> HIDE DEF parted, info
  <2>5. ~ends
    BY <1>2, <1>7
  <2> QED
    BY <1>3, <1>7, <2>1, <2>2, <2>3, <2>4, <2>5 DEF starts, parts, ends, GrowsWell, GroupsStep
<1>8. CASE ~starts /\ ~parts /\ ends /\ old # <<>>
  <2>1. Len(Front(old)) = N - 1 /\ \A i \in 1 .. N - 1 : Front(old)[i] = old[i]
    BY <1>3, <1>8, FrontAndLast
  <2>2. /\ new = Front(old)
        /\ pp.stack = IF info.seen_else THEN info.stack_before_else ELSE nesting.stack
    BY <1>1, <1>2, <1>4, <1>8
  <2>3. info = old[N]
    BY DEF Last
  <2> HIDE DEF info
  <2> QED
    BY <1>3, <1>8, <2>1, <2>2, <2>3 DEF starts, parts, ends, GroupsStep
<1>9. CASE ~starts /\ ~(parts /\ old # <<>>) /\ ~(ends /\ old # <<>>)
  <2>1. pp = nesting
    BY <1>1, <1>9
  <2> QED
    BY <1>3, <1>9, <2>1 DEF starts, parts, ends, GroupsStep
<1> QED
  BY <1>6, <1>7, <1>8, <1>9

-----------------------------------------------------------------------------
(* The stacks that are kept are those of earlier lines: of the line before  *)
(* an #if, and of the line before the first #else of its group.             *)
IsFirstPart(lines, o, e, n) ==
  /\ e \in o .. n /\ PartOf(lines, o, e)
  /\ \A d \in o .. n : PartOf(lines, o, d) => e <= d

Remembers(lines, info, p, o, n) ==
  /\ StartsGroup(lines, o) /\ LevelAt(lines, o) = p /\ Within(lines, o, n)
  /\ info.stack_before_if = StackAt(lines, o - 1)
  /\ IF info.seen_else
     THEN \E e \in o .. n : /\ IsFirstPart(lines, o, e, n)
                            /\ info.stack_before_else = StackAt(lines, e - 1)
     ELSE HasNoParts(lines, o, n)

RemembersGroups(lines, groups, n) ==
  /\ Len(groups) = LevelAt(lines, n)
  /\ \A p \in 1 .. Len(groups) : \E o \in 1 .. n : Remembers(lines, groups[p], p, o, n)

Follows(lines, nesting, n) ==
  nesting.stack = StackAt(lines, n) /\ RemembersGroups(lines, nesting.pp_stack, n)

LEMMA RemembersOn ==
  ASSUME NEW lines, NEW n \in Nat \ {0}, NEW info, NEW p \in Nat, NEW o \in 1 .. n - 1,
         Remembers(lines, info, p, o, n - 1), p <= LevelAt(lines, n),
         StartsPart(lines, n) => p # LevelAt(lines, n)
  PROVE  Remembers(lines, info, p, o, n)
<1>1. \A k \in Nat : LevelAt(lines, k) \in Int
  BY LevelsAreInts
<1>2. n - 1 \in 0 .. n /\ n \in Nat /\ o \in Nat /\ \A k \in (n - 1) + 1 .. n : k = n
  OBVIOUS
<1>3. StartsGroup(lines, o) /\ LevelAt(lines, o) = p /\ Within(lines, o, n - 1)
  BY DEF Remembers
<1>4. Within(lines, o, n)
  <2>1. \A k \in (n - 1) + 1 .. n : LevelAt(lines, k) >= LevelAt(lines, o)
    BY <1>1, <1>2, <1>3
  <2> QED
    BY <1>2, <1>3, <2>1, WithinGoesOn
<1>5. ~PartOf(lines, o, n)
  BY <1>3 DEF PartOf
<1>6. \A d \in o .. n : d \in o .. n - 1 \/ d = n
  OBVIOUS
<1>7. HasNoParts(lines, o, n - 1) => HasNoParts(lines, o, n)
  BY <1>5, <1>6 DEF HasNoParts
<1>8. \A e \in o .. n - 1 : e \in o .. n /\
                            (IsFirstPart(lines, o, e, n - 1) => IsFirstPart(lines, o, e, n))
  BY <1>5, <1>6 DEF IsFirstPart
<1> QED
  BY <1>3, <1>4, <1>7, <1>8 DEF Remembers

\* From one line to the next: what UpdatePreprocessor remembers is right, and so
\* is the stack behind the line.
LEMMA FollowsLine ==
  ASSUME NEW lines, NEW m, AreCodeLines(lines, m), LevelsMatch(lines, m), NEW n \in 1 .. m,
         NEW nesting \in Nestings(Token), Follows(lines, nesting, n - 1), NEW pp,
         pp = UpdatePreprocessor(nesting, lines.elided[n])
  PROVE  /\ RemembersGroups(lines, pp.pp_stack, n)
         /\ StackBehind(pp.stack, lines, n) = StackAt(lines, n)
<1> PICK old : old = nesting.pp_stack
  OBVIOUS
<1> PICK new : new = pp.pp_stack
  OBVIOUS
<1> PICK N : N = Len(old)
  OBVIOUS
<1> DEFINE starts == StartsGroup(lines, n)
           parts == StartsPart(lines, n)
           ends == EndsGroup(lines, n)
           level == LevelAt(lines, n)
<1>0. /\ m \in Nat /\ n \in Nat \ {0} /\ n - 1 \in Nat /\ n - 1 \in 0 .. n - 1
      /\ \A k \in Nat : LevelAt(lines, k) \in Int
  BY LevelsAreInts DEF AreCodeLines
<1>1. /\ N \in Nat
      /\ starts => /\ Len(new) = N + 1 /\ pp.stack = nesting.stack
                   /\ \A i \in 1 .. N : new[i] = old[i]
                   /\ new[N + 1].stack_before_if = nesting.stack /\ ~new[N + 1].seen_else
      /\ parts /\ N > 0 =>
           /\ Len(new) = N /\ pp.stack = old[N].stack_before_if
           /\ \A i \in 1 .. N - 1 : new[i] = old[i]
           /\ new[N].stack_before_if = old[N].stack_before_if /\ new[N].seen_else
           /\ new[N].stack_before_else = IF old[N].seen_else THEN old[N].stack_before_else
                                         ELSE nesting.stack
      /\ ends /\ N > 0 =>
           /\ Len(new) = N - 1 /\ \A i \in 1 .. N - 1 : new[i] = old[i]
           /\ pp.stack = IF old[N].seen_else THEN old[N].stack_before_else ELSE nesting.stack
      /\ ~starts /\ ~parts /\ ~ends => new = old /\ pp.stack = nesting.stack
  <2>1. GroupsStep(lines, n, nesting.stack, pp.stack, old, new, N)
    BY <1>0, GroupsBehindLine
  <2> QED
    BY <2>1 DEF GroupsStep
<1>2. nesting.stack = StackAt(lines, n - 1) /\ N = LevelAt(lines, n - 1)
  BY DEF Follows, RemembersGroups
<1>3. \A p \in 1 .. N : \E o \in 1 .. n - 1 : Remembers(lines, old[p], p, o, n - 1)
  BY DEF Follows, RemembersGroups
<1>4. /\ level = CASE starts -> N + 1 [] ends -> N - 1 [] OTHER -> N
      /\ ~(starts /\ ends) /\ ~(starts /\ parts) /\ ~(parts /\ ends)
  BY <1>0, <1>2, LevelSteps
<1>5. level >= 0 /\ (parts => level > 0)
  BY DEF LevelsMatch
<1> HIDE DEF starts, parts, ends, level
<1>6. ASSUME NEW p \in 1 .. N, p <= level, parts => p # level
      PROVE  \E o \in 1 .. n : Remembers(lines, old[p], p, o, n)
  <2>1. PICK o \in 1 .. n - 1 : Remembers(lines, old[p], p, o, n - 1)
    BY <1>3
  <2>2. Remembers(lines, old[p], p, o, n)
    BY <1>0, <1>6, <2>1, RemembersOn DEF parts, level
  <2>3. o \in 1 .. n
    BY <1>0
  <2> QED
    BY <2>2, <2>3
<1>7. CASE starts
  <2>1. Len(new) = N + 1 /\ level = N + 1 /\ ~parts /\ pp.stack = nesting.stack
    BY <1>1, <1>4, <1>7
  <2>2. ASSUME NEW p \in 1 .. N PROVE \E o \in 1 .. n : Remembers(lines, new[p], p, o, n)
    <3>1. new[p] = old[p] /\ p <= level
      BY <1>1, <1>7, <2>1
    <3> QED
      BY <1>6, <2>1, <3>1
  <2>3. Remembers(lines, new[N + 1], N + 1, n, n)
    <3>1. Within(lines, n, n)
      BY <1>0 DEF Within
    <3>2. HasNoParts(lines, n, n)
      <4>1. \A e \in n .. n : e = n
        BY <1>0
      <4> QED
        BY <2>1, <4>1 DEF HasNoParts, PartOf, parts
    <3> QED
      BY <1>1, <1>2, <1>7, <2>1, <3>1, <3>2 DEF Remembers, starts, level
  <2>4. \A p \in 1 .. N + 1 : p \in 1 .. N \/ p = N + 1
    BY <1>1
  <2>5. \A p \in 1 .. N + 1 : \E o \in 1 .. n : Remembers(lines, new[p], p, o, n)
    <3>1. n \in 1 .. n
      BY <1>0
    <3> QED
      BY <2>2, <2>3, <2>4, <3>1
  <2>6. RemembersGroups(lines, new, n)
    BY <2>1, <2>5 DEF RemembersGroups, level
  <2>7. CountedAt(lines, n) = CountedAt(lines, n - 1) \cup {n}
    BY <1>0, <1>4, <1>7, PlainLineCounts DEF parts, ends
  <2>8. StackAt(lines, n) = StackBehind(StackAt(lines, n - 1), lines, n)
    BY <1>0, <2>7, StackGoesOn
  <2> QED
    BY <1>2, <2>1, <2>6, <2>8
<1>8. CASE ~starts /\ ~parts /\ ~ends
  <2>1. new = old /\ level = N /\ pp.stack = nesting.stack
    BY <1>1, <1>4, <1>8
  <2>2. \A p \in 1 .. N : \E o \in 1 .. n : Remembers(lines, old[p], p, o, n)
    BY <1>1, <1>6, <1>8, <2>1
  <2>3. RemembersGroups(lines, new, n)
    BY <2>1, <2>2 DEF RemembersGroups, level
  <2>4. CountedAt(lines, n) = CountedAt(lines, n - 1) \cup {n}
    BY <1>0, <1>8, PlainLineCounts DEF parts, ends
  <2>5. StackAt(lines, n) = StackBehind(StackAt(lines, n - 1), lines, n)
    BY <1>0, <2>4, StackGoesOn
  <2> QED
    BY <1>2, <2>1, <2>3, <2>5
<1>9. CASE parts
  <2>1. /\ level = N /\ N > 0 /\ N \in 1 .. N /\ Len(new) = N
        /\ pp.stack = old[N].stack_before_if
    BY <1>1, <1>4, <1>5, <1>9
  <2>2. ASSUME NEW p \in 1 .. N - 1 PROVE \E o \in 1 .. n : Remembers(lines, new[p], p, o, n)
    <3>1. new[p] = old[p] /\ p <= level /\ p # level /\ p \in 1 .. N
      BY <1>1, <1>9, <2>1
    <3> QED
      BY <1>6, <3>1
  <2>3. PICK o \in 1 .. n - 1 : Remembers(lines, old[N], N, o, n - 1)
    BY <1>3, <2>1
  <2>4. /\ StartsGroup(lines, o) /\ LevelAt(lines, o) = N /\ Within(lines, o, n - 1)
        /\ old[N].stack_before_if = StackAt(lines, o - 1)
    BY <2>3 DEF Remembers
  <2>5. Within(lines, o, n)
    <3>1. \A k \in (n - 1) + 1 .. n : k = n
      BY <1>0
    <3>2. LevelAt(lines, n) = LevelAt(lines, o) /\ LevelAt(lines, n) \in Int
      BY <1>0, <2>1, <2>4 DEF level
    <3>3. \A k \in (n - 1) + 1 .. n : LevelAt(lines, k) >= LevelAt(lines, o)
      BY <3>1, <3>2
    <3>4. n - 1 \in 0 .. n /\ n \in Nat /\ o \in Nat
      BY <1>0
    <3> QED
      BY <2>4, <3>3, <3>4, WithinGoesOn
  <2>6. PartOf(lines, o, n) /\ IsInnermost(lines, o, n)
    BY <1>9, <2>1, <2>4, <2>5 DEF PartOf, IsInnermost, parts, level
  <2>7. \A d \in o .. n : d \in o .. n - 1 \/ d = n
    BY <1>0
  <2>8. n \in o .. n /\ o \in 1 .. n
    BY <1>0
  <2>9. \E e \in o .. n : /\ IsFirstPart(lines, o, e, n)
                          /\ new[N].stack_before_else = StackAt(lines, e - 1)
    <3>1. CASE old[N].seen_else
      <4>1. PICK e \in o .. n - 1 : /\ IsFirstPart(lines, o, e, n - 1)
                                    /\ old[N].stack_before_else = StackAt(lines, e - 1)
        BY <2>3, <3>1 DEF Remembers
      <4>2. e \in o .. n /\ e <= n
        BY <1>0
      <4>3. IsFirstPart(lines, o, e, n)
        BY <2>7, <4>1, <4>2 DEF IsFirstPart
      <4>4. new[N].stack_before_else = StackAt(lines, e - 1)
        BY <1>1, <1>9, <2>1, <3>1, <4>1
      <4> QED
        BY <4>2, <4>3, <4>4
    <3>2. CASE ~old[N].seen_else
      <4>1. HasNoParts(lines, o, n - 1)
        BY <2>3, <3>2 DEF Remembers
      <4>2. n <= n
        BY <1>0
      <4>3. IsFirstPart(lines, o, n, n)
        BY <2>6, <2>7, <2>8, <4>1, <4>2 DEF IsFirstPart, HasNoParts
      <4>4. new[N].stack_before_else = StackAt(lines, n - 1)
        BY <1>1, <1>2, <1>9, <2>1, <3>2
      <4> QED
        BY <2>8, <4>3, <4>4
    <3> QED
      BY <3>1, <3>2
  <2>10. Remembers(lines, new[N], N, o, n)
    BY <1>1, <1>9, <2>1, <2>4, <2>5, <2>9 DEF Remembers
  <2>11. \A p \in 1 .. N : p \in 1 .. N - 1 \/ p = N
    BY <1>1
  <2>12. \A p \in 1 .. N : \E g \in 1 .. n : Remembers(lines, new[p], p, g, n)
    BY <2>2, <2>8, <2>10, <2>11
  <2>13. RemembersGroups(lines, new, n)
    BY <2>1, <2>12 DEF RemembersGroups, level
  <2>14. CountedAt(lines, n) = CountedAt(lines, o - 1) \cup {n}
    BY <1>0, <1>9, <2>6, PartCounts DEF parts
  <2>15. StackAt(lines, n) = StackBehind(StackAt(lines, o - 1), lines, n)
    <3>1. o - 1 \in 0 .. n - 1
      BY <1>0
    <3> QED
      BY <2>14, <3>1, StackGoesOn
  <2> QED
    BY <2>1, <2>4, <2>13, <2>15
<1>10. CASE ends
  <2>1. level = N - 1 /\ N > 0 /\ N \in 1 .. N /\ Len(new) = N - 1 /\ ~parts
    BY <1>1, <1>4, <1>5, <1>10
  <2>2. ASSUME NEW p \in 1 .. N - 1 PROVE \E o \in 1 .. n : Remembers(lines, new[p], p, o, n)
    <3>1. new[p] = old[p] /\ p <= level /\ p \in 1 .. N
      BY <1>1, <1>10, <2>1
    <3> QED
      BY <1>6, <2>1, <3>1
  <2>3. RemembersGroups(lines, new, n)
    BY <2>1, <2>2 DEF RemembersGroups, level
  <2>4. PICK o \in 1 .. n - 1 : Remembers(lines, old[N], N, o, n - 1)
    BY <1>3, <2>1
  <2>5. StartsGroup(lines, o) /\ LevelAt(lines, o) = N /\ Within(lines, o, n - 1)
    BY <2>4 DEF Remembers
  <2>6. IsInnermost(lines, o, n - 1)
    BY <1>2, <2>5 DEF IsInnermost
  <2>7. CASE old[N].seen_else
    <3>1. PICK e \in o .. n - 1 : /\ IsFirstPart(lines, o, e, n - 1)
                                  /\ old[N].stack_before_else = StackAt(lines, e - 1)
      BY <2>4, <2>7 DEF Remembers
    <3>2. PartOf(lines, o, e) /\ \A d \in o .. n - 1 : PartOf(lines, o, d) => e <= d
      BY <3>1 DEF IsFirstPart
    <3>3. CountedAt(lines, n) = CountedAt(lines, e - 1) \cup {n}
      BY <1>0, <1>10, <2>6, <3>2, EndCounts DEF ends
    <3>4. e - 1 \in 0 .. n - 1
      BY <1>0
    <3>5. StackAt(lines, n) = StackBehind(StackAt(lines, e - 1), lines, n)
      BY <3>3, <3>4, StackGoesOn
    <3>6. pp.stack = StackAt(lines, e - 1)
      BY <1>1, <1>10, <2>1, <2>7, <3>1
    <3> QED
      BY <2>3, <3>5, <3>6
  <2>8. CASE ~old[N].seen_else
    <3>1. HasNoParts(lines, o, n - 1)
      BY <2>4, <2>8 DEF Remembers
    <3>2. ASSUME NEW g \in 1 .. n - 1, IsInnermost(lines, g, n - 1)
          PROVE  HasNoParts(lines, g, n - 1)
      <4>1. g = o
        BY <1>0, <2>6, <3>2, OneGroupOfALevel DEF IsInnermost
      <4> QED
        BY <3>1, <4>1
    <3>3. CountedAt(lines, n) = CountedAt(lines, n - 1) \cup {n}
      BY <1>0, <2>1, <3>2, PlainLineCounts DEF parts
    <3>4. StackAt(lines, n) = StackBehind(StackAt(lines, n - 1), lines, n)
      BY <1>0, <3>3, StackGoesOn
    <3>5. pp.stack = StackAt(lines, n - 1)
      BY <1>1, <1>2, <1>10, <2>1, <2>8
    <3> QED
      BY <2>3, <3>4, <3>5
  <2> QED
    BY <2>7, <2>8
<1> QED
  BY <1>7, <1>8, <1>9, <1>10

(* The stack of a line fits the braces that are counted there.              *)
LEMMA StackFits ==
  ASSUME NEW m, AreCodeLines(clean_lines, m), NEW n \in 0 .. m
  PROVE  Fits(StackAt(clean_lines, n), CountedBraces(n))
<1> PICK lines : lines = clean_lines
  OBVIOUS
<1> PICK C : C = CountedAt(lines, n)
  OBVIOUS
<1> DEFINE B == BraceStates
           line(i) == lines.elided[i]
           G == [x \in (1 .. n) \X B |-> IF x[1] \in C THEN BraceLine(x[2], line(x[1])) ELSE x[2]]
           behind == CHOOSE f : f = [i \in 0 .. n |->
                       IF i = 0 THEN NoBraces
                       ELSE IF Counts(i, n) THEN BraceLine(f[i - 1], clean_lines.elided[i])
                            ELSE f[i - 1]]
<1>1. CountedBraces(n) = behind[n]
  BY DEF CountedBraces
<1>2. m \in Nat /\ n \in Nat /\ AreCodeLines(lines, m) /\ \A i \in 1 .. n : i \in 1 .. m
  BY DEF AreCodeLines
<1>3. \A i \in 1 .. n : Counts(i, n) <=> i \in C
  BY <1>2, CountsIsCountsAt
<1>4. NoBraces \in B /\ Fits(<<>>, NoBraces)
  BY DEF NoBraces, BraceStates, Fits, LastSeen
<1>5. ASSUME NEW i \in 1 .. n, NEW stack \in Stacks(Token), NEW b \in B, Fits(stack, b)
      PROVE  /\ BraceLine(b, line(i)) \in B
             /\ Fits(StackBehind(stack, lines, i), BraceLine(b, line(i)))
  <2>1. i \in 1 .. m
    BY <1>2
  <2> QED
    BY <1>2, <1>5, <2>1, LineFits
<1>6. ASSUME NEW i \in 1 .. n, NEW b \in B PROVE BraceLine(b, line(i)) \in B
  <2>1. line(i) \in Line
    BY <1>2 DEF AreCodeLines
  <2>2. Len(line(i)) \in Nat
    BY <2>1 DEF Line
  <2>3. PICK f : IsScan(f, line(i), b) /\ BraceLine(b, line(i)) = f[Len(line(i))]
    BY <2>2, ScanExists
  <2>4. Len(line(i)) \in 0 .. Len(line(i))
    BY <2>2
  <2> HIDE DEF line
  <2> QED
    BY <2>3, <2>4 DEF IsScan
<1>7. PICK f : IsRun(f, lines, C, n) /\ StackThrough(lines, C, n) = f[n]
  BY <1>2, RunExists
<1>8. G \in [(1 .. n) \X B -> B]
  <2> HIDE DEF B, line
  <2> QED
    BY <1>6
<1> HIDE DEF line
<1>9. PICK g : IsCourse(g, n, B, NoBraces, G)
  <2> HIDE DEF G, B
  <2> QED
    BY <1>2, <1>4, <1>8, CourseExists
<1>10. g = [i \in 0 .. n |-> IF i = 0 THEN NoBraces
                             ELSE IF Counts(i, n) THEN BraceLine(g[i - 1], clean_lines.elided[i])
                                  ELSE g[i - 1]]
  <2>1. ASSUME NEW i \in 0 .. n, i # 0
        PROVE  g[i] = IF Counts(i, n) THEN BraceLine(g[i - 1], clean_lines.elided[i])
                      ELSE g[i - 1]
    <3>1. i \in 1 .. n /\ i - 1 \in 0 .. n
      BY <1>2, <2>1
    <3> HIDE DEF B
    <3>2. g[i] = G[<<i, g[i - 1]>>] /\ g[i - 1] \in B
      BY <1>9, <3>1 DEF IsCourse
    <3>3. g[i] = IF i \in C THEN BraceLine(g[i - 1], line(i)) ELSE g[i - 1]
      BY <3>1, <3>2
    <3> QED
      BY <1>3, <3>1, <3>3 DEF line
  <2> HIDE DEF B
  <2> QED
    BY <1>9, <2>1 DEF IsCourse
<1>11. behind = [i \in 0 .. n |->
                   IF i = 0 THEN NoBraces
                   ELSE IF Counts(i, n) THEN BraceLine(behind[i - 1], clean_lines.elided[i])
                        ELSE behind[i - 1]]
  BY <1>10
<1> HIDE DEF behind, G
<1>12. /\ behind[0] = NoBraces
       /\ \A i \in 1 .. n : behind[i] = IF i \in C THEN BraceLine(behind[i - 1], line(i))
                                        ELSE behind[i - 1]
  <2>1. 0 \in 0 .. n /\ \A i \in 1 .. n : i \in 0 .. n /\ i # 0
    BY <1>2
  <2>2. behind[0] = NoBraces
    BY <1>11, <2>1
  <2>3. ASSUME NEW i \in 1 .. n
        PROVE  behind[i] = IF Counts(i, n) THEN BraceLine(behind[i - 1], clean_lines.elided[i])
                           ELSE behind[i - 1]
    BY <1>11, <2>1
  <2> QED
    BY <1>3, <2>2, <2>3 DEF line
<1> HIDE DEF B
<1> DEFINE fits == [i \in 0 .. n |-> IF behind[i] \in B THEN Fits(f[i], behind[i]) ELSE FALSE]
<1>13. fits[0] \in {TRUE}
  <2>1. 0 \in 0 .. n /\ f[0] = <<>>
    BY <1>2, <1>7 DEF IsRun
  <2>2. fits[0] = Fits(<<>>, NoBraces)
    BY <1>4, <1>12, <2>1
  <2> HIDE DEF fits
  <2>3. Fits(<<>>, NoBraces) \in BOOLEAN
    BY DEF Fits
  <2> QED
    BY <1>4, <2>2, <2>3
<1>14. ASSUME NEW i \in 1 .. n, fits[i - 1] \in {TRUE} PROVE fits[i] \in {TRUE}
  <2>1. i \in 0 .. n /\ i - 1 \in 0 .. n
    BY <1>2
  <2>2. behind[i - 1] \in B /\ Fits(f[i - 1], behind[i - 1])
    BY <1>14, <2>1
  <2>3. f[i - 1] \in Stacks(Token)
    BY <1>7, <2>1 DEF IsRun
  <2>4. f[i] = IF i \in C THEN StackBehind(f[i - 1], lines, i) ELSE f[i - 1]
    BY <1>7 DEF IsRun
  <2>5. behind[i] \in B /\ Fits(f[i], behind[i])
    <3>1. CASE i \in C
      <4>1. /\ BraceLine(behind[i - 1], line(i)) \in B
            /\ Fits(StackBehind(f[i - 1], lines, i), BraceLine(behind[i - 1], line(i)))
        BY <1>5, <2>2, <2>3
      <4> QED
        BY <1>12, <2>4, <3>1, <4>1
    <3>2. CASE i \notin C
      BY <1>12, <2>2, <2>4, <3>2
    <3> QED
      BY <3>1, <3>2
  <2>6. Fits(f[i], behind[i]) \in BOOLEAN
    BY DEF Fits
  <2> QED
    BY <2>1, <2>5, <2>6
<1>15. fits[n] \in {TRUE}
  <2> HIDE DEF fits
  <2>1. \A i \in 1 .. n : fits[i - 1] \in {TRUE} => fits[i] \in {TRUE}
    BY <1>14
  <2>2. \A i \in 0 .. n : fits[i] \in {TRUE}
    BY <1>2, <1>13, <2>1, CourseStays
  <2>3. n \in 0 .. n
    BY <1>2
  <2> QED
    BY <2>2, <2>3
<1>16. Fits(f[n], behind[n])
  <2>1. n \in 0 .. n
    BY <1>2
  <2> QED
    BY <1>15, <2>1
<1> QED
  BY <1>1, <1>7, <1>16 DEF StackAt

LEMMA CountUpTo == \A n \in Nat : Cardinality(1 .. n) = n
BY FS_Interval

LEMMA SeenBlocks ==
  ASSUME NEW stack \in Stacks(Token), NEW b, Fits(stack, b), b.clear
  PROVE  Cardinality({i \in DOMAIN stack : stack[i].seen_open_brace}) = b.depth
<1> PICK n \in Nat : n = Len(stack) /\ DOMAIN stack = 1 .. n
  BY DEF Stacks
<1> DEFINE seen == {i \in DOMAIN stack : stack[i].seen_open_brace}
<1>1. \A i \in 1 .. n - 1 : stack[i].seen_open_brace
  BY DEF Fits
<1>2. b.depth = IF LastSeen(stack) THEN n ELSE n - 1
  BY DEF Fits
<1>3. \A i \in 1 .. n : i \in 1 .. n - 1 \/ i = n
  OBVIOUS
<1>4. CASE LastSeen(stack)
  <2>1. \A i \in 1 .. n : stack[i].seen_open_brace
    BY <1>1, <1>3, <1>4 DEF LastSeen
  <2>2. seen = 1 .. n
    BY <2>1
  <2>3. Cardinality(1 .. n) = n
    BY CountUpTo
  <2> HIDE DEF seen
  <2>4. Cardinality(seen) = b.depth
    BY <1>2, <1>4, <2>2, <2>3
  <2> QED
    BY <2>4 DEF seen
<1>5. CASE ~LastSeen(stack)
  <2>1. n > 0 /\ ~stack[n].seen_open_brace
    BY <1>5 DEF LastSeen
  <2>2. seen = 1 .. n - 1
    BY <1>1, <1>3, <2>1
  <2>3. n - 1 \in Nat
    BY <2>1
  <2>4. Cardinality(1 .. n - 1) = n - 1
    BY <2>3, CountUpTo
  <2> HIDE DEF seen
  <2>5. Cardinality(seen) = b.depth
    BY <1>2, <1>5, <2>2, <2>4
  <2> QED
    BY <2>5 DEF seen
<1> QED
  BY <1>4, <1>5

-----------------------------------------------------------------------------
(* The invariant: the stack is the one behind the lines that count so far,  *)
(* and for every open group the stacks of its #if and of its first #else    *)
(* are kept.                                                                *)
NestedInv ==
  pc = "line" /\ GroupsMatch(Len(clean_lines.lines)) =>
    Follows(clean_lines, nesting_state, linenum - 1)

LEMMA NothingFollowed ==
  ASSUME NEW lines PROVE Follows(lines, NewNestingState, 0)
<1>1. StackAt(lines, 0) = <<>>
  <2> DEFINE C == CountedAt(lines, 0)
             first == <<>>
             behind == CHOOSE f : f = [i \in 0 .. 0 |->
                         IF i = 0 THEN first
                         ELSE IF i \in C THEN StackBehind(f[i - 1], lines, i) ELSE f[i - 1]]
             g == [i \in 0 .. 0 |-> first]
  <2>1. StackAt(lines, 0) = behind[0]
    BY DEF StackAt, StackThrough
  <2> HIDE DEF first
  <2>2. g = [i \in 0 .. 0 |-> IF i = 0 THEN first
                              ELSE IF i \in C THEN StackBehind(g[i - 1], lines, i) ELSE g[i - 1]]
    OBVIOUS
  <2>3. behind = [i \in 0 .. 0 |->
                    IF i = 0 THEN first
                    ELSE IF i \in C THEN StackBehind(behind[i - 1], lines, i) ELSE behind[i - 1]]
    <3> HIDE DEF g
    <3> QED
      BY <2>2
  <2> HIDE DEF behind
  <2>4. behind[0] = first
    BY <2>3
  <2> QED
    BY <2>1, <2>4 DEF first
<1>2. LevelAt(lines, 0) = 0
  <2>1. Openings(lines, 0) = {} /\ Closings(lines, 0) = {}
    BY DEF Openings, Closings
  <2> QED
    BY <2>1, FS_EmptySet DEF LevelAt
<1>3. NewNestingState.stack = <<>> /\ NewNestingState.pp_stack = <<>>
  BY DEF NewNestingState
<1>4. RemembersGroups(lines, <<>>, 0)
  BY <1>2 DEF RemembersGroups
<1> QED
  BY <1>1, <1>3, <1>4 DEF Follows

LEMMA StartFileKeepsNestedInv ==
  ASSUME StartFile
  PROVE  NestedInv'
<1>1. linenum' = 1 /\ nesting_state' = NewNestingState
  BY DEF StartFile
<1>2. Follows(clean_lines', nesting_state', linenum' - 1)
  <2>1. linenum' - 1 = 0
    BY <1>1
  <2> QED
    BY <1>1, <2>1, NothingFollowed
<1> QED
  BY <1>2 DEF NestedInv

LEMMA ProcessLineKeepsNestedInv ==
  ASSUME IInv, RunInv, NestedInv, ProcessLine
  PROVE  NestedInv'
<1> PICK n \in Nat \ {0} : n = linenum
  BY DEF IInv
<1> PICK lines : lines = clean_lines
  OBVIOUS
<1> PICK nesting : nesting = nesting_state
  OBVIOUS
<1>1. /\ pc = "line" /\ n <= Len(clean_lines.lines) /\ linenum' = n + 1
      /\ nesting_state' =
           LineProcessed(File, clean_lines, n, checks, filters, options).checks.nesting
      /\ clean_lines' = clean_lines
  BY DEF ProcessLine, Becomes
<1>2. PICK text \in Seq(Line) : clean_lines = CleansedLines(text)
  BY <1>1, OpenFile DEF IInv
<1> PICK m : m = Len(text)
  OBVIOUS
<1>3. AreCodeLines(lines, m) /\ Len(clean_lines.lines) = m /\ n \in 1 .. m
  <2>1. /\ lines.elided \in Seq(Line) /\ Len(lines.elided) = m
        /\ lines.raw_lines = text /\ Len(lines.lines) = m
    BY <1>2, CleansedType
  <2>2. m \in Nat
    OBVIOUS
  <2> QED
    BY <1>1, <2>1, <2>2 DEF AreCodeLines
<1>4. nesting \in Nestings(Token) /\ checks.nesting = nesting
  BY DEF RunInv, CheckersInv, AreCheckers, checks
<1>5. nesting_state' = Update(nesting, lines, n).nesting
  <2>1. LineProcessed(File, clean_lines, n, checks, filters, options).checks.nesting
          = Update(checks.nesting, clean_lines, n).nesting
    BY DEF LineProcessed
  <2> QED
    BY <1>1, <1>4, <2>1
<1> SUFFICES ASSUME GroupsMatch(Len(clean_lines.lines))
             PROVE  Follows(clean_lines', nesting_state', linenum' - 1)
  <2>1. GroupsMatch(Len(clean_lines.lines))' <=> GroupsMatch(Len(clean_lines.lines))
    BY <1>1 DEF GroupsMatch, Level, OpensGroup, ClosesGroup, ElseOfGroup, Directive
  <2> QED
    BY <2>1 DEF NestedInv
<1>6. LevelsMatch(lines, m)
  BY <1>3 DEF GroupsMatch, LevelsMatch, ElseOfGroup, Directive, Level, LevelAt, Openings, Closings,
              OpensGroup, ClosesGroup, StartsPart
<1>7. Follows(lines, nesting, n - 1)
  BY <1>1 DEF NestedInv
<1> PICK pp : pp = UpdatePreprocessor(nesting, lines.elided[n])
  OBVIOUS
<1>8. RemembersGroups(lines, pp.pp_stack, n) /\ StackBehind(pp.stack, lines, n) = StackAt(lines, n)
  BY <1>3, <1>4, <1>6, <1>7, FollowsLine
<1>9. /\ nesting_state'.stack = StackBehind(pp.stack, lines, n)
      /\ nesting_state'.pp_stack = pp.pp_stack
  BY <1>5, UpdateStack
<1>10. linenum' - 1 = n
  BY <1>1
<1> QED
  BY <1>1, <1>8, <1>9, <1>10 DEF Follows

LEMMA NextNestedInv == IInv /\ RunInv /\ NestedInv /\ [Next]_vars => NestedInv'
<1> SUFFICES ASSUME IInv, RunInv, NestedInv, [Next]_vars PROVE NestedInv'
  OBVIOUS
<1>1. CASE StartFile
  BY <1>1, StartFileKeepsNestedInv
<1>2. CASE ProcessLine
  BY <1>2, ProcessLineKeepsNestedInv
<1>3. CASE \/ ParseArguments \/ NoFiles \/ DieOfFilter \/ ExcludeFile \/ DieOfConfig \/ SkipFile
           \/ EndFile \/ Exit
  <2>1. pc' # "line"
    BY <1>3 DEF ParseArguments, NoFiles, DieOfFilter, ExcludeFile, DieOfConfig, SkipFile, IsOpened,
                EndFile, NextFile, Exit
  <2> QED
    BY <2>1 DEF NestedInv
<1>4. CASE UNCHANGED vars
  <2>1. /\ pc' = pc /\ linenum' = linenum /\ clean_lines' = clean_lines
        /\ nesting_state' = nesting_state
    BY <1>4 DEF vars, state
  <2>2. GroupsMatch(Len(clean_lines.lines))' <=> GroupsMatch(Len(clean_lines.lines))
    BY <2>1 DEF GroupsMatch, Level, OpensGroup, ClosesGroup, ElseOfGroup, Directive
  <2>3. Follows(clean_lines, nesting_state, linenum - 1)'
          <=> Follows(clean_lines, nesting_state, linenum - 1)
    BY <2>1
  <2> QED
    BY <2>1, <2>2, <2>3 DEF NestedInv
<1> QED
  BY <1>1, <1>2, <1>3, <1>4 DEF Next

(* Behind the last line the stack holds one block with a brace for every   *)
(* brace that is open in the lines that count, in a file of clear code     *)
(* whose groups match (cpplint.py:2757-2811): the stack is that of those   *)
(* lines alone, because every open group keeps the stack of its #if and of *)
(* its first #else, and a line's tokens take the stack where the braces of *)
(* the code go.                                                            *)
THEOREM StackIsTheNesting == Spec => []StackFollowsBraces
<1>1. IInv /\ RunInv /\ NestedInv => StackFollowsBraces
  <2> DEFINE n == Len(clean_lines.lines)
             stack == nesting_state.stack
  <2> SUFFICES ASSUME IInv, RunInv, NestedInv, AllLinesDone, GroupsMatch(n),
                      CountedBraces(n).clear
               PROVE  Cardinality({i \in DOMAIN stack : stack[i].seen_open_brace})
                        = CountedBraces(n).depth
    BY DEF StackFollowsBraces
  <2>1. PICK text \in Seq(Line) : clean_lines = CleansedLines(text)
    BY DEF RunInv, CheckersInv
  <2>2. n = Len(text) /\ n \in Nat /\ AreCodeLines(clean_lines, n)
    BY <2>1, CleansedType DEF AreCodeLines
  <2>3. linenum - 1 = n
    BY <2>2 DEF RunInv, CheckersInv, AllLinesDone
  <2>4. stack = StackAt(clean_lines, n)
    BY <2>3 DEF NestedInv, AllLinesDone, Follows
  <2>5. stack \in Stacks(Token)
    BY DEF RunInv, CheckersInv, AreCheckers, checks, Nestings
  <2>6. Fits(stack, CountedBraces(n))
    <3>1. n \in 0 .. n
      BY <2>2
    <3> QED
      BY <2>2, <2>4, <3>1, StackFits
  <2> HIDE DEF n, stack
  <2> QED
    BY <2>5, <2>6, SeenBlocks
<1>2. Init => NestedInv
  BY DEF Init, NestedInv
<1> QED
  BY <1>1, <1>2, InitIInv, NextIInv, InitRunInv, NextRunInv, NextNestedInv, PTL DEF Spec
=============================================================================
