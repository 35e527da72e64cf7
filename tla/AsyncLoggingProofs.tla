------------------------- MODULE AsyncLoggingProofs -------------------------
(***************************************************************************)
(* Theorems about AsyncLogging, for buffers of any size, lines of any      *)
(* length and any number of them.  The first part is about the sequences   *)
(* the logger is made of: all the lines in a sequence of buffers.          *)
(***************************************************************************)
EXTENDS AsyncLogging, SequenceTheorems, NaturalsInduction, WellFoundedInduction, TLAPS

-----------------------------------------------------------------------------
(* The inductive invariant behind the properties.                          *)

(* A buffer that is kept as a spare, by the threads that log or by the     *)
(* back end, is empty: nothing is in it when it is used again.             *)
SparesAreEmpty ==
  /\ next_ \in {EmptyBuffer, NoBuffer}
  /\ pc \notin {"none", "created"} => new_current = EmptyBuffer /\ new_next = EmptyBuffer

(* The latch counts down once, when the thread that Start made runs, and   *)
(* running_ is set between Start and Stop.                                 *)
StartsOnce ==
  /\ owner \in {"starting", "started"} => running_
  /\ owner \in {"new", "stopping", "stopped"} => ~running_
  /\ owner = "new" => pc = "none"
  /\ pc \in {"none", "created"} => latch_ = 1

IInv == TypeOK /\ SparesAreEmpty /\ StartsOnce

-----------------------------------------------------------------------------
(* FlattenSeq is a recursive function; what it yields is shown by taking   *)
(* the least place where it would not hold.                                *)

LEMMA LeastOf ==
  ASSUME NEW S \in SUBSET Nat, S # {}
  PROVE  \E x \in S : \A y \in S : x <= y
<1> DEFINE R == {p \in Nat \X Nat : p[1] < p[2]}
<1>1. OpToRel(<, Nat) = R
  BY DEF OpToRel
<1>2. IsWellFoundedOn(R, Nat)
  BY <1>1, NatLessThanWellFounded
<1> HIDE DEF R
<1>3. PICK x \in S : \A y \in S : ~ (<<y, x>> \in R)
  BY <1>2, WFMin
<1>4. ASSUME NEW y \in S PROVE x <= y
  <2>1. <<y, x>> \in Nat \X Nat /\ <<y, x>>[1] = y /\ <<y, x>>[2] = x
    OBVIOUS
  <2>2. ~ (y < x)
    BY <1>3, <2>1 DEF R
  <2> QED
    BY <2>2
<1> QED
  BY <1>4

(* The function FlattenSeq defines, for the first n of the sequences.      *)
Flattens(f, n, seqs) ==
  f = [i \in 1 .. n |-> IF i = 1 THEN seqs[i] ELSE f[i - 1] \o seqs[i]]

LEMMA FlattensExists ==
  ASSUME NEW S, NEW seqs \in Seq(Seq(S)), NEW n \in Nat
  PROVE  \E f : Flattens(f, n, seqs)
<1> DEFINE Bad == {k \in Nat : ~ \E f : Flattens(f, k, seqs)}
<1> SUFFICES ASSUME Bad # {} PROVE FALSE
  OBVIOUS
<1>1. PICK k \in Bad : \A j \in Bad : k <= j
  BY LeastOf
<1>2. k # 0
  <2>1. Flattens([i \in 1 .. 0 |-> 0], 0, seqs)
    BY DEF Flattens
  <2> QED
    BY <1>1, <2>1
<1>3. k - 1 \in Nat /\ ~ (k - 1 \in Bad) /\ k \in Nat
  BY <1>1, <1>2
<1>4. PICK f : Flattens(f, k - 1, seqs)
  BY <1>3
<1> DEFINE g == [i \in 1 .. k |-> IF i = 1 THEN seqs[i] ELSE f[i - 1] \o seqs[i]]
<1>5. \A i \in 1 .. k - 1 : g[i] = f[i]
  <2>1. \A i \in 1 .. k - 1 : i \in 1 .. k
    BY <1>3
  <2>2. \A i \in 1 .. k - 1 : f[i] = IF i = 1 THEN seqs[i] ELSE f[i - 1] \o seqs[i]
    BY <1>4 DEF Flattens
  <2> QED
    BY <2>1, <2>2
<1>6. \A i \in 1 .. k : i # 1 => g[i - 1] = f[i - 1]
  <2>1. \A i \in 1 .. k : i # 1 => i - 1 \in 1 .. k - 1
    BY <1>3
  <2> HIDE DEF g
  <2> QED
    BY <1>5, <2>1
<1>7. g = [i \in 1 .. k |-> IF i = 1 THEN seqs[i] ELSE g[i - 1] \o seqs[i]]
  BY <1>6
<1> HIDE DEF g
<1>8. Flattens(g, k, seqs)
  BY <1>7 DEF Flattens
<1> QED
  BY <1>1, <1>8

BeginsWith(others, seqs) ==
  Len(seqs) <= Len(others) /\ \A i \in 1 .. Len(seqs) : others[i] = seqs[i]

(* Two such functions agree where the sequences do, and have sequences as  *)
(* their values.                                                           *)
LEMMA FlattensAgree ==
  ASSUME NEW S, NEW seqs \in Seq(Seq(S)), NEW others \in Seq(Seq(S)),
         BeginsWith(others, seqs),
         NEW f, NEW g, Flattens(f, Len(seqs), seqs), Flattens(g, Len(others), others)
  PROVE  \A i \in 1 .. Len(seqs) : f[i] \in Seq(S) /\ g[i] = f[i]
<1> DEFINE n == Len(seqs)
           m == Len(others)
           Bad == {i \in 1 .. n : ~ (f[i] \in Seq(S) /\ g[i] = f[i])}
<1> SUFFICES ASSUME Bad # {} PROVE FALSE
  OBVIOUS
<1>1. PICK i \in Bad : \A j \in Bad : i <= j
  <2>1. Bad \in SUBSET Nat
    OBVIOUS
  <2> HIDE DEF Bad
  <2> QED
    BY <2>1, LeastOf
<1>2. i \in 1 .. n /\ i \in 1 .. m
  BY <1>1 DEF BeginsWith
<1>3. /\ f[i] = IF i = 1 THEN seqs[i] ELSE f[i - 1] \o seqs[i]
      /\ g[i] = IF i = 1 THEN others[i] ELSE g[i - 1] \o others[i]
  BY <1>2 DEF Flattens
<1>4. seqs[i] \in Seq(S) /\ others[i] = seqs[i]
  BY <1>2 DEF BeginsWith
<1>5. CASE i = 1
  BY <1>1, <1>3, <1>4, <1>5
<1>6. CASE i # 1
  <2>1. i - 1 \in 1 .. n /\ ~ (i - 1 \in Bad)
    BY <1>1, <1>2, <1>6
  <2>2. f[i - 1] \in Seq(S) /\ g[i - 1] = f[i - 1]
    BY <2>1
  <2>3. f[i] = f[i - 1] \o seqs[i] /\ g[i] = f[i - 1] \o seqs[i]
    BY <1>3, <1>4, <1>6, <2>2
  <2>4. f[i - 1] \o seqs[i] \in Seq(S)
    BY <1>4, <2>2
  <2> QED
    BY <1>1, <2>3, <2>4
<1> QED
  BY <1>5, <1>6

LEMMA FlattenIs ==
  ASSUME NEW S, NEW seqs \in Seq(Seq(S)), seqs # <<>>
  PROVE  \E f : Flattens(f, Len(seqs), seqs) /\ FlattenSeq(seqs) = f[Len(seqs)]
<1> DEFINE F == CHOOSE f : Flattens(f, Len(seqs), seqs)
<1>1. Len(seqs) \in Nat /\ Len(seqs) # 0
  OBVIOUS
<1>2. Flattens(F, Len(seqs), seqs)
  BY <1>1, FlattensExists
<1>3. FlattenSeq(seqs) = F[Len(seqs)]
  BY <1>1 DEF FlattenSeq, Flattens
<1> QED
  BY <1>2, <1>3

(* No sequence has no elements; one more sequence adds its elements.       *)
LEMMA FlattenEmpty == FlattenSeq(<<>>) = <<>>
BY DEF FlattenSeq

LEMMA FlattenType ==
  ASSUME NEW S, NEW seqs \in Seq(Seq(S))
  PROVE  FlattenSeq(seqs) \in Seq(S)
<1>1. CASE seqs = <<>>
  <2>1. FlattenSeq(seqs) = <<>>
    BY <1>1, FlattenEmpty, Zenon
  <2>2. <<>> \in Seq(S)
    OBVIOUS
  <2> QED
    BY <2>1, <2>2, Zenon
<1>2. CASE seqs # <<>>
  <2>1. PICK f : Flattens(f, Len(seqs), seqs) /\ FlattenSeq(seqs) = f[Len(seqs)]
    BY <1>2, FlattenIs
  <2>2. Len(seqs) \in Nat /\ Len(seqs) <= Len(seqs) /\ Len(seqs) \in 1 .. Len(seqs)
    BY <1>2
  <2>3. \A i \in 1 .. Len(seqs) : f[i] \in Seq(S)
    BY <2>1, <2>2, FlattensAgree DEF BeginsWith
  <2> QED
    BY <2>1, <2>2, <2>3
<1> QED
  BY <1>1, <1>2

LEMMA FlattenAppend ==
  ASSUME NEW S, NEW seqs \in Seq(Seq(S)), NEW s \in Seq(S)
  PROVE  FlattenSeq(Append(seqs, s)) = FlattenSeq(seqs) \o s
<1> DEFINE more == Append(seqs, s)
           n == Len(seqs)
<1>1. /\ more \in Seq(Seq(S)) /\ more # <<>> /\ Len(more) = n + 1 /\ n \in Nat
      /\ more[n + 1] = s /\ \A i \in 1 .. n : more[i] = seqs[i]
  <2> DEFINE T == Seq(S)
  <2>1. seqs \in Seq(T) /\ s \in T
    OBVIOUS
  <2> HIDE DEF T
  <2>2. /\ more \in Seq(T) /\ more # <<>> /\ Len(more) = n + 1 /\ n \in Nat
        /\ more[n + 1] = s /\ \A i \in 1 .. n : more[i] = seqs[i]
    BY <2>1
  <2> QED
    BY <2>2 DEF T
<1> HIDE DEF more
<1>2. PICK g : Flattens(g, n + 1, more) /\ FlattenSeq(more) = g[n + 1]
  BY <1>1, FlattenIs
<1>3. g[n + 1] = IF n + 1 = 1 THEN s ELSE g[(n + 1) - 1] \o s
  <2>1. n + 1 \in 1 .. n + 1
    BY <1>1
  <2> QED
    BY <1>1, <1>2, <2>1 DEF Flattens
<1>4. CASE seqs = <<>>
  <2>1. n = 0
    BY <1>4
  <2> QED
    BY <1>2, <1>3, <1>4, <2>1, FlattenEmpty DEF more
<1>5. CASE seqs # <<>>
  <2>1. n # 0 /\ (n + 1) - 1 = n /\ n \in 1 .. n /\ n + 1 \in Nat /\ n <= n + 1 /\ n <= n
    BY <1>1, <1>5
  <2>2. PICK f : Flattens(f, n, seqs) /\ FlattenSeq(seqs) = f[n]
    BY <1>5, FlattenIs
  <2>3. \A i \in 1 .. n : g[i] = f[i]
    <3>1. /\ BeginsWith(more, seqs)
          /\ Flattens(f, Len(seqs), seqs) /\ Flattens(g, Len(more), more)
          /\ more \in Seq(Seq(S))
      BY <1>1, <1>2, <2>2 DEF BeginsWith
    <3> QED
      BY <3>1, FlattensAgree
  <2>4. g[n] = f[n] /\ g[n + 1] = g[n] \o s
    BY <1>3, <2>1, <2>3
  <2> QED
    BY <1>2, <2>2, <2>4 DEF more
<1> QED
  BY <1>4, <1>5
-----------------------------------------------------------------------------
(* What the calls of the steps do to the buffers.                          *)

LEMMA AddedIs ==
  ASSUME NEW buffer \in Buffers, NEW line \in Lines
  PROVE  /\ Added(buffer, line) \in Buffers
         /\ Added(buffer, line) = buffer \/ Added(buffer, line) = Append(buffer, line)
BY DEF Added, Buffers

(* A line is added behind all others in memory or refused.                 *)
LEMMA AppendEffect ==
  ASSUME TypeOK, SparesAreEmpty, NEW line \in Lines, AppendLine(line)
  PROVE  /\ current_' \in Buffers /\ next_' \in Buffers \cup {NoBuffer}
         /\ buffers_' \in Seq(Buffers)
         /\ next_' \in {EmptyBuffer, NoBuffer}
         /\ InMemory' = InMemory \/ InMemory' = Append(InMemory, line)
<1>1. /\ current_ \in Buffers /\ buffers_ \in Seq(Buffers) /\ <<>> \in Buffers
      /\ next_ \in {EmptyBuffer, NoBuffer} /\ next_ \in Buffers \cup {NoBuffer}
  BY DEF TypeOK, SparesAreEmpty, Buffers
<1> DEFINE F == FlattenSeq(buffers_)
<1>2. F \in Seq(Lines) /\ current_ \in Seq(Lines)
  BY <1>1, FlattenType DEF Buffers
<1> HIDE DEF F
<1>3. InMemory = F \o current_
  BY DEF InMemory, F
<1>4. CASE current_' = Added(current_, line) /\ UNCHANGED <<next_, buffers_>>
  <2>1. InMemory' = F \o current_'
    BY <1>4 DEF InMemory, F
  <2>2. /\ current_' \in Buffers
        /\ current_' = current_ \/ current_' = Append(current_, line)
    BY <1>1, <1>4, AddedIs
  <2>3. F \o Append(current_, line) = Append(F \o current_, line)
    BY <1>2
  <2> QED
    BY <1>1, <1>3, <1>4, <2>1, <2>2, <2>3
<1>5. CASE /\ buffers_' = Append(buffers_, current_)
           /\ current_' = Added(IF next_ # NoBuffer THEN next_ ELSE EmptyBuffer, line)
           /\ next_' = NoBuffer
  <2>1. (IF next_ # NoBuffer THEN next_ ELSE EmptyBuffer) = EmptyBuffer
    BY <1>1
  <2>2. /\ current_' \in Buffers
        /\ current_' = EmptyBuffer \/ current_' = Append(EmptyBuffer, line)
    BY <1>1, <1>5, <2>1, AddedIs DEF EmptyBuffer
  <2>3. FlattenSeq(buffers_') = F \o current_
    BY <1>1, <1>5, FlattenAppend DEF Buffers, F
  <2>4. InMemory' = (F \o current_) \o current_'
    BY <2>3 DEF InMemory
  <2> DEFINE M == F \o current_
  <2>5. M \in Seq(Lines)
    BY <1>2
  <2>6. buffers_' \in Seq(Buffers)
    BY <1>1, <1>5
  <2> HIDE DEF M
  <2>7. M \o <<>> = M /\ M \o Append(<<>>, line) = Append(M, line)
    BY <2>5
  <2> QED
    BY <1>3, <1>5, <2>2, <2>4, <2>6, <2>7 DEF EmptyBuffer, M
<1> QED
  BY <1>4, <1>5 DEF AppendLine

(* The back end writes all that is in memory, in order, and leaves none.   *)
LEMMA WriteEffect ==
  ASSUME TypeOK, SparesAreEmpty, pc \notin {"none", "created"}, WriteBuffers
  PROVE  /\ written' = written \o InMemory /\ InMemory \in Seq(Lines)
         /\ InMemory' = <<>>
         /\ buffers_' = <<>> /\ current_' = <<>>
         /\ new_current' = EmptyBuffer /\ new_next' = EmptyBuffer
         /\ next_' \in {EmptyBuffer, NoBuffer}
         /\ pc' = "check" /\ UNCHANGED <<running_, latch_, owner, lines>>
<1>1. /\ current_ \in Buffers /\ buffers_ \in Seq(Buffers)
      /\ next_ \in {EmptyBuffer, NoBuffer}
      /\ new_current = EmptyBuffer /\ new_next = EmptyBuffer
  BY DEF TypeOK, SparesAreEmpty
<1>2. /\ written' = written \o FlattenSeq(Append(buffers_, current_))
      /\ buffers_' = <<>> /\ current_' = <<>>
      /\ new_current' = EmptyBuffer /\ new_next' = EmptyBuffer
      /\ next_' \in {EmptyBuffer, NoBuffer}
      /\ pc' = "check" /\ UNCHANGED <<running_, latch_, owner, lines>>
  BY <1>1 DEF WriteBuffers, Bzero, EmptyBuffer
<1>3. FlattenSeq(Append(buffers_, current_)) = InMemory
  BY <1>1, FlattenAppend DEF InMemory, Buffers
<1>4. InMemory \in Seq(Lines)
  <2>1. FlattenSeq(buffers_) \in Seq(Lines) /\ current_ \in Seq(Lines)
    BY <1>1, FlattenType DEF Buffers
  <2> QED
    BY <2>1 DEF InMemory
<1>5. InMemory' = <<>>
  <2>1. FlattenSeq(buffers_') = <<>>
    BY <1>2, FlattenEmpty, Zenon
  <2> QED
    BY <1>2, <2>1 DEF InMemory
<1> QED
  BY <1>2, <1>3, <1>4, <1>5

-----------------------------------------------------------------------------
(* Every step keeps the invariant, and is a step of LogQueue or one that   *)
(* LogQueue does not see.                                                  *)

LEMMA InitIInv == Init => IInv /\ LQ!Init
<1> SUFFICES ASSUME Init PROVE IInv /\ LQ!Init
  OBVIOUS
<1>1. TypeOK
  <2>1. EmptyBuffer \in Buffers /\ <<>> \in Seq(Buffers) /\ <<>> \in Seq(Lines)
    BY DEF Buffers, EmptyBuffer
  <2>2. lines \in 0 .. MaxLines
    BY MaxLinesAssumption DEF Init
  <2>3. running_ \in BOOLEAN
    BY DEF Init
  <2> QED
    BY <2>1, <2>2, <2>3 DEF Init, TypeOK
<1>2. SparesAreEmpty /\ StartsOnce
  BY DEF Init, SparesAreEmpty, StartsOnce
<1>3. InMemory = <<>>
  <2>1. FlattenSeq(buffers_) = <<>>
    BY FlattenEmpty, Zenon DEF Init
  <2> QED
    BY <2>1 DEF InMemory, Init, EmptyBuffer
<1> QED
  BY <1>1, <1>2, <1>3 DEF IInv, LQ!Init, Init

LEMMA LogKeepsIInv ==
  ASSUME IInv, NEW length \in Lengths, Log(length)
  PROVE  IInv' /\ [LQ!Next]_(LQ!vars)
<1> DEFINE line == <<lines + 1, length>>
<1>1. TypeOK /\ SparesAreEmpty
  BY DEF IInv
<1>2. /\ lines < MaxLines /\ lines' = lines + 1 /\ AppendLine(line)
      /\ UNCHANGED <<running_, latch_, owner, pc, new_current, new_next, written>>
  BY DEF Log
<1>3. lines \in Nat /\ MaxLines \in Nat
  BY <1>1, MaxLinesAssumption DEF TypeOK
<1>4. line \in Lines /\ lines' \in 0 .. MaxLines
  BY <1>2, <1>3 DEF Lines
<1> HIDE DEF line
<1>5. /\ current_' \in Buffers /\ next_' \in Buffers \cup {NoBuffer}
      /\ buffers_' \in Seq(Buffers)
      /\ next_' \in {EmptyBuffer, NoBuffer}
      /\ InMemory' = InMemory \/ InMemory' = Append(InMemory, line)
  BY <1>1, <1>2, <1>4, AppendEffect
<1>6. TypeOK'
  BY <1>1, <1>2, <1>4, <1>5 DEF TypeOK
<1>7. SparesAreEmpty' /\ StartsOnce'
  BY <1>2, <1>5 DEF IInv, SparesAreEmpty, StartsOnce
<1>8. [LQ!Next]_(LQ!vars)
  BY <1>2, <1>4, <1>5 DEF LQ!Next, LQ!Take, LQ!vars
<1> QED
  BY <1>6, <1>7, <1>8 DEF IInv

LEMMA OwnerKeepsIInv ==
  ASSUME IInv, Start \/ StartReturns \/ Stop \/ StopReturns
  PROVE  IInv' /\ [LQ!Next]_(LQ!vars)
<1>1. /\ UNCHANGED <<latch_, frontVars, new_current, new_next, lines, written>>
      /\ \/ owner = "new" /\ owner' = "starting" /\ running_' = TRUE /\ pc' = "created"
         \/ owner = "starting" /\ owner' = "started" /\ UNCHANGED <<running_, pc>>
         \/ owner = "started" /\ owner' = "stopping" /\ running_' = FALSE /\ pc' = pc
         \/ owner = "stopping" /\ owner' = "stopped" /\ UNCHANGED <<running_, pc>>
  BY DEF Start, StartReturns, Stop, StopReturns
<1>2. TypeOK' /\ SparesAreEmpty'
  BY <1>1 DEF IInv, TypeOK, SparesAreEmpty, StartsOnce, frontVars
<1>3. StartsOnce'
  BY <1>1 DEF IInv, StartsOnce
<1>4. running_' = ~running_ \/ running_' = running_
  <2>1. running_ \in BOOLEAN /\ StartsOnce
    BY DEF IInv, TypeOK
  <2>2. \/ ~running_ /\ running_' = TRUE
        \/ running_ /\ running_' = FALSE
        \/ running_' = running_
    BY <1>1, <2>1 DEF StartsOnce
  <2> QED
    BY <2>1, <2>2, Zenon
<1>5. UNCHANGED <<InMemory, written>>
  BY <1>1 DEF InMemory, frontVars
<1> QED
  BY <1>2, <1>3, <1>5, <1>4 DEF IInv, LQ!Next, LQ!Switch, LQ!vars

LEMMA BackEndKeepsIInv ==
  ASSUME IInv, BackEnd
  PROVE  IInv' /\ [LQ!Next]_(LQ!vars)
<1>1. CASE ThreadStarts \/ CheckRunning \/ Wait
  <2>1. /\ UNCHANGED <<running_, owner, frontVars, lines, written>>
        /\ \/ /\ pc = "created" /\ pc' = "check" /\ latch_' = latch_ - 1
              /\ new_current' = EmptyBuffer /\ new_next' = EmptyBuffer
           \/ /\ pc \in {"check", "lock"} /\ pc' \in {"lock", "done", "wait"}
              /\ UNCHANGED <<latch_, new_current, new_next>>
    BY <1>1 DEF ThreadStarts, CheckRunning, Wait
  <2>2. TypeOK'
    <3>1. latch_' \in 0 .. 1
      BY <2>1 DEF IInv, TypeOK, StartsOnce
    <3>2. EmptyBuffer \in Buffers
      BY DEF Buffers, EmptyBuffer
    <3> QED
      BY <2>1, <3>1, <3>2 DEF IInv, TypeOK, frontVars
  <2>3. SparesAreEmpty' /\ StartsOnce'
    BY <2>1 DEF IInv, SparesAreEmpty, StartsOnce, frontVars
  <2>4. UNCHANGED LQ!vars
    BY <2>1 DEF LQ!vars, InMemory, frontVars
  <2> QED
    BY <2>2, <2>3, <2>4 DEF IInv
<1>2. CASE WaitTimesOut \/ WriteFull
  <2>1. pc \in {"wait", "lock"} /\ WriteBuffers
    BY <1>2 DEF WaitTimesOut, WriteFull
  <2>2. /\ written' = written \o InMemory /\ InMemory \in Seq(Lines)
        /\ InMemory' = <<>>
        /\ buffers_' = <<>> /\ current_' = <<>>
        /\ new_current' = EmptyBuffer /\ new_next' = EmptyBuffer
        /\ next_' \in {EmptyBuffer, NoBuffer}
        /\ pc' = "check" /\ UNCHANGED <<running_, latch_, owner, lines>>
    BY <2>1, WriteEffect DEF IInv
  <2>3. written \in Seq(Lines)
    BY DEF IInv, TypeOK
  <2>4. TypeOK'
    <3>1. written' \in Seq(Lines)
      BY <2>2, <2>3
    <3>2. <<>> \in Buffers /\ <<>> \in Seq(Buffers)
      BY DEF Buffers
    <3> QED
      BY <2>2, <3>1, <3>2 DEF IInv, TypeOK, EmptyBuffer
  <2>5. SparesAreEmpty' /\ StartsOnce'
    BY <2>1, <2>2 DEF IInv, SparesAreEmpty, StartsOnce
  <2>6. [LQ!Next]_(LQ!vars)
    <3>1. CASE InMemory = <<>>
      <4>1. written' = written
        BY <2>2, <2>3, <3>1
      <4> QED
        BY <2>2, <3>1, <4>1 DEF LQ!vars
    <3>2. CASE InMemory # <<>>
      BY <2>2, <3>2 DEF LQ!Next, LQ!WriteOut
    <3> QED
      BY <3>1, <3>2
  <2> QED
    BY <2>4, <2>5, <2>6 DEF IInv
<1> QED
  BY <1>1, <1>2 DEF BackEnd

LEMMA NextIInv == IInv /\ [Next]_vars => IInv' /\ [LQ!Next]_(LQ!vars)
<1> SUFFICES ASSUME IInv, [Next]_vars PROVE IInv' /\ [LQ!Next]_(LQ!vars)
  OBVIOUS
<1>1. ASSUME NEW length \in Lengths, Log(length) PROVE IInv' /\ [LQ!Next]_(LQ!vars)
  BY <1>1, LogKeepsIInv
<1>2. CASE Start \/ StartReturns \/ Stop \/ StopReturns
  BY <1>2, OwnerKeepsIInv
<1>3. CASE BackEnd
  BY <1>3, BackEndKeepsIInv
<1>4. CASE UNCHANGED vars
  BY <1>4 DEF IInv, TypeOK, SparesAreEmpty, StartsOnce, LQ!vars, InMemory, vars, frontVars
<1> QED
  BY <1>1, <1>2, <1>3, <1>4 DEF Next

LEMMA SpecIInv == Spec => []IInv
<1>1. Init => IInv
  BY InitIInv
<1>2. IInv /\ [Next]_vars => IInv'
  BY NextIInv
<1> QED
  BY <1>1, <1>2, PTL DEF Spec

-----------------------------------------------------------------------------
(* No thread that logs and no pass of the back end finds an empty pointer  *)
(* where a buffer is used without a test: current_ is a buffer at every    *)
(* Append (AsyncLogging.cpp:51, :65) and in every batch that is written    *)
(* (:110), because the spares that take its place at :102 are.             *)
THEOREM TypeCorrect == Spec => []TypeOK
<1>1. IInv => TypeOK
  BY DEF IInv
<1> QED
  BY <1>1, SpecIInv, PTL

(* Lines the logger took are never lost, repeated or overtaken: every step *)
(* of the threads that log, of the owner and of the back end is a step of  *)
(* the queue LogQueue or changes nothing there, whatever the size of the   *)
(* buffers, however many of them are full and in whichever order they are  *)
(* swapped and handed back (AsyncLogging.cpp:48 to :121).                  *)
THEOREM LinesStayInOrder == Spec => LQ!Protocol
<1>1. Init => LQ!Init
  BY InitIInv
<1>2. IInv /\ [Next]_vars => [LQ!Next]_(LQ!vars)
  BY NextIInv
<1> QED
  BY <1>1, <1>2, SpecIInv, PTL DEF Spec, LQ!Protocol

=============================================================================
