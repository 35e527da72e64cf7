------------------------- MODULE HttpSessionProofs -------------------------
(***************************************************************************)
(* Theorems about HttpSession, for requests of any kind, any number of     *)
(* them and buffers of any size: what the buffer hands to the parser, what *)
(* the parser makes of it, and when a request is answered and about what.  *)
(***************************************************************************)
EXTENDS HttpSession, SequenceTheorems, NaturalsInduction, WellFoundedInduction, TLAPS

-----------------------------------------------------------------------------
(* The inductive invariant behind TypeOK and the properties of the heads.  *)
IsSequence(s) == s \in Seq({s[i] : i \in DOMAIN s})

(* The buffer: read_index_ never moves and write_index_ stays in the array *)
(* (Read of Connection.cpp empties the buffer before it appends).          *)
BufferIsSound ==
  /\ read_buffer_ = [buffer_ |-> read_buffer_.buffer_, read_index_ |-> kPrePendIndex,
                     write_index_ |-> read_buffer_.write_index_]
  /\ read_buffer_.buffer_ \in Seq(Words \cup {AnyByte})
  /\ read_buffer_.write_index_ \in Nat
  /\ kPrePendIndex <= read_buffer_.write_index_
  /\ read_buffer_.write_index_ <= Len(read_buffer_.buffer_)

(* While the connection is used, what can still be read is the whole of    *)
(* the last request, or no more than its body.                             *)
RestIsBody ==
  wire # <<>> => sent # <<>> /\ (wire = Format(Last(sent)) \/ InBody)

IsRequest(q) ==
  q = [method |-> q.method, url |-> q.url, params |-> q.params,
       version |-> q.version, headers |-> q.headers, body |-> q.body]
IsContext(x) ==
  /\ x = [state |-> x.state, request |-> x.request, word |-> x.word, colon |-> x.colon]
  /\ IsRequest(x.request)

IInv ==
  /\ sent \in Seq(Requests) /\ wire \in Seq(Words)
  /\ IsSequence(answers) /\ Len(sent) <= Len(answers) + 1
  /\ BufferIsSound
  /\ IsContext(context)
  /\ state_ \in {"Connected", "Disconnected"} /\ ended \in BOOLEAN
  /\ state_ = "Connected" => answers = <<>> \/ ~Last(answers).close
  /\ state_ = "Disconnected" => answers # <<>> /\ Last(answers).close
  /\ state_ = "Connected" /\ ~ended => context.state = "START" /\ RestIsBody

-----------------------------------------------------------------------------
(* The read buffer, with array a, ending at w.                             *)
Bytes == Words \cup {AnyByte}
Buf(a, w) == [buffer_ |-> a, read_index_ |-> kPrePendIndex, write_index_ |-> w]

LEMMA BufFields ==
  ASSUME NEW a, NEW w
  PROVE  /\ Buf(a, w).buffer_ = a
         /\ Buf(a, w).read_index_ = kPrePendIndex
         /\ Buf(a, w).write_index_ = w
BY DEF Buf

LEMMA BufExceptArray ==
  ASSUME NEW a, NEW w, NEW c
  PROVE  [Buf(a, w) EXCEPT !.buffer_ = c] = Buf(c, w)
BY DEF Buf

LEMMA BufIsEmptied ==
  ASSUME NEW a, NEW w
  PROVE  B!RetrieveAll(Buf(a, w)) = Buf(a, kPrePendIndex)
<1>1. [Buf(a, w) EXCEPT !.read_index_ = kPrePendIndex] = Buf(a, w)
  BY DEF Buf
<1>2. [Buf(a, w) EXCEPT !.write_index_ = kPrePendIndex] = Buf(a, kPrePendIndex)
  BY DEF Buf
<1>3. B!RetrieveAll(Buf(a, w))
        = [[Buf(a, w) EXCEPT !.read_index_ = kPrePendIndex]
             EXCEPT !.write_index_ = kPrePendIndex]
  BY DEF B!RetrieveAll
<1> QED
  BY <1>1, <1>2, <1>3

(* Room for n bytes behind an emptied buffer.                              *)
LEMMA RoomIsMade ==
  ASSUME NEW a \in Seq(Bytes), kPrePendIndex <= Len(a), NEW n \in Nat
  PROVE  \E room \in Seq(Bytes) :
           /\ B!EnsureWriteAbleBytes(Buf(a, kPrePendIndex), n) = Buf(room, kPrePendIndex)
           /\ kPrePendIndex + n <= Len(room)
<1> DEFINE k == kPrePendIndex
           b == Buf(a, k)
           grown == [j \in 1 .. k + n |-> IF j <= Len(a) THEN a[j] ELSE AnyByte]
<1>1. k \in Nat /\ Len(a) \in Nat
  BY BufferAssumption
<1>2. /\ B!WriteAbleBytes(b) = Len(a) - k
      /\ b.read_index_ = k /\ b.write_index_ = k /\ b.buffer_ = a
  BY BufFields DEF B!WriteAbleBytes
<1>3. CASE Len(a) - k >= n
  <2>1. B!EnsureWriteAbleBytes(b, n) = b
    <3> HIDE DEF b
    <3> QED
      BY <1>1, <1>2, <1>3 DEF B!EnsureWriteAbleBytes
  <2>2. k + n <= Len(a)
    BY <1>1, <1>3
  <2> QED
    BY <2>1, <2>2
<1>4. CASE ~ (Len(a) - k >= n)
  <2>1. ~ (Len(a) - k + k >= k + n)
    BY <1>1, <1>4
  <2>2. B!EnsureWriteAbleBytes(b, n) = [b EXCEPT !.buffer_ = grown]
    <3> HIDE DEF b
    <3> QED
      BY <1>2, <1>4, <2>1 DEF B!EnsureWriteAbleBytes
  <2>3. grown \in Seq(Bytes) /\ Len(grown) = k + n
    <3>1. k + n \in Nat
      BY <1>1
    <3>2. \A j \in 1 .. k + n : j <= Len(a) => j \in 1 .. Len(a)
      BY <1>1
    <3>3. \A j \in 1 .. Len(a) : a[j] \in Bytes
      OBVIOUS
    <3>4. AnyByte \in Bytes
      BY DEF Bytes
    <3>5. grown \in [1 .. k + n -> Bytes]
      BY <3>2, <3>3, <3>4
    <3> HIDE DEF grown
    <3> QED
      BY <3>1, <3>5, SeqDef
  <2> HIDE DEF grown
  <2>4. [b EXCEPT !.buffer_ = grown] = Buf(grown, k)
    BY BufExceptArray
  <2>5. k + n <= Len(grown)
    BY <1>1, <2>3
  <2> QED
    BY <2>2, <2>3, <2>4, <2>5
<1> QED
  BY <1>3, <1>4

LEMMA CopiedHolds ==
  ASSUME NEW room \in Seq(Bytes), NEW k \in Nat, NEW data \in Seq(Words),
         k + Len(data) <= Len(room)
  PROVE  /\ B!Copied(room, data, k) \in Seq(Bytes)
         /\ Len(B!Copied(room, data, k)) = Len(room)
         /\ SubSeq(B!Copied(room, data, k), k + 1, k + Len(data)) = data
<1> DEFINE n == Len(data)
           full == [j \in 1 .. Len(room) |->
                      IF j > k /\ j <= k + n THEN data[j - k] ELSE room[j]]
<1>1. B!Copied(room, data, k) = full
  BY DEF B!Copied
<1>2. n \in Nat /\ Len(room) \in Nat
  OBVIOUS
<1>3. full \in Seq(Bytes) /\ Len(full) = Len(room)
  <2>1. \A j \in 1 .. Len(room) : room[j] \in Bytes
    OBVIOUS
  <2>2. \A j \in 1 .. Len(room) : j > k /\ j <= k + n => j - k \in 1 .. n
    BY <1>2
  <2>3. \A j \in 1 .. n : data[j] \in Bytes
    BY DEF Bytes
  <2>4. full \in [1 .. Len(room) -> Bytes]
    BY <2>1, <2>2, <2>3
  <2> HIDE DEF full
  <2> QED
    BY <1>2, <2>4, SeqDef
<1>4. \A j \in 1 .. n : full[k + j] = data[j]
  <2> SUFFICES ASSUME NEW j \in 1 .. n PROVE full[k + j] = data[j]
    OBVIOUS
  <2>1. k + j \in 1 .. Len(room)
    BY <1>2
  <2>2. k + j > k /\ k + j <= k + n /\ k + j - k = j
    BY <1>2
  <2>3. full[k + j] = data[k + j - k]
    BY <2>1, <2>2
  <2> QED
    BY <2>2, <2>3
<1> HIDE DEF full
<1>5. SubSeq(full, k + 1, k + n) = data
  <2>1. k + n \in Nat /\ k + n <= Len(full)
    BY <1>2, <1>3
  <2> DEFINE part == SubSeq(full, k + 1, k + n)
  <2>2. k + 1 \in Nat /\ k + n - (k + 1) + 1 = n
    BY <1>2
  <2>3. \A j \in 1 .. n : j + (k + 1) - 1 = k + j
    BY <1>2
  <2>4. part \in Seq(Bytes) /\ Len(part) = n
    BY <1>2, <1>3, <2>1, SubSeqProperties
  <2>5. \A j \in 1 .. n : part[j] = full[k + j]
    BY <1>2, <1>3, <2>1, SubSeqProperties
  <2>6. data \in Seq(Bytes)
    BY DEF Bytes
  <2> HIDE DEF part
  <2>7. \A j \in 1 .. n : part[j] = data[j]
    BY <1>4, <2>5
  <2>8. part = data
    BY <2>4, <2>6, <2>7, SeqEqual
  <2> QED
    BY <2>8 DEF part
<1> QED
  BY <1>1, <1>3, <1>5

(* An emptied buffer takes the data of a read, growing when it must, and   *)
(* shows that data and nothing else (Buffer.cpp:104).                      *)
LEMMA BufferShowsData ==
  ASSUME NEW a \in Seq(Bytes), NEW w, kPrePendIndex <= Len(a), NEW data \in Seq(Words)
  PROVE  \E c \in Seq(Bytes) :
           /\ B!AppendBytes(B!RetrieveAll(Buf(a, w)), data)
                = Buf(c, kPrePendIndex + Len(data))
           /\ kPrePendIndex + Len(data) <= Len(c)
           /\ B!PeekAllAsString(Buf(c, kPrePendIndex + Len(data))) = data
<1> DEFINE k == kPrePendIndex
           n == Len(data)
<1>1. k \in Nat /\ n \in Nat
  BY BufferAssumption
<1>2. B!RetrieveAll(Buf(a, w)) = Buf(a, k)
  BY BufIsEmptied
<1>3. PICK room \in Seq(Bytes) :
        /\ B!EnsureWriteAbleBytes(Buf(a, k), n) = Buf(room, k)
        /\ k + n <= Len(room)
  BY <1>1, RoomIsMade
<1> DEFINE full == B!Copied(room, data, k)
<1>4. full \in Seq(Bytes) /\ Len(full) = Len(room) /\ SubSeq(full, k + 1, k + n) = data
  BY <1>1, <1>3, CopiedHolds
<1>5. B!AppendBytes(Buf(a, k), data) = Buf(full, k + n)
  <2>1. /\ B!AppendBytes(Buf(a, k), data)
             = [Buf(room, k) EXCEPT !.buffer_ = B!Copied(Buf(room, k).buffer_, data,
                                                         Buf(room, k).write_index_),
                                    !.write_index_ = Buf(room, k).write_index_ + n]
    BY <1>3 DEF B!AppendBytes
  <2>2. Buf(room, k).buffer_ = room /\ Buf(room, k).write_index_ = k
    BY BufFields
  <2> HIDE DEF full
  <2>3. [Buf(room, k) EXCEPT !.buffer_ = full] = Buf(full, k)
    BY BufExceptArray
  <2>4. [Buf(full, k) EXCEPT !.write_index_ = k + n] = Buf(full, k + n)
    BY DEF Buf
  <2>5. [Buf(room, k) EXCEPT !.buffer_ = full, !.write_index_ = k + n]
          = [[Buf(room, k) EXCEPT !.buffer_ = full] EXCEPT !.write_index_ = k + n]
    OBVIOUS
  <2> QED
    BY <2>1, <2>2, <2>3, <2>4, <2>5 DEF full
<1> HIDE DEF full
<1>6. B!PeekAllAsString(Buf(full, k + n)) = data
  <2>1. /\ Buf(full, k + n).buffer_ = full /\ Buf(full, k + n).read_index_ = k
        /\ Buf(full, k + n).write_index_ = k + n
    BY BufFields
  <2> QED
    BY <1>4, <2>1 DEF B!PeekAllAsString
<1> QED
  BY <1>2, <1>3, <1>4, <1>5, <1>6
-----------------------------------------------------------------------------
(* What one read takes, and what it leaves.                                *)
LEMMA CutInTwo ==
  ASSUME NEW s \in Seq(Words), NEW n \in 1 .. Len(s)
  PROVE  /\ SubSeq(s, 1, n) \in Seq(Words) /\ Len(SubSeq(s, 1, n)) = n
         /\ \A j \in 1 .. n : SubSeq(s, 1, n)[j] = s[j]
         /\ SubSeq(s, n + 1, Len(s)) \in Seq(Words)
         /\ Len(SubSeq(s, n + 1, Len(s))) = Len(s) - n
         /\ \A j \in 1 .. Len(s) - n : SubSeq(s, n + 1, Len(s))[j] = s[n + j]
         /\ SubSeq(s, 1, n) \o SubSeq(s, n + 1, Len(s)) = s
<1> DEFINE m == Len(s)
           first == SubSeq(s, 1, n)
           rest == SubSeq(s, n + 1, m)
<1>1. m \in Nat /\ n \in Nat /\ n <= m
  OBVIOUS
<1>2. first \in Seq(Words) /\ Len(first) = n /\ \A j \in 1 .. n : first[j] = s[j]
  BY <1>1
<1>3. rest \in Seq(Words) /\ Len(rest) = m - n /\ \A j \in 1 .. m - n : rest[j] = s[n + j]
  <2>1. \A i \in n + 1 .. m : s[i] \in Words
    BY <1>1
  <2>2. n + 1 \in Int /\ m \in Int /\ m - (n + 1) + 1 = m - n
    BY <1>1
  <2>3. \A j \in 1 .. m - n : n + 1 + j - 1 = n + j
    BY <1>1
  <2>4. n + 1 <= m \/ m - n = 0
    BY <1>1
  <2>5. rest \in Seq(Words)
    BY <2>1, <2>2, SubSeqProperties
  <2>6. Len(rest) = IF n + 1 <= m THEN m - (n + 1) + 1 ELSE 0
    BY <2>1, <2>2, SubSeqProperties
  <2>7. \A j \in 1 .. m - (n + 1) + 1 : rest[j] = s[n + 1 + j - 1]
    BY <2>1, <2>2, SubSeqProperties
  <2> HIDE DEF rest
  <2>8. Len(rest) = m - n
    BY <1>1, <2>2, <2>4, <2>6
  <2>9. \A j \in 1 .. m - n : rest[j] = s[n + j]
    BY <2>2, <2>3, <2>7
  <2> QED
    BY <2>5, <2>8, <2>9
<1>4. first \o rest = s
  <2>1. 1 \in 1 .. m + 1 /\ n \in 1 - 1 .. m /\ m \in n .. m
    BY <1>1
  <2>2. first \o rest = SubSeq(s, 1, m)
    BY <2>1, ConcatAdjacentSubSeq
  <2>3. SubSeq(s, 1, m) = s
    BY <1>1, SeqEqual
  <2> QED
    BY <2>2, <2>3
<1> QED
  BY <1>2, <1>3, <1>4
-----------------------------------------------------------------------------
(* Recursive functions on numbers: what holds is shown by taking the least *)
(* number where it would not.                                              *)
LEMMA LeastPlace ==
  ASSUME NEW S \in SUBSET Nat, S # {}
  PROVE  \E x \in S : \A y \in S : x <= y
<1> DEFINE R == {p \in Nat \X Nat : p[1] < p[2]}
<1>1. OpToRel(<, Nat) = R
  BY DEF OpToRel
<1>2. IsWellFoundedOn(R, Nat)
  BY <1>1, NatLessThanWellFounded
<1> HIDE DEF R
<1>3. PICK x \in S : \A y \in S : ~ (<<y, x>> \in R)
  BY <1>2, WFMin
<1>4. ASSUME NEW y \in S PROVE x <= y
  <2>1. <<y, x>> \in Nat \X Nat /\ <<y, x>>[1] = y /\ <<y, x>>[2] = x
    OBVIOUS
  <2>2. ~ (y < x)
    BY <1>3, <2>1 DEF R
  <2> QED
    BY <2>2
<1> QED
  BY <1>4

LEMMA CountsUp ==
  ASSUME NEW m \in Nat, NEW n \in Nat, NEW S, m \in S,
         \A i \in m + 1 .. n : i - 1 \in S => i \in S
  PROVE  \A i \in m .. n : i \in S
<1> DEFINE Bad == {i \in m .. n : i \notin S}
<1> SUFFICES ASSUME Bad # {} PROVE FALSE
  OBVIOUS
<1>1. Bad \in SUBSET Nat
  OBVIOUS
<1> HIDE DEF Bad
<1>2. PICK i \in Bad : \A j \in Bad : i <= j
  BY <1>1, LeastPlace
<1>3. i \in m .. n /\ i \notin S /\ i # m
  BY <1>2 DEF Bad
<1>4. i \in m + 1 .. n /\ i - 1 \in m .. n /\ ~ (i <= i - 1)
  BY <1>3
<1>5. i - 1 \in S
  BY <1>2, <1>4 DEF Bad
<1> QED
  BY <1>3, <1>4, <1>5

(* One text behind another.                                                *)
IsJoined(both, s, t) ==
  /\ both \in Seq(Words) /\ Len(both) = Len(s) + Len(t)
  /\ \A i \in 1 .. Len(s) : both[i] = s[i]
  /\ \A i \in 1 .. Len(t) : both[Len(s) + i] = t[i]

LEMMA Joined ==
  ASSUME NEW s \in Seq(Words), NEW t \in Seq(Words)
  PROVE  IsJoined(s \o t, s, t)
<1>1. \A i \in 1 .. Len(t) : /\ Len(s) + i \in 1 .. Len(s) + Len(t)
                            /\ ~ (Len(s) + i <= Len(s)) /\ Len(s) + i - Len(s) = i
  OBVIOUS
<1>2. \A i \in 1 .. Len(s) : i \in 1 .. Len(s) + Len(t) /\ i <= Len(s)
  OBVIOUS
<1>3. /\ s \o t \in Seq(Words) /\ Len(s \o t) = Len(s) + Len(t)
      /\ \A i \in 1 .. Len(s) + Len(t) :
           (s \o t)[i] = IF i <= Len(s) THEN s[i] ELSE t[i - Len(s)]
  BY ConcatProperties
<1>4. /\ \A i \in 1 .. Len(s) : (s \o t)[i] = s[i]
      /\ \A i \in 1 .. Len(t) : (s \o t)[Len(s) + i] = t[i]
  BY <1>1, <1>2, <1>3
<1> QED
  BY <1>3, <1>4 DEF IsJoined

(* FlattenSeq adds one sequence to the next.                               *)
Flattens(f, n, seqs) ==
  f = [i \in 1 .. n |-> IF i = 1 THEN seqs[i] ELSE f[i - 1] \o seqs[i]]

LEMMA FlattensExists ==
  ASSUME NEW seqs, NEW n \in Nat
  PROVE  \E f : Flattens(f, n, seqs)
<1> DEFINE S == {k \in Nat : \E f : Flattens(f, k, seqs)}
<1>1. 0 \in S
  <2>1. Flattens([i \in 1 .. 0 |-> 0], 0, seqs)
    BY DEF Flattens
  <2> QED
    BY <2>1
<1>2. ASSUME NEW k \in 1 .. n, k - 1 \in S PROVE k \in S
  <2>1. PICK f : Flattens(f, k - 1, seqs)
    BY <1>2
  <2> DEFINE g == [i \in 1 .. k |-> IF i = 1 THEN seqs[i] ELSE f[i - 1] \o seqs[i]]
  <2>2. \A i \in 1 .. k - 1 : g[i] = f[i]
    <3>1. \A i \in 1 .. k - 1 : i \in 1 .. k
      OBVIOUS
    <3>2. \A i \in 1 .. k - 1 : f[i] = IF i = 1 THEN seqs[i] ELSE f[i - 1] \o seqs[i]
      BY <2>1 DEF Flattens
    <3> QED
      BY <3>1, <3>2
  <2>3. \A i \in 1 .. k : i # 1 => g[i - 1] = f[i - 1]
    <3>1. \A i \in 1 .. k : i # 1 => i - 1 \in 1 .. k - 1
      OBVIOUS
    <3> HIDE DEF g
    <3> QED
      BY <2>2, <3>1
  <2>4. g = [i \in 1 .. k |-> IF i = 1 THEN seqs[i] ELSE g[i - 1] \o seqs[i]]
    BY <2>3
  <2> HIDE DEF g
  <2>5. Flattens(g, k, seqs)
    BY <2>4 DEF Flattens
  <2> QED
    BY <2>5
<1> HIDE DEF S
<1>3. 0 \in Nat /\ n \in 0 .. n /\ 0 + 1 .. n = 1 .. n
  OBVIOUS
<1>4. n \in S
  BY <1>1, <1>2, <1>3, CountsUp
<1> QED
  BY <1>4 DEF S

LEMMA FlattenIs ==
  ASSUME NEW seqs, NEW n \in Nat, Len(seqs) = n, n # 0
  PROVE  \E f : FlattenSeq(seqs) = f[n] /\ f[1] = seqs[1]
                /\ \A i \in 2 .. n : f[i] = f[i - 1] \o seqs[i]
<1> DEFINE f == CHOOSE g : Flattens(g, n, seqs)
<1>1. Flattens(f, n, seqs)
  BY FlattensExists
<1>2. FlattenSeq(seqs) = f[n]
  BY DEF FlattenSeq, Flattens
<1> HIDE DEF f
<1>3. 1 \in 1 .. n /\ \A i \in 2 .. n : i \in 1 .. n /\ i # 1
  OBVIOUS
<1>4. \A i \in 1 .. n : f[i] = IF i = 1 THEN seqs[i] ELSE f[i - 1] \o seqs[i]
  BY <1>1, Zenon DEF Flattens
<1>5. f[1] = seqs[1] /\ \A i \in 2 .. n : f[i] = f[i - 1] \o seqs[i]
  BY <1>3, <1>4, Zenon
<1> QED
  BY <1>2, <1>5, Zenon

LEMMA FlattenType ==
  ASSUME NEW n \in Nat, NEW seqs, Len(seqs) = n, n = 0 => seqs = <<>>,
         \A i \in 1 .. n : seqs[i] \in Seq(Words)
  PROVE  FlattenSeq(seqs) \in Seq(Words)
<1>1. CASE n = 0
  <2>1. FlattenSeq(seqs) = <<>>
    BY <1>1 DEF FlattenSeq
  <2> QED
    BY <2>1
<1>2. CASE n # 0
  <2>1. PICK f : FlattenSeq(seqs) = f[n] /\ f[1] = seqs[1]
                 /\ \A i \in 2 .. n : f[i] = f[i - 1] \o seqs[i]
    BY <1>2, FlattenIs
  <2> DEFINE S == {i \in Nat : f[i] \in Seq(Words)}
  <2>2. 1 \in S
    BY <1>2, <2>1
  <2>3. ASSUME NEW i \in 2 .. n, i - 1 \in S PROVE i \in S
    <3> DEFINE s == f[i - 1]
               t == seqs[i]
    <3>1. i \in 1 .. n /\ i \in Nat
      OBVIOUS
    <3>2. f[i] = s \o t
      BY <2>1
    <3>3. s \in Seq(Words) /\ t \in Seq(Words)
      BY <2>3, <3>1
    <3> HIDE DEF s, t
    <3>4. f[i] \in Seq(Words)
      <4>1. IsJoined(s \o t, s, t)
        BY <3>3, Joined
      <4> QED
        BY <3>2, <4>1 DEF IsJoined
    <3> QED
      BY <3>1, <3>4
  <2> HIDE DEF S
  <2>4. 1 + 1 .. n = 2 .. n /\ n \in 1 .. n
    BY <1>2
  <2>5. n \in S
    BY <2>2, <2>3, <2>4, CountsUp
  <2> QED
    BY <2>1, <2>5 DEF S
<1> QED
  BY <1>1, <1>2

(* Sequences of four, one behind the other.                                *)
IsOfFours(text, n, seqs) ==
  /\ text \in Seq(Words) /\ Len(text) = 4 * n
  /\ \A i \in 1 .. n : \A k \in 1 .. 4 : text[4 * (i - 1) + k] = seqs[i][k]

LEMMA FlattenFours ==
  ASSUME NEW n \in Nat, NEW seqs, Len(seqs) = n, n = 0 => seqs = <<>>,
         \A i \in 1 .. n : seqs[i] \in Seq(Words) /\ Len(seqs[i]) = 4
  PROVE  IsOfFours(FlattenSeq(seqs), n, seqs)
<1>1. CASE n = 0
  <2>1. FlattenSeq(seqs) = <<>>
    BY <1>1 DEF FlattenSeq
  <2> QED
    BY <1>1, <2>1 DEF IsOfFours
<1>2. CASE n # 0
  <2>1. PICK f : FlattenSeq(seqs) = f[n] /\ f[1] = seqs[1]
                 /\ \A i \in 2 .. n : f[i] = f[i - 1] \o seqs[i]
    BY <1>2, FlattenIs
  <2> DEFINE Good(i) == /\ f[i] \in Seq(Words) /\ Len(f[i]) = 4 * i
                        /\ \A j \in 1 .. i : \A k \in 1 .. 4 :
                             f[i][4 * (j - 1) + k] = seqs[j][k]
             S == {i \in Nat : Good(i)}
  <2>2. 1 \in S
    <3>1. 1 \in 1 .. n /\ \A j \in 1 .. 1 : j = 1
      BY <1>2
    <3>2. \A k \in 1 .. 4 : 4 * (1 - 1) + k = k
      OBVIOUS
    <3> QED
      BY <2>1, <3>1, <3>2
  <2>3. ASSUME NEW i \in 2 .. n, i - 1 \in S PROVE i \in S
    <3> DEFINE s == f[i - 1]
               t == seqs[i]
    <3>1. i \in 1 .. n /\ i \in Nat /\ i - 1 \in Nat
      OBVIOUS
    <3>2. f[i] = s \o t
      BY <2>1
    <3>6. Good(i - 1) /\ t \in Seq(Words) /\ Len(t) = 4
      <4> HIDE DEF Good
      <4> QED
        BY <2>3, <3>1
    <3>7. s \in Seq(Words) /\ Len(s) = 4 * (i - 1)
      BY <3>6
    <3>8. \A j \in 1 .. i - 1 : \A k \in 1 .. 4 : s[4 * (j - 1) + k] = seqs[j][k]
      BY <3>6
    <3> HIDE DEF s
    <3>3. /\ s \o t \in Seq(Words) /\ Len(s \o t) = 4 * (i - 1) + 4
          /\ \A k \in 1 .. 4 * (i - 1) : (s \o t)[k] = s[k]
          /\ \A k \in 1 .. 4 : (s \o t)[4 * (i - 1) + k] = t[k]
      <4> HIDE DEF t, Good
      <4>1. IsJoined(s \o t, s, t)
        BY <3>6, <3>7, Joined
      <4> QED
        BY <3>6, <3>7, <4>1 DEF IsJoined
    <3>4. ASSUME NEW j \in 1 .. i, NEW k \in 1 .. 4
          PROVE  (s \o t)[4 * (j - 1) + k] = seqs[j][k]
      <4>1. CASE j = i
        BY <3>3, <4>1
      <4>2. CASE j # i
        <5>1. j \in 1 .. i - 1 /\ 4 * (j - 1) + k \in 1 .. 4 * (i - 1)
          BY <4>2
        <5> QED
          BY <3>3, <3>8, <5>1
      <4> QED
        BY <4>1, <4>2
    <3>5. 4 * (i - 1) + 4 = 4 * i
      OBVIOUS
    <3>9. Good(i)
      <4>1. \A j \in 1 .. i : \A k \in 1 .. 4 : f[i][4 * (j - 1) + k] = seqs[j][k]
        BY <3>2, <3>4
      <4>2. f[i] \in Seq(Words) /\ Len(f[i]) = 4 * i
        <5> HIDE DEF t
        <5> QED
          BY <3>2, <3>3, <3>5
      <4> QED
        BY <4>1, <4>2
    <3> HIDE DEF Good
    <3> QED
      BY <3>1, <3>9
  <2> HIDE DEF S
  <2>4. 1 + 1 .. n = 2 .. n /\ n \in 1 .. n
    BY <1>2
  <2>5. n \in S
    BY <2>2, <2>3, <2>4, CountsUp
  <2>6. Good(n)
    BY <2>5 DEF S
  <2> QED
    BY <2>1, <2>6 DEF IsOfFours
<1> QED
  BY <1>1, <1>2
-----------------------------------------------------------------------------
(* The text of a request begins with its method, its URL and its           *)
(* parameters, and a blank ends them.                                      *)
Mark(j) == IF j = 1 THEN "?" ELSE "&"
Targets(r) == 2 + Len(r.url) + 4 * Len(r.params)
StartsLike(text, r) ==
  /\ Targets(r) + 1 <= Len(text)
  /\ text[1] = r.method /\ text[2] = " "
  /\ \A i \in 1 .. Len(r.url) : text[2 + i] = r.url[i]
  /\ \A j \in 1 .. Len(r.params) :
       LET k == 2 + Len(r.url) + 4 * (j - 1)
       IN  /\ text[k + 1] = Mark(j) /\ text[k + 2] = r.params[j][1]
           /\ text[k + 3] = "=" /\ text[k + 4] = r.params[j][2]
  /\ text[Targets(r) + 1] = " "

LEMMA ParamsText ==
  ASSUME NEW r \in Requests
  PROVE  /\ Params(r) \in Seq(Words) /\ Len(Params(r)) = 4 * Len(r.params)
         /\ \A j \in 1 .. Len(r.params) :
              LET k == 4 * (j - 1)
              IN  /\ Params(r)[k + 1] = Mark(j) /\ Params(r)[k + 2] = r.params[j][1]
                  /\ Params(r)[k + 3] = "=" /\ Params(r)[k + 4] = r.params[j][2]
<1> DEFINE n == Len(r.params)
           four(i) == <<Mark(i), r.params[i][1], "=", r.params[i][2]>>
           seqs == [i \in 1 .. n |-> four(i)]
<1>1. /\ r.params \in Seq(Words \X Words) /\ n \in Nat /\ DOMAIN r.params = 1 .. n
      /\ \A i \in 1 .. n : r.params[i][1] \in Words /\ r.params[i][2] \in Words
  BY RequestsAssumption
<1>2. Params(r) = FlattenSeq(seqs)
  BY <1>1 DEF Params, Mark
<1>3. \A i \in 1 .. n : four(i) \in Seq(Words) /\ Len(four(i)) = 4
  <2>1. \A i \in 1 .. n : Mark(i) \in Words /\ "=" \in Words
    BY WordsAssumption DEF Mark
  <2>2. \A a, b, c, d \in Words : <<a, b, c, d>> \in Seq(Words) /\ Len(<<a, b, c, d>>) = 4
    OBVIOUS
  <2> QED
    BY <1>1, <2>1, <2>2
<1>4. Len(seqs) = n /\ (n = 0 => seqs = <<>>)
  BY <1>1
<1>5. \A i \in 1 .. n : /\ four(i)[1] = Mark(i) /\ four(i)[2] = r.params[i][1]
                        /\ four(i)[3] = "=" /\ four(i)[4] = r.params[i][2]
  OBVIOUS
<1>6. \A i \in 1 .. n : seqs[i] = four(i)
  OBVIOUS
<1> HIDE DEF seqs, four, n
<1>9. \A i \in 1 .. n : seqs[i] \in Seq(Words) /\ Len(seqs[i]) = 4
  BY <1>3, <1>6
<1>7. IsOfFours(Params(r), n, seqs)
  BY <1>1, <1>2, <1>4, <1>9, FlattenFours
<1>8. 1 \in 1 .. 4 /\ 2 \in 1 .. 4 /\ 3 \in 1 .. 4 /\ 4 \in 1 .. 4
  OBVIOUS
<1>10. ASSUME NEW j \in 1 .. n
       PROVE  LET k == 4 * (j - 1)
              IN  /\ Params(r)[k + 1] = Mark(j) /\ Params(r)[k + 2] = r.params[j][1]
                  /\ Params(r)[k + 3] = "=" /\ Params(r)[k + 4] = r.params[j][2]
  <2>1. \A k \in 1 .. 4 : Params(r)[4 * (j - 1) + k] = four(j)[k]
    BY <1>6, <1>7 DEF IsOfFours
  <2> QED
    BY <1>5, <1>8, <2>1
<1> QED
  BY <1>7, <1>10 DEF n, IsOfFours

LEMMA HeaderTextType ==
  ASSUME NEW r \in Requests
  PROVE  HeaderText(r) \in Seq(Words)
<1> DEFINE n == Len(r.headers)
           line(i) == <<r.headers[i][1], ":", " ", r.headers[i][2], "CR", "LF">>
           seqs == [i \in 1 .. n |-> line(i)]
<1>1. /\ r.headers \in Seq(Words \X Words) /\ n \in Nat /\ DOMAIN r.headers = 1 .. n
      /\ \A i \in 1 .. n : r.headers[i][1] \in Words /\ r.headers[i][2] \in Words
  BY RequestsAssumption
<1>2. HeaderText(r) = FlattenSeq(seqs)
  BY <1>1 DEF HeaderText
<1>3. \A i \in 1 .. n : line(i) \in Seq(Words)
  <2>1. \A a, b, c, d, e, f \in Words : <<a, b, c, d, e, f>> \in Seq(Words)
    OBVIOUS
  <2>2. {":", " ", "CR", "LF"} \subseteq Words
    BY WordsAssumption
  <2> QED
    BY <1>1, <2>1, <2>2
<1> HIDE DEF line
<1>4. Len(seqs) = n /\ (n = 0 => seqs = <<>>) /\ \A i \in 1 .. n : seqs[i] = line(i)
  BY <1>1
<1> HIDE DEF seqs, line
<1> QED
  BY <1>1, <1>2, <1>3, <1>4, FlattenType

(* Six texts in a row; the second begins at place 3.                       *)
IsOfParts(text, a, url, params, line, u, p) ==
  /\ text \in Seq(Words) /\ 2 + u + p + 1 <= Len(text)
  /\ text[1] = a[1] /\ text[2] = a[2]
  /\ \A i \in 1 .. u : text[2 + i] = url[i]
  /\ \A i \in 1 .. p : text[2 + u + i] = params[i]
  /\ text[2 + u + p + 1] = line[1]

LEMMA SixTexts ==
  ASSUME NEW a \in Seq(Words), NEW url \in Seq(Words), NEW params \in Seq(Words),
         NEW line \in Seq(Words), NEW lines \in Seq(Words), NEW end \in Seq(Words),
         Len(a) = 2, Len(line) = 6, NEW u \in Nat, Len(url) = u,
         NEW p \in Nat, Len(params) = p,
         NEW text, text = a \o url \o params \o line \o lines \o end
  PROVE  IsOfParts(text, a, url, params, line, u, p)
<1> DEFINE b == a \o url
           c == b \o params
           d == c \o line
           e == d \o lines
<1>1. u \in Nat /\ p \in Nat
  OBVIOUS
<1>3. text = e \o end
  OBVIOUS
<1>2. /\ b \in Seq(Words) /\ Len(b) = 2 + u
      /\ \A i \in 1 .. 2 : b[i] = a[i]
      /\ \A i \in 1 .. u : b[2 + i] = url[i]
  <2>1. IsJoined(b, a, url)
    BY Joined
  <2> HIDE DEF b
  <2> QED
    BY <2>1 DEF IsJoined
<1> HIDE DEF b
<1>4. /\ c \in Seq(Words) /\ Len(c) = 2 + u + p
      /\ \A i \in 1 .. 2 + u : c[i] = b[i]
      /\ \A i \in 1 .. p : c[2 + u + i] = params[i]
  <2>1. IsJoined(c, b, params)
    BY <1>2, Joined
  <2> HIDE DEF c
  <2> QED
    BY <1>2, <2>1 DEF IsJoined
<1> HIDE DEF c
<1>5. /\ d \in Seq(Words) /\ Len(d) = 2 + u + p + 6
      /\ \A i \in 1 .. 2 + u + p : d[i] = c[i]
      /\ \A i \in 1 .. 6 : d[2 + u + p + i] = line[i]
  <2>1. IsJoined(d, c, line)
    BY <1>4, Joined
  <2> HIDE DEF d
  <2> QED
    BY <1>4, <2>1 DEF IsJoined
<1> HIDE DEF d
<1>6. /\ e \in Seq(Words) /\ Len(e) = Len(d) + Len(lines)
      /\ \A i \in 1 .. Len(d) : e[i] = d[i]
  <2>1. IsJoined(e, d, lines)
    BY <1>5, Joined
  <2> HIDE DEF e
  <2> QED
    BY <2>1 DEF IsJoined
<1> HIDE DEF e
<1>7. /\ text \in Seq(Words) /\ Len(text) = Len(e) + Len(end)
      /\ \A i \in 1 .. Len(e) : text[i] = e[i]
  <2>1. IsJoined(text, e, end)
    BY <1>3, <1>6, Joined
  <2> QED
    BY <2>1 DEF IsJoined
<1>8. Len(lines) \in Nat /\ Len(end) \in Nat
  OBVIOUS
<1>9. /\ 2 + u + p + 6 <= Len(text)
      /\ \A i \in 1 .. 2 + u + p + 6 : i \in 1 .. Len(e) /\ i \in 1 .. Len(d)
  <2>1. Len(e) = 2 + u + p + 6 + Len(lines)
    BY <1>5, <1>6
  <2>2. Len(text) = 2 + u + p + 6 + Len(lines) + Len(end)
    BY <1>7, <2>1
  <2>3. Len(e) >= 2 + u + p + 6
    BY <1>1, <1>8, <2>1
  <2>4. 2 + u + p + 6 <= Len(text)
    BY <1>1, <1>8, <2>2
  <2>5. Len(e) \in Nat /\ Len(d) = 2 + u + p + 6
    BY <1>5, <1>6
  <2>6. \A i \in 1 .. 2 + u + p + 6 : i \in 1 .. Len(e)
    BY <1>1, <2>3, <2>5
  <2> QED
    BY <2>4, <2>5, <2>6
<1>10. \A i \in 1 .. 2 + u + p + 6 : text[i] = d[i]
  BY <1>6, <1>7, <1>9, Zenon
<1>11. \A i \in 1 .. 2 + u + p : text[i] = c[i]
  <2>1. \A i \in 1 .. 2 + u + p : i \in 1 .. 2 + u + p + 6
    BY <1>1
  <2> QED
    BY <1>5, <1>10, <2>1, Zenon
<1>12. \A i \in 1 .. 2 + u : text[i] = b[i]
  <2>1. \A i \in 1 .. 2 + u : i \in 1 .. 2 + u + p
    BY <1>1
  <2> QED
    BY <1>4, <1>11, <2>1, Zenon
<1>13. text[1] = a[1] /\ text[2] = a[2] /\ \A i \in 1 .. u : text[2 + i] = url[i]
  <2>1. /\ 1 \in 1 .. 2 /\ 2 \in 1 .. 2 /\ 1 \in 1 .. 2 + u /\ 2 \in 1 .. 2 + u
        /\ \A i \in 1 .. u : 2 + i \in 1 .. 2 + u
    BY <1>1
  <2> QED
    BY <1>2, <1>12, <2>1
<1>14. \A i \in 1 .. p : text[2 + u + i] = params[i]
  <2>1. \A i \in 1 .. p : 2 + u + i \in 1 .. 2 + u + p
    BY <1>1
  <2> QED
    BY <1>4, <1>11, <2>1
<1>15. text[2 + u + p + 1] = line[1] /\ 2 + u + p + 1 <= Len(text)
  <2>1. 2 + u + p + 1 \in 1 .. 2 + u + p + 6 /\ 1 \in 1 .. 6
    BY <1>1
  <2>2. Len(text) \in Nat
    BY <1>7
  <2>3. 2 + u + p + 1 <= Len(text)
    BY <1>1, <1>9, <2>2
  <2> QED
    BY <1>5, <1>10, <2>1, <2>3, Zenon
<1> QED
  BY <1>7, <1>13, <1>14, <1>15 DEF IsOfParts

LEMMA HeadStarts ==
  ASSUME NEW r \in Requests
  PROVE  HeadText(r) \in Seq(Words) /\ StartsLike(HeadText(r), r)
<1> DEFINE u == Len(r.url)
           m == Len(r.params)
           p == 4 * m
           a == <<r.method, " ">>
           line == <<" ", "HTTP", "/", r.version, "CR", "LF">>
           end == <<"CR", "LF">>
           text == HeadText(r)
<1>1. /\ r.method \in Words /\ r.version \in Words /\ r.url \in Seq(Words)
      /\ m \in Nat /\ u \in Nat /\ p \in Nat
  BY RequestsAssumption
<1>2. text = a \o r.url \o Params(r) \o line \o HeaderText(r) \o end
  BY DEF HeadText
<1>3. /\ " " \in Words /\ "HTTP" \in Words /\ "/" \in Words
      /\ "CR" \in Words /\ "LF" \in Words
  BY WordsAssumption
<1>4. \A v, w \in Words : /\ <<v, w>> \in Seq(Words) /\ Len(<<v, w>>) = 2
                          /\ <<v, w>>[1] = v /\ <<v, w>>[2] = w
  OBVIOUS
<1>5. \A v, w, x, y, z, l \in Words :
        /\ <<v, w, x, y, z, l>> \in Seq(Words) /\ Len(<<v, w, x, y, z, l>>) = 6
        /\ <<v, w, x, y, z, l>>[1] = v
  OBVIOUS
<1>6. a \in Seq(Words) /\ Len(a) = 2 /\ a[1] = r.method /\ a[2] = " "
  BY <1>1, <1>3, <1>4, Zenon
<1>7. line \in Seq(Words) /\ Len(line) = 6 /\ line[1] = " "
  BY <1>1, <1>3, <1>5, Zenon
<1>8. end \in Seq(Words)
  BY <1>3, <1>4, Zenon
<1>9. /\ Params(r) \in Seq(Words) /\ Len(Params(r)) = p /\ HeaderText(r) \in Seq(Words)
  BY ParamsText, HeaderTextType
<1> HIDE DEF a, line, end, text, u, p
<1>13. Len(r.url) = u
  BY DEF u
<1>14. IsOfParts(text, a, r.url, Params(r), line, u, p)
  BY <1>1, <1>2, <1>6, <1>7, <1>8, <1>9, <1>13, SixTexts
<1>10. /\ text \in Seq(Words) /\ 2 + u + p + 1 <= Len(text)
       /\ text[1] = a[1] /\ text[2] = a[2]
       /\ \A i \in 1 .. u : text[2 + i] = r.url[i]
       /\ \A i \in 1 .. p : text[2 + u + i] = Params(r)[i]
       /\ text[2 + u + p + 1] = line[1]
  BY <1>14 DEF IsOfParts
<1>11. ASSUME NEW j \in 1 .. m
       PROVE  LET k == 2 + u + 4 * (j - 1)
              IN  /\ text[k + 1] = Mark(j) /\ text[k + 2] = r.params[j][1]
                  /\ text[k + 3] = "=" /\ text[k + 4] = r.params[j][2]
  <2> DEFINE k == 2 + u + 4 * (j - 1)
             q == 4 * (j - 1)
  <2>1. \A i \in 1 .. 4 : q + i \in 1 .. p /\ k + i = 2 + u + (q + i)
    BY <1>1 DEF p
  <2>2. \A i \in 1 .. 4 : text[k + i] = Params(r)[q + i]
    BY <1>10, <2>1
  <2>3. /\ Params(r)[q + 1] = Mark(j) /\ Params(r)[q + 2] = r.params[j][1]
        /\ Params(r)[q + 3] = "=" /\ Params(r)[q + 4] = r.params[j][2]
    BY ParamsText
  <2> HIDE DEF k, q
  <2>4. 1 \in 1 .. 4 /\ 2 \in 1 .. 4 /\ 3 \in 1 .. 4 /\ 4 \in 1 .. 4
    OBVIOUS
  <2>5. /\ text[k + 1] = Mark(j) /\ text[k + 2] = r.params[j][1]
        /\ text[k + 3] = "=" /\ text[k + 4] = r.params[j][2]
    BY <2>2, <2>3, <2>4
  <2> QED
    BY <2>5 DEF k
<1>12. Targets(r) = 2 + u + p
  BY DEF Targets, u, p
<1> QED
  BY <1>6, <1>7, <1>10, <1>11, <1>12 DEF StartsLike, text, u
-----------------------------------------------------------------------------
(* What one turn of the loop makes of a context.                           *)
Ctx(s, request, word, colon) ==
  [state |-> s, request |-> request, word |-> word, colon |-> colon]
Request(m, u, p, v, h, b) ==
  [method |-> m, url |-> u, params |-> p, version |-> v, headers |-> h, body |-> b]

LEMMA FieldsOfRequest ==
  ASSUME NEW m, NEW u, NEW p, NEW v, NEW h, NEW b
  PROVE  LET q == Request(m, u, p, v, h, b)
         IN  /\ q.method = m /\ q.url = u /\ q.params = p
             /\ q.version = v /\ q.headers = h /\ q.body = b
             /\ IsRequest(q)
BY DEF Request, IsRequest

(* A part that ends is stored in its field, and in no other.               *)
LEMMA StoreIs ==
  ASSUME NEW x, IsContext(x), NEW s, NEW rest
  PROVE  LET r == x.request
             q == H!Store(x, s, rest)
         IN  /\ IsRequest(q)
             /\ s # "METHOD" => q.method = r.method
             /\ s = "METHOD" => q.method = x.word
             /\ s # "IN_URL" => q.url = r.url
             /\ s = "IN_URL" => q.url = x.word
             /\ s # "URL_PARAM_VALUE" => q.params = r.params
             /\ s = "URL_PARAM_VALUE" =>
                  q.params = H!Set(r.params, SubSeq(x.word, 1, x.colon - 1),
                                   SubSeq(x.word, x.colon + 1, Len(x.word)))
<1> DEFINE r == x.request
           m == r.method
           u == r.url
           p == r.params
           v == r.version
           h == r.headers
           b == r.body
           key == SubSeq(x.word, 1, x.colon - 1)
           value == SubSeq(x.word, x.colon + 1, Len(x.word))
           q == H!Store(x, s, rest)
<1>1. r = Request(m, u, p, v, h, b)
  BY DEF IsContext, IsRequest, Request
<1>2. /\ s = "METHOD" => q = [r EXCEPT !.method = x.word]
      /\ s = "IN_URL" => q = [r EXCEPT !.url = x.word]
      /\ s = "URL_PARAM_VALUE" => q = [r EXCEPT !.params = H!Set(@, key, value)]
      /\ s = "VERSION" => q = [r EXCEPT !.version = x.word]
      /\ s = "HEADER_VALUE" => q = [r EXCEPT !.headers = H!Set(@, key, value)]
      /\ s = "BODY" => q = [r EXCEPT !.body = rest]
      /\ s \notin {"METHOD", "IN_URL", "URL_PARAM_VALUE", "VERSION", "HEADER_VALUE", "BODY"}
           => q = r
  BY DEF H!Store
<1> DEFINE params == H!Set(p, key, value)
           headers == H!Set(h, key, value)
<1>3. /\ s = "URL_PARAM_VALUE" => q = [r EXCEPT !.params = params]
      /\ s = "HEADER_VALUE" => q = [r EXCEPT !.headers = headers]
  BY <1>2
<1> HIDE DEF q, m, u, p, v, h, b, params, headers, r
<1>4. CASE s = "METHOD"
  <2>2. [r EXCEPT !.method = x.word] = Request(x.word, u, p, v, h, b)
    BY <1>1 DEF Request
  <2>1. q = Request(x.word, u, p, v, h, b)
    BY <1>2, <1>4, <2>2
  <2> QED
    BY <1>4, <2>1, FieldsOfRequest DEF q, m, u, p, r
<1>5. CASE s = "IN_URL"
  <2>2. [r EXCEPT !.url = x.word] = Request(m, x.word, p, v, h, b)
    BY <1>1 DEF Request
  <2>1. q = Request(m, x.word, p, v, h, b)
    BY <1>2, <1>5, <2>2
  <2> QED
    BY <1>5, <2>1, FieldsOfRequest DEF q, m, u, p, r
<1>6. CASE s = "URL_PARAM_VALUE"
  <2>2. [r EXCEPT !.params = params] = Request(m, u, params, v, h, b)
    BY <1>1 DEF Request
  <2>1. q = Request(m, u, params, v, h, b)
    BY <1>3, <1>6, <2>2
  <2> QED
    BY <1>6, <2>1, FieldsOfRequest DEF q, m, u, p, r, params
<1>7. CASE s \notin {"METHOD", "IN_URL", "URL_PARAM_VALUE"}
  <2>2. /\ [r EXCEPT !.version = x.word] = Request(m, u, p, x.word, h, b)
        /\ [r EXCEPT !.headers = headers] = Request(m, u, p, v, headers, b)
        /\ [r EXCEPT !.body = rest] = Request(m, u, p, v, h, rest)
    BY <1>1 DEF Request
  <2>1. \E v1, h1, b1 : q = Request(m, u, p, v1, h1, b1)
    BY <1>1, <1>2, <1>3, <1>7, <2>2
  <2> QED
    BY <1>7, <2>1, FieldsOfRequest DEF q, m, u, p, r
<1> QED
  BY <1>4, <1>5, <1>6, <1>7

LEMMA HeadOfRest ==
  ASSUME NEW data \in Seq(Words), NEW i \in 1 .. Len(data)
  PROVE  Head(SubSeq(data, i, Len(data))) = data[i]
<1> DEFINE rest == SubSeq(data, i, Len(data))
<1>1. i \in Nat /\ i <= Len(data) /\ Len(data) \in Nat
  OBVIOUS
<1>2. \A j \in i .. Len(data) : data[j] \in Words
  BY <1>1
<1>3. rest \in Seq(Words)
  BY <1>1, <1>2, SubSeqProperties
<1>4. 1 \in 1 .. Len(data) - i + 1 /\ i + 1 - 1 = i
  BY <1>1
<1>5. \A j \in 1 .. Len(data) - i + 1 : rest[j] = data[i + j - 1]
  BY <1>1, <1>2, SubSeqProperties
<1>6. Head(rest) = rest[1]
  <2> HIDE DEF rest
  <2> QED
    BY <1>3
<1> HIDE DEF rest
<1>7. rest[1] = data[i + 1 - 1]
  BY <1>4, <1>5
<1> QED
  BY <1>4, <1>6, <1>7 DEF rest

(* The state behind character c of the rest.                               *)
NextState(x, c, rest) ==
  IF x.state \in H!InRequestLine THEN H!RequestLine(x.state, c)
  ELSE H!HeaderLines(x.state, c, x.request, Len(rest) > 1)
ColonStates == {"BEFORE_URL_PARAM_VALUE", "HEADER_VALUE"}

LEMMA StepIs ==
  ASSUME NEW x, IsContext(x), NEW rest, NEW c, Head(rest) = c,
         NEW t, t = NextState(x, c, rest)
  PROVE  /\ IsContext(H!Step(x, rest)) /\ H!Step(x, rest).state = t
         /\ H!EndsPart(x.state, t) =>
              H!Step(x, rest) = Ctx(t, H!Store(x, x.state, rest), H!None, x.colon)
         /\ ~H!EndsPart(x.state, t) =>
              H!Step(x, rest) = Ctx(t, x.request, Append(x.word, c),
                IF t \in ColonStates /\ x.state # t THEN Len(x.word) + 1 ELSE x.colon)
<1> DEFINE y == H!Step(x, rest)
           q == H!Store(x, x.state, rest)
<1>1. /\ H!EndsPart(x.state, t) => y = Ctx(t, q, H!None, x.colon)
      /\ ~H!EndsPart(x.state, t) =>
           y = Ctx(t, x.request, Append(x.word, c),
             IF t \in ColonStates /\ x.state # t THEN Len(x.word) + 1 ELSE x.colon)
  BY DEF H!Step, NextState, Ctx, ColonStates
<1>2. IsRequest(q) /\ IsRequest(x.request)
  BY StoreIs DEF IsContext
<1> HIDE DEF y, q
<1>3. \A s, r, w, k : /\ Ctx(s, r, w, k).state = s
                      /\ IsRequest(r) => IsContext(Ctx(s, r, w, k))
  BY DEF Ctx, IsContext
<1>4. IsContext(y) /\ y.state = t
  BY <1>1, <1>2, <1>3
<1> QED
  BY <1>1, <1>4 DEF y, q
-----------------------------------------------------------------------------
(* The parser.  What its state says of the data behind place i: WHEN_CR,   *)
(* CR_LF and CR_LF_CR of the last characters, and the states behind them   *)
(* that the empty line was there.                                          *)
Behind(s, data, i) ==
  /\ s = "WHEN_CR" => i >= 1 /\ data[i] = "CR"
  /\ s = "CR_LF" => i >= 2 /\ data[i - 1] = "CR" /\ data[i] = "LF"
  /\ s = "CR_LF_CR" =>
       i >= 3 /\ data[i - 2] = "CR" /\ data[i - 1] = "LF" /\ data[i] = "CR"
  /\ s \in {"BODY", "COMPLETE"} => \E j \in 1 .. Len(data) : EmptyLineAt(data, j)

LEMMA RequestLineMoves ==
  ASSUME NEW s \in H!InRequestLine, NEW c
  PROVE  /\ H!RequestLine(s, c) = "WHEN_CR" => c = "CR"
         /\ H!RequestLine(s, c) \notin {"CR_LF", "CR_LF_CR", "BODY", "COMPLETE"}
BY DEF H!InRequestLine, H!RequestLine

LEMMA HeaderLinesMoves ==
  ASSUME NEW s, NEW c, NEW request, NEW more, NEW t,
         t = H!HeaderLines(s, c, request, more)
  PROVE  /\ t = "WHEN_CR" => c = "CR"
         /\ t = "CR_LF" => s = "WHEN_CR" /\ c = "LF"
         /\ t = "CR_LF_CR" => s = "CR_LF" /\ c = "CR"
         /\ t \in {"BODY", "COMPLETE"} => s = "BODY" \/ (s = "CR_LF_CR" /\ c = "LF")
BY DEF H!HeaderLines, H!AfterHeaders

(* One turn of the loop keeps that.                                        *)
LEMMA StepKeepsBehind ==
  ASSUME NEW x, IsContext(x), NEW data \in Seq(Words), NEW i \in 1 .. Len(data),
         Behind(x.state, data, i - 1)
  PROVE  LET y == H!Step(x, SubSeq(data, i, Len(data)))
         IN  IsContext(y) /\ Behind(y.state, data, i)
<1> DEFINE rest == SubSeq(data, i, Len(data))
           c == Head(rest)
           more == Len(rest) > 1
           t == IF x.state \in H!InRequestLine THEN H!RequestLine(x.state, c)
                ELSE H!HeaderLines(x.state, c, x.request, more)
           y == H!Step(x, rest)
<1>1. IsContext(y) /\ y.state = t
  <2>1. t = NextState(x, c, rest)
    BY DEF NextState
  <2> HIDE DEF t, c, y, rest
  <2> QED
    BY <2>1, StepIs DEF c, y
<1>2. c = data[i]
  <2>1. i \in Nat /\ i <= Len(data) /\ Len(data) \in Nat
    OBVIOUS
  <2>2. \A j \in i .. Len(data) : data[j] \in Words
    BY <2>1
  <2>3. rest \in Seq(Words)
    BY <2>1, <2>2, SubSeqProperties
  <2>4. 1 \in 1 .. Len(data) - i + 1 /\ i + 1 - 1 = i
    BY <2>1
  <2>5. \A j \in 1 .. Len(data) - i + 1 : rest[j] = data[i + j - 1]
    BY <2>1, <2>2, SubSeqProperties
  <2>6. Head(rest) = rest[1]
    <3> HIDE DEF rest
    <3> QED
      BY <2>3
  <2> HIDE DEF rest
  <2>7. rest[1] = data[i + 1 - 1]
    BY <2>4, <2>5
  <2> QED
    BY <2>4, <2>6, <2>7
<1> HIDE DEF y, rest, c, more
<1>3. /\ t = "WHEN_CR" => c = "CR"
      /\ t = "CR_LF" => x.state = "WHEN_CR" /\ c = "LF"
      /\ t = "CR_LF_CR" => x.state = "CR_LF" /\ c = "CR"
      /\ t \in {"BODY", "COMPLETE"} => \/ x.state = "BODY"
                                       \/ x.state = "CR_LF_CR" /\ c = "LF"
  <2>1. CASE x.state \in H!InRequestLine
    BY <2>1, RequestLineMoves
  <2>2. CASE x.state \notin H!InRequestLine
    BY <2>2, HeaderLinesMoves
  <2> QED
    BY <2>1, <2>2
<1> HIDE DEF t
<1>4. i \in Nat /\ i >= 1 /\ i - 1 \in Nat /\ i - 1 - 1 = i - 2 /\ i - 1 - 2 = i - 3
  OBVIOUS
<1>5. t = "CR_LF" => i >= 2 /\ data[i - 1] = "CR" /\ data[i] = "LF"
  BY <1>2, <1>3, <1>4 DEF Behind
<1>6. t = "CR_LF_CR" =>
        i >= 3 /\ data[i - 2] = "CR" /\ data[i - 1] = "LF" /\ data[i] = "CR"
  BY <1>2, <1>3, <1>4 DEF Behind
<1>7. t \in {"BODY", "COMPLETE"} => \E j \in 1 .. Len(data) : EmptyLineAt(data, j)
  <2>1. CASE x.state = "BODY"
    BY <2>1 DEF Behind
  <2>2. ASSUME x.state = "CR_LF_CR", c = "LF"
        PROVE  \E j \in 1 .. Len(data) : EmptyLineAt(data, j)
    <3>1. i - 1 >= 3 /\ data[i - 3] = "CR" /\ data[i - 2] = "LF" /\ data[i - 1] = "CR"
      BY <1>4, <2>2 DEF Behind
    <3>2. /\ i - 3 \in 1 .. Len(data) /\ i - 3 + 1 = i - 2 /\ i - 3 + 2 = i - 1
          /\ i - 3 + 3 = i /\ i - 3 >= 1 /\ i <= Len(data)
      BY <1>4, <3>1
    <3>3. EmptyLineAt(data, i - 3)
      BY <1>2, <2>2, <3>1, <3>2 DEF EmptyLineAt
    <3> QED
      BY <3>2, <3>3
  <2> QED
    BY <1>3, <2>1, <2>2
<1>8. Behind(t, data, i)
  BY <1>2, <1>3, <1>4, <1>5, <1>6, <1>7 DEF Behind
<1> QED
  BY <1>1, <1>8 DEF y, rest

Fresh(x) == [x EXCEPT !.word = H!None, !.colon = 1]
Turn(x, data, i) ==
  IF x.state \in H!Final THEN x ELSE H!Step(x, SubSeq(data, i, Len(data)))
Parses(f, n, x, data) ==
  f = [i \in 0 .. n |-> IF i = 0 THEN Fresh(x) ELSE Turn(f[i - 1], data, i)]

LEMMA ParsesExists ==
  ASSUME NEW x, NEW data, NEW n \in Nat
  PROVE  \E f : Parses(f, n, x, data)
<1> DEFINE Bad == {k \in Nat : ~ \E f : Parses(f, k, x, data)}
<1> SUFFICES ASSUME Bad # {} PROVE FALSE
  OBVIOUS
<1>1. PICK k \in Bad : \A j \in Bad : k <= j
  BY LeastPlace
<1>2. k # 0
  <2> DEFINE f == [i \in 0 .. 0 |-> Fresh(x)]
  <2>1. f = [i \in 0 .. 0 |-> IF i = 0 THEN Fresh(x) ELSE Turn(f[i - 1], data, i)]
    OBVIOUS
  <2> HIDE DEF f
  <2>2. Parses(f, 0, x, data)
    BY <2>1 DEF Parses
  <2> QED
    BY <1>1, <2>2
<1>3. k - 1 \in Nat /\ ~ (k - 1 \in Bad) /\ k \in Nat
  BY <1>1, <1>2
<1>4. PICK f : Parses(f, k - 1, x, data)
  BY <1>3
<1> DEFINE g == [i \in 0 .. k |-> IF i = 0 THEN Fresh(x) ELSE Turn(f[i - 1], data, i)]
<1>5. \A i \in 0 .. k - 1 : g[i] = f[i]
  <2>1. \A i \in 0 .. k - 1 : i \in 0 .. k
    BY <1>3
  <2>2. \A i \in 0 .. k - 1 : f[i] = IF i = 0 THEN Fresh(x) ELSE Turn(f[i - 1], data, i)
    BY <1>4 DEF Parses
  <2> QED
    BY <2>1, <2>2
<1>6. \A i \in 0 .. k : i # 0 => g[i - 1] = f[i - 1]
  <2>1. \A i \in 0 .. k : i # 0 => i - 1 \in 0 .. k - 1
    BY <1>3
  <2> HIDE DEF g
  <2> QED
    BY <1>5, <2>1
<1>7. g = [i \in 0 .. k |-> IF i = 0 THEN Fresh(x) ELSE Turn(g[i - 1], data, i)]
  BY <1>6
<1> HIDE DEF g
<1>8. Parses(g, k, x, data)
  BY <1>7 DEF Parses
<1> QED
  BY <1>1, <1>8

(* A request is complete only behind an empty line of the data itself,     *)
(* whatever the parser had seen before (HttpContext.cpp:236).              *)
LEMMA CompleteSawEmptyLine ==
  ASSUME NEW x, IsContext(x), x.state = "START", NEW data \in Seq(Words)
  PROVE  /\ IsContext(H!ParaseRequest(x, data))
         /\ H!IsCompleteRequest(H!ParaseRequest(x, data))
              => \E j \in 1 .. Len(data) : EmptyLineAt(data, j)
<1> DEFINE n == Len(data)
           after == CHOOSE f : Parses(f, n, x, data)
<1>1. H!ParaseRequest(x, data) = after[n]
  BY DEF H!ParaseRequest, Parses, Turn, Fresh
<1>2. n \in Nat
  OBVIOUS
<1>3. Parses(after, n, x, data)
  BY <1>2, ParsesExists
<1> HIDE DEF after
<1> DEFINE Good(i) == IsContext(after[i]) /\ Behind(after[i].state, data, i)
           Bad == {i \in 0 .. n : ~ Good(i)}
<1>4. Good(0)
  <2>1. after[0] = Fresh(x)
    BY <1>2, <1>3 DEF Parses
  <2>2. IsContext(Fresh(x)) /\ Fresh(x).state = "START"
    <3> DEFINE y == [x EXCEPT !.word = H!None]
    <3>1. x = [state |-> x.state, request |-> x.request, word |-> x.word, colon |-> x.colon]
      BY DEF IsContext
    <3>2. y = [state |-> x.state, request |-> x.request, word |-> H!None, colon |-> x.colon]
      BY <3>1
    <3>4. Fresh(x) = [y EXCEPT !.colon = 1]
      BY DEF Fresh
    <3> HIDE DEF y
    <3>3. [y EXCEPT !.colon = 1]
            = [state |-> x.state, request |-> x.request, word |-> H!None, colon |-> 1]
      BY <3>2
    <3> QED
      BY <3>3, <3>4 DEF IsContext
  <2> QED
    BY <2>1, <2>2 DEF Behind
<1>5. ASSUME NEW i \in 1 .. n, Good(i - 1) PROVE Good(i)
  <2>1. after[i] = Turn(after[i - 1], data, i)
    BY <1>3 DEF Parses
  <2>2. CASE after[i - 1].state \in H!Final
    <3>1. after[i] = after[i - 1]
      BY <2>1, <2>2 DEF Turn
    <3>2. Behind(after[i - 1].state, data, i)
      BY <1>5, <2>2 DEF Behind, H!Final
    <3> QED
      BY <1>5, <3>1, <3>2
  <2>3. CASE after[i - 1].state \notin H!Final
    <3>1. after[i] = H!Step(after[i - 1], SubSeq(data, i, Len(data)))
      BY <2>1, <2>3 DEF Turn
    <3> QED
      BY <1>5, <3>1, StepKeepsBehind
  <2> QED
    BY <2>2, <2>3
<1> HIDE DEF Good
<1>6. Bad = {}
  <2> SUFFICES ASSUME Bad # {} PROVE FALSE
    OBVIOUS
  <2>1. Bad \in SUBSET Nat
    OBVIOUS
  <2> HIDE DEF Bad
  <2>2. PICK i \in Bad : \A j \in Bad : i <= j
    BY <2>1, LeastPlace
  <2>3. i \in 0 .. n /\ ~ Good(i)
    BY <2>2 DEF Bad
  <2>4. i # 0
    BY <1>4, <2>3
  <2>5. i \in 1 .. n /\ i - 1 \in 0 .. n /\ ~ (i <= i - 1)
    BY <1>2, <2>3, <2>4
  <2>6. Good(i - 1)
    BY <2>2, <2>5 DEF Bad
  <2> QED
    BY <1>5, <2>3, <2>5, <2>6
<1>7. Good(n)
  BY <1>2, <1>6
<1> QED
  BY <1>1, <1>7 DEF Good, Behind, H!IsCompleteRequest
-----------------------------------------------------------------------------
Dead(x) == x.state \in H!Invalid

LEMMA FieldsOfCtx ==
  \A s, r, w, k : /\ Ctx(s, r, w, k).state = s /\ Ctx(s, r, w, k).request = r
                 /\ Ctx(s, r, w, k).word = w /\ Ctx(s, r, w, k).colon = k
BY DEF Ctx

IsCtx(x, s, r, w, k) == x.state = s /\ x.request = r /\ x.word = w /\ x.colon = k
LEMMA CtxIsCtx == \A x, s, r, w, k : x = Ctx(s, r, w, k) => IsCtx(x, s, r, w, k)
BY FieldsOfCtx DEF IsCtx

LEMMA AppendsWord ==
  ASSUME NEW a \in Words, NEW b \in Words, NEW c \in Words
  PROVE  /\ Append(<<a>>, b) = <<a, b>> /\ Len(<<a>>) + 1 = 2
         /\ Append(<<a, b>>, c) = <<a, b, c>>
<1>1. /\ Append(<<a>>, b) \in Seq(Words) /\ Len(Append(<<a>>, b)) = 2
      /\ Append(<<a>>, b)[1] = a /\ Append(<<a>>, b)[2] = b
  OBVIOUS
<1>2. <<a, b>> \in Seq(Words) /\ Len(<<a, b>>) = 2 /\ <<a, b>>[1] = a /\ <<a, b>>[2] = b
  OBVIOUS
<1>3. /\ Append(<<a, b>>, c) \in Seq(Words) /\ Len(Append(<<a, b>>, c)) = 3
      /\ Append(<<a, b>>, c)[1] = a /\ Append(<<a, b>>, c)[2] = b
      /\ Append(<<a, b>>, c)[3] = c
  OBVIOUS
<1>4. /\ <<a, b, c>> \in Seq(Words) /\ Len(<<a, b, c>>) = 3
      /\ <<a, b, c>>[1] = a /\ <<a, b, c>>[2] = b /\ <<a, b, c>>[3] = c
  OBVIOUS
<1>5. Append(<<a>>, b) = <<a, b>>
  <2> DEFINE s == Append(<<a>>, b)
             t == <<a, b>>
  <2>1. \A i \in 1 .. 2 : i = 1 \/ i = 2
    OBVIOUS
  <2> HIDE DEF s, t
  <2> QED
    BY <1>1, <1>2, <2>1, SeqEqual DEF s, t
<1>6. Append(<<a, b>>, c) = <<a, b, c>>
  <2> DEFINE s == Append(<<a, b>>, c)
             t == <<a, b, c>>
  <2>1. \A i \in 1 .. 3 : i = 1 \/ i = 2 \/ i = 3
    OBVIOUS
  <2> HIDE DEF s, t
  <2> QED
    BY <1>3, <1>4, <2>1, SeqEqual DEF s, t
<1> QED
  BY <1>5, <1>6

(* A turn with the character at place i of the data.                       *)
LEMMA TurnIs ==
  ASSUME NEW x, IsContext(x), NEW data \in Seq(Words), NEW i \in 1 .. Len(data)
  PROVE  LET rest == SubSeq(data, i, Len(data))
             t == NextState(x, data[i], rest)
             y == Turn(x, data, i)
         IN  /\ IsContext(y)
             /\ x.state \in H!Final => y = x
             /\ x.state \notin H!Final => y.state = t
             /\ x.state \notin H!Final /\ H!EndsPart(x.state, t) =>
                  y = Ctx(t, H!Store(x, x.state, rest), H!None, x.colon)
             /\ x.state \notin H!Final /\ ~H!EndsPart(x.state, t) =>
                  y = Ctx(t, x.request, Append(x.word, data[i]),
                    IF t \in ColonStates /\ x.state # t THEN Len(x.word) + 1 ELSE x.colon)
<1> DEFINE rest == SubSeq(data, i, Len(data))
<1>1. Head(rest) = data[i]
  BY HeadOfRest
<1>2. Turn(x, data, i) = IF x.state \in H!Final THEN x ELSE H!Step(x, rest)
  BY DEF Turn
<1> HIDE DEF rest
<1>3. CASE x.state \in H!Final
  BY <1>2, <1>3 DEF rest
<1>4. CASE x.state \notin H!Final
  <2> DEFINE t == NextState(x, data[i], rest)
             y == H!Step(x, rest)
  <2>1. Turn(x, data, i) = y
    BY <1>2, <1>4
  <2>2. /\ IsContext(y) /\ y.state = t
        /\ H!EndsPart(x.state, t) => y = Ctx(t, H!Store(x, x.state, rest), H!None, x.colon)
        /\ ~H!EndsPart(x.state, t) =>
             y = Ctx(t, x.request, Append(x.word, data[i]),
               IF t \in ColonStates /\ x.state # t THEN Len(x.word) + 1 ELSE x.colon)
    <3> HIDE DEF t
    <3>1. t = NextState(x, data[i], rest)
      BY DEF t
    <3> QED
      BY <1>1, <3>1, StepIs
  <2> HIDE DEF t, y
  <2> QED
    BY <1>4, <2>1, <2>2, Zenon DEF rest, t
<1> QED
  BY <1>3, <1>4

LEMMA DeadStaysDead ==
  ASSUME NEW x, IsContext(x), Dead(x), NEW data \in Seq(Words), NEW i \in 1 .. Len(data)
  PROVE  Dead(Turn(x, data, i)) /\ IsContext(Turn(x, data, i))
<1> DEFINE rest == SubSeq(data, i, Len(data))
<1>1. x.state \notin H!InRequestLine /\ x.state \notin {"WHEN_CR", "CR_LF", "HEADER_KEY",
        "HEADER_VALUE", "CR_LF_CR", "BODY"}
  BY DEF Dead, H!Invalid, H!InRequestLine
<1>2. NextState(x, data[i], rest) = "kINVALID"
  BY <1>1 DEF NextState, H!HeaderLines
<1> HIDE DEF rest
<1>3. \/ Turn(x, data, i) = x
      \/ Turn(x, data, i).state = "kINVALID"
  BY <1>2, TurnIs DEF rest
<1> QED
  BY <1>3, TurnIs DEF Dead, H!Invalid

(* The turns of a request line, state by state.                            *)
LEMMA MethodStarts ==
  ASSUME NEW x, IsContext(x), NEW data \in Seq(Words), NEW i \in 1 .. Len(data),
         x.state = "START", x.word = <<>>, data[i] \notin H!White
  PROVE  LET y == Turn(x, data, i)
         IN  Dead(y) \/ (y.state = "METHOD" /\ y.word = <<data[i]>>)
<1> DEFINE t == NextState(x, data[i], SubSeq(data, i, Len(data)))
<1>1. t = IF data[i] \in UpperWords THEN "METHOD" ELSE "kINVALID"
  BY DEF NextState, H!InRequestLine, H!RequestLine
<1>2. x.state \notin H!Final /\ ~H!EndsPart(x.state, t)
  BY DEF H!Final, H!EndsPart
<1> HIDE DEF t
<1>3. /\ Turn(x, data, i).state = t
      /\ Turn(x, data, i) = Ctx(t, x.request, Append(x.word, data[i]),
           IF t \in ColonStates /\ x.state # t THEN Len(x.word) + 1 ELSE x.colon)
  BY <1>2, TurnIs DEF t
<1>4. Turn(x, data, i).word = Append(<<>>, data[i])
  BY <1>3, FieldsOfCtx
<1> QED
  BY <1>1, <1>3, <1>4 DEF Dead, H!Invalid

LEMMA MethodEnds ==
  ASSUME NEW x, IsContext(x), NEW data \in Seq(Words), NEW i \in 1 .. Len(data),
         x.state = "METHOD", data[i] = " "
  PROVE  LET y == Turn(x, data, i)
         IN  y.state = "BEFORE_URL" /\ y.word = <<>> /\ y.request.method = x.word
<1> DEFINE rest == SubSeq(data, i, Len(data))
           t == NextState(x, data[i], rest)
           q == H!Store(x, x.state, rest)
<1>1. " " \notin UpperWords
  BY NamesAssumption DEF H!White
<1>2. t = "BEFORE_URL"
  BY <1>1 DEF NextState, H!InRequestLine, H!RequestLine
<1>3. x.state \notin H!Final /\ H!EndsPart(x.state, t)
  BY <1>2 DEF H!Final, H!EndsPart, H!Invalid
<1>4. q.method = x.word
  BY StoreIs
<1> HIDE DEF t, q, rest
<1>5. Turn(x, data, i) = Ctx(t, q, H!None, x.colon)
  BY <1>3, TurnIs DEF t, q, rest
<1>6. /\ Turn(x, data, i).state = t /\ Turn(x, data, i).word = H!None
      /\ Turn(x, data, i).request = q
  <2>1. IsCtx(Turn(x, data, i), t, q, H!None, x.colon)
    BY <1>5, CtxIsCtx, Zenon
  <2> QED
    BY <2>1, Zenon DEF IsCtx
<1> QED
  BY <1>2, <1>4, <1>6 DEF H!None

LEMMA UrlStarts ==
  ASSUME NEW x, IsContext(x), NEW data \in Seq(Words), NEW i \in 1 .. Len(data),
         x.state = "BEFORE_URL", x.word = <<>>, data[i] = "/"
  PROVE  LET y == Turn(x, data, i)
         IN  y.state = "IN_URL" /\ y.word = <<"/">> /\ y.request.method = x.request.method
<1> DEFINE t == NextState(x, data[i], SubSeq(data, i, Len(data)))
<1>1. t = "IN_URL"
  BY DEF NextState, H!InRequestLine, H!RequestLine
<1>2. x.state \notin H!Final /\ ~H!EndsPart(x.state, t)
  BY DEF H!Final, H!EndsPart
<1> HIDE DEF t
<1>3. Turn(x, data, i) = Ctx(t, x.request, Append(x.word, data[i]),
        IF t \in ColonStates /\ x.state # t THEN Len(x.word) + 1 ELSE x.colon)
  BY <1>2, TurnIs DEF t
<1>4. Append(x.word, data[i]) = <<"/">>
  OBVIOUS
<1> QED
  BY <1>1, <1>3, <1>4, FieldsOfCtx

LEMMA UrlGoesOn ==
  ASSUME NEW x, IsContext(x), NEW data \in Seq(Words), NEW i \in 1 .. Len(data),
         x.state = "IN_URL", data[i] \notin {" ", "?"}
  PROVE  LET y == Turn(x, data, i)
         IN  /\ y.state = "IN_URL" /\ y.word = Append(x.word, data[i])
             /\ y.request.method = x.request.method
<1> DEFINE t == NextState(x, data[i], SubSeq(data, i, Len(data)))
<1>1. t = "IN_URL"
  BY DEF NextState, H!InRequestLine, H!RequestLine
<1>2. x.state \notin H!Final /\ ~H!EndsPart(x.state, t)
  BY <1>1 DEF H!Final, H!EndsPart
<1> HIDE DEF t
<1>3. Turn(x, data, i) = Ctx(t, x.request, Append(x.word, data[i]),
        IF t \in ColonStates /\ x.state # t THEN Len(x.word) + 1 ELSE x.colon)
  BY <1>2, TurnIs DEF t
<1>4. /\ Turn(x, data, i).state = t /\ Turn(x, data, i).word = Append(x.word, data[i])
      /\ Turn(x, data, i).request = x.request
  <2>1. \E k : IsCtx(Turn(x, data, i), t, x.request, Append(x.word, data[i]), k)
    BY <1>3, CtxIsCtx, Zenon
  <2> QED
    BY <2>1, Zenon DEF IsCtx
<1> QED
  BY <1>1, <1>4

(* A part of the target ends at the mark of the next parameter or at the   *)
(* blank before the protocol.                                              *)
LEMMA TargetPartEnds ==
  ASSUME NEW x, IsContext(x), NEW data \in Seq(Words), NEW i \in 1 .. Len(data),
         x.state \in {"IN_URL", "URL_PARAM_VALUE"},
         data[i] \in {" ", IF x.state = "IN_URL" THEN "?" ELSE "&"}
  PROVE  LET y == Turn(x, data, i)
         IN  /\ y.state = IF data[i] = " " THEN "BEFORE_PROTOCOL" ELSE "BEFORE_URL_PARAM_KEY"
             /\ y.word = <<>> /\ y.request = H!Store(x, x.state, <<>>)
<1> DEFINE rest == SubSeq(data, i, Len(data))
           t == NextState(x, data[i], rest)
           q == H!Store(x, x.state, rest)
<1>1. t = IF data[i] = " " THEN "BEFORE_PROTOCOL" ELSE "BEFORE_URL_PARAM_KEY"
  BY DEF NextState, H!InRequestLine, H!RequestLine
<1>2. x.state \notin H!Final /\ H!EndsPart(x.state, t)
  BY <1>1 DEF H!Final, H!EndsPart, H!Invalid
<1>3. q = H!Store(x, x.state, <<>>)
  BY DEF H!Store
<1> HIDE DEF t, q, rest
<1>4. Turn(x, data, i) = Ctx(t, q, H!None, x.colon)
  BY <1>2, TurnIs DEF t, q, rest
<1>5. /\ Turn(x, data, i).state = t /\ Turn(x, data, i).word = H!None
      /\ Turn(x, data, i).request = q
  <2>1. IsCtx(Turn(x, data, i), t, q, H!None, x.colon)
    BY <1>4, CtxIsCtx, Zenon
  <2> QED
    BY <2>1, Zenon DEF IsCtx
<1> QED
  BY <1>1, <1>3, <1>5 DEF H!None

LEMMA KeyIsRead ==
  ASSUME NEW x, IsContext(x), NEW data \in Seq(Words), NEW i \in 1 .. Len(data),
         x.state = "BEFORE_URL_PARAM_KEY", x.word = <<>>
  PROVE  LET y == Turn(x, data, i)
         IN  \/ Dead(y)
             \/ /\ y.state = "URL_PARAM_KEY" /\ y.word = <<data[i]>>
                /\ y.request = x.request
<1> DEFINE t == NextState(x, data[i], SubSeq(data, i, Len(data)))
<1>1. t \in {"kINVALID", "URL_PARAM_KEY"}
  BY DEF NextState, H!InRequestLine, H!RequestLine
<1>2. x.state \notin H!Final /\ ~H!EndsPart(x.state, t)
  BY DEF H!Final, H!EndsPart
<1> HIDE DEF t
<1>3. /\ Turn(x, data, i).state = t
      /\ Turn(x, data, i) = Ctx(t, x.request, Append(x.word, data[i]),
           IF t \in ColonStates /\ x.state # t THEN Len(x.word) + 1 ELSE x.colon)
  BY <1>2, TurnIs DEF t
<1>4. Append(x.word, data[i]) = <<data[i]>>
  OBVIOUS
<1> QED
  BY <1>1, <1>3, <1>4, FieldsOfCtx DEF Dead, H!Invalid

LEMMA EqualsIsRead ==
  ASSUME NEW x, IsContext(x), NEW data \in Seq(Words), NEW i \in 1 .. Len(data),
         x.state = "URL_PARAM_KEY", data[i] = "=", NEW key \in Words, x.word = <<key>>
  PROVE  LET y == Turn(x, data, i)
         IN  /\ y.state = "BEFORE_URL_PARAM_VALUE" /\ y.word = <<key, "=">>
             /\ y.colon = 2 /\ y.request = x.request
<1> DEFINE t == NextState(x, data[i], SubSeq(data, i, Len(data)))
<1>1. t = "BEFORE_URL_PARAM_VALUE"
  BY DEF NextState, H!InRequestLine, H!RequestLine
<1>2. x.state \notin H!Final /\ ~H!EndsPart(x.state, t)
  BY DEF H!Final, H!EndsPart
<1> HIDE DEF t
<1>3. Turn(x, data, i) = Ctx(t, x.request, Append(x.word, data[i]),
        IF t \in ColonStates /\ x.state # t THEN Len(x.word) + 1 ELSE x.colon)
  BY <1>2, TurnIs DEF t
<1>4. Append(x.word, data[i]) = <<key, "=">> /\ Len(x.word) + 1 = 2
  <2>1. "=" \in Words
    BY WordsAssumption
  <2> QED
    BY <2>1, AppendsWord
<1>5. Turn(x, data, i) = Ctx(t, x.request, <<key, "=">>, 2)
  <2>1. t \in ColonStates /\ x.state # t
    BY <1>1 DEF ColonStates
  <2> QED
    BY <1>3, <1>4, <2>1, Zenon
<1> QED
  <2>1. IsCtx(Turn(x, data, i), t, x.request, <<key, "=">>, 2)
    BY <1>5, CtxIsCtx, Zenon
  <2> QED
    BY <1>1, <2>1, Zenon DEF IsCtx

LEMMA ValueIsRead ==
  ASSUME NEW x, IsContext(x), NEW data \in Seq(Words), NEW i \in 1 .. Len(data),
         x.state = "BEFORE_URL_PARAM_VALUE", NEW key \in Words, x.word = <<key, "=">>
  PROVE  LET y == Turn(x, data, i)
         IN  \/ Dead(y)
             \/ /\ y.state = "URL_PARAM_VALUE" /\ y.word = <<key, "=", data[i]>>
                /\ y.colon = x.colon /\ y.request = x.request
<1> DEFINE t == NextState(x, data[i], SubSeq(data, i, Len(data)))
<1>1. t \in {"kINVALID", "URL_PARAM_VALUE"}
  BY DEF NextState, H!InRequestLine, H!RequestLine
<1>2. x.state \notin H!Final /\ ~H!EndsPart(x.state, t) /\ t \notin ColonStates
  BY <1>1 DEF H!Final, H!EndsPart, ColonStates
<1> HIDE DEF t
<1>3. /\ Turn(x, data, i).state = t
      /\ Turn(x, data, i) = Ctx(t, x.request, Append(x.word, data[i]),
           IF t \in ColonStates /\ x.state # t THEN Len(x.word) + 1 ELSE x.colon)
  BY <1>2, TurnIs DEF t
<1>4. Append(x.word, data[i]) = <<key, "=", data[i]>>
  <2>1. "=" \in Words
    BY WordsAssumption
  <2>2. data[i] \in Words
    OBVIOUS
  <2>3. \A c \in Words : Append(<<key, "=">>, c) = <<key, "=", c>>
    BY <2>1, AppendsWord
  <2> QED
    BY <2>2, <2>3, Zenon
<1>5. Turn(x, data, i) = Ctx(t, x.request, <<key, "=", data[i]>>, x.colon)
  BY <1>2, <1>3, <1>4, Zenon
<1>6. /\ Turn(x, data, i).state = t /\ Turn(x, data, i).word = <<key, "=", data[i]>>
      /\ Turn(x, data, i).colon = x.colon /\ Turn(x, data, i).request = x.request
  <2>1. IsCtx(Turn(x, data, i), t, x.request, <<key, "=", data[i]>>, x.colon)
    BY <1>5, CtxIsCtx, Zenon
  <2> QED
    BY <2>1, Zenon DEF IsCtx
<1>7. "kINVALID" \in H!Invalid
  BY DEF H!Invalid
<1> QED
  BY <1>1, <1>6, <1>7, Zenon DEF Dead

-----------------------------------------------------------------------------
(* Behind the target nothing changes what was stored of it.                *)
Early == {"START", "METHOD", "BEFORE_URL", "IN_URL", "BEFORE_URL_PARAM_KEY",
          "URL_PARAM_KEY", "BEFORE_URL_PARAM_VALUE", "URL_PARAM_VALUE"}

LEMMA TargetIsKept ==
  ASSUME NEW x, IsContext(x), NEW data \in Seq(Words), NEW i \in 1 .. Len(data),
         x.state \notin Early
  PROVE  LET y == Turn(x, data, i)
         IN  /\ y.state \notin Early
             /\ y.request.method = x.request.method /\ y.request.url = x.request.url
             /\ y.request.params = x.request.params
<1> DEFINE rest == SubSeq(data, i, Len(data))
           t == NextState(x, data[i], rest)
           q == H!Store(x, x.state, rest)
<1>1. t \notin Early
  <2>1. CASE x.state \in H!InRequestLine
    <3>1. x.state \in {"BEFORE_PROTOCOL", "PROTOCOL", "BEFORE_VERSION", "VERSION"}
      BY <2>1 DEF H!InRequestLine, Early
    <3> QED
      BY <2>1, <3>1 DEF NextState, H!RequestLine, Early
  <2>2. CASE x.state \notin H!InRequestLine
    BY <2>2 DEF NextState, H!HeaderLines, H!AfterHeaders, Early
  <2> QED
    BY <2>1, <2>2
<1>2. /\ q.method = x.request.method /\ q.url = x.request.url
      /\ q.params = x.request.params
  BY StoreIs DEF Early
<1> HIDE DEF t, q, rest
<1>3. CASE x.state \in H!Final
  BY <1>3, TurnIs
<1>4. CASE x.state \notin H!Final
  BY <1>1, <1>2, <1>4, TurnIs, FieldsOfCtx DEF t, q, rest
<1> QED
  BY <1>3, <1>4

LEMMA CutsOfThree ==
  ASSUME NEW a \in Words, NEW b \in Words, NEW c \in Words
  PROVE  /\ SubSeq(<<a, b, c>>, 1, 2 - 1) = <<a>>
         /\ SubSeq(<<a, b, c>>, 2 + 1, Len(<<a, b, c>>)) = <<c>>
<1> DEFINE s == <<a, b, c>>
<1>1. s \in Seq(Words) /\ Len(s) = 3 /\ s[1] = a /\ s[3] = c
  OBVIOUS
<1>2. <<a>> \in Seq(Words) /\ Len(<<a>>) = 1 /\ <<a>>[1] = a
  OBVIOUS
<1>3. <<c>> \in Seq(Words) /\ Len(<<c>>) = 1 /\ <<c>>[1] = c
  OBVIOUS
<1> HIDE DEF s
<1>4. /\ SubSeq(s, 1, 1) \in Seq(Words) /\ Len(SubSeq(s, 1, 1)) = 1
      /\ SubSeq(s, 1, 1)[1] = a
  BY <1>1
<1>5. /\ SubSeq(s, 3, 3) \in Seq(Words) /\ Len(SubSeq(s, 3, 3)) = 1
      /\ SubSeq(s, 3, 3)[1] = c
  BY <1>1
<1>6. \A i \in 1 .. 1 : i = 1
  OBVIOUS
<1>7. SubSeq(s, 1, 1) = <<a>>
  <2> DEFINE l == SubSeq(s, 1, 1)
             r == <<a>>
  <2> HIDE DEF l, r
  <2> QED
    BY <1>2, <1>4, <1>6, SeqEqual DEF l, r
<1>8. SubSeq(s, 3, 3) = <<c>>
  <2> DEFINE l == SubSeq(s, 3, 3)
             r == <<c>>
  <2> HIDE DEF l, r
  <2> QED
    BY <1>3, <1>5, <1>6, SeqEqual DEF l, r
<1>9. 2 - 1 = 1 /\ 2 + 1 = Len(s) /\ Len(s) = 3
  BY <1>1
<1> QED
  BY <1>7, <1>8, <1>9 DEF s

LEMMA UrlIsStored ==
  ASSUME NEW x, IsContext(x), x.state = "IN_URL"
  PROVE  LET q == H!Store(x, x.state, <<>>)
         IN  q.method = x.request.method /\ q.url = x.word
BY StoreIs

LEMMA ParameterIsStored ==
  ASSUME NEW x, IsContext(x), x.state = "URL_PARAM_VALUE"
  PROVE  LET p == H!Store(x, x.state, <<>>)
         IN  /\ p.method = x.request.method /\ p.url = x.request.url
             /\ p.params = H!Set(x.request.params, SubSeq(x.word, 1, x.colon - 1),
                                 SubSeq(x.word, x.colon + 1, Len(x.word)))
BY StoreIs

(* What the parser holds of request r: its first j parameters.             *)
IsAboutFirst(q, r, j) ==
  /\ q.method = <<r.method>> /\ q.url = r.url
  /\ \A i \in 1 .. j :
       LET key == <<r.params[i][1]>>
       IN  key \in DOMAIN q.params /\ q.params[key] = <<r.params[i][2]>>

AtEnd(x, r, j) ==
  /\ x.state = IF j = 0 THEN "IN_URL" ELSE "URL_PARAM_VALUE"
  /\ IsAboutFirst(H!Store(x, x.state, <<>>), r, j)

(* A parameter is four words, and reading them adds it.                    *)
ParamAt(data, k, r, j) ==
  /\ data[k + 1] = Mark(j) /\ data[k + 2] = r.params[j][1]
  /\ data[k + 3] = "=" /\ data[k + 4] = r.params[j][2]
FourTurns(x, data, k) ==
  Turn(Turn(Turn(Turn(x, data, k + 1), data, k + 2), data, k + 3), data, k + 4)

LEMMA ParameterIsRead ==
  ASSUME NEW r \in Requests, NEW j \in 1 .. Len(r.params), NEW data \in Seq(Words),
         NEW k \in Nat, k + 4 <= Len(data), ParamAt(data, k, r, j),
         NEW x, IsContext(x), AtEnd(x, r, j - 1), NEW y, y = FourTurns(x, data, k)
  PROVE  IsContext(y) /\ (Dead(y) \/ AtEnd(y, r, j))
<1> DEFINE x1 == Turn(x, data, k + 1)
           x2 == Turn(x1, data, k + 2)
           x3 == Turn(x2, data, k + 3)
           q == H!Store(x, x.state, <<>>)
           key == r.params[j][1]
           value == r.params[j][2]
<1>1. /\ k + 1 \in 1 .. Len(data) /\ k + 2 \in 1 .. Len(data)
      /\ k + 3 \in 1 .. Len(data) /\ k + 4 \in 1 .. Len(data)
  OBVIOUS
<1>2. /\ r.params \in Seq(Words \X Words) /\ key \in Words /\ value \in Words
      /\ DOMAIN r.params = 1 .. Len(r.params) /\ Len(r.params) \in Nat
  <2>1. r.params \in Seq(Words \X Words)
    BY RequestsAssumption
  <2>2. \A s \in Seq(Words \X Words) : \A i \in 1 .. Len(s) :
          /\ s[i][1] \in Words /\ s[i][2] \in Words
          /\ DOMAIN s = 1 .. Len(s) /\ Len(s) \in Nat
    OBVIOUS
  <2> QED
    BY <2>1, <2>2, Zenon
<1>10. /\ data[k + 1] = Mark(j) /\ data[k + 2] = key
       /\ data[k + 3] = "=" /\ data[k + 4] = value
  BY DEF ParamAt
<1>3. x.state = IF j = 1 THEN "IN_URL" ELSE "URL_PARAM_VALUE"
  <2>1. j - 1 = 0 <=> j = 1
    BY <1>2
  <2> QED
    BY <2>1 DEF AtEnd
<1>4. IsContext(x1) /\ x1.state = "BEFORE_URL_PARAM_KEY" /\ x1.word = <<>> /\ x1.request = q
  <2>1. /\ x.state \in {"IN_URL", "URL_PARAM_VALUE"} /\ data[k + 1] # " "
        /\ data[k + 1] = IF x.state = "IN_URL" THEN "?" ELSE "&"
    BY <1>3, <1>10 DEF Mark
  <2> QED
    BY <1>1, <2>1, TargetPartEnds, TurnIs
<1> HIDE DEF x1, q, key, value
<1>5. \/ IsContext(x2) /\ Dead(x2)
      \/ IsContext(x2) /\ x2.state = "URL_PARAM_KEY" /\ x2.word = <<key>> /\ x2.request = q
  <2>1. IsContext(x2)
    BY <1>1, <1>4, TurnIs
  <2>2. \/ Dead(x2)
        \/ /\ x2.state = "URL_PARAM_KEY" /\ x2.word = <<data[k + 2]>>
           /\ x2.request = x1.request
    BY <1>1, <1>4, KeyIsRead
  <2> QED
    BY <1>4, <1>10, <2>1, <2>2
<1> HIDE DEF x2
<1>6. \/ IsContext(x3) /\ Dead(x3)
      \/ /\ IsContext(x3) /\ x3.state = "BEFORE_URL_PARAM_VALUE" /\ x3.word = <<key, "=">>
         /\ x3.colon = 2 /\ x3.request = q
  <2>1. CASE Dead(x2)
    BY <1>1, <1>5, <2>1, DeadStaysDead
  <2>2. CASE ~Dead(x2)
    <3>1. IsContext(x3)
      BY <1>1, <1>5, TurnIs
    <3>2. /\ x3.state = "BEFORE_URL_PARAM_VALUE" /\ x3.word = <<key, "=">>
          /\ x3.colon = 2 /\ x3.request = x2.request
      BY <1>1, <1>2, <1>5, <1>10, <2>2, EqualsIsRead
    <3> QED
      BY <1>5, <2>2, <3>1, <3>2
  <2> QED
    BY <2>1, <2>2
<1> HIDE DEF x3
<1>7. y = Turn(x3, data, k + 4)
  BY DEF FourTurns, x1, x2, x3
<1>8. \/ IsContext(y) /\ Dead(y)
      \/ /\ IsContext(y) /\ y.state = "URL_PARAM_VALUE" /\ y.word = <<key, "=", value>>
         /\ y.colon = 2 /\ y.request = q
  <2>1. CASE Dead(x3)
    BY <1>1, <1>6, <1>7, <2>1, DeadStaysDead
  <2>2. CASE ~Dead(x3)
    <3>1. IsContext(y)
      BY <1>1, <1>6, <1>7, TurnIs
    <3>2. \/ Dead(y)
          \/ /\ y.state = "URL_PARAM_VALUE" /\ y.word = <<key, "=", data[k + 4]>>
             /\ y.colon = x3.colon /\ y.request = x3.request
      BY <1>1, <1>2, <1>6, <1>7, <2>2, ValueIsRead
    <3> QED
      BY <1>6, <1>10, <2>2, <3>1, <3>2
  <2> QED
    BY <2>1, <2>2
<1>9. ASSUME ~Dead(y) PROVE AtEnd(y, r, j)
  <2> DEFINE p == H!Store(y, y.state, <<>>)
  <2>1. /\ IsContext(y) /\ y.state = "URL_PARAM_VALUE" /\ y.word = <<key, "=", value>>
        /\ y.colon = 2 /\ y.request = q
    BY <1>8, <1>9
  <2>2. SubSeq(y.word, 1, y.colon - 1) = <<key>>
    <3>1. SubSeq(<<key, "=", value>>, 1, 2 - 1) = <<key>>
      <4>1. "=" \in Words
        BY WordsAssumption
      <4> QED
        BY <1>2, <4>1, CutsOfThree
    <3> QED
      BY <2>1, <3>1, Zenon
  <2>3. SubSeq(y.word, y.colon + 1, Len(y.word)) = <<value>>
    <3>1. SubSeq(<<key, "=", value>>, 2 + 1, Len(<<key, "=", value>>)) = <<value>>
      <4>1. "=" \in Words
        BY WordsAssumption
      <4> QED
        BY <1>2, <4>1, CutsOfThree
    <3> QED
      BY <2>1, <3>1, Zenon
  <2>4. /\ p.method = q.method /\ p.url = q.url
        /\ p.params = H!Set(q.params, <<key>>, <<value>>)
    <3> DEFINE k1 == SubSeq(y.word, 1, y.colon - 1)
               v1 == SubSeq(y.word, y.colon + 1, Len(y.word))
    <3>1. /\ p.method = y.request.method /\ p.url = y.request.url
          /\ p.params = H!Set(y.request.params, k1, v1)
      <4>1. IsContext(y) /\ y.state = "URL_PARAM_VALUE"
        BY <2>1
      <4> HIDE DEF q, key, value
      <4> QED
        BY <4>1, ParameterIsStored
    <3>2. k1 = <<key>> /\ v1 = <<value>>
      BY <2>2, <2>3
    <3> HIDE DEF p, q, k1, v1
    <3> QED
      BY <2>1, <3>1, <3>2, Zenon
  <2>5. IsAboutFirst(q, r, j - 1)
    BY DEF AtEnd, q
  <2> HIDE DEF p, q
  <2>6. ASSUME NEW i \in 1 .. j
        PROVE  /\ <<r.params[i][1]>> \in DOMAIN p.params
               /\ p.params[<<r.params[i][1]>>] = <<r.params[i][2]>>
    <3>1. CASE i = j
      BY <2>4, <3>1 DEF H!Set, key, value
    <3>2. CASE i # j
      <4>1. i \in 1 .. j - 1 /\ i \in DOMAIN r.params /\ j \in DOMAIN r.params
        BY <1>2, <3>2
      <4>2. r.params[i][1] # key
        BY <3>2, <4>1, NamesAssumption DEF key
      <4>3. <<r.params[i][1]>> # <<key>>
        BY <4>2
      <4>4. /\ <<r.params[i][1]>> \in DOMAIN q.params
            /\ q.params[<<r.params[i][1]>>] = <<r.params[i][2]>>
        BY <2>5, <4>1 DEF IsAboutFirst
      <4> QED
        BY <2>4, <4>3, <4>4 DEF H!Set
    <3> QED
      BY <3>1, <3>2
  <2>7. IsAboutFirst(p, r, j)
    BY <2>4, <2>5, <2>6 DEF IsAboutFirst
  <2>8. j # 0
    BY <1>2
  <2> QED
    BY <2>1, <2>7, <2>8 DEF AtEnd, p
<1> QED
  BY <1>8, <1>9
-----------------------------------------------------------------------------
(* What is complete behind the text of a request is about that request:    *)
(* the URL, the parameters and the rest, one place after the other.        *)
LEMMA FreshIs ==
  ASSUME NEW x, IsContext(x)
  PROVE  Fresh(x) = Ctx(x.state, x.request, H!None, 1) /\ IsContext(Fresh(x))
<1> DEFINE y == [x EXCEPT !.word = H!None]
<1>1. x = Ctx(x.state, x.request, x.word, x.colon) /\ IsRequest(x.request)
  BY DEF IsContext, Ctx
<1>2. y = Ctx(x.state, x.request, H!None, x.colon)
  BY <1>1 DEF Ctx
<1>3. Fresh(x) = [y EXCEPT !.colon = 1]
  BY DEF Fresh
<1> HIDE DEF y
<1>4. Fresh(x) = Ctx(x.state, x.request, H!None, 1)
  BY <1>2, <1>3 DEF Ctx
<1> QED
  BY <1>1, <1>4, FieldsOfCtx DEF IsContext, Ctx

InUrl(x, url, method, k) ==
  /\ x.state = "IN_URL" /\ x.word = SubSeq(url, 1, k)
  /\ x.request.method = <<method>>

LEMMA UrlOf ==
  ASSUME NEW r \in Requests
  PROVE  /\ r.url \in Seq(Words) /\ Len(r.url) \in Nat /\ Len(r.url) >= 1
         /\ r.url[1] = "/" /\ r.method \notin H!White
         /\ \A i \in 1 .. Len(r.url) : r.url[i] \notin {" ", "?"}
         /\ Len(r.params) \in Nat
<1>1. r.url \in Seq(Words) /\ r.params \in Seq(Words \X Words)
  BY RequestsAssumption
<1>2. /\ r.url # <<>> /\ r.url[1] = "/" /\ r.method \notin H!White
      /\ \A i \in DOMAIN r.url : r.url[i] \notin {" ", "?"}
  BY NamesAssumption
<1>3. Len(r.url) \in Nat /\ Len(r.params) \in Nat /\ DOMAIN r.url = 1 .. Len(r.url)
  BY <1>1
<1>4. Len(r.url) >= 1
  <2>1. \A s \in Seq(Words) : s # <<>> => Len(s) >= 1
    OBVIOUS
  <2> QED
    BY <1>1, <1>2, <2>1
<1> QED
  BY <1>1, <1>2, <1>3, <1>4, Zenon

LEMMA StartOf ==
  ASSUME NEW r \in Requests, NEW data \in Seq(Words), StartsLike(data, r),
         NEW u \in Nat, u = Len(r.url), NEW m \in Nat, m = Len(r.params),
         NEW n \in Nat, n = Len(data)
  PROVE  Targets(r) = 2 + u + 4 * m /\ 2 + u + 4 * m + 1 <= n /\ 2 + u + 1 <= n
<1>1. Targets(r) = 2 + u + 4 * m
  BY DEF Targets
<1>2. Targets(r) + 1 <= n
  BY DEF StartsLike
<1>3. 2 + u + 4 * m + 1 <= n
  BY <1>1, <1>2
<1>4. \A a, b, c \in Nat : 2 + a + 4 * b + 1 <= c => 2 + a + 1 <= c
  OBVIOUS
<1> QED
  BY <1>1, <1>3, <1>4

(* The turns over a method and a URL.                                      *)
IsUrl(url, u) ==
  /\ url \in Seq(Words) /\ Len(url) = u /\ url[1] = "/"
  /\ \A i \in 1 .. u : url[i] \notin {" ", "?"}
HasUrl(data, n, method, url, u) ==
  /\ data \in Seq(Words) /\ Len(data) = n
  /\ method \notin H!White /\ data[1] = method /\ data[2] = " "
  /\ \A i \in 1 .. u : data[2 + i] = url[i]
Turns(after, n, data) == \A i \in 1 .. n : after[i] = Turn(after[i - 1], data, i)
Starts(x) == IsContext(x) /\ x.state = "START" /\ x.word = <<>>

LEMMA FirstOfUrl ==
  ASSUME NEW url, NEW u \in Nat, u >= 1, IsUrl(url, u)
  PROVE  SubSeq(url, 1, 1) = <<"/">>
<1>1. url \in Seq(Words) /\ Len(url) >= 1 /\ url[1] = "/"
  BY DEF IsUrl
<1> DEFINE s == SubSeq(url, 1, 1)
           t == <<url[1]>>
<1>2. s \in Seq(Words) /\ Len(s) = 1 /\ s[1] = url[1]
  BY <1>1
<1>3. t \in Seq(Words) /\ Len(t) = 1 /\ t[1] = url[1]
  BY <1>1
<1>4. \A i \in 1 .. 1 : i = 1
  OBVIOUS
<1> HIDE DEF s, t
<1>5. s = t
  BY <1>2, <1>3, <1>4, SeqEqual
<1> QED
  BY <1>1, <1>5 DEF s, t

LEMMA UrlGrows ==
  ASSUME NEW url, NEW u \in Nat, IsUrl(url, u), NEW k \in 1 .. u
  PROVE  Append(SubSeq(url, 1, k - 1), url[k]) = SubSeq(url, 1, k)
<1>1. url \in Seq(Words) /\ Len(url) = u
  BY DEF IsUrl
<1>2. \A i \in 1 .. u : url[i] \in Words
  BY <1>1
<1>3. /\ SubSeq(url, 1, k - 1) \in Seq(Words) /\ Len(SubSeq(url, 1, k - 1)) = k - 1
      /\ \A i \in 1 .. k - 1 : SubSeq(url, 1, k - 1)[i] = url[i]
  BY <1>1
<1>4. /\ SubSeq(url, 1, k) \in Seq(Words) /\ Len(SubSeq(url, 1, k)) = k
      /\ \A i \in 1 .. k : SubSeq(url, 1, k)[i] = url[i]
  BY <1>1
<1> DEFINE s == SubSeq(url, 1, k - 1)
           t == SubSeq(url, 1, k)
           l == Append(s, url[k])
<1> HIDE DEF s, t
<1>5. l \in Seq(Words) /\ Len(l) = k /\ l[k] = url[k] /\ \A i \in 1 .. k - 1 : l[i] = s[i]
  <2>1. s \in Seq(Words) /\ Len(s) = k - 1 /\ url[k] \in Words
    BY <1>2, <1>3 DEF s
  <2> QED
    BY <2>1
<1> HIDE DEF l
<1>6. \A i \in 1 .. k : i = k \/ i \in 1 .. k - 1
  OBVIOUS
<1>7. \A i \in 1 .. k : l[i] = t[i]
  BY <1>3, <1>4, <1>5, <1>6 DEF s, t
<1>8. l = t
  BY <1>4, <1>5, <1>7, SeqEqual DEF t
<1> QED
  BY <1>8 DEF l, s, t

LEMMA UrlTurns ==
  ASSUME NEW url, NEW u \in Nat, u >= 1, IsUrl(url, u), NEW method,
         NEW data, NEW n \in Nat, 2 + u + 1 <= n, HasUrl(data, n, method, url, u),
         NEW after, Turns(after, n, data), Starts(after[0])
  PROVE  /\ IsContext(after[2 + u])
         /\ Dead(after[2 + u]) \/ InUrl(after[2 + u], url, method, u)
<1>1. /\ 1 \in 1 .. n /\ 2 \in 1 .. n /\ 3 \in 1 .. n
      /\ 1 - 1 = 0 /\ 2 - 1 = 1 /\ 3 - 1 = 2
  OBVIOUS
<1>12. data \in Seq(Words) /\ Len(data) = n
  BY DEF HasUrl
<1>13. \A i \in 1 .. n : after[i] = Turn(after[i - 1], data, i)
  BY DEF Turns
<1>2. after[1] = Turn(after[0], data, 1)
  BY <1>1, <1>13, Zenon
<1>3. after[2] = Turn(after[1], data, 2)
  BY <1>1, <1>13, Zenon
<1>4. after[3] = Turn(after[2], data, 3)
  BY <1>1, <1>13, Zenon
<1> DEFINE x0 == after[0]
           x1 == after[1]
           x2 == after[2]
           x3 == after[3]
<1> HIDE DEF x0, x1, x2, x3
<1>5. IsContext(x0) /\ x0.state = "START" /\ x0.word = <<>> /\ x1 = Turn(x0, data, 1)
  BY <1>2 DEF x0, x1, Starts
<1>6. IsContext(x1) /\ (Dead(x1) \/ (x1.state = "METHOD" /\ x1.word = <<method>>))
  <2>1. data[1] = method /\ method \notin H!White
    BY DEF HasUrl
  <2>2. 1 \in 1 .. Len(data)
    BY <1>1, <1>12
  <2> QED
    BY <1>12, <1>5, <2>1, <2>2, MethodStarts, TurnIs
<1>7. /\ IsContext(x2)
      /\ \/ Dead(x2)
         \/ x2.state = "BEFORE_URL" /\ x2.word = <<>> /\ x2.request.method = <<method>>
  <2>1. x2 = Turn(x1, data, 2) /\ 2 \in 1 .. Len(data) /\ data[2] = " "
    BY <1>1, <1>12, <1>3 DEF x1, x2, HasUrl
  <2>2. IsContext(x2)
    BY <1>12, <1>6, <2>1, TurnIs
  <2>3. CASE Dead(x1)
    BY <1>12, <1>6, <2>1, <2>2, <2>3, DeadStaysDead
  <2>4. CASE x1.state = "METHOD" /\ x1.word = <<method>>
    BY <1>12, <1>6, <2>1, <2>2, <2>4, MethodEnds
  <2> QED
    BY <1>6, <2>3, <2>4
<1> DEFINE S == {k \in Nat : /\ IsContext(after[2 + k])
                             /\ Dead(after[2 + k]) \/ InUrl(after[2 + k], url, method, k)}
<1>8. 1 \in S
  <2>1. x3 = Turn(x2, data, 3) /\ 3 \in 1 .. Len(data)
    BY <1>1, <1>12, <1>4 DEF x2, x3
  <2>2. data[3] = "/"
    <3>1. 1 \in 1 .. u /\ 2 + 1 = 3
      OBVIOUS
    <3>2. data[2 + 1] = url[1] /\ url[1] = "/"
      BY <3>1 DEF HasUrl, IsUrl
    <3> QED
      BY <3>1, <3>2
  <2>3. SubSeq(url, 1, 1) = <<"/">>
    BY FirstOfUrl
  <2>4. IsContext(x3)
    BY <1>12, <1>7, <2>1, TurnIs
  <2>5. CASE Dead(x2)
    <3>1. Dead(x3)
      BY <1>12, <1>7, <2>1, <2>5, DeadStaysDead
    <3>2. 2 + 1 = 3
      OBVIOUS
    <3> QED
      BY <2>4, <3>1, <3>2 DEF x3
  <2>6. CASE ~Dead(x2)
    <3>1. x3.state = "IN_URL" /\ x3.word = <<"/">> /\ x3.request.method = x2.request.method
      BY <1>12, <1>7, <2>1, <2>2, <2>6, UrlStarts
    <3>2. InUrl(x3, url, method, 1)
      BY <1>7, <2>3, <2>6, <3>1, Zenon DEF InUrl
    <3>3. 2 + 1 = 3
      OBVIOUS
    <3> QED
      BY <2>4, <3>2, <3>3 DEF x3
  <2> QED
    BY <2>5, <2>6
<1>9. ASSUME NEW k \in 1 + 1 .. u, k - 1 \in S PROVE k \in S
  <2>1. /\ k \in 1 .. u /\ 2 + k \in 1 .. n /\ (2 + k) - 1 = 2 + (k - 1) /\ k \in Nat
        /\ k - 1 \in Nat /\ k - 1 + 1 = k
    OBVIOUS
  <2> DEFINE y == after[2 + (k - 1)]
             z == after[2 + k]
  <2>2. z = Turn(y, data, 2 + k)
    <3>1. z = Turn(after[(2 + k) - 1], data, 2 + k)
      BY <1>13, <2>1, Zenon
    <3> QED
      BY <2>1, <3>1, Zenon
  <2>3. IsContext(y) /\ (Dead(y) \/ InUrl(y, url, method, k - 1))
    BY <1>9
  <2>4. data[2 + k] = url[k] /\ data[2 + k] \notin {" ", "?"} /\ 2 + k \in 1 .. Len(data)
    <3>1. data[2 + k] = url[k]
      BY <2>1 DEF HasUrl
    <3>2. url[k] \notin {" ", "?"}
      BY <2>1 DEF IsUrl
    <3> QED
      BY <1>12, <2>1, <3>1, <3>2
  <2>5. Append(SubSeq(url, 1, k - 1), url[k]) = SubSeq(url, 1, k)
    BY <2>1, UrlGrows
  <2> HIDE DEF y, z
  <2>6. IsContext(z)
    BY <1>12, <2>2, <2>3, <2>4, TurnIs
  <2>7. Dead(y) => Dead(z)
    BY <1>12, <2>2, <2>3, <2>4, DeadStaysDead
  <2>8. ASSUME InUrl(y, url, method, k - 1) PROVE InUrl(z, url, method, k)
    <3>1. /\ y.state = "IN_URL" /\ y.word = SubSeq(url, 1, k - 1)
          /\ y.request.method = <<method>>
      BY <2>8 DEF InUrl
    <3>2. /\ z.state = "IN_URL" /\ z.word = Append(y.word, data[2 + k])
          /\ z.request.method = y.request.method
      BY <1>12, <2>2, <2>3, <2>4, <3>1, UrlGoesOn
    <3> QED
      BY <2>4, <2>5, <3>1, <3>2, Zenon DEF InUrl
  <2> QED
    BY <2>1, <2>3, <2>6, <2>7, <2>8 DEF z
<1> HIDE DEF S
<1>10. u \in 1 .. u /\ 1 \in Nat
  OBVIOUS
<1>11. \A k \in 1 .. u : k \in S
  BY <1>8, <1>9, <1>10, CountsUp
<1> QED
  BY <1>10, <1>11 DEF S

LEMMA WholeUrl == \A s \in Seq(Words) : SubSeq(s, 1, Len(s)) = s
<1> SUFFICES ASSUME NEW s \in Seq(Words) PROVE SubSeq(s, 1, Len(s)) = s
  OBVIOUS
<1> DEFINE t == SubSeq(s, 1, Len(s))
<1>1. t \in Seq(Words) /\ Len(t) = Len(s) /\ \A i \in 1 .. Len(s) : t[i] = s[i]
  OBVIOUS
<1> HIDE DEF t
<1>2. t = s
  BY <1>1, SeqEqual
<1> QED
  BY <1>2 DEF t

LEMMA UrlIsRead ==
  ASSUME NEW r \in Requests, NEW data \in Seq(Words), StartsLike(data, r),
         NEW x, IsContext(x), x.state = "START",
         NEW after, Parses(after, Len(data), x, data)
  PROVE  LET y == after[2 + Len(r.url)]
         IN  IsContext(y) /\ (Dead(y) \/ AtEnd(y, r, 0))
<1> DEFINE n == Len(data)
           u == Len(r.url)
           m == Len(r.params)
           y == after[2 + u]
<1>1. r.url \in Seq(Words) /\ u \in Nat /\ u >= 1 /\ m \in Nat /\ IsUrl(r.url, u)
  BY UrlOf DEF IsUrl
<1>2. n \in Nat
  OBVIOUS
<1>3. 2 + u + 1 <= n
  BY <1>1, <1>2, StartOf
<1>4. after[0] = Fresh(x) /\ Turns(after, n, data)
  BY <1>2 DEF Parses, Turns
<1>5. HasUrl(data, n, r.method, r.url, u)
  BY UrlOf DEF StartsLike, HasUrl
<1>6. Starts(after[0])
  <2>1. IsCtx(Fresh(x), x.state, x.request, H!None, 1) /\ IsContext(Fresh(x))
    BY FreshIs, CtxIsCtx
  <2> QED
    BY <1>4, <2>1 DEF IsCtx, H!None, Starts
<1> HIDE DEF n, u
<1>8. IsContext(y) /\ (Dead(y) \/ InUrl(y, r.url, r.method, u))
  BY <1>1, <1>2, <1>3, <1>4, <1>5, <1>6, UrlTurns
<1> HIDE DEF y
<1>9. ASSUME InUrl(y, r.url, r.method, u) PROVE AtEnd(y, r, 0)
  <2>1. y.state = "IN_URL" /\ y.word = SubSeq(r.url, 1, u) /\ y.request.method = <<r.method>>
    BY <1>9 DEF InUrl
  <2>2. SubSeq(r.url, 1, u) = r.url
    BY <1>1, WholeUrl DEF u
  <2> DEFINE q == H!Store(y, y.state, <<>>)
  <2>5. q.method = y.request.method /\ q.url = y.word
    BY <1>8, <2>1, UrlIsStored
  <2>3. q.method = <<r.method>> /\ q.url = r.url
    BY <2>1, <2>2, <2>5, Zenon
  <2> HIDE DEF q
  <2>4. IsAboutFirst(q, r, 0)
    BY <2>3 DEF IsAboutFirst
  <2> QED
    BY <2>1, <2>4 DEF AtEnd, q
<1> QED
  BY <1>8, <1>9 DEF y, u

LEMMA ParametersAreRead ==
  ASSUME NEW r \in Requests, NEW data \in Seq(Words), StartsLike(data, r),
         NEW x, IsContext(x), x.state = "START",
         NEW after, Parses(after, Len(data), x, data)
  PROVE  LET y == after[Targets(r)]
         IN  IsContext(y) /\ (Dead(y) \/ AtEnd(y, r, Len(r.params)))
<1> DEFINE n == Len(data)
           u == Len(r.url)
           m == Len(r.params)
           At(j) == 2 + u + 4 * j
           S == {j \in Nat : /\ IsContext(after[At(j)])
                             /\ Dead(after[At(j)]) \/ AtEnd(after[At(j)], r, j)}
<1>8. u \in Nat /\ m \in Nat /\ n \in Nat
  <2>1. n \in Nat
    OBVIOUS
  <2> QED
    BY <2>1, UrlOf
<1>1. u \in Nat /\ m \in Nat /\ n \in Nat /\ 2 + u + 4 * m + 1 <= n /\ Targets(r) = At(m)
  BY <1>8, StartOf
<1>2. \A i \in 1 .. n : after[i] = Turn(after[i - 1], data, i)
  BY <1>1 DEF Parses
<1>3. 0 \in S
  <2>1. At(0) = 2 + u
    BY <1>1
  <2> HIDE DEF At
  <2> QED
    BY <2>1, UrlIsRead
<1>9. \A j \in 1 .. m :
        LET k == 2 + u + 4 * (j - 1)
        IN  /\ data[k + 1] = Mark(j) /\ data[k + 2] = r.params[j][1]
            /\ data[k + 3] = "=" /\ data[k + 4] = r.params[j][2]
  BY DEF StartsLike
<1>10. Len(data) = n /\ Len(r.params) = m
  OBVIOUS
<1> HIDE DEF u, m, n
<1>4. ASSUME NEW j \in 0 + 1 .. m, j - 1 \in S PROVE j \in S
  <2> DEFINE k == At(j - 1)
             x0 == after[k]
             x4 == after[k + 4]
  <2>1. /\ j \in 1 .. m /\ j \in Nat /\ k \in Nat /\ k + 4 = At(j) /\ k + 4 <= n
        /\ k = 2 + u + 4 * (j - 1)
    BY <1>1
  <2>2. IsContext(x0) /\ (Dead(x0) \/ AtEnd(x0, r, j - 1))
    BY <1>4
  <2>3. ParamAt(data, k, r, j)
    BY <1>9, <2>1 DEF ParamAt
  <2> HIDE DEF k
  <2>4. /\ k + 1 \in 1 .. n /\ k + 2 \in 1 .. n /\ k + 3 \in 1 .. n /\ k + 4 \in 1 .. n
        /\ (k + 1) - 1 = k /\ (k + 2) - 1 = k + 1
        /\ (k + 3) - 1 = k + 2 /\ (k + 4) - 1 = k + 3
    BY <1>1, <2>1
  <2> DEFINE x1 == Turn(x0, data, k + 1)
             x2 == Turn(x1, data, k + 2)
             x3 == Turn(x2, data, k + 3)
  <2>5. x4 = Turn(x3, data, k + 4)
    <3>1. /\ after[k + 1] = Turn(after[(k + 1) - 1], data, k + 1)
          /\ after[k + 2] = Turn(after[(k + 2) - 1], data, k + 2)
          /\ after[k + 3] = Turn(after[(k + 3) - 1], data, k + 3)
          /\ after[k + 4] = Turn(after[(k + 4) - 1], data, k + 4)
      BY <1>2, <2>4, Zenon
    <3>2. /\ after[k + 1] = Turn(after[k], data, k + 1)
          /\ after[k + 2] = Turn(after[k + 1], data, k + 2)
          /\ after[k + 3] = Turn(after[k + 2], data, k + 3)
          /\ after[k + 4] = Turn(after[k + 3], data, k + 4)
      BY <2>4, <3>1, Zenon
    <3> QED
      BY <3>2, Zenon
  <2>6. CASE Dead(x0)
    <3>1. IsContext(x1) /\ Dead(x1)
      BY <1>10, <2>2, <2>4, <2>6, DeadStaysDead
    <3>2. IsContext(x2) /\ Dead(x2)
      BY <1>10, <2>4, <3>1, DeadStaysDead
    <3>3. IsContext(x3) /\ Dead(x3)
      BY <1>10, <2>4, <3>2, DeadStaysDead
    <3>4. IsContext(x4) /\ Dead(x4)
      BY <1>10, <2>4, <2>5, <3>3, DeadStaysDead
    <3> QED
      BY <2>1, <3>4
  <2>7. CASE AtEnd(x0, r, j - 1)
    <3> HIDE DEF x0, x4
    <3>2. x4 = FourTurns(x0, data, k)
      BY <2>5 DEF FourTurns
    <3> HIDE DEF x1, x2, x3
    <3>1. IsContext(x4) /\ (Dead(x4) \/ AtEnd(x4, r, j))
      BY <1>10, <2>1, <2>2, <2>3, <2>7, <3>2, ParameterIsRead
    <3> QED
      BY <2>1, <3>1 DEF x4
  <2> QED
    BY <2>2, <2>6, <2>7
<1> HIDE DEF S
<1>5. m \in S
  <2>1. m \in 0 .. m /\ 0 \in Nat
    BY <1>1
  <2>2. \A j \in 0 .. m : j \in S
    BY <1>1, <1>3, <1>4, <2>1, CountsUp
  <2> QED
    BY <2>1, <2>2
<1> HIDE DEF At
<1> QED
  BY <1>1, <1>5 DEF S, m

LEMMA ParsedIsAbout ==
  ASSUME NEW r \in Requests, NEW data \in Seq(Words), StartsLike(data, r),
         NEW x, IsContext(x), x.state = "START",
         H!IsCompleteRequest(H!ParaseRequest(x, data))
  PROVE  IsAbout(H!ParaseRequest(x, data).request, r)
<1> DEFINE n == Len(data)
           after == CHOOSE f : Parses(f, n, x, data)
           e == Targets(r)
           m == Len(r.params)
<1>1. H!ParaseRequest(x, data) = after[n]
  BY DEF H!ParaseRequest, Parses, Turn, Fresh
<1>2. n \in Nat /\ m \in Nat /\ e \in Nat /\ e >= 2 /\ e + 1 <= n
  <2> DEFINE u == Len(r.url)
  <2>1. n \in Nat
    OBVIOUS
  <2>2. u \in Nat /\ m \in Nat
    BY UrlOf
  <2>3. e = 2 + u + 4 * m /\ 2 + u + 4 * m + 1 <= n
    BY <2>1, <2>2, StartOf
  <2> HIDE DEF e, m, n, u
  <2>4. \A a, b, c \in Nat : 2 + a + 4 * b \in Nat /\ 2 + a + 4 * b >= 2
    OBVIOUS
  <2> QED
    BY <2>1, <2>2, <2>3, <2>4
<1>11. data[e + 1] = " "
  BY DEF StartsLike
<1>3. Parses(after, n, x, data)
  BY <1>2, ParsesExists
<1> HIDE DEF after
<1>4. \A i \in 1 .. n : after[i] = Turn(after[i - 1], data, i)
  BY <1>2, <1>3 DEF Parses
<1>5. IsContext(after[e]) /\ (Dead(after[e]) \/ AtEnd(after[e], r, m))
  BY <1>3, ParametersAreRead
<1> HIDE DEF e
<1> DEFINE Kept(y) == y.state \notin Early /\ IsAboutFirst(y.request, r, m)
           S == {i \in Nat : IsContext(after[i]) /\ (Dead(after[i]) \/ Kept(after[i]))}
<1>6. e + 1 \in S
  <2> DEFINE y == after[e]
             z == after[e + 1]
  <2>1. e + 1 \in 1 .. n /\ z = Turn(y, data, e + 1) /\ data[e + 1] = " " /\ e + 1 \in Nat
    <3>1. e + 1 \in 1 .. n /\ (e + 1) - 1 = e /\ e + 1 \in Nat
      <4> HIDE DEF n
      <4> QED
        BY <1>2
    <3>2. after[e + 1] = Turn(after[(e + 1) - 1], data, e + 1)
      BY <1>4, <3>1
    <3> QED
      BY <1>11, <3>1, <3>2, Zenon
  <2>2. IsContext(y) /\ (Dead(y) \/ AtEnd(y, r, m))
    BY <1>5
  <2> HIDE DEF y, z
  <2>3. IsContext(z)
    BY <2>1, <2>2, TurnIs
  <2>4. Dead(y) => Dead(z)
    BY <2>1, <2>2, DeadStaysDead
  <2>5. ASSUME AtEnd(y, r, m) PROVE Kept(z)
    <3>1. /\ y.state \in {"IN_URL", "URL_PARAM_VALUE"}
          /\ IsAboutFirst(H!Store(y, y.state, <<>>), r, m)
      BY <2>5 DEF AtEnd
    <3>2. z.state = "BEFORE_PROTOCOL" /\ z.request = H!Store(y, y.state, <<>>)
      BY <2>1, <2>2, <3>1, TargetPartEnds
    <3> QED
      BY <3>1, <3>2 DEF Early
  <2> HIDE DEF Kept
  <2> QED
    BY <2>1, <2>2, <2>3, <2>4, <2>5 DEF z
<1>7. ASSUME NEW i \in e + 1 + 1 .. n, i - 1 \in S PROVE i \in S
  <2> DEFINE y == after[i - 1]
             z == after[i]
  <2>1. i \in 1 .. n /\ i \in Nat /\ z = Turn(y, data, i)
    <3>1. i \in 1 .. n /\ i \in Nat
      BY <1>2
    <3> QED
      BY <1>4, <3>1
  <2>2. IsContext(y) /\ (Dead(y) \/ Kept(y))
    BY <1>7
  <2> HIDE DEF y, z
  <2>3. IsContext(z)
    BY <2>1, <2>2, TurnIs
  <2>4. Dead(y) => Dead(z)
    BY <2>1, <2>2, DeadStaysDead
  <2>5. Kept(y) => Kept(z)
    BY <2>1, <2>2, TargetIsKept DEF IsAboutFirst
  <2> HIDE DEF Kept
  <2> QED
    BY <2>1, <2>2, <2>3, <2>4, <2>5 DEF z
<1> HIDE DEF S
<1>8. n \in S
  <2>1. n \in e + 1 .. n /\ e + 1 \in Nat
    BY <1>2
  <2>2. \A i \in e + 1 .. n : i \in S
    BY <1>2, <1>6, <1>7, <2>1, CountsUp
  <2> QED
    BY <2>1, <2>2
<1>9. ~Dead(after[n])
  BY <1>1 DEF H!IsCompleteRequest, Dead, H!Invalid
<1>10. IsAboutFirst(after[n].request, r, m)
  BY <1>8, <1>9 DEF S
<1> QED
  BY <1>1, <1>10 DEF IsAboutFirst, IsAbout
-----------------------------------------------------------------------------
(* The answers.                                                            *)
LEMMA AppendIsSequence ==
  ASSUME NEW s, IsSequence(s), NEW e
  PROVE  /\ IsSequence(Append(s, e)) /\ Len(Append(s, e)) = Len(s) + 1
         /\ Len(s) \in Nat /\ Append(s, e) # <<>> /\ Last(Append(s, e)) = e
         /\ Append(s, e)[Len(s) + 1] = e
         /\ \A i \in 1 .. Len(s) : Append(s, e)[i] = s[i]
<1> DEFINE S == {s[i] : i \in DOMAIN s}
           T == S \cup {e}
           t == Append(s, e)
<1>1. s \in Seq(T)
  <2>1. s \in Seq(S)
    BY DEF IsSequence
  <2> HIDE DEF S
  <2>2. Len(s) \in Nat /\ s \in [1 .. Len(s) -> S]
    BY <2>1
  <2>3. s \in [1 .. Len(s) -> T]
    BY <2>2
  <2> HIDE DEF T
  <2> QED
    BY <2>2, <2>3, SeqDef
<1> HIDE DEF T
<1>2. e \in T
  BY DEF T
<1>3. /\ t \in Seq(T) /\ Len(t) = Len(s) + 1 /\ t[Len(s) + 1] = e /\ Len(s) \in Nat
      /\ \A i \in 1 .. Len(s) : t[i] = s[i]
  BY <1>1, <1>2
<1> HIDE DEF t
<1>4. t # <<>> /\ Last(t) = e
  BY <1>3 DEF Last
<1>5. IsSequence(t)
  <2> DEFINE U == {t[i] : i \in DOMAIN t}
  <2>1. Len(t) \in Nat /\ DOMAIN t = 1 .. Len(t) /\ t = [i \in 1 .. Len(t) |-> t[i]]
    BY <1>3
  <2>2. \A i \in 1 .. Len(t) : t[i] \in U
    BY <2>1
  <2> HIDE DEF U
  <2>3. t \in [1 .. Len(t) -> U]
    BY <2>1, <2>2
  <2>4. t \in Seq(U)
    BY <2>1, <2>3, SeqDef
  <2> QED
    BY <2>4 DEF IsSequence, U
<1> QED
  BY <1>3, <1>4, <1>5 DEF t

LEMMA AnswersOfCallback ==
  ASSUME NEW request
  PROVE  Answer(request).close \in BOOLEAN /\ Answer(request).status # 400
<1>1. HttpResponseCallBack(request).status \in {0, 200, 404}
  BY DEF HttpResponseCallBack, kUnknown
<1>2. /\ Answer(request).status = HttpResponseCallBack(request).status
      /\ Answer(request).close \in BOOLEAN
  BY DEF Answer
<1> QED
  BY <1>1, <1>2

LEMMA BadRequestCloses == BadRequest.close = TRUE /\ BadRequest.status = 400
BY DEF BadRequest

(* The outcomes of a read event: 400 and the end of the connection, an     *)
(* exception, or the answer to a request whose head the data holds.        *)
Refuses ==
  /\ answers' = Append(answers, BadRequest)
  /\ state_' = "Disconnected" /\ ended' = ended
EndsProcess == ended' = TRUE /\ answers' = answers /\ state_' = state_
Replies(data, request) ==
  /\ \E j \in 1 .. Len(data) : EmptyLineAt(data, j)
  /\ answers' = Append(answers, Answer(request))
  /\ state_' = IF Answer(request).close THEN "Disconnected" ELSE state_
  /\ context'.state = "START" /\ ended' = ended
  /\ \A r \in Requests : StartsLike(data, r) => IsAbout(request, r)

LEMMA OutcomesOfHandleMessage ==
  ASSUME NEW data \in Seq(Words), IsContext(context), context.state = "START",
         HandleMessage(data)
  PROVE  /\ IsContext(context')
         /\ Refuses \/ EndsProcess \/ \E request : Replies(data, request)
<1> DEFINE x == H!ParaseRequest(context, data)
<1>1. /\ IsContext(x)
      /\ H!IsCompleteRequest(x) => \E j \in 1 .. Len(data) : EmptyLineAt(data, j)
  BY CompleteSawEmptyLine
<1>2. Parsed(context, data) = x
  BY DEF Parsed
<1>6. H!IsCompleteRequest(x) =>
        \A r \in Requests : StartsLike(data, r) => IsAbout(x.request, r)
  BY ParsedIsAbout
<1> HIDE DEF x
<1>3. CASE ~H!IsCompleteRequest(x)
  <2>1. context' = x /\ Refuses
    BY <1>2, <1>3 DEF HandleMessage, Refuses
  <2> QED
    BY <1>1, <2>1
<1>4. CASE H!IsCompleteRequest(x) /\ Throws(x.request)
  <2>1. context' = x /\ EndsProcess
    BY <1>2, <1>4 DEF HandleMessage, EndsProcess
  <2> QED
    BY <1>1, <2>1
<1>5. CASE H!IsCompleteRequest(x) /\ ~Throws(x.request)
  <2>1. /\ answers' = Append(answers, Answer(x.request))
        /\ state_' = IF Answer(x.request).close THEN "Disconnected" ELSE state_
        /\ context' = H!ResetContextStatus(x) /\ ended' = ended
    BY <1>2, <1>5 DEF HandleMessage
  <2>2. IsContext(H!ResetContextStatus(x)) /\ H!ResetContextStatus(x).state = "START"
    <3>1. x = [state |-> x.state, request |-> x.request, word |-> x.word, colon |-> x.colon]
      BY <1>1 DEF IsContext
    <3>2. [x EXCEPT !.state = "START"]
            = [state |-> "START", request |-> x.request, word |-> x.word, colon |-> x.colon]
      BY <3>1
    <3> DEFINE y == H!ResetContextStatus(x)
    <3>3. y = Ctx("START", x.request, x.word, x.colon)
      BY <3>2 DEF H!ResetContextStatus, Ctx
    <3>4. IsCtx(y, "START", x.request, x.word, x.colon)
      BY <3>3, CtxIsCtx, Zenon
    <3>5. IsRequest(x.request)
      BY <1>1 DEF IsContext
    <3> HIDE DEF y
    <3>6. IsContext(y) /\ y.state = "START"
      BY <3>3, <3>4, <3>5 DEF IsContext, IsCtx, Ctx
    <3> QED
      BY <3>6 DEF y
  <2>3. Replies(data, x.request)
    BY <1>1, <1>5, <1>6, <2>1, <2>2 DEF Replies
  <2> QED
    BY <2>1, <2>2, <2>3
<1> QED
  BY <1>3, <1>4, <1>5

(* A read event as the invariant sees it.                                  *)
ReadOf(n) ==
  LET data == SubSeq(wire, 1, n)
  IN  /\ data \in Seq(Words) /\ B!PeekAllAsString(read_buffer_') = data
      /\ data \o wire' = wire /\ wire' = SubSeq(wire, n + 1, Len(wire))
      /\ sent' = sent
      /\ state_ = "Connected" /\ ended = FALSE
      /\ IsContext(context')
      /\ Refuses \/ EndsProcess \/ \E request : Replies(data, request)

LEMMA ReadEventReads ==
  ASSUME IInv, ReadEvent
  PROVE  BufferIsSound' /\ \E n \in 1 .. Len(wire) : ReadOf(n)
<1>1. PICK n \in 1 .. Len(wire) : Read(n)
  BY DEF ReadEvent
<1> DEFINE data == SubSeq(wire, 1, n)
           a == read_buffer_.buffer_
           w == read_buffer_.write_index_
<1>2. wire \in Seq(Words)
  BY DEF IInv
<1>3. data \in Seq(Words) /\ data \o SubSeq(wire, n + 1, Len(wire)) = wire
  BY <1>2, CutInTwo
<1>4. read_buffer_ = Buf(a, w) /\ a \in Seq(Bytes) /\ kPrePendIndex <= Len(a)
  <2>1. Len(a) \in Nat /\ w \in Nat /\ kPrePendIndex <= w /\ w <= Len(a) /\ kPrePendIndex \in Nat
    BY BufferAssumption DEF IInv, BufferIsSound
  <2>2. kPrePendIndex <= Len(a)
    BY <2>1
  <2> QED
    BY <2>2 DEF IInv, BufferIsSound, Buf, Bytes
<1> HIDE DEF data
<1>5. PICK c \in Seq(Bytes) :
        /\ B!AppendBytes(B!RetrieveAll(Buf(a, w)), data) = Buf(c, kPrePendIndex + Len(data))
        /\ kPrePendIndex + Len(data) <= Len(c)
        /\ B!PeekAllAsString(Buf(c, kPrePendIndex + Len(data))) = data
  BY <1>3, <1>4, BufferShowsData
<1>6. read_buffer_' = Buf(c, kPrePendIndex + Len(data))
  BY <1>1, <1>4, <1>5 DEF Read, data
<1>7. BufferIsSound'
  <2>1. Len(data) \in Nat /\ kPrePendIndex \in Nat
    BY <1>3, BufferAssumption
  <2>2. kPrePendIndex + Len(data) \in Nat /\ kPrePendIndex <= kPrePendIndex + Len(data)
    BY <2>1
  <2>3. /\ read_buffer_'.buffer_ = c
        /\ read_buffer_'.write_index_ = kPrePendIndex + Len(data)
    BY <1>6, BufFields
  <2>4. read_buffer_' = [buffer_ |-> read_buffer_'.buffer_, read_index_ |-> kPrePendIndex,
                         write_index_ |-> read_buffer_'.write_index_]
    BY <1>6, <2>3 DEF Buf
  <2> QED
    BY <1>5, <2>2, <2>3, <2>4 DEF BufferIsSound, Bytes
<1>8. HandleMessage(data)
  BY <1>1, <1>4, <1>5 DEF Read, data
<1>9. state_ = "Connected" /\ ended = FALSE /\ context.state = "START" /\ IsContext(context)
  BY <1>1 DEF Read, IInv
<1>10. wire' = SubSeq(wire, n + 1, Len(wire)) /\ sent' = sent
  BY <1>1 DEF Read
<1>11. /\ IsContext(context')
       /\ Refuses \/ EndsProcess \/ \E request : Replies(data, request)
  BY <1>3, <1>8, <1>9, OutcomesOfHandleMessage
<1>12. ReadOf(n)
  BY <1>3, <1>5, <1>6, <1>9, <1>10, <1>11 DEF ReadOf, data
<1> QED
  BY <1>7, <1>12
-----------------------------------------------------------------------------
(* An empty line of the first part is an empty line of the whole.          *)
LEMMA EmptyLineOfFirst ==
  ASSUME NEW s \in Seq(Words), NEW n \in 1 .. Len(s), NEW j \in Nat,
         EmptyLineAt(SubSeq(s, 1, n), j)
  PROVE  EmptyLineAt(s, j) /\ j \in 1 .. Len(s) /\ j + 3 <= n
<1> DEFINE first == SubSeq(s, 1, n)
<1>1. Len(first) = n /\ \A i \in 1 .. n : first[i] = s[i]
  BY CutInTwo
<1> HIDE DEF first
<1>2. /\ j >= 1 /\ j + 3 <= n
      /\ first[j] = "CR" /\ first[j + 1] = "LF"
      /\ first[j + 2] = "CR" /\ first[j + 3] = "LF"
  BY <1>1 DEF EmptyLineAt, first
<1>3. /\ j \in 1 .. n /\ j + 1 \in 1 .. n /\ j + 2 \in 1 .. n /\ j + 3 \in 1 .. n
      /\ j + 3 <= Len(s) /\ j \in 1 .. Len(s)
  BY <1>2
<1> QED
  BY <1>1, <1>2, <1>3 DEF EmptyLineAt

(* A read that gives a reply, when it begins a request, holds all of its   *)
(* head; what stays behind it is some of the body.                         *)
LEMMA RepliesToTheHead ==
  ASSUME IInv, NEW n \in 1 .. Len(wire), ReadOf(n), NEW request,
         Replies(SubSeq(wire, 1, n), request)
  PROVE  /\ sent # <<>> /\ Last(sent) \in Requests
         /\ ~InBody => wire = Format(Last(sent)) /\ Len(HeadText(Last(sent))) <= n
         /\ Len(wire') <= Len(Last(sent).body)
<1> DEFINE data == SubSeq(wire, 1, n)
           r == Last(sent)
           head == HeadText(r)
           body == r.body
           m == Len(head)
<1>1. /\ wire \in Seq(Words) /\ sent \in Seq(Requests) /\ RestIsBody
      /\ Len(wire) \in Nat /\ n \in Nat
  BY DEF IInv, ReadOf
<1>2. wire # <<>>
  BY <1>1
<1>3. sent # <<>> /\ (wire = Format(r) \/ InBody)
  BY <1>1, <1>2 DEF RestIsBody
<1>4. r \in Requests
  BY <1>1, <1>3 DEF Last
<1>5. head \in Seq(Words) /\ body \in Seq(Words) /\ m \in Nat /\ Len(body) \in Nat
  <2>1. body \in Seq(Words)
    BY <1>4, RequestsAssumption
  <2>2. head \in Seq(Words)
    BY <1>4, HeadStarts
  <2> HIDE DEF head, body
  <2> QED
    BY <2>1, <2>2
<1>6. Len(wire') = Len(wire) - n
  <2>1. wire' = SubSeq(wire, n + 1, Len(wire))
    BY DEF ReadOf
  <2> QED
    BY <1>1, <2>1, CutInTwo
<1>7. CASE InBody
  <2>1. Len(wire) <= Len(body)
    BY <1>7 DEF InBody
  <2> HIDE DEF r, head, body
  <2>2. Len(wire') <= Len(body)
    BY <1>1, <1>5, <1>6, <2>1
  <2> QED
    BY <1>3, <1>4, <1>7, <2>2 DEF r, body
<1>8. CASE ~InBody
  <2>1. wire = head \o body
    BY <1>3, <1>8 DEF Format
  <2>2. IsJoined(head \o body, head, body)
    BY <1>5, Joined
  <2>3. /\ Len(wire) = m + Len(body)
        /\ \A j \in 1 .. m : wire[j] = head[j]
    BY <2>1, <2>2 DEF IsJoined
  <2>4. PICK i \in 1 .. Len(data) : EmptyLineAt(data, i)
    BY DEF Replies
  <2>5. i \in Nat
    OBVIOUS
  <2>6. EmptyLineAt(wire, i) /\ i + 3 <= n
    BY <1>1, <2>4, <2>5, EmptyLineOfFirst
  <2>7. \A j \in 1 .. m : EmptyLineAt(head, j) => j + 3 = m
    BY <1>4, RequestsAssumption
  <2> HIDE DEF data, r, head, body, m
  <2>8. m <= n
    <3>1. SUFFICES ASSUME n < m PROVE FALSE
      BY <1>1, <1>5
    <3>2. /\ i \in 1 .. m /\ i + 1 \in 1 .. m /\ i + 2 \in 1 .. m /\ i + 3 \in 1 .. m
          /\ i >= 1 /\ i + 3 <= m /\ i + 3 # m
      BY <1>1, <1>5, <2>5, <2>6, <3>1 DEF EmptyLineAt
    <3>3. /\ head[i] = "CR" /\ head[i + 1] = "LF"
          /\ head[i + 2] = "CR" /\ head[i + 3] = "LF"
      BY <2>3, <2>6, <3>2 DEF EmptyLineAt
    <3>4. EmptyLineAt(head, i)
      BY <3>2, <3>3 DEF EmptyLineAt, m
    <3> QED
      BY <2>7, <3>2, <3>4
  <2>9. Len(wire') <= Len(body)
    BY <1>1, <1>5, <1>6, <2>3, <2>8
  <2> QED
    BY <1>3, <1>4, <1>8, <2>8, <2>9 DEF r, head, body, m
<1> QED
  BY <1>7, <1>8

-----------------------------------------------------------------------------
(* The data of a reply to a read that begins a request begins with the     *)
(* head of that request.                                                   *)
LEMMA DataBeginsWithHead ==
  ASSUME IInv, NEW n \in 1 .. Len(wire), ReadOf(n), NEW request,
         Replies(SubSeq(wire, 1, n), request), ~InBody
  PROVE  LET head == HeadText(Last(sent))
             data == SubSeq(wire, 1, n)
         IN  /\ sent # <<>> /\ Last(sent) \in Requests
             /\ head \in Seq(Words) /\ data \in Seq(Words)
             /\ Len(data) = n /\ Len(head) <= n
             /\ \A j \in 1 .. Len(head) : data[j] = head[j]
<1> DEFINE head == HeadText(Last(sent))
           body == Last(sent).body
           m == Len(head)
           data == SubSeq(wire, 1, n)
<1>1. wire = head \o body /\ m <= n /\ sent # <<>>
  BY RepliesToTheHead DEF Format
<1>2. Last(sent) \in Requests
  BY RepliesToTheHead
<1>3. head \in Seq(Words) /\ body \in Seq(Words)
  <2>1. body \in Seq(Words)
    BY <1>2, RequestsAssumption
  <2> QED
    BY <1>2, <2>1, HeadStarts
<1>4. wire \in Seq(Words) /\ n \in Nat
  BY DEF IInv
<1>5. data \in Seq(Words) /\ Len(data) = n /\ \A j \in 1 .. n : data[j] = wire[j]
  BY <1>4, CutInTwo
<1> HIDE DEF head, body, data, m
<1>6. m \in Nat /\ m = Len(head)
  BY <1>3 DEF m
<1>7. \A j \in 1 .. m : wire[j] = head[j]
  <2>1. IsJoined(head \o body, head, body)
    BY <1>3, Joined
  <2> QED
    BY <1>1, <1>6, <2>1 DEF IsJoined
<1>8. \A j \in 1 .. m : j \in 1 .. n
  BY <1>1, <1>4, <1>6
<1>9. \A j \in 1 .. m : data[j] = head[j]
  BY <1>5, <1>7, <1>8, Zenon
<1> QED
  BY <1>1, <1>2, <1>3, <1>5, <1>6, <1>9 DEF head, data

LEMMA StartsLikeHead ==
  ASSUME NEW r \in Requests, NEW head \in Seq(Words), NEW data \in Seq(Words),
         StartsLike(head, r), Len(head) <= Len(data),
         \A j \in 1 .. Len(head) : data[j] = head[j]
  PROVE  StartsLike(data, r)
<1> DEFINE h == Len(head)
           n == Len(data)
           u == Len(r.url)
           m == Len(r.params)
           e == 2 + u + 4 * m
<1>1. h \in Nat /\ n \in Nat /\ h <= n
  OBVIOUS
<1>2. u \in Nat /\ m \in Nat
  BY UrlOf
<1>3. Targets(r) = e /\ e + 1 <= h
  BY DEF StartsLike, Targets
<1>4. /\ head[1] = r.method /\ head[2] = " "
      /\ \A i \in 1 .. u : head[2 + i] = r.url[i]
      /\ \A j \in 1 .. m :
           LET k == 2 + u + 4 * (j - 1)
           IN  /\ head[k + 1] = Mark(j) /\ head[k + 2] = r.params[j][1]
               /\ head[k + 3] = "=" /\ head[k + 4] = r.params[j][2]
      /\ head[e + 1] = " "
  BY <1>3 DEF StartsLike
<1>5. \A j \in 1 .. h : data[j] = head[j]
  OBVIOUS
<1> HIDE DEF h, n, u, m
<1>6. /\ e + 1 <= n /\ 1 \in 1 .. h /\ 2 \in 1 .. h /\ e + 1 \in 1 .. h
      /\ \A i \in 1 .. u : 2 + i \in 1 .. h
  BY <1>1, <1>2, <1>3
<1>7. ASSUME NEW j \in 1 .. m
      PROVE  LET k == 2 + u + 4 * (j - 1)
             IN  /\ data[k + 1] = Mark(j) /\ data[k + 2] = r.params[j][1]
                 /\ data[k + 3] = "=" /\ data[k + 4] = r.params[j][2]
  <2> DEFINE k == 2 + u + 4 * (j - 1)
  <2>1. k + 1 \in 1 .. h /\ k + 2 \in 1 .. h /\ k + 3 \in 1 .. h /\ k + 4 \in 1 .. h
    BY <1>1, <1>2, <1>3
  <2>2. /\ head[k + 1] = Mark(j) /\ head[k + 2] = r.params[j][1]
        /\ head[k + 3] = "=" /\ head[k + 4] = r.params[j][2]
    BY <1>4
  <2> HIDE DEF k
  <2>3. /\ data[k + 1] = Mark(j) /\ data[k + 2] = r.params[j][1]
        /\ data[k + 3] = "=" /\ data[k + 4] = r.params[j][2]
    BY <1>5, <2>1, <2>2
  <2> QED
    BY <2>3 DEF k
<1>8. /\ data[1] = r.method /\ data[2] = " " /\ data[e + 1] = " "
      /\ \A i \in 1 .. u : data[2 + i] = r.url[i]
  BY <1>4, <1>5, <1>6
<1> HIDE DEF e
<1> QED
  BY <1>3, <1>6, <1>7, <1>8 DEF StartsLike, n, u, m

-----------------------------------------------------------------------------
LEMMA InitIInv == Init => IInv
<1> SUFFICES ASSUME Init PROVE IInv
  OBVIOUS
<1>1. sent = <<>> /\ wire = <<>> /\ answers = <<>> /\ state_ = "Connected" /\ ended = FALSE
  BY DEF Init
<1>2. sent \in Seq(Requests) /\ wire \in Seq(Words)
  <2>1. <<>> \in Seq(Requests) /\ <<>> \in Seq(Words)
    OBVIOUS
  <2> QED
    BY <1>1, <2>1, Zenon
<1>3. IsSequence(answers)
  <2>1. <<>> \in Seq({<<>>[i] : i \in DOMAIN <<>>})
    OBVIOUS
  <2> QED
    BY <1>1, <2>1, Zenon DEF IsSequence
<1>4. Len(answers) = 0 /\ Len(sent) = 0 /\ Len(wire) = 0
  BY <1>1
<1>5. BufferIsSound
  <2> DEFINE a == [i \in 1 .. kInitalSize |-> AnyByte]
  <2>1. read_buffer_ = Buf(a, kPrePendIndex)
    BY DEF Init, B!NewBuffer, Buf
  <2>2. a \in Seq(Bytes) /\ Len(a) = kInitalSize
    <3>1. a \in [1 .. kInitalSize -> Bytes] /\ kInitalSize \in Nat
      BY BufferAssumption DEF Bytes
    <3> HIDE DEF a
    <3> QED
      BY <3>1, SeqDef
  <2> HIDE DEF a
  <2>3. read_buffer_.buffer_ = a /\ read_buffer_.write_index_ = kPrePendIndex
    BY <2>1, BufFields
  <2>4. read_buffer_ = [buffer_ |-> read_buffer_.buffer_, read_index_ |-> kPrePendIndex,
                        write_index_ |-> read_buffer_.write_index_]
    BY <2>1, <2>3 DEF Buf
  <2> QED
    BY <2>2, <2>3, <2>4, BufferAssumption DEF BufferIsSound, Bytes
<1>6. IsContext(context) /\ context.state = "START"
  BY DEF Init, H!NewContext, H!NewRequest, IsContext, IsRequest
<1>7. RestIsBody
  BY <1>1 DEF RestIsBody
<1>8. Len(sent) <= Len(answers) + 1
  BY <1>4
<1>9. state_ # "Disconnected" /\ state_ \in {"Connected", "Disconnected"} /\ ended \in BOOLEAN
  BY <1>1
<1> QED
  BY <1>1, <1>2, <1>3, <1>5, <1>6, <1>7, <1>8, <1>9, Zenon DEF IInv

LEMMA ClientSendsKeepsIInv ==
  ASSUME IInv, NEW r \in Requests, ClientSends(r)
  PROVE  IInv'
<1>1. /\ state_ = "Connected" /\ Len(answers) >= Len(sent)
      /\ sent' = Append(sent, r) /\ wire' = Format(r)
      /\ read_buffer_' = read_buffer_ /\ context' = context /\ state_' = state_
      /\ answers' = answers /\ ended' = ended
  BY DEF ClientSends
<1>2. /\ sent' \in Seq(Requests) /\ Len(sent') = Len(sent) + 1 /\ Last(sent') = r
      /\ Len(sent) \in Nat
  BY <1>1 DEF IInv, Last
<1>3. wire' \in Seq(Words)
  <2>1. HeadText(r) \in Seq(Words) /\ r.body \in Seq(Words)
    <3>1. r.body \in Seq(Words)
      BY RequestsAssumption
    <3> QED
      BY <3>1, HeadStarts
  <2>2. HeadText(r) \o r.body \in Seq(Words)
    BY <2>1, ConcatProperties
  <2> QED
    BY <1>1, <2>2 DEF Format
<1>4. BufferIsSound' /\ IsContext(context') /\ IsSequence(answers')
  BY <1>1 DEF IInv, BufferIsSound
<1>5. sent' # <<>>
  BY <1>2
<1>6. RestIsBody'
  BY <1>1, <1>2, <1>5 DEF RestIsBody
<1>7. Len(sent') <= Len(answers') + 1
  <2>1. Len(answers) \in Nat
    BY AppendIsSequence DEF IInv
  <2> QED
    BY <1>1, <1>2, <2>1
<1> QED
  BY <1>1, <1>2, <1>3, <1>4, <1>6, <1>7 DEF IInv

LEMMA ReadEventKeepsIInv ==
  ASSUME IInv, ReadEvent
  PROVE  IInv'
<1>1. PICK n \in 1 .. Len(wire) : ReadOf(n)
  BY ReadEventReads
<1>2. BufferIsSound'
  BY ReadEventReads
<1>3. sent' = sent /\ sent \in Seq(Requests) /\ Len(sent) \in Nat
  BY <1>1 DEF ReadOf, IInv
<1>4. wire' \in Seq(Words)
  <2>1. wire \in Seq(Words) /\ wire' = SubSeq(wire, n + 1, Len(wire))
    BY <1>1 DEF ReadOf, IInv
  <2> QED
    BY <2>1, CutInTwo
<1>5. IsContext(context')
  BY <1>1 DEF ReadOf
<1>6. /\ state_ = "Connected" /\ ended = FALSE /\ IsSequence(answers)
      /\ Len(sent) <= Len(answers) + 1
      /\ answers = <<>> \/ ~Last(answers).close
  BY <1>1 DEF ReadOf, IInv
<1>7. Len(answers) \in Nat
  BY <1>6, AppendIsSequence
<1> DEFINE Common == /\ sent' \in Seq(Requests) /\ wire' \in Seq(Words)
                     /\ BufferIsSound' /\ IsContext(context')
<1>8. Common
  BY <1>2, <1>3, <1>4, <1>5
<1>9. CASE Refuses
  <2>1. /\ IsSequence(answers') /\ Len(answers') = Len(answers) + 1
        /\ answers' # <<>> /\ Last(answers') = BadRequest
    BY <1>6, <1>9, AppendIsSequence DEF Refuses
  <2>2. Len(sent') <= Len(answers') + 1
    BY <1>3, <1>6, <1>7, <2>1
  <2>3. state_' = "Disconnected" /\ ended' = FALSE /\ Last(answers').close
    BY <1>6, <1>9, <2>1, BadRequestCloses DEF Refuses
  <2> QED
    BY <1>8, <2>1, <2>2, <2>3 DEF IInv
<1>10. CASE EndsProcess
  <2>1. answers' = answers /\ state_' = "Connected" /\ ended' = TRUE
    BY <1>6, <1>10 DEF EndsProcess
  <2>2. Len(sent') <= Len(answers') + 1
    BY <1>3, <1>6, <2>1
  <2> QED
    BY <1>6, <1>8, <2>1, <2>2 DEF IInv
<1>11. ASSUME NEW request, Replies(SubSeq(wire, 1, n), request) PROVE IInv'
  <2>1. sent # <<>> /\ Len(wire') <= Len(Last(sent).body)
    BY <1>1, <1>11, RepliesToTheHead
  <2>2. /\ answers' = Append(answers, Answer(request))
        /\ state_' = IF Answer(request).close THEN "Disconnected" ELSE state_
        /\ context'.state = "START" /\ ended' = ended
    BY <1>11 DEF Replies
  <2>3. /\ IsSequence(answers') /\ Len(answers') = Len(answers) + 1
        /\ answers' # <<>> /\ Last(answers') = Answer(request)
    BY <1>6, <2>2, AppendIsSequence
  <2>5. RestIsBody'
    BY <1>3, <2>1 DEF RestIsBody, InBody
  <2>6. Len(sent') <= Len(answers') + 1
    BY <1>3, <1>6, <1>7, <2>3
  <2>7. CASE Answer(request).close
    <3>1. state_' = "Disconnected" /\ Last(answers').close /\ ended' = FALSE
      BY <1>6, <2>2, <2>3, <2>7
    <3> QED
      BY <1>8, <2>3, <2>6, <3>1 DEF IInv
  <2>8. CASE ~Answer(request).close
    <3>1. state_' = "Connected" /\ ~Last(answers').close /\ ended' = FALSE
      BY <1>6, <2>2, <2>3, <2>8
    <3> QED
      BY <1>8, <2>2, <2>3, <2>5, <2>6, <3>1 DEF IInv
  <2> QED
    BY <2>7, <2>8
<1> QED
  BY <1>1, <1>9, <1>10, <1>11 DEF ReadOf

LEMMA StutterKeepsIInv ==
  ASSUME IInv, UNCHANGED vars
  PROVE  IInv'
<1>1. /\ sent' = sent /\ wire' = wire /\ read_buffer_' = read_buffer_ /\ context' = context
      /\ state_' = state_ /\ answers' = answers /\ ended' = ended
  BY DEF vars
<1>2. BufferIsSound' /\ RestIsBody' = RestIsBody
  BY <1>1 DEF IInv, BufferIsSound, RestIsBody, InBody
<1> QED
  BY <1>1, <1>2 DEF IInv

LEMMA NextIInv == IInv /\ [Next]_vars => IInv'
BY ClientSendsKeepsIInv, ReadEventKeepsIInv, StutterKeepsIInv DEF Next

LEMMA IInvHolds == Spec => []IInv
BY InitIInv, NextIInv, PTL DEF Spec

-----------------------------------------------------------------------------
(* The buffer keeps its indices in the array, at most one request is       *)
(* without an answer, and a connection is open exactly as long as no       *)
(* answer closed it (HttpServer.cpp:85).                                   *)
THEOREM TypeCorrect == Spec => []TypeOK
<1>1. IInv => TypeOK
  <2> SUFFICES ASSUME IInv PROVE TypeOK
    OBVIOUS
  <2>1. /\ read_buffer_.read_index_ = kPrePendIndex
        /\ read_buffer_.write_index_ \in kPrePendIndex .. Len(read_buffer_.buffer_)
    <3>1. read_buffer_.read_index_ = kPrePendIndex
      BY DEF IInv, BufferIsSound
    <3>2. /\ read_buffer_.write_index_ \in Nat /\ Len(read_buffer_.buffer_) \in Nat
          /\ kPrePendIndex <= read_buffer_.write_index_
          /\ read_buffer_.write_index_ <= Len(read_buffer_.buffer_)
      BY DEF IInv, BufferIsSound
    <3> QED
      BY <3>1, <3>2, BufferAssumption
  <2>2. (state_ = "Disconnected") <=> (answers # <<>> /\ Last(answers).close)
    BY DEF IInv
  <2> QED
    BY <2>1, <2>2 DEF IInv, TypeOK
<1> QED
  BY <1>1, IInvHolds, PTL

(* What the parser sees is what arrived, in order and without what the     *)
(* buffer held before (Connection.cpp:36, Buffer.cpp:104).                 *)
THEOREM BufferTellsTheData == Spec => BufferHoldsData
<1>1. ASSUME IInv, [Next]_vars, wire' # wire /\ sent' = sent
      PROVE  B!PeekAllAsString(read_buffer_') \o wire' = wire
  <2>1. CASE ReadEvent
    BY <1>1, <2>1, ReadEventReads DEF ReadOf
  <2>2. ASSUME NEW r \in Requests, ClientSends(r) PROVE FALSE
    <3>1. sent' = Append(sent, r) /\ sent \in Seq(Requests)
      BY <1>1, <2>2 DEF ClientSends, IInv
    <3>2. Len(sent') = Len(sent) + 1 /\ Len(sent) \in Nat
      BY <3>1
    <3> QED
      BY <1>1, <3>2
  <2>3. CASE UNCHANGED vars
    BY <1>1, <2>3 DEF vars
  <2> QED
    BY <1>1, <2>1, <2>2, <2>3 DEF Next
<1>2. IInv /\ [Next]_vars =>
        [wire' # wire /\ sent' = sent
           => B!PeekAllAsString(read_buffer_') \o wire' = wire]_vars
  BY <1>1
<1> QED
  BY <1>2, IInvHolds, PTL DEF Spec, BufferHoldsData

(* A step that gives an answer other than 400 is a read with a reply.      *)
LEMMA AnswersAreReplies ==
  ASSUME IInv, [Next]_vars, answers' # answers, Last(answers').status # 400
  PROVE  \E n \in 1 .. Len(wire) :
           /\ ReadOf(n)
           /\ \E request : /\ Replies(SubSeq(wire, 1, n), request)
                           /\ Last(answers').request = request
<1>1. ReadEvent
  BY DEF Next, ClientSends, vars
<1>2. PICK n \in 1 .. Len(wire) : ReadOf(n)
  BY <1>1, ReadEventReads
<1>3. IsSequence(answers)
  BY DEF IInv
<1>4. ~Refuses
  <2>1. Refuses => Last(answers') = BadRequest
    BY <1>3, AppendIsSequence DEF Refuses
  <2> QED
    BY <2>1, BadRequestCloses
<1>5. ~EndsProcess
  BY DEF EndsProcess
<1>6. PICK request : Replies(SubSeq(wire, 1, n), request)
  BY <1>2, <1>4, <1>5 DEF ReadOf
<1>7. answers' = Append(answers, Answer(request))
  BY <1>6 DEF Replies
<1>8. Last(answers') = Answer(request)
  BY <1>3, <1>7, AppendIsSequence
<1>9. Last(answers').request = request
  BY <1>8 DEF Answer
<1> QED
  BY <1>2, <1>6, <1>9

(* However TCP cuts the stream and whatever the connection carried before, *)
(* no request is carried out of which only a part was read: what else is   *)
(* carried out is the rest of a body that holds an empty line              *)
(* (HttpContext.cpp:236, :252, HttpServer.cpp:67).                         *)
THEOREM WholeHeads == Spec => AnswersWholeHeads
<1> DEFINE Whole == LET data == B!PeekAllAsString(read_buffer_')
                    IN  \/ IsPrefix(HeadText(Last(sent)), data)
                        \/ InBody /\ \E j \in 1 .. Len(data) : EmptyLineAt(data, j)
<1>1. ASSUME IInv, [Next]_vars, answers' # answers, Last(answers').status # 400
      PROVE  Whole
  <2>1. PICK n \in 1 .. Len(wire) :
          ReadOf(n) /\ \E request : Replies(SubSeq(wire, 1, n), request)
    BY <1>1, AnswersAreReplies
  <2>2. PICK request : Replies(SubSeq(wire, 1, n), request)
    BY <2>1
  <2> DEFINE head == HeadText(Last(sent))
             m == Len(head)
             data == SubSeq(wire, 1, n)
  <2>3. B!PeekAllAsString(read_buffer_') = data
    BY <2>1 DEF ReadOf
  <2>4. CASE InBody
    <3>1. \E j \in 1 .. Len(data) : EmptyLineAt(data, j)
      BY <2>2 DEF Replies
    <3> HIDE DEF data
    <3> QED
      BY <2>3, <2>4, <3>1
  <2>5. CASE ~InBody
    <3>1. /\ head \in Seq(Words) /\ data \in Seq(Words)
          /\ Len(data) = n /\ m <= n /\ \A j \in 1 .. m : data[j] = head[j]
      BY <1>1, <2>1, <2>2, <2>5, DataBeginsWithHead
    <3> HIDE DEF head, data
    <3>2. m \in Nat /\ n \in Nat
      BY <3>1
    <3>3. SubSeq(head, 1, m) = SubSeq(data, 1, m)
      <4>1. /\ SubSeq(data, 1, m) \in Seq(Words) /\ Len(SubSeq(data, 1, m)) = m
            /\ \A j \in 1 .. m : SubSeq(data, 1, m)[j] = data[j]
        BY <3>1, <3>2
      <4>2. /\ SubSeq(head, 1, m) \in Seq(Words) /\ Len(SubSeq(head, 1, m)) = m
            /\ \A j \in 1 .. m : SubSeq(head, 1, m)[j] = head[j]
        BY <3>1, <3>2
      <4> QED
        BY <3>1, <4>1, <4>2, SeqEqual
    <3>4. IsPrefix(head, data)
      BY <3>1, <3>3 DEF IsPrefix
    <3> QED
      BY <2>3, <3>4 DEF head
  <2> QED
    BY <2>4, <2>5
<1>2. IInv /\ [Next]_vars => [answers' # answers /\ Last(answers').status # 400 => Whole]_vars
  BY <1>1
<1> QED
  BY <1>2, IInvHolds, PTL DEF Spec, AnswersWholeHeads

(* Whatever the connection carried before, the answer to the first read of *)
(* a request is about that request: its method, its URL and its parameters *)
(* (HttpServer.cpp:85, with one request object for all of them).           *)
LEMMA ReplyIsAboutItsRequest ==
  ASSUME IInv, NEW n \in 1 .. Len(wire), ReadOf(n), NEW request,
         Replies(SubSeq(wire, 1, n), request), ~InBody
  PROVE  IsAbout(request, Last(sent))
<1> DEFINE head == HeadText(Last(sent))
           data == SubSeq(wire, 1, n)
<1>1. /\ Last(sent) \in Requests /\ head \in Seq(Words) /\ data \in Seq(Words)
      /\ Len(head) <= Len(data) /\ \A j \in 1 .. Len(head) : data[j] = head[j]
  BY DataBeginsWithHead
<1>2. StartsLike(head, Last(sent))
  BY <1>1, HeadStarts
<1> HIDE DEF head, data
<1>3. StartsLike(data, Last(sent))
  BY <1>1, <1>2, StartsLikeHead
<1> QED
  BY <1>1, <1>3 DEF Replies, data

THEOREM AnswersAreAboutTheirRequests == Spec => AnswersOwnRequest
<1>1. ASSUME IInv, [Next]_vars, answers' # answers, Last(answers').status # 400, ~InBody
      PROVE  IsAbout(Last(answers').request, Last(sent))
  <2>1. PICK n \in 1 .. Len(wire) :
          /\ ReadOf(n)
          /\ \E request : /\ Replies(SubSeq(wire, 1, n), request)
                          /\ Last(answers').request = request
    BY <1>1, AnswersAreReplies
  <2>2. PICK request : /\ Replies(SubSeq(wire, 1, n), request)
                       /\ Last(answers').request = request
    BY <2>1
  <2> QED
    BY <1>1, <2>1, <2>2, ReplyIsAboutItsRequest
<1>2. IInv /\ [Next]_vars =>
        [answers' # answers /\ Last(answers').status # 400 /\ ~InBody
           => IsAbout(Last(answers').request, Last(sent))]_vars
  BY <1>1
<1> QED
  BY <1>2, IInvHolds, PTL DEF Spec, AnswersOwnRequest

=============================================================================
