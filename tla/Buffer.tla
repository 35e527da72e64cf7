------------------------------- MODULE Buffer -------------------------------
(***************************************************************************)
(* The byte buffer of a connection (src/tcp/Buffer.cpp): one array, of     *)
(* which [read_index_, write_index_) can be read.  A buffer is a record of *)
(* the array and the two indices, counted from 0 as in the code.           *)
(***************************************************************************)
EXTENDS Integers, Sequences

CONSTANTS kPrePendIndex, kInitalSize,
          AnyByte      \* what memory not written so far holds

NewBuffer == [buffer_ |-> [i \in 1 .. kInitalSize |-> AnyByte],
              read_index_ |-> kPrePendIndex, write_index_ |-> kPrePendIndex]

ReadAbleBytes(b) == b.write_index_ - b.read_index_
WriteAbleBytes(b) == Len(b.buffer_) - b.write_index_
PeekAllAsString(b) == SubSeq(b.buffer_, b.read_index_ + 1, b.write_index_)

RetrieveAll(b) ==
  [b EXCEPT !.read_index_ = kPrePendIndex, !.write_index_ = kPrePendIndex]

(* Mutant of Copied: the copy ends one byte short.                         *)
CopiedShort(buffer, msg, i) ==
  [j \in 1 .. Len(buffer) |->
     IF j > i /\ j < i + Len(msg) THEN msg[j - i] ELSE buffer[j]]

(* The bytes of msg written over the array from index i on.                *)
Copied(buffer, msg, i) ==
  [j \in 1 .. Len(buffer) |->
     IF j > i /\ j <= i + Len(msg) THEN msg[j - i] ELSE buffer[j]]

(* Room for len bytes: by moving the readable bytes to the front (with     *)
(* write_index_ computed from the read_index_ already moved), or by        *)
(* resizing the array.                                                     *)
EnsureWriteAbleBytes(b, len) ==
  CASE WriteAbleBytes(b) >= len -> b
    [] WriteAbleBytes(b) < len /\ WriteAbleBytes(b) + b.read_index_ >= kPrePendIndex + len ->
         LET moved == [b EXCEPT !.buffer_ = Copied(@, PeekAllAsString(b), kPrePendIndex),
                                !.read_index_ = kPrePendIndex]
         IN  [moved EXCEPT !.write_index_ = kPrePendIndex + ReadAbleBytes(moved)]
    [] OTHER ->
         [b EXCEPT !.buffer_ = [j \in 1 .. b.write_index_ + len |->
                                  IF j <= Len(@) THEN @[j] ELSE AnyByte]]

(* Append(msg, len); Append is taken by the sequences.                     *)
AppendBytes(b, msg) ==
  LET roomy == EnsureWriteAbleBytes(b, Len(msg))
  IN  [roomy EXCEPT !.buffer_ = Copied(@, msg, roomy.write_index_),
                    !.write_index_ = @ + Len(msg)]
=============================================================================
