-------------------------- MODULE TaskQueueProofs --------------------------
(* Theorems about TaskQueue, for any loops and functors.                   *)
EXTENDS TaskQueue, SequenceTheorems, TLAPS

IInv == TypeOK /\ RunsOnce

(* RunsOnce, of queues p when the functors in done have run.               *)
Distinct(p, done) ==
  \A k, m \in Loops : \A i \in DOMAIN p[k], j \in DOMAIN p[m] :
    /\ p[k][i] \in submitted \ done
    /\ p[k][i] = p[m][j] => k = m /\ i = j

(* The queues without the head of that of l.                               *)
Rest(l) == [pending EXCEPT ![l] = Tail(@)]

(* Types and uniqueness survive the removal of a head ...                  *)
LEMMA RemoveHead ==
  ASSUME IInv, NEW l \in Loops, pending[l] # <<>>
  PROVE  /\ Rest(l) \in [Loops -> Seq(submitted)]
         /\ Head(pending[l]) \in submitted
         /\ Distinct(Rest(l), ran \cup {Head(pending[l])})
<1> DEFINE p == Rest(l)
<1>1. /\ Tail(pending[l]) \in Seq(submitted) /\ Head(pending[l]) = pending[l][1]
      /\ 1 \in DOMAIN pending[l] /\ pending[l][1] \in submitted
      /\ Len(pending[l]) \in Nat \ {0}
      /\ DOMAIN Tail(pending[l]) = 1 .. Len(pending[l]) - 1
      /\ \A i \in 1 .. Len(pending[l]) - 1 : Tail(pending[l])[i] = pending[l][i + 1]
  BY HeadTailProperties, ElementOfSeq DEF IInv, TypeOK
<1>2. p \in [Loops -> Seq(submitted)]
  BY <1>1 DEF IInv, TypeOK, Rest
<1>3. ASSUME NEW k \in Loops, NEW i \in DOMAIN p[k]
      PROVE  LET n == IF k = l THEN i + 1 ELSE i
             IN  n \in DOMAIN pending[k] /\ p[k][i] = pending[k][n] /\ n \in Nat
                 /\ (k = l => n # 1)
  <2>1. CASE k = l
    <3>1. p[k] = Tail(pending[l])
      BY <2>1 DEF IInv, TypeOK, Rest
    <3>2. i \in 1 .. Len(pending[l]) - 1
      BY <1>1, <3>1
    <3>3. DOMAIN pending[l] = 1 .. Len(pending[l])
      BY DEF IInv, TypeOK
    <3>4. i \in Nat /\ i + 1 \in DOMAIN pending[l] /\ i + 1 # 1
      BY <1>1, <3>2, <3>3
    <3>5. p[l][i] = pending[l][i + 1]
      BY <1>1, <2>1, <3>1, <3>2
    <3> QED
      BY <2>1, <3>4, <3>5
  <2>2. CASE k # l
    <3>1. p[k] = pending[k] /\ pending[k] \in Seq(submitted)
      BY <2>2 DEF IInv, TypeOK, Rest
    <3> QED
      BY <2>2, <3>1
  <2> QED
    BY <2>1, <2>2
<1>4. ASSUME NEW k \in Loops, NEW m \in Loops,
             NEW i \in DOMAIN p[k], NEW j \in DOMAIN p[m]
      PROVE  /\ p[k][i] \in submitted \ (ran \cup {Head(pending[l])})
             /\ p[k][i] = p[m][j] => k = m /\ i = j
  <2> DEFINE n == IF k = l THEN i + 1 ELSE i
             o == IF m = l THEN j + 1 ELSE j
  <2>1. n \in DOMAIN pending[k] /\ p[k][i] = pending[k][n] /\ (k = l => n # 1)
    BY <1>3
  <2>2. o \in DOMAIN pending[m] /\ p[m][j] = pending[m][o]
    BY <1>3
  <2>3. i \in Nat /\ j \in Nat
    BY <1>2
  <2>4. pending[k][n] # pending[l][1]
    BY <1>1, <2>1 DEF IInv, RunsOnce
  <2>5. pending[k][n] \in submitted \ ran
    BY <2>1 DEF IInv, RunsOnce
  <2>6. pending[k][n] = pending[m][o] => k = m /\ n = o
    BY <2>1, <2>2 DEF IInv, RunsOnce
  <2> QED
    BY <1>1, <2>1, <2>2, <2>3, <2>4, <2>5, <2>6
<1> QED
  BY <1>1, <1>2, <1>4 DEF Distinct

(* ... and the arrival of a functor that is fresh, at the end of one queue, *)
(* wherever the queues p come from.                                        *)
LEMMA HandOverKeeps ==
  ASSUME NEW p \in [Loops -> Seq(submitted)], NEW done \in SUBSET submitted,
         submitted \in SUBSET Functors,
         Distinct(p, done), HandOver(p), ran' = done
  PROVE  IInv'
<1>1. CASE pending' = p /\ submitted' = submitted
  BY <1>1 DEF IInv, TypeOK, RunsOnce, Distinct
<1>2. ASSUME NEW l \in Loops, NEW f \in Functors \ submitted,
             pending' = [p EXCEPT ![l] = Append(@, f)],
             submitted' = submitted \cup {f}
      PROVE  IInv'
  <2>1. \A k \in Loops : p[k] \in Seq(submitted')
    BY <1>2
  <2>2. f \in submitted' /\ pending'[l] = Append(p[l], f)
        /\ \A k \in Loops \ {l} : pending'[k] = p[k]
    BY <1>2
  <2>3. TypeOK'
    BY <1>2, <2>1, <2>2, AppendProperties DEF TypeOK
  <2>4. ASSUME NEW k \in Loops, NEW i \in DOMAIN pending'[k]
        PROVE  \/ i \in DOMAIN p[k] /\ pending'[k][i] = p[k][i]
               \/ k = l /\ i = Len(p[l]) + 1 /\ pending'[k][i] = f
    <3>1. CASE k # l
      BY <2>2, <3>1
    <3>2. CASE k = l
      <4>1. Append(p[l], f) \in Seq(submitted') /\ Len(p[l]) \in Nat
        BY <2>1, <2>2
      <4>2. /\ DOMAIN Append(p[l], f) = 1 .. Len(p[l]) + 1
            /\ DOMAIN p[l] = 1 .. Len(p[l])
            /\ \A j \in 1 .. Len(p[l]) : Append(p[l], f)[j] = p[l][j]
            /\ Append(p[l], f)[Len(p[l]) + 1] = f
        BY <2>1, <2>2
      <4>3. i \in 1 .. Len(p[l]) + 1
        BY <2>2, <3>2, <4>2
      <4>4. CASE i = Len(p[l]) + 1
        BY <2>2, <3>2, <4>2, <4>4
      <4>5. CASE i # Len(p[l]) + 1
        <5>1. i \in 1 .. Len(p[l])
          BY <4>1, <4>3, <4>5
        <5> QED
          BY <2>2, <3>2, <4>2, <5>1
      <4> QED
        BY <4>4, <4>5
    <3> QED
      BY <3>1, <3>2
  <2>5. ASSUME NEW k \in Loops, NEW i \in DOMAIN p[k] PROVE p[k][i] # f
    BY <1>2 DEF Distinct
  <2>6. RunsOnce'
    BY <1>2, <2>4, <2>5 DEF RunsOnce, Distinct
  <2> QED
    BY <2>3, <2>6 DEF IInv
<1> QED
  BY <1>1, <1>2 DEF HandOver

LEMMA NextIInv == IInv /\ [Next]_vars => IInv'
<1> SUFFICES ASSUME IInv, [Next]_vars PROVE IInv'
  OBVIOUS
<1>1. CASE UNCHANGED vars
  BY <1>1 DEF vars, IInv, TypeOK, RunsOnce
<1>2. CASE Submit
  BY <1>2, HandOverKeeps DEF Submit, IInv, TypeOK, RunsOnce, Distinct
<1>3. CASE RunInPlace
  <2>1. PICK f \in Functors \ submitted :
          submitted' = submitted \cup {f} /\ ran' = ran \cup {f} /\ UNCHANGED pending
    BY <1>3 DEF RunInPlace
  <2>2. \A k \in Loops : pending[k] \in Seq(submitted')
    BY <2>1 DEF IInv, TypeOK
  <2>3. TypeOK'
    BY <2>1, <2>2 DEF IInv, TypeOK
  <2> QED
    BY <2>1, <2>3 DEF IInv, RunsOnce
<1>4. ASSUME NEW l \in Loops, Execute(l) PROVE IInv'
  <2> DEFINE done == ran \cup {Head(pending[l])}
  <2>1. /\ Rest(l) \in [Loops -> Seq(submitted)] /\ done \in SUBSET submitted
        /\ Distinct(Rest(l), done)
    BY <1>4, RemoveHead DEF Execute, IInv, TypeOK
  <2>2. submitted \in SUBSET Functors
    BY DEF IInv, TypeOK
  <2>3. \/ HandOver(Rest(l)) /\ ran' = done
        \/ \E f \in Functors \ submitted :
             /\ pending' = Rest(l)
             /\ submitted' = submitted \cup {f}
             /\ ran' = done \cup {f}
    BY <1>4 DEF Execute, Rest
  <2> HIDE DEF done
  <2>4. CASE HandOver(Rest(l)) /\ ran' = done
    BY <2>1, <2>2, <2>4, HandOverKeeps
  <2>5. ASSUME NEW f \in Functors \ submitted, pending' = Rest(l),
               submitted' = submitted \cup {f}, ran' = done \cup {f}
        PROVE  IInv'
    <3>1. \A k \in Loops : Rest(l)[k] \in Seq(submitted')
      BY <2>1, <2>5
    <3>2. TypeOK'
      BY <2>1, <2>2, <2>5, <3>1 DEF TypeOK
    <3> QED
      BY <2>1, <2>5, <3>2 DEF IInv, RunsOnce, Distinct
  <2> QED
    BY <2>3, <2>4, <2>5
<1> QED
  BY <1>1, <1>2, <1>3, <1>4 DEF Next

(* However the loops hand functors to each other, none runs twice.         *)
THEOREM FunctorsRunOnce == Protocol => []RunsOnce
<1>1. Init => IInv
  BY DEF Init, IInv, TypeOK, RunsOnce
<1>2. IInv => RunsOnce
  BY DEF IInv
<1> QED
  BY <1>1, <1>2, NextIInv, PTL DEF Protocol
=============================================================================
