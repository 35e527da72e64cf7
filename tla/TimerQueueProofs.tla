-------------------------- MODULE TimerQueueProofs --------------------------
(***************************************************************************)
(* Theorems about TimerQueue, for any timers, delays, intervals and any    *)
(* number of times the wall clock is set.  The first part is about the     *)
(* sequences the queue is made of: what InsertAt, Append, Tail and SubSeq  *)
(* keep and what they move.  Then the steps of the queue keep IInv, and    *)
(* each is a step of Timers or one that Timers does not see.               *)
(***************************************************************************)
EXTENDS TimerQueue, SequenceTheorems, TLAPS

-----------------------------------------------------------------------------
(* The inductive invariant behind the properties.                          *)

(* Where HandleRead fills active_timers_ it is empty, its iterator is used *)
(* from lower_bound to erase only, and the loop adds timers in handlers.   *)
BatchesAgree ==
  /\ pc \notin {"erase", "run"} => active_timers_ = <<>>
  /\ pc \notin {"run", "reset"} => rested = <<>>
  /\ pc \notin {"copy", "erase"} => end = 0
  /\ pc \notin {"poll", "run"} => adding["loop"] = NoTimer

(* Expirations lie ahead by a delay, and what the wall clock was set back. *)
DelaysBound ==
  /\ \A t \in Timers : due[t] <= MaxDelay + steps
  /\ left <= MaxDelay + steps

(* An Insert whose test has not shown the new timer to be the earliest     *)
(* finds another one in timers_, or a taking overlapped it.                *)
OthersWait ==
  \A th \in Threads :
    adding[th] # NoTimer /\ earliest[th] \in {"begin", "no"}
      => timers_ # <<>> \/ adding[th] \in raced

(* What the erase will lose was emplaced in a race.                        *)
UncopiedRaced == pc = "erase" => Uncopied \subseteq raced

(* Of a queue used by its own loop only: what the test has shown holds     *)
(* until the emplace, and a handler that is about to arm the timerfd does  *)
(* so for a timer as early as the first.                                   *)
OwnLoop ==
  ~shared => adding["main"] = NoTimer /\ arming["main"] = NoTimer /\ raced = {}
OwnLoopArmsFirst ==
  ~shared /\ pc = "poll" =>
    /\ arming["loop"] # NoTimer =>
         /\ adding["loop"] = NoTimer
         /\ arming["loop"] \in Live /\ timers_ # <<>>
         /\ due[arming["loop"]] <= due[Head(timers_)]
    /\ adding["loop"] # NoTimer /\ timers_ # <<>> =>
         /\ earliest["loop"] = "yes" => due[adding["loop"]] <= due[Head(timers_)]
         /\ earliest["loop"] = "no" => due[Head(timers_)] <= due[adding["loop"]]

(* ArmedForEarliest, which holds during an Insert too.                     *)
ArmedThroughout ==
  ~shared /\ steps = 0 /\ timers_ # <<>> /\ pc = "poll" /\ arming["loop"] = NoTimer
    => readable \/ left = 1 \/ left <= due[Head(timers_)]

IInv == /\ TypeOK
        /\ BatchesAgree
        /\ DelaysBound
        /\ OthersWait
        /\ UncopiedRaced
        /\ OwnLoop
        /\ OwnLoopArmsFirst
        /\ PendingIsArmed
        /\ ArmedThroughout

-----------------------------------------------------------------------------
(* The elements of a sequence, and no element twice.                       *)

LEMMA SetOfSeq ==
  ASSUME NEW S, NEW s \in Seq(S)
  PROVE  /\ ToSet(s) \subseteq S
         /\ \A i \in 1 .. Len(s) : s[i] \in ToSet(s)
         /\ \A x \in ToSet(s) : \E i \in 1 .. Len(s) : s[i] = x
BY DEF ToSet

LEMMA EmptyPlace == ToSet(<<>>) = {} /\ IsInjective(<<>>)
BY DEF ToSet, IsInjective

LEMMA ConcatPlaces ==
  ASSUME NEW S, NEW s \in Seq(S), NEW t \in Seq(S)
  PROVE  /\ ToSet(s \o t) = ToSet(s) \cup ToSet(t)
         /\ IsInjective(s \o t)
              <=> /\ IsInjective(s) /\ IsInjective(t)
                  /\ ToSet(s) \cap ToSet(t) = {}
<1> DEFINE u == s \o t
<1>1. /\ u \in Seq(S) /\ Len(u) = Len(s) + Len(t)
      /\ \A i \in 1 .. Len(s) : u[i] = s[i]
      /\ \A i \in 1 .. Len(t) : u[Len(s) + i] = t[i]
  OBVIOUS
<1>2. Len(s) \in Nat /\ Len(t) \in Nat
  OBVIOUS
<1> HIDE DEF u
<1>3. \A i \in 1 .. Len(u) :
        \/ i \in 1 .. Len(s)
        \/ i - Len(s) \in 1 .. Len(t) /\ Len(s) + (i - Len(s)) = i
  BY <1>1, <1>2
<1>0. /\ \A i \in 1 .. Len(s) : s[i] \in ToSet(s)
      /\ \A x \in ToSet(s) : \E i \in 1 .. Len(s) : s[i] = x
      /\ \A i \in 1 .. Len(t) : t[i] \in ToSet(t)
      /\ \A x \in ToSet(t) : \E i \in 1 .. Len(t) : t[i] = x
      /\ \A i \in 1 .. Len(u) : u[i] \in ToSet(u)
      /\ \A x \in ToSet(u) : \E i \in 1 .. Len(u) : u[i] = x
  BY <1>1, SetOfSeq
<1>4. ToSet(u) = ToSet(s) \cup ToSet(t)
  <2>1. ASSUME NEW i \in 1 .. Len(u) PROVE u[i] \in ToSet(s) \cup ToSet(t)
    <3>1. CASE i \in 1 .. Len(s)
      BY <1>0, <1>1, <3>1
    <3>2. CASE i \notin 1 .. Len(s)
      <4>1. i - Len(s) \in 1 .. Len(t) /\ Len(s) + (i - Len(s)) = i
        BY <1>3, <3>2
      <4>2. u[i] = t[i - Len(s)]
        BY <1>1, <4>1
      <4> QED
        BY <1>0, <4>1, <4>2
    <3> QED
      BY <3>1, <3>2
  <2>2. \A i \in 1 .. Len(s) : i \in 1 .. Len(u) /\ u[i] = s[i]
    BY <1>1, <1>2
  <2>3. \A i \in 1 .. Len(t) : Len(s) + i \in 1 .. Len(u) /\ u[Len(s) + i] = t[i]
    BY <1>1, <1>2
  <2>4. ToSet(s) \subseteq ToSet(u)
    BY <1>0, <2>2
  <2>5. ToSet(t) \subseteq ToSet(u)
    BY <1>0, <2>3
  <2>6. ToSet(u) \subseteq ToSet(s) \cup ToSet(t)
    BY <1>0, <2>1
  <2> QED
    BY <2>4, <2>5, <2>6
<1>5. DOMAIN u = 1 .. Len(u) /\ DOMAIN s = 1 .. Len(s) /\ DOMAIN t = 1 .. Len(t)
  BY <1>1
<1>6. ASSUME IsInjective(u)
      PROVE  IsInjective(s) /\ IsInjective(t) /\ ToSet(s) \cap ToSet(t) = {}
  <2>1. ASSUME NEW i \in 1 .. Len(s), NEW j \in 1 .. Len(s), s[i] = s[j] PROVE i = j
    <3>1. i \in 1 .. Len(u) /\ j \in 1 .. Len(u) /\ u[i] = u[j]
      BY <1>1, <1>2, <2>1
    <3> QED
      BY <1>5, <1>6, <3>1 DEF IsInjective
  <2>2. ASSUME NEW i \in 1 .. Len(t), NEW j \in 1 .. Len(t), t[i] = t[j] PROVE i = j
    <3>1. Len(s) + i \in 1 .. Len(u) /\ Len(s) + j \in 1 .. Len(u)
      BY <1>1, <1>2
    <3>2. Len(s) + i = Len(s) + j
      BY <1>1, <1>5, <1>6, <2>2, <3>1 DEF IsInjective
    <3> QED
      BY <1>2, <3>2
  <2>3. ASSUME NEW i \in 1 .. Len(s), NEW j \in 1 .. Len(t), s[i] = t[j] PROVE FALSE
    <3>1. i \in 1 .. Len(u) /\ Len(s) + j \in 1 .. Len(u) /\ i # Len(s) + j
      BY <1>1, <1>2
    <3> QED
      BY <1>1, <1>5, <1>6, <2>3, <3>1 DEF IsInjective
  <2>4. ToSet(s) \cap ToSet(t) = {}
    BY <1>0, <2>3
  <2> QED
    BY <1>5, <2>1, <2>2, <2>4 DEF IsInjective
<1>7. ASSUME IsInjective(s), IsInjective(t), ToSet(s) \cap ToSet(t) = {},
             NEW i \in 1 .. Len(u), NEW j \in 1 .. Len(u), u[i] = u[j]
      PROVE  i = j
  <2>1. CASE i \in 1 .. Len(s) /\ j \in 1 .. Len(s)
    BY <1>1, <1>5, <1>7, <2>1 DEF IsInjective
  <2>2. CASE i \notin 1 .. Len(s) /\ j \notin 1 .. Len(s)
    <3>1. i - Len(s) \in 1 .. Len(t) /\ j - Len(s) \in 1 .. Len(t)
      BY <1>3, <2>2
    <3>2. u[i] = t[i - Len(s)] /\ u[j] = t[j - Len(s)]
      BY <1>1, <1>3, <2>2
    <3>3. i - Len(s) = j - Len(s)
      BY <1>5, <1>7, <3>1, <3>2 DEF IsInjective
    <3> QED
      BY <1>2, <3>3
  <2>3. CASE i \in 1 .. Len(s) /\ j \notin 1 .. Len(s)
    <3>1. u[i] \in ToSet(s)
      BY <1>0, <1>1, <2>3
    <3>2. u[j] \in ToSet(t)
      <4>1. j - Len(s) \in 1 .. Len(t) /\ Len(s) + (j - Len(s)) = j
        BY <1>3, <2>3
      <4>2. u[j] = t[j - Len(s)]
        BY <1>1, <4>1
      <4> QED
        BY <1>0, <4>1, <4>2
    <3> QED
      BY <1>7, <3>1, <3>2
  <2>4. CASE i \notin 1 .. Len(s) /\ j \in 1 .. Len(s)
    <3>1. u[j] \in ToSet(s)
      BY <1>0, <1>1, <2>4
    <3>2. u[i] \in ToSet(t)
      <4>1. i - Len(s) \in 1 .. Len(t) /\ Len(s) + (i - Len(s)) = i
        BY <1>3, <2>4
      <4>2. u[i] = t[i - Len(s)]
        BY <1>1, <4>1
      <4> QED
        BY <1>0, <4>1, <4>2
    <3> QED
      BY <1>7, <3>1, <3>2
  <2> QED
    BY <2>1, <2>2, <2>3, <2>4
<1> QED
  BY <1>4, <1>5, <1>6, <1>7 DEF u, IsInjective

(* A sequence is its first n elements and the others.                      *)
LEMMA SplitPlaces ==
  ASSUME NEW S, NEW s \in Seq(S), NEW n \in 0 .. Len(s)
  PROVE  LET a == SubSeq(s, 1, n)
             b == SubSeq(s, n + 1, Len(s))
         IN  /\ a \in Seq(S) /\ Len(a) = n /\ \A j \in 1 .. n : a[j] = s[j]
             /\ b \in Seq(S) /\ Len(b) = Len(s) - n
             /\ \A j \in 1 .. Len(s) - n : b[j] = s[n + j]
             /\ ToSet(s) = ToSet(a) \cup ToSet(b)
             /\ IsInjective(s) => /\ IsInjective(a) /\ IsInjective(b)
                                  /\ ToSet(a) \cap ToSet(b) = {}
<1> DEFINE a == SubSeq(s, 1, n)
           b == SubSeq(s, n + 1, Len(s))
<1>1. n \in Nat /\ Len(s) \in Nat /\ n <= Len(s)
  OBVIOUS
<1>2. a \in Seq(S) /\ Len(a) = n /\ \A j \in 1 .. n : a[j] = s[j]
  BY <1>1
<1>3. /\ b \in Seq(S) /\ Len(b) = Len(s) - n
      /\ \A j \in 1 .. Len(s) - n : b[j] = s[n + j]
  BY <1>1
<1>4. a \o b = s
  <2>1. 1 \in 1 .. Len(s) + 1 /\ n \in 1 - 1 .. Len(s) /\ Len(s) \in n .. Len(s)
    BY <1>1
  <2> QED
    BY <2>1, ConcatAdjacentSubSeq, SubSeqFull
<1>6. a \in Seq(S) /\ b \in Seq(S)
  BY <1>2, <1>3
<1> HIDE DEF a, b
<1>5. /\ ToSet(s) = ToSet(a) \cup ToSet(b)
      /\ IsInjective(s) <=> IsInjective(a) /\ IsInjective(b) /\ ToSet(a) \cap ToSet(b) = {}
  <2>1. /\ ToSet(a \o b) = ToSet(a) \cup ToSet(b)
        /\ IsInjective(a \o b)
             <=> IsInjective(a) /\ IsInjective(b) /\ ToSet(a) \cap ToSet(b) = {}
    BY <1>6, ConcatPlaces
  <2> QED
    BY <1>4, <2>1
<1> QED
  BY <1>2, <1>3, <1>5 DEF a, b

LEMMA AppendPlaces ==
  ASSUME NEW S, NEW s \in Seq(S), NEW x \in S
  PROVE  /\ Append(s, x) \in Seq(S) /\ ToSet(Append(s, x)) = ToSet(s) \cup {x}
         /\ IsInjective(s) /\ x \notin ToSet(s) => IsInjective(Append(s, x))
<1>1. <<x>> \in Seq(S) /\ ToSet(<<x>>) = {x} /\ IsInjective(<<x>>)
  BY DEF ToSet, IsInjective
<1>2. Append(s, x) = s \o <<x>>
  OBVIOUS
<1>3. s \o <<x>> \in Seq(S)
  BY <1>1
<1>4. /\ ToSet(s \o <<x>>) = ToSet(s) \cup ToSet(<<x>>)
      /\ IsInjective(s \o <<x>>)
           <=> IsInjective(s) /\ IsInjective(<<x>>) /\ ToSet(s) \cap ToSet(<<x>>) = {}
  BY <1>1, ConcatPlaces
<1> QED
  BY <1>1, <1>2, <1>3, <1>4

LEMMA TailPlaces ==
  ASSUME NEW S, NEW s \in Seq(S), s # <<>>
  PROVE  /\ Head(s) \in S /\ Tail(s) \in Seq(S)
         /\ ToSet(s) = ToSet(Tail(s)) \cup {Head(s)}
         /\ IsInjective(s) => IsInjective(Tail(s)) /\ Head(s) \notin ToSet(Tail(s))
<1> DEFINE x == Head(s)
           t == Tail(s)
<1>1. x \in S /\ t \in Seq(S) /\ s = <<x>> \o t
  OBVIOUS
<1>2. <<x>> \in Seq(S) /\ ToSet(<<x>>) = {x}
  BY <1>1 DEF ToSet
<1> HIDE DEF x, t
<1>3. /\ ToSet(s) = ToSet(<<x>>) \cup ToSet(t)
      /\ IsInjective(s)
           <=> IsInjective(<<x>>) /\ IsInjective(t) /\ ToSet(<<x>>) \cap ToSet(t) = {}
  BY <1>1, <1>2, ConcatPlaces
<1> QED
  BY <1>1, <1>2, <1>3 DEF x, t
-----------------------------------------------------------------------------
(* TypeOK in parts: the plain types, one place for a timer, the order.     *)

Types ==
  /\ timers_ \in Seq(Timers) /\ active_timers_ \in Seq(Timers) /\ rested \in Seq(Timers)
  /\ end \in 0 .. Len(timers_) /\ lost \subseteq Timers
  /\ due \in [Timers -> -Floor .. MaxDelay + MaxSteps]
  /\ interval_ \in [Timers -> Intervals \cup {0}]
  /\ left \in 0 .. MaxDelay + MaxSteps /\ readable \in BOOLEAN
  /\ pc \in {"poll", "read", "bound", "copy", "erase", "run", "reset"}
  /\ adding \in [Threads -> Timers \cup {NoTimer}]
  /\ earliest \in [Threads -> {"begin", "yes", "no"}]
  /\ arming \in [Threads -> Timers \cup {NoTimer}]
  /\ shared \in BOOLEAN
  /\ steps \in 0 .. MaxSteps

Places ==
  /\ IsInjective(timers_) /\ IsInjective(active_timers_) /\ IsInjective(rested)
  /\ ToSet(active_timers_) \cap ToSet(rested) = {}
  /\ IF pc = "erase" THEN ToSet(active_timers_) \subseteq BeforeEnd
                     ELSE ToSet(timers_) \cap (ToSet(active_timers_) \cup ToSet(rested)) = {}
  /\ Added \cap lost = {} /\ (Added \cup lost) \cap Queued = {}
  /\ adding["loop"] # adding["main"] \/ adding["main"] = NoTimer
  /\ raced \subseteq Live \ lost

Sorted(q, d) == \A i, j \in 1 .. Len(q) : i < j => d[q[i]] <= d[q[j]]

LEMMA TypeParts ==
  TypeOK <=> Types /\ Places /\ Sorted(timers_, due)
<1>1. ASSUME active_timers_ \in Seq(Timers), rested \in Seq(Timers)
      PROVE  IsInjective(active_timers_ \o rested)
               <=> /\ IsInjective(active_timers_) /\ IsInjective(rested)
                   /\ ToSet(active_timers_) \cap ToSet(rested) = {}
  BY <1>1, ConcatPlaces
<1> QED
  BY <1>1 DEF TypeOK, Types, Places, Sorted

LEMMA TypePartsNext ==
  TypeOK' <=> Types' /\ Places' /\ Sorted(timers_', due')
<1>1. TypeOK' <=> (Types /\ Places /\ Sorted(timers_, due))'
  BY TypeParts, PTL
<1> QED
  BY <1>1 DEF Sorted

LEMMA Numbers ==
  /\ MaxDelay \in Nat /\ MaxDelay > 0 /\ MaxSteps \in Nat
  /\ -MaxSteps \in Int /\ MaxDelay + MaxSteps \in Nat
  /\ \A i \in Intervals \cup {0} : i \in Nat /\ i <= MaxDelay
BY DelayAssumption

LEMMA DueNumbers ==
  ASSUME Types
  PROVE  /\ \A t \in Timers : due[t] \in Int /\ due[t] >= -MaxSteps
         /\ due \in [Timers -> Int]
         /\ left \in Nat /\ steps \in Nat /\ steps <= MaxSteps
BY Numbers DEF Types, Floor

LEMMA AddedIs ==
  /\ Added = {adding["loop"], adding["main"]} \ {NoTimer}
  /\ Added' = {adding'["loop"], adding'["main"]} \ {NoTimer}
BY DEF Added, Threads

LEMMA LiveIsTimers ==
  ASSUME Types
  PROVE  /\ Live \subseteq Timers /\ NoTimer \notin Live
         /\ ToSet(timers_) \subseteq Timers
         /\ timers_ # <<>> => Head(timers_) \in ToSet(timers_)
<1>1. /\ ToSet(timers_) \subseteq Timers /\ ToSet(active_timers_) \subseteq Timers
      /\ ToSet(rested) \subseteq Timers /\ \A i \in 1 .. Len(timers_) : timers_[i] \in ToSet(timers_)
  BY SetOfSeq DEF Types
<1>2. Added \subseteq Timers /\ lost \subseteq Timers
  BY AddedIs DEF Types, Threads
<1>3. timers_ # <<>> => 1 \in 1 .. Len(timers_) /\ Head(timers_) = timers_[1]
  BY DEF Types
<1> QED
  BY <1>1, <1>2, <1>3, NoTimerAssumption DEF Live, Queued

(* What lies before the iterator, and what an erase leaves.                *)
LEMMA BeforeIs ==
  ASSUME NEW S, NEW s \in Seq(S), NEW n \in 0 .. Len(s)
  PROVE  /\ ToSet(SubSeq(s, 1, n)) \subseteq ToSet(s)
         /\ \A j \in 1 .. n : s[j] \in ToSet(SubSeq(s, 1, n))
         /\ \A x \in ToSet(SubSeq(s, 1, n)) : \E j \in 1 .. n : s[j] = x
<1> DEFINE a == SubSeq(s, 1, n)
<1>1. /\ a \in Seq(S) /\ Len(a) = n /\ \A j \in 1 .. n : a[j] = s[j]
      /\ ToSet(a) \subseteq ToSet(s)
  BY SplitPlaces
<1> HIDE DEF a
<1>2. /\ \A j \in 1 .. n : a[j] \in ToSet(a)
      /\ \A x \in ToSet(a) : \E j \in 1 .. n : a[j] = x
  BY <1>1, SetOfSeq
<1> QED
  BY <1>1, <1>2 DEF a

-----------------------------------------------------------------------------
(* Insert puts a timer in one place between the others.                    *)
LEMMA InsertPlaces ==
  ASSUME timers_ \in Seq(Timers), NEW t \in Timers, NEW d \in Int, Insert(t, d)
  PROVE  /\ timers_' \in Seq(Timers) /\ Len(timers_') = Len(timers_) + 1
         /\ ToSet(timers_') = ToSet(timers_) \cup {t}
         /\ IsInjective(timers_) /\ t \notin ToSet(timers_) => IsInjective(timers_')
         /\ \E i \in 0 .. Len(timers_) :
              /\ \A j \in 1 .. i : due[timers_[j]] <= d /\ timers_'[j] = timers_[j]
              /\ timers_'[i + 1] = t
              /\ \A j \in i + 1 .. Len(timers_) :
                   due[timers_[j]] >= d /\ timers_'[j + 1] = timers_[j]
              /\ end' = IF pc \in {"copy", "erase"} /\ i <= end THEN end + 1 ELSE end
<1>1. PICK i \in 0 .. Len(timers_) :
        /\ \A j \in 1 .. i : due[timers_[j]] <= d
        /\ \A j \in i + 1 .. Len(timers_) : due[timers_[j]] >= d
        /\ timers_' = InsertAt(timers_, i + 1, t)
        /\ end' = IF pc \in {"copy", "erase"} /\ i <= end THEN end + 1 ELSE end
  BY DEF Insert
<1> DEFINE n == Len(timers_)
           a == SubSeq(timers_, 1, i)
           b == SubSeq(timers_, i + 1, n)
           m == a \o <<t>>
           r == m \o b
<1>2. i \in Nat /\ n \in Nat /\ i <= n /\ (i + 1) - 1 = i
  OBVIOUS
<1>3. timers_' = r
  BY <1>1, <1>2 DEF InsertAt
<1>4. a \in Seq(Timers) /\ Len(a) = i /\ \A j \in 1 .. i : a[j] = timers_[j]
  BY <1>2
<1>5. /\ b \in Seq(Timers) /\ Len(b) = n - i
      /\ \A j \in 1 .. n - i : b[j] = timers_[i + j]
  BY <1>2
<1>6. a \o b = timers_
  <2>1. 1 \in 1 .. n + 1 /\ i \in 1 - 1 .. n /\ n \in i .. n
    BY <1>2
  <2> QED
    BY <2>1, ConcatAdjacentSubSeq, SubSeqFull
<1> HIDE DEF a, b, n
<1>7. <<t>> \in Seq(Timers) /\ Len(<<t>>) = 1 /\ ToSet(<<t>>) = {t} /\ IsInjective(<<t>>)
  BY DEF ToSet, IsInjective
<1>8. m \in Seq(Timers) /\ Len(m) = i + 1 /\ m[i + 1] = t /\ \A j \in 1 .. i : m[j] = a[j]
  BY <1>2, <1>4, <1>7
<1>9. /\ ToSet(m) = ToSet(a) \cup {t}
      /\ IsInjective(m) <=> IsInjective(a) /\ ToSet(a) \cap {t} = {}
  BY <1>4, <1>7, ConcatPlaces
<1> HIDE DEF m
<1>10. /\ r \in Seq(Timers) /\ Len(r) = n + 1
       /\ \A j \in 1 .. i + 1 : r[j] = m[j]
       /\ \A j \in 1 .. n - i : r[i + 1 + j] = b[j]
  <2>1. /\ r \in Seq(Timers) /\ Len(r) = Len(m) + Len(b)
        /\ \A k \in 1 .. Len(m) + Len(b) :
             r[k] = IF k <= Len(m) THEN m[k] ELSE b[k - Len(m)]
    BY <1>5, <1>8, ConcatProperties
  <2> HIDE DEF r
  <2>2. Len(m) + Len(b) = n + 1
    BY <1>2, <1>5, <1>8
  <2>3. ASSUME NEW j \in 1 .. i + 1 PROVE r[j] = m[j]
    BY <1>2, <1>8, <2>1, <2>2
  <2>4. ASSUME NEW j \in 1 .. n - i PROVE r[i + 1 + j] = b[j]
    <3>1. i + 1 + j \in 1 .. n + 1 /\ ~(i + 1 + j <= i + 1) /\ (i + 1 + j) - (i + 1) = j
      BY <1>2
    <3> QED
      BY <1>8, <2>1, <2>2, <3>1
  <2> QED
    BY <2>1, <2>2, <2>3, <2>4
<1>11. /\ ToSet(r) = ToSet(m) \cup ToSet(b)
       /\ IsInjective(r) <=> IsInjective(m) /\ IsInjective(b) /\ ToSet(m) \cap ToSet(b) = {}
  BY <1>5, <1>8, ConcatPlaces
<1>12. /\ ToSet(timers_) = ToSet(a) \cup ToSet(b)
       /\ IsInjective(timers_)
            <=> IsInjective(a) /\ IsInjective(b) /\ ToSet(a) \cap ToSet(b) = {}
  BY <1>4, <1>5, <1>6, ConcatPlaces, ZenonT(30)
<1> HIDE DEF r
<1>13. ASSUME NEW j \in i + 1 .. n PROVE r[j + 1] = timers_[j]
  <2>1. j - i \in 1 .. n - i /\ i + (j - i) = j /\ i + 1 + (j - i) = j + 1
    BY <1>2
  <2>2. b[j - i] = timers_[i + (j - i)] /\ r[i + 1 + (j - i)] = b[j - i]
    BY <1>5, <1>10, <2>1
  <2> QED
    BY <2>1, <2>2
<1>14. \A j \in 1 .. i : r[j] = timers_[j]
  BY <1>2, <1>4, <1>8, <1>10
<1>15. r[i + 1] = t
  BY <1>2, <1>8, <1>10
<1>16. IsInjective(timers_) /\ t \notin ToSet(timers_) => IsInjective(r)
  BY <1>9, <1>11, <1>12
<1> QED
  BY <1>1, <1>3, <1>9, <1>10, <1>11, <1>12, <1>13, <1>14, <1>15, <1>16, SMTT(30) DEF n

(* Insert keeps the order; the first expiration becomes that of the new    *)
(* timer if it is no later, and stays as it was if it is no earlier.       *)
LEMMA InsertEffect ==
  ASSUME timers_ \in Seq(Timers), IsInjective(timers_), Sorted(timers_, due),
         due \in [Timers -> Int],
         NEW t \in Timers \ ToSet(timers_), NEW d \in Int,
         Insert(t, d), due' = [due EXCEPT ![t] = d]
  PROVE  /\ timers_' \in Seq(Timers) /\ timers_' # <<>>
         /\ ToSet(timers_') = ToSet(timers_) \cup {t}
         /\ IsInjective(timers_') /\ Sorted(timers_', due')
         /\ timers_ = <<>> \/ d <= due[Head(timers_)] => due'[Head(timers_')] = d
         /\ timers_ # <<>> /\ due[Head(timers_)] <= d
              => due'[Head(timers_')] = due[Head(timers_)]
<1> DEFINE n == Len(timers_)
<1>1. n \in Nat /\ t \in Timers
  OBVIOUS
<1>2. PICK i \in 0 .. n :
        /\ \A j \in 1 .. i : due[timers_[j]] <= d /\ timers_'[j] = timers_[j]
        /\ timers_'[i + 1] = t
        /\ \A j \in i + 1 .. n : due[timers_[j]] >= d /\ timers_'[j + 1] = timers_[j]
        /\ end' = IF pc \in {"copy", "erase"} /\ i <= end THEN end + 1 ELSE end
  BY InsertPlaces
<1>3. i \in Nat /\ i <= n
  BY <1>1, <1>2
<1>4. /\ timers_' \in Seq(Timers) /\ Len(timers_') = n + 1
      /\ \A j \in 1 .. i : timers_'[j] = timers_[j]
      /\ timers_'[i + 1] = t
      /\ \A j \in i + 2 .. n + 1 : timers_'[j] = timers_[j - 1]
      /\ ToSet(timers_') = ToSet(timers_) \cup {t}
      /\ IsInjective(timers_')
  <2>1. ASSUME NEW j \in i + 2 .. n + 1 PROVE timers_'[j] = timers_[j - 1]
    <3>1. j - 1 \in i + 1 .. n /\ (j - 1) + 1 = j
      BY <1>1, <1>3
    <3> QED
      BY <1>2, <3>1
  <2> QED
    BY <1>2, <2>1, InsertPlaces
<1>5. \A j \in 1 .. n : /\ timers_[j] \in Timers /\ timers_[j] # t
                        /\ due'[timers_[j]] = due[timers_[j]]
                        /\ due[timers_[j]] \in Int
  BY SetOfSeq
<1>6. due'[t] = d
  BY <1>1
<1>7. \A j, k \in 1 .. n : j < k => due[timers_[j]] <= due[timers_[k]]
  BY DEF Sorted
<1> HIDE DEF n
<1>8. Sorted(timers_', due')
  <2> SUFFICES ASSUME NEW j \in 1 .. n + 1, NEW k \in 1 .. n + 1, j < k
               PROVE  due'[timers_'[j]] <= due'[timers_'[k]]
    BY <1>4 DEF Sorted
  <2>1. j \in 1 .. i \/ j = i + 1 \/ (j \in i + 2 .. n + 1 /\ j - 1 \in i + 1 .. n)
    BY <1>1, <1>3
  <2>2. k \in 1 .. i \/ k = i + 1 \/ (k \in i + 2 .. n + 1 /\ k - 1 \in i + 1 .. n)
    BY <1>1, <1>3
  <2>3. \A m \in 1 .. i : m \in 1 .. n
    BY <1>1, <1>3
  <2>4. \A m \in i + 1 .. n : m \in 1 .. n
    BY <1>1, <1>3
  <2>5. CASE j \in 1 .. i
    <3>1. timers_'[j] = timers_[j] /\ due[timers_[j]] <= d
      BY <1>2, <1>4, <2>5
    <3>2. CASE k \in 1 .. i
      BY <1>4, <1>5, <1>7, <2>3, <2>5, <3>1, <3>2
    <3>3. CASE k = i + 1
      BY <1>4, <1>5, <1>6, <2>3, <2>5, <3>1, <3>3
    <3>4. CASE k \in i + 2 .. n + 1 /\ k - 1 \in i + 1 .. n
      <4>1. timers_'[k] = timers_[k - 1] /\ d <= due[timers_[k - 1]]
        BY <1>2, <1>4, <3>4
      <4>2. /\ due'[timers_[j]] = due[timers_[j]] /\ due[timers_[j]] \in Int
            /\ due'[timers_[k - 1]] = due[timers_[k - 1]] /\ due[timers_[k - 1]] \in Int
        BY <1>5, <2>3, <2>4, <2>5, <3>4
      <4> QED
        BY <3>1, <4>1, <4>2
    <3> QED
      BY <2>2, <3>2, <3>3, <3>4
  <2>6. CASE j = i + 1
    <3>1. k \in i + 2 .. n + 1 /\ k - 1 \in i + 1 .. n
      BY <1>1, <1>3, <2>2, <2>6
    <3>2. timers_'[k] = timers_[k - 1] /\ d <= due[timers_[k - 1]]
      BY <1>2, <1>4, <3>1
    <3> QED
      BY <1>4, <1>5, <1>6, <2>4, <2>6, <3>1, <3>2
  <2>7. CASE j \in i + 2 .. n + 1 /\ j - 1 \in i + 1 .. n
    <3>1. k \in i + 2 .. n + 1 /\ k - 1 \in i + 1 .. n /\ j - 1 < k - 1
      BY <1>1, <1>3, <2>2, <2>7
    <3>2. timers_'[k] = timers_[k - 1] /\ timers_'[j] = timers_[j - 1]
      BY <1>4, <2>7, <3>1
    <3>3. due[timers_[j - 1]] <= due[timers_[k - 1]]
      BY <1>7, <2>4, <2>7, <3>1
    <3> QED
      BY <1>5, <2>4, <2>7, <3>1, <3>2, <3>3
  <2> QED
    BY <2>1, <2>5, <2>6, <2>7
<1>9. timers_' # <<>> /\ Head(timers_') = timers_'[1]
  BY <1>1, <1>4
<1>10. timers_ # <<>> => 1 \in 1 .. n /\ Head(timers_) = timers_[1] /\ due[timers_[1]] \in Int
  BY <1>1, <1>5 DEF n
<1>11. CASE i = 0
  <2>1. Head(timers_') = t /\ due'[Head(timers_')] = d
    BY <1>4, <1>6, <1>9, <1>11
  <2>2. timers_ # <<>> => due[Head(timers_)] >= d
    <3>1. timers_ # <<>> => 1 \in i + 1 .. n
      BY <1>10, <1>11
    <3> QED
      BY <1>2, <1>10, <3>1
  <2> QED
    BY <1>4, <1>8, <1>9, <1>10, <2>1, <2>2
<1>12. CASE i # 0
  <2>1. 1 \in 1 .. i /\ 1 \in 1 .. n /\ timers_ # <<>>
    BY <1>1, <1>3, <1>12 DEF n
  <2>2. due[Head(timers_)] <= d /\ due'[Head(timers_')] = due[Head(timers_)]
    BY <1>2, <1>4, <1>5, <1>9, <1>10, <2>1
  <2> QED
    BY <1>4, <1>8, <1>9, <1>10, <2>1, <2>2
<1> QED
  BY <1>11, <1>12

(* Where a timer is put, seen from the iterator of HandleRead.             *)
LEMMA InsertBefore ==
  ASSUME timers_ \in Seq(Timers), end \in 0 .. Len(timers_),
         NEW t \in Timers, NEW d \in Int, Insert(t, d)
  PROVE  /\ end' \in 0 .. Len(timers_')
         /\ pc \notin {"copy", "erase"} => end' = end
         /\ pc \in {"copy", "erase"} =>
              ToSet(SubSeq(timers_', 1, end')) \in {BeforeEnd, BeforeEnd \cup {t}}
<1>1. PICK i \in 0 .. Len(timers_) :
        /\ \A j \in 1 .. i : timers_'[j] = timers_[j]
        /\ timers_'[i + 1] = t
        /\ \A j \in i + 1 .. Len(timers_) : timers_'[j + 1] = timers_[j]
        /\ end' = IF pc \in {"copy", "erase"} /\ i <= end THEN end + 1 ELSE end
  BY InsertPlaces
<1>2. timers_' \in Seq(Timers) /\ Len(timers_') = Len(timers_) + 1
  BY InsertPlaces
<1>3. end \in Nat /\ i \in Nat /\ Len(timers_) \in Nat /\ end <= Len(timers_) /\ i <= Len(timers_)
  OBVIOUS
<1>4. end' \in 0 .. Len(timers_')
  BY <1>1, <1>2, <1>3
<1> DEFINE B == BeforeEnd
           C == ToSet(SubSeq(timers_', 1, end'))
<1>5. /\ \A j \in 1 .. end : timers_[j] \in B
      /\ \A x \in B : \E j \in 1 .. end : timers_[j] = x
  BY BeforeIs DEF BeforeEnd
<1>6. /\ \A j \in 1 .. end' : timers_'[j] \in C
      /\ \A x \in C : \E j \in 1 .. end' : timers_'[j] = x
  BY <1>2, <1>4, BeforeIs
<1> HIDE DEF B, C
<1>7. CASE pc \in {"copy", "erase"} /\ i <= end
  <2>1. end' = end + 1
    BY <1>1, <1>7
  <2>2. ASSUME NEW x \in C PROVE x \in B \cup {t}
    <3>1. PICK j \in 1 .. end + 1 : timers_'[j] = x
      BY <1>6, <2>1
    <3>2. CASE j \in 1 .. i
      <4>1. j \in 1 .. end
        BY <1>3, <1>7, <3>2
      <4> QED
        BY <1>1, <1>5, <3>1, <3>2, <4>1
    <3>3. CASE j = i + 1
      BY <1>1, <3>1, <3>3
    <3>4. CASE j \notin 1 .. i /\ j # i + 1
      <4>1. j - 1 \in i + 1 .. Len(timers_) /\ j - 1 \in 1 .. end /\ (j - 1) + 1 = j
        BY <1>3, <3>4
      <4> QED
        BY <1>1, <1>5, <3>1, <4>1
    <3> QED
      BY <3>2, <3>3, <3>4
  <2>3. ASSUME NEW x \in B PROVE x \in C
    <3>1. PICK j \in 1 .. end : timers_[j] = x
      BY <1>5
    <3>2. CASE j \in 1 .. i
      <4>1. j \in 1 .. end + 1
        BY <1>3
      <4> QED
        BY <1>1, <1>6, <2>1, <3>1, <3>2, <4>1
    <3>3. CASE j \notin 1 .. i
      <4>1. j \in i + 1 .. Len(timers_) /\ j + 1 \in 1 .. end + 1
        BY <1>3, <3>3
      <4> QED
        BY <1>1, <1>6, <2>1, <3>1, <4>1
    <3> QED
      BY <3>2, <3>3
  <2>4. t \in C
    <3>1. i + 1 \in 1 .. end + 1
      BY <1>3, <1>7
    <3> QED
      BY <1>1, <1>6, <2>1, <3>1
  <2>5. C = B \cup {t}
    BY <2>2, <2>3, <2>4
  <2> QED
    BY <1>4, <1>7, <2>5 DEF B, C
<1>8. CASE pc \in {"copy", "erase"} /\ ~(i <= end)
  <2>1. end' = end /\ \A j \in 1 .. end : j \in 1 .. i
    BY <1>1, <1>3, <1>8
  <2>2. \A j \in 1 .. end : timers_'[j] = timers_[j]
    BY <1>1, <2>1
  <2>3. \A x \in C : x \in B
    BY <1>5, <1>6, <2>1, <2>2
  <2>5. \A x \in B : x \in C
    BY <1>5, <1>6, <2>1, <2>2
  <2>4. C = B
    BY <2>3, <2>5
  <2> QED
    BY <1>4, <1>8, <2>4 DEF B, C
<1>9. CASE pc \notin {"copy", "erase"}
  BY <1>1, <1>4, <1>9
<1> QED
  BY <1>7, <1>8, <1>9
-----------------------------------------------------------------------------
(* What the calls of the steps do.                                         *)

LEMMA ArmEffect ==
  ASSUME Types, DelaysBound, NEW t, ResetTimerFd(t)
  PROVE  /\ left' \in Nat /\ left' >= 1 /\ left' <= MaxDelay + steps
         /\ left' \in 0 .. MaxDelay + MaxSteps
         /\ readable' = FALSE
         /\ t \in Live => left' = 1 \/ left' = due[t]
<1>1. Live \subseteq Timers
  BY LiveIsTimers
<1>2. /\ MaxDelay \in Nat /\ MaxDelay > 0 /\ steps \in Nat /\ steps <= MaxSteps
      /\ MaxSteps \in Nat
  BY Numbers, DueNumbers
<1>3. CASE t \in Live
  <2>1. due[t] \in Int /\ due[t] <= MaxDelay + steps
    BY <1>1, <1>3, DueNumbers DEF DelaysBound
  <2>2. left' = 1 \/ (left' = due[t] /\ due[t] >= 1)
    BY <1>3, <2>1 DEF ResetTimerFd
  <2> QED
    BY <1>2, <2>1, <2>2 DEF ResetTimerFd
<1>4. CASE t \notin Live
  <2>1. left' \in 1 .. MaxDelay
    BY <1>4 DEF ResetTimerFd
  <2> QED
    BY <1>2, <1>4, <2>1 DEF ResetTimerFd
<1> QED
  BY <1>3, <1>4

(* A new timer is in nobody's hands but those of its thread.               *)
LEMMA AddEffect ==
  ASSUME TypeOK, DelaysBound, NEW th \in Threads, AddTimer(th), adding[th] = NoTimer
  PROVE  \E t \in Timers \ Live, d \in 0 .. MaxDelay, i \in Intervals :
           /\ adding' = [adding EXCEPT ![th] = t] /\ t # NoTimer
           /\ Added' = Added \cup {t}
           /\ adding \in [Threads -> Timers \cup {NoTimer}]
           /\ adding' \in [Threads -> Timers \cup {NoTimer}]
           /\ adding'["loop"] # adding'["main"] \/ adding'["main"] = NoTimer
           /\ earliest' \in [Threads -> {"begin", "yes", "no"}]
           /\ earliest' = [earliest EXCEPT ![th] = IF timers_ = <<>> THEN "yes" ELSE "begin"]
           /\ due' = [due EXCEPT ![t] = d]
           /\ due' \in [Timers -> -Floor .. MaxDelay + MaxSteps]
           /\ \A u \in Timers : due'[u] <= MaxDelay + steps
           /\ \A u \in Live : due'[u] = due[u]
           /\ interval_' = [interval_ EXCEPT ![t] = i]
           /\ interval_' \in [Timers -> Intervals \cup {0}]
<1>1. PICK t \in Timers \ Live, d \in 0 .. MaxDelay, i \in Intervals :
        /\ adding' = [adding EXCEPT ![th] = t]
        /\ earliest' = [earliest EXCEPT ![th] = IF timers_ = <<>> THEN "yes" ELSE "begin"]
        /\ due' = [due EXCEPT ![t] = d]
        /\ interval_' = [interval_ EXCEPT ![t] = i]
  BY DEF AddTimer
<1>2. Types /\ Places
  BY TypeParts
<1>3. t # NoTimer /\ t \notin Added
  BY NoTimerAssumption DEF Live
<1>4. /\ Added' = Added \cup {t}
      /\ adding \in [Threads -> Timers \cup {NoTimer}]
      /\ adding' \in [Threads -> Timers \cup {NoTimer}]
      /\ adding'["loop"] # adding'["main"] \/ adding'["main"] = NoTimer
  BY <1>1, <1>2, <1>3, AddedIs DEF Types, Threads
<1>5. d \in -Floor .. MaxDelay + MaxSteps /\ d <= MaxDelay + steps
  BY <1>2, Numbers, DueNumbers DEF Floor
<1>6. /\ due' \in [Timers -> -Floor .. MaxDelay + MaxSteps]
      /\ \A u \in Timers : due'[u] <= MaxDelay + steps
      /\ \A u \in Live : due'[u] = due[u]
  BY <1>1, <1>2, <1>5, LiveIsTimers DEF Types, DelaysBound
<1>7. /\ interval_' \in [Timers -> Intervals \cup {0}]
      /\ earliest' \in [Threads -> {"begin", "yes", "no"}]
  BY <1>1, <1>2 DEF Types
<1> QED
  BY <1>1, <1>3, <1>4, <1>6, <1>7

(* A step that keeps the timers of timers_ and their expirations keeps the *)
(* order.                                                                  *)
LEMMA OrderStays ==
  ASSUME Types, Sorted(timers_, due), timers_' = timers_,
         \A u \in Live : due'[u] = due[u]
  PROVE  Sorted(timers_', due')
<1>1. \A i \in 1 .. Len(timers_) : timers_[i] \in Live
  BY SetOfSeq DEF Types, Live, Queued
<1> QED
  BY <1>1 DEF Sorted

(* The wall clock moves every timer that waits by the same amount, so the  *)
(* order stays as it is.                                                   *)
LEMMA ClockEffect ==
  ASSUME TypeOK, NEW delta \in {-1, 1}, WallClock(delta)
  PROVE  /\ due' \in [Timers -> Int]
         /\ \A t \in Timers : /\ due'[t] >= -Floor
                              /\ due'[t] <= due[t] + 1
                              /\ delta = -1 => due'[t] <= due[t]
         /\ \A t \in Live : due'[t] = IF due[t] + delta < -Floor THEN -Floor
                                                                 ELSE due[t] + delta
         /\ Sorted(timers_, due')
<1>1. Types /\ Sorted(timers_, due)
  BY TypeParts
<1>2. /\ \A t \in Timers : due[t] \in Int /\ due[t] >= -MaxSteps
      /\ MaxSteps \in Nat
  BY <1>1, DueNumbers, Numbers
<1>3. Live \subseteq Timers /\ \A i \in 1 .. Len(timers_) : timers_[i] \in Live
  BY <1>1, LiveIsTimers, SetOfSeq DEF Live, Queued, Types
<1>4. \A t \in Timers :
        due'[t] = IF t \notin Live THEN due[t]
                  ELSE IF due[t] + delta < -Floor THEN -Floor ELSE due[t] + delta
  BY DEF WallClock
<1>5. due' \in [Timers -> Int]
  <2>1. \A t \in Timers : due'[t] \in Int
    BY <1>2, <1>4 DEF Floor
  <2>2. due' = [t \in Timers |-> due'[t]]
    BY DEF WallClock
  <2> QED
    BY <2>1, <2>2
<1>6. ASSUME NEW t \in Timers
      PROVE  /\ due'[t] >= -Floor /\ due'[t] <= due[t] + 1
             /\ delta = -1 => due'[t] <= due[t]
  BY <1>2, <1>4 DEF Floor
<1>7. \A t \in Live : due'[t] = IF due[t] + delta < -Floor THEN -Floor
                                                           ELSE due[t] + delta
  BY <1>3, <1>4
<1>8. Sorted(timers_, due')
  <2> SUFFICES ASSUME NEW i \in 1 .. Len(timers_), NEW j \in 1 .. Len(timers_), i < j
               PROVE  due'[timers_[i]] <= due'[timers_[j]]
    BY DEF Sorted
  <2>1. due[timers_[i]] <= due[timers_[j]]
    BY <1>1 DEF Sorted
  <2> DEFINE x == due[timers_[i]]
             y == due[timers_[j]]
  <2>2. x \in Int /\ y \in Int /\ x <= y
    BY <1>2, <1>3, <2>1
  <2>3. /\ due'[timers_[i]] = IF x + delta < -MaxSteps THEN -MaxSteps ELSE x + delta
        /\ due'[timers_[j]] = IF y + delta < -MaxSteps THEN -MaxSteps ELSE y + delta
    BY <1>3, <1>7 DEF Floor
  <2> HIDE DEF x, y
  <2> QED
    BY <1>2, <2>2, <2>3
<1> QED
  BY <1>5, <1>6, <1>7, <1>8
-----------------------------------------------------------------------------
-----------------------------------------------------------------------------
(* Every step keeps the invariant.                                         *)

(* What an added timer, by AddTimer of thread th, or a callback that has   *)
(* run changes: the timers of active_timers_ and rested together stay.     *)
BatchStays ==
  /\ active_timers_' \in Seq(Timers) /\ rested' \in Seq(Timers)
  /\ IsInjective(active_timers_') /\ IsInjective(rested')
  /\ ToSet(active_timers_') \cap ToSet(rested') = {}
  /\ ToSet(active_timers_') \cup ToSet(rested') = ToSet(active_timers_) \cup ToSet(rested)
  /\ \/ pc = "run"
     \/ active_timers_' = active_timers_ /\ rested' = rested

LEMMA AddKeepsIInv ==
  ASSUME IInv, NEW th \in Threads, AddTimer(th), Idle(th),
         th = "main" => shared, th = "loop" => pc \in {"poll", "run"},
         BatchStays, UNCHANGED <<timers_, end, lost, timerfd, pc, arming, shared, raced, steps>>
  PROVE  IInv'
<1>1. Types /\ Places /\ Sorted(timers_, due) /\ TypeOK /\ DelaysBound
  BY TypeParts DEF IInv
<1>2. PICK t \in Timers \ Live, d \in 0 .. MaxDelay, i \in Intervals :
        /\ adding' = [adding EXCEPT ![th] = t] /\ t # NoTimer
        /\ Added' = Added \cup {t}
        /\ adding \in [Threads -> Timers \cup {NoTimer}]
        /\ adding' \in [Threads -> Timers \cup {NoTimer}]
        /\ adding'["loop"] # adding'["main"] \/ adding'["main"] = NoTimer
        /\ earliest' \in [Threads -> {"begin", "yes", "no"}]
        /\ earliest' = [earliest EXCEPT ![th] = IF timers_ = <<>> THEN "yes" ELSE "begin"]
        /\ due' \in [Timers -> -Floor .. MaxDelay + MaxSteps]
        /\ \A u \in Timers : due'[u] <= MaxDelay + steps
        /\ \A u \in Live : due'[u] = due[u]
        /\ interval_' \in [Timers -> Intervals \cup {0}]
  BY <1>1, AddEffect DEF Idle
<1>3. UNCHANGED <<timers_, end, lost, left, readable, pc, arming, shared, raced, steps>>
  BY DEF timerfd
<1>4. Types'
  BY <1>1, <1>2, <1>3 DEF Types, BatchStays
<1>5. BeforeEnd' = BeforeEnd /\ Queued' = Queued /\ Live' = Live \cup {t}
  BY <1>2, <1>3 DEF BeforeEnd, BatchStays, Queued, Live
<1>6. Places'
  <2>1. (Added' \cup lost') \cap Queued' = {} /\ Added' \cap lost' = {}
    BY <1>1, <1>2, <1>3, <1>5 DEF Places, Live
  <2>2. IF pc' = "erase" THEN ToSet(active_timers_') \subseteq BeforeEnd'
        ELSE ToSet(timers_') \cap (ToSet(active_timers_') \cup ToSet(rested')) = {}
    BY <1>1, <1>3, <1>5 DEF Places, BatchStays
  <2>3. raced' \subseteq Live' \ lost'
    BY <1>1, <1>3, <1>5 DEF Places
  <2> QED
    BY <1>1, <1>2, <1>3, <2>1, <2>2, <2>3 DEF Places, BatchStays
<1>7. Sorted(timers_', due')
  BY <1>1, <1>2, <1>3, OrderStays
<1>8. TypeOK'
  BY <1>4, <1>6, <1>7, TypePartsNext
<1>9. BatchesAgree' /\ DelaysBound'
  BY <1>1, <1>2, <1>3 DEF IInv, BatchesAgree, BatchStays, DelaysBound, Threads
<1>10. OthersWait'
  BY <1>1, <1>2, <1>3 DEF IInv, OthersWait, Types, Threads
<1>11. UncopiedRaced'
  BY <1>3, <1>5 DEF IInv, UncopiedRaced, Uncopied, BatchStays
<1>12. OwnLoop'
  BY <1>1, <1>2, <1>3 DEF IInv, OwnLoop, Types, Threads
<1>13. OwnLoopArmsFirst'
  BY <1>1, <1>2, <1>3, <1>5, LiveIsTimers
  DEF IInv, OwnLoop, OwnLoopArmsFirst, Idle, Types, Threads, Live, Queued
<1>14. PendingIsArmed' /\ ArmedThroughout'
  <2>1. timers_ # <<>> => due'[Head(timers_)] = due[Head(timers_)]
    BY <1>1, <1>2, LiveIsTimers DEF Live, Queued
  <2> QED
    BY <1>3, <2>1 DEF IInv, PendingIsArmed, WakeUpDue, ArmedThroughout
<1> QED
  BY <1>8, <1>9, <1>10, <1>11, <1>12, <1>13, <1>14 DEF IInv

(* Steps that touch neither the timers nor their expirations.              *)
LEMMA QuietKeepsIInv ==
  ASSUME IInv,
         UNCHANGED <<timers_, active_timers_, rested, lost, due, interval_, adding, shared,
                     raced, steps>>,
         \/ UNCHANGED <<pc, end>>
         \/ pc # "erase" /\ pc' # "erase" /\ end' \in 0 .. Len(timers_),
         left' \in 0 .. MaxDelay + MaxSteps, left' <= MaxDelay + steps,
         readable' \in BOOLEAN,
         pc' \in {"poll", "read", "bound", "copy", "erase", "run", "reset"},
         earliest' \in [Threads -> {"begin", "yes", "no"}],
         arming' \in [Threads -> Timers \cup {NoTimer}],
         BatchesAgree', OthersWait', OwnLoop', OwnLoopArmsFirst', PendingIsArmed',
         ArmedThroughout'
  PROVE  IInv'
<1>1. Types /\ Places /\ Sorted(timers_, due) /\ DelaysBound
  BY TypeParts DEF IInv
<1>2. Types' /\ Sorted(timers_', due') /\ Added' = Added
  BY <1>1, AddedIs DEF Types
<1>3. Queued' = Queued /\ Live' = Live
  BY <1>2 DEF Queued, Live
<1>4. pc' = "erase" => pc = "erase" /\ BeforeEnd' = BeforeEnd /\ Uncopied' = Uncopied
  BY DEF BeforeEnd, Uncopied
<1>5. IF pc' = "erase" THEN ToSet(active_timers_') \subseteq BeforeEnd'
      ELSE ToSet(timers_') \cap (ToSet(active_timers_') \cup ToSet(rested')) = {}
  BY <1>1, <1>4 DEF Places
<1>6. Places'
  BY <1>1, <1>2, <1>3, <1>5 DEF Places
<1>7. TypeOK'
  BY <1>2, <1>6, TypePartsNext
<1>8. UncopiedRaced' /\ DelaysBound'
  BY <1>1, <1>4 DEF IInv, UncopiedRaced, DelaysBound
<1> QED
  BY <1>7, <1>8 DEF IInv

(* While HandleRead is past its read no claim about the armed timerfd has  *)
(* to be kept.                                                             *)
LEMMA BusyKeepsIInv ==
  ASSUME IInv, pc' # "poll", UNCHANGED <<left, steps>>,
         Types', Places', Sorted(timers_', due'),
         \A t \in Timers : due'[t] <= MaxDelay + steps,
         BatchesAgree', OthersWait', UncopiedRaced', OwnLoop'
  PROVE  IInv'
<1>1. TypeOK'
  BY TypePartsNext
<1>2. DelaysBound'
  BY DEF IInv, DelaysBound
<1>3. OwnLoopArmsFirst' /\ PendingIsArmed' /\ ArmedThroughout'
  BY DEF OwnLoopArmsFirst, PendingIsArmed, WakeUpDue, ArmedThroughout
<1> QED
  BY <1>1, <1>2, <1>3 DEF IInv

LEMMA ArmKeepsIInv ==
  ASSUME IInv, NEW th \in Threads, Arm(th)
  PROVE  IInv'
<1>1. Types /\ DelaysBound
  BY TypeParts DEF IInv
<1>2. /\ arming[th] # NoTimer /\ ResetTimerFd(arming[th])
      /\ arming' = [arming EXCEPT ![th] = NoTimer]
      /\ UNCHANGED <<queue, pc, inserting, shared, raced, steps>>
  BY DEF Arm
<1>3. /\ left' \in Nat /\ left' >= 1 /\ left' <= MaxDelay + steps
      /\ left' \in 0 .. MaxDelay + MaxSteps
      /\ readable' = FALSE
      /\ arming[th] \in Live => left' = 1 \/ left' = due[arming[th]]
  BY <1>1, <1>2, ArmEffect
<1>4. arming' \in [Threads -> Timers \cup {NoTimer}]
  BY <1>1, <1>2 DEF Types
<1>5. UNCHANGED <<timers_, end, active_timers_, rested, lost, due, interval_, pc, adding,
                  earliest, shared, raced, steps>>
  BY <1>2 DEF queue, inserting
<1>6. BatchesAgree' /\ OthersWait'
  BY <1>5 DEF IInv, BatchesAgree, OthersWait
<1>7. OwnLoop'
  BY <1>1, <1>2, <1>5 DEF IInv, OwnLoop, Types, Threads
<1>8. OwnLoopArmsFirst'
  <2>1. Live' = Live
    BY <1>5 DEF Live, Added, Queued
  <2> QED
    BY <1>1, <1>2, <1>5, <2>1 DEF IInv, OwnLoopArmsFirst, Types, Threads
<1>9. PendingIsArmed'
  BY <1>3 DEF PendingIsArmed, WakeUpDue
<1>10. ArmedThroughout'
  <2> SUFFICES ASSUME ~shared, steps = 0, timers_ # <<>>, pc = "poll", arming'["loop"] = NoTimer
               PROVE  left' = 1 \/ left' <= due[Head(timers_)]
    BY <1>5 DEF ArmedThroughout
  <2>1. th = "loop"
    BY <1>2 DEF IInv, OwnLoop, Threads
  <2>2. arming[th] \in Live /\ due[arming[th]] <= due[Head(timers_)]
    BY <1>2, <2>1 DEF IInv, OwnLoopArmsFirst
  <2> QED
    BY <1>3, <2>2
<1>11. /\ readable' \in BOOLEAN /\ earliest' \in [Threads -> {"begin", "yes", "no"}]
       /\ pc' \in {"poll", "read", "bound", "copy", "erase", "run", "reset"}
       /\ UNCHANGED <<pc, end>>
       /\ UNCHANGED <<timers_, active_timers_, rested, lost, due, interval_, adding, shared,
                      raced, steps>>
  BY <1>1, <1>3, <1>5 DEF Types
<1> QED
  BY <1>3, <1>4, <1>6, <1>7, <1>8, <1>9, <1>10, <1>11, QuietKeepsIInv

LEMMA CompareKeepsIInv ==
  ASSUME IInv, NEW th \in Threads, CompareFirst(th)
  PROVE  IInv'
<1>1. Types /\ Places /\ DelaysBound
  BY TypeParts DEF IInv
<1>2. /\ adding[th] # NoTimer /\ earliest[th] = "begin"
      /\ UNCHANGED <<timers_, end, active_timers_, rested, lost, due, interval_, left, readable,
                     pc, adding, arming, shared, raced, steps>>
  BY DEF CompareFirst, queue, timerfd
<1>3. PICK e \in FirstIsLater(adding[th]) : earliest' = [earliest EXCEPT ![th] = e]
  BY DEF CompareFirst
<1>4. e \in {"yes", "no"}
  BY <1>3 DEF FirstIsLater
<1>5. earliest' \in [Threads -> {"begin", "yes", "no"}]
  BY <1>1, <1>3, <1>4 DEF Types
<1>6. BatchesAgree' /\ OwnLoop'
  BY <1>2 DEF IInv, BatchesAgree, OwnLoop
<1>7. OthersWait'
  BY <1>1, <1>2, <1>3 DEF IInv, OthersWait, Types
<1>8. OwnLoopArmsFirst'
  <2> SUFFICES ASSUME ~shared, pc = "poll" PROVE OwnLoopArmsFirst'
    BY <1>2 DEF OwnLoopArmsFirst
  <2>1. th = "loop"
    BY <1>2 DEF IInv, OwnLoop, Threads
  <2>2. arming["loop"] = NoTimer
    BY <1>2, <2>1 DEF IInv, OwnLoopArmsFirst
  <2>3. ASSUME timers_ # <<>>
        PROVE  /\ e = "yes" => due[adding["loop"]] <= due[Head(timers_)]
               /\ e = "no" => due[Head(timers_)] <= due[adding["loop"]]
    <3>1. due[adding["loop"]] \in Int /\ due[Head(timers_)] \in Int
      <4>1. adding["loop"] \in Timers /\ Head(timers_) \in Timers
        BY <1>1, <1>2, <2>1, <2>3, LiveIsTimers DEF Types
      <4> QED
        BY <1>1, <4>1, DueNumbers
    <3>2. e = IF due[adding["loop"]] < due[Head(timers_)] THEN "yes" ELSE "no"
      BY <1>3, <2>1, <2>3 DEF FirstIsLater
    <3> QED
      BY <3>1, <3>2
  <2>4. earliest'["loop"] = e
    BY <1>1, <1>3, <2>1 DEF Types
  <2> QED
    BY <1>2, <2>2, <2>3, <2>4 DEF OwnLoopArmsFirst
<1>9. PendingIsArmed' /\ ArmedThroughout'
  BY <1>2 DEF IInv, PendingIsArmed, WakeUpDue, ArmedThroughout
<1>10. /\ left' \in 0 .. MaxDelay + MaxSteps /\ left' <= MaxDelay + steps
       /\ readable' \in BOOLEAN /\ arming' \in [Threads -> Timers \cup {NoTimer}]
       /\ pc' \in {"poll", "read", "bound", "copy", "erase", "run", "reset"}
       /\ UNCHANGED <<pc, end>>
       /\ UNCHANGED <<timers_, active_timers_, rested, lost, due, interval_, adding, shared,
                      raced, steps>>
  BY <1>1, <1>2 DEF Types, DelaysBound
<1> QED
  BY <1>5, <1>6, <1>7, <1>8, <1>9, <1>10, QuietKeepsIInv

LEMMA PassingKeepsIInv ==
  ASSUME IInv, Poll \/ ReadTimerFd \/ LowerBound \/ RunEnds \/ ResetLast
  PROVE  IInv'
<1>1. Types /\ DelaysBound
  BY TypeParts DEF IInv
<1>2. /\ UNCHANGED <<timers_, active_timers_, rested, lost, due, interval_, left, adding,
                     earliest, shared, raced, steps>>
      /\ readable' \in BOOLEAN
      /\ adding["loop"] = NoTimer /\ arming["loop"] = NoTimer
      /\ pc # "erase" /\ pc' \in {"read", "bound", "copy", "reset", "poll"}
      /\ arming' = arming \/ pc' = "poll"
      /\ BatchesAgree'
  BY <1>1 DEF Poll, ReadTimerFd, LowerBound, RunEnds, ResetLast, LoopAt, Idle, Types, queue,
              inserting, timerfd, IInv, BatchesAgree
<1>3. end' \in 0 .. Len(timers_)
  BY <1>1 DEF Poll, ReadTimerFd, LowerBound, RunEnds, ResetLast, Types, queue, Bounds
<1>4. OthersWait'
  BY <1>2 DEF IInv, OthersWait
<1>5. CASE pc' # "poll"
  <2>1. OwnLoop' /\ OwnLoopArmsFirst' /\ PendingIsArmed' /\ ArmedThroughout'
    BY <1>2, <1>5 DEF IInv, OwnLoop, OwnLoopArmsFirst, PendingIsArmed, WakeUpDue, ArmedThroughout
  <2>2. arming' \in [Threads -> Timers \cup {NoTimer}]
    BY <1>1, <1>2, <1>5 DEF Types
  <2> QED
    BY <1>1, <1>2, <1>3, <1>4, <1>5, <2>1, <2>2, QuietKeepsIInv DEF Types, DelaysBound
<1>6. CASE pc' = "poll"
  <2>1. /\ arming' = IF timers_ = <<>> THEN arming
                     ELSE [arming EXCEPT !["loop"] = Head(timers_)]
        /\ UNCHANGED <<left, readable>>
    BY <1>6 DEF Poll, ReadTimerFd, LowerBound, RunEnds, ResetLast, timerfd
  <2>2. timers_ # <<>> => Head(timers_) \in Live /\ Head(timers_) \in Timers
    BY <1>1, LiveIsTimers DEF Live, Queued
  <2>3. arming' \in [Threads -> Timers \cup {NoTimer}]
    BY <1>1, <2>1, <2>2 DEF Types
  <2>4. OwnLoop'
    BY <1>1, <1>2, <2>1 DEF IInv, OwnLoop, Types, Threads
  <2>5. /\ timers_ = <<>> => arming'["loop"] = NoTimer
        /\ timers_ # <<>> => arming'["loop"] = Head(timers_)
    BY <1>1, <1>2, <2>1 DEF Types, Threads
  <2>6. Live' = Live
    BY <1>2 DEF Live, Added, Queued
  <2>7. OwnLoopArmsFirst'
    <3>1. timers_ # <<>> => due[Head(timers_)] \in Int
      BY <1>1, <2>2, DueNumbers
    <3> QED
      BY <1>2, <2>2, <2>5, <2>6, <3>1 DEF OwnLoopArmsFirst
  <2>8. PendingIsArmed' /\ ArmedThroughout'
    <3>1. timers_ # <<>> => arming'["loop"] # NoTimer
      BY <2>2, <2>5, NoTimerAssumption
    <3> QED
      BY <1>2, <3>1 DEF PendingIsArmed, WakeUpDue, ArmedThroughout, Threads
  <2> QED
    BY <1>1, <1>2, <1>3, <1>4, <2>1, <2>3, <2>4, <2>7, <2>8, QuietKeepsIInv
    DEF Types, DelaysBound
<1> QED
  BY <1>5, <1>6

(* The copy and the erase of HandleRead.                                   *)
LEMMA CopyKeepsIInv ==
  ASSUME IInv, CopyExpired
  PROVE  IInv'
<1>1. Types /\ Places /\ Sorted(timers_, due) /\ DelaysBound
  BY TypeParts DEF IInv
<1>2. /\ pc = "copy" /\ pc' = "erase" /\ adding["loop"] = NoTimer
      /\ active_timers_' = SubSeq(timers_, 1, end)
      /\ UNCHANGED <<timers_, end, rested, lost, due, interval_, left, readable, adding,
                     earliest, arming, shared, raced, steps>>
  BY DEF CopyExpired, LoopAt, Idle, timerfd, inserting
<1>3. active_timers_ = <<>> /\ rested = <<>>
  BY <1>2 DEF IInv, BatchesAgree
<1>4. /\ active_timers_' \in Seq(Timers)
      /\ ToSet(active_timers_') \subseteq ToSet(timers_)
      /\ IsInjective(active_timers_')
  <2>1. timers_ \in Seq(Timers) /\ end \in 0 .. Len(timers_) /\ IsInjective(timers_)
    BY <1>1 DEF Types, Places
  <2> QED
    BY <1>2, <2>1, SplitPlaces
<1>5. Types' /\ Sorted(timers_', due')
  BY <1>1, <1>2, <1>4 DEF Types
<1>6. ToSet(active_timers_') = BeforeEnd' /\ Uncopied' = {}
  BY <1>2 DEF BeforeEnd, Uncopied
<1>7. Added' = Added /\ Queued' = Queued /\ Live' = Live /\ ToSet(rested') = {}
  BY <1>2, <1>3, <1>4, AddedIs, EmptyPlace DEF Queued, Live
<1>8. Places'
  BY <1>1, <1>2, <1>4, <1>6, <1>7 DEF Places
<1>9. BatchesAgree' /\ OthersWait' /\ UncopiedRaced' /\ OwnLoop'
  BY <1>2, <1>3, <1>6 DEF IInv, BatchesAgree, OthersWait, UncopiedRaced, OwnLoop
<1> QED
  BY <1>1, <1>2, <1>5, <1>8, <1>9, BusyKeepsIInv DEF DelaysBound

LEMMA EraseKeepsIInv ==
  ASSUME IInv, EraseExpired
  PROVE  IInv'
<1>1. Types /\ Places /\ Sorted(timers_, due) /\ DelaysBound
  BY TypeParts DEF IInv
<1>2. /\ pc = "erase" /\ pc' = "run" /\ adding["loop"] = NoTimer
      /\ timers_' = SubSeq(timers_, end + 1, Len(timers_))
      /\ lost' = lost \cup Uncopied /\ end' = 0
      /\ raced' = (raced \ Uncopied) \cup ({adding["main"]} \ {NoTimer})
      /\ UNCHANGED <<active_timers_, rested, due, interval_, left, readable, adding, earliest,
                     arming, shared, steps>>
  BY DEF EraseExpired, LoopAt, Idle, timerfd, inserting
<1>3. rested = <<>>
  BY <1>2 DEF IInv, BatchesAgree
<1>4. /\ timers_ \in Seq(Timers) /\ end \in 0 .. Len(timers_) /\ IsInjective(timers_)
      /\ end \in Nat /\ Len(timers_) \in Nat
  BY <1>1 DEF Types, Places
<1>5. /\ timers_' \in Seq(Timers) /\ Len(timers_') = Len(timers_) - end
      /\ \A j \in 1 .. Len(timers_) - end : timers_'[j] = timers_[end + j]
      /\ ToSet(timers_) = BeforeEnd \cup ToSet(timers_')
      /\ IsInjective(timers_') /\ BeforeEnd \cap ToSet(timers_') = {}
  BY <1>2, <1>4, SplitPlaces DEF BeforeEnd
<1>6. Types'
  <2>1. Uncopied \subseteq Timers
    BY <1>1, <1>5, LiveIsTimers DEF Uncopied
  <2> QED
    BY <1>1, <1>2, <1>5, <2>1 DEF Types
<1>7. Sorted(timers_', due')
  <2> SUFFICES ASSUME NEW i \in 1 .. Len(timers_'), NEW j \in 1 .. Len(timers_'), i < j
               PROVE  due[timers_'[i]] <= due[timers_'[j]]
    BY <1>2 DEF Sorted
  <2>1. /\ end + i \in 1 .. Len(timers_) /\ end + j \in 1 .. Len(timers_) /\ end + i < end + j
        /\ i \in 1 .. Len(timers_) - end /\ j \in 1 .. Len(timers_) - end
    BY <1>4, <1>5
  <2>2. timers_'[i] = timers_[end + i] /\ timers_'[j] = timers_[end + j]
    BY <1>5, <2>1
  <2> QED
    BY <1>1, <2>1, <2>2 DEF Sorted
<1>8. /\ ToSet(active_timers_) \subseteq BeforeEnd /\ ToSet(rested) = {}
      /\ Added' = Added /\ ToSet(active_timers_') = ToSet(active_timers_)
      /\ ToSet(rested') = {}
  BY <1>1, <1>2, <1>3, AddedIs, EmptyPlace DEF Places
<1>9. Queued = Queued' \cup Uncopied /\ Queued' \cap Uncopied = {} /\ Uncopied \subseteq Queued
  BY <1>5, <1>8 DEF Queued, Uncopied
<1>10. /\ Added' \cap lost' = {} /\ (Added' \cup lost') \cap Queued' = {}
       /\ raced' \subseteq Live' \ lost'
  <2>1. {adding["main"]} \ {NoTimer} \subseteq Added
    BY AddedIs
  <2>2. Added' \cap lost' = {} /\ (Added' \cup lost') \cap Queued' = {}
    BY <1>1, <1>2, <1>8, <1>9 DEF Places
  <2> QED
    BY <1>1, <1>2, <1>8, <1>9, <2>1, <2>2 DEF Places, Live
<1>11. Places'
  BY <1>1, <1>2, <1>3, <1>5, <1>8, <1>10 DEF Places
<1>12. OthersWait'
  BY <1>2 DEF OthersWait, Threads
<1>13. OwnLoop' /\ BatchesAgree' /\ UncopiedRaced'
  BY <1>2, <1>3 DEF IInv, OwnLoop, BatchesAgree, UncopiedRaced
<1> QED
  BY <1>1, <1>2, <1>6, <1>7, <1>11, <1>12, <1>13, BusyKeepsIInv DEF DelaysBound

LEMMA EmplaceKeepsIInv ==
  ASSUME IInv, NEW th \in Threads, Emplace(th)
  PROVE  IInv'
<1> DEFINE t == adding[th]
<1>1. Types /\ Places /\ Sorted(timers_, due) /\ DelaysBound
  BY TypeParts DEF IInv
<1>2. /\ t # NoTimer /\ earliest[th] # "begin" /\ Insert(t, due[t])
      /\ adding' = [adding EXCEPT ![th] = NoTimer]
      /\ earliest' = [earliest EXCEPT ![th] = "no"]
      /\ arming' = IF earliest[th] = "yes" THEN [arming EXCEPT ![th] = t] ELSE arming
      /\ raced' = IF th = "main" /\ pc \in {"copy", "erase"} THEN raced \cup {t} ELSE raced
      /\ UNCHANGED <<active_timers_, rested, lost, due, interval_, left, readable, pc, shared,
                     steps>>
  BY DEF Emplace, timerfd
<1>3. t \in Added /\ t \in Timers \ ToSet(timers_) /\ due[t] \in Int
  <2>1. t \in Added /\ t \in Timers
    BY <1>1, <1>2 DEF Added, Types
  <2> QED
    BY <1>1, <2>1, DueNumbers DEF Places, Queued
<1>4. /\ timers_' \in Seq(Timers) /\ timers_' # <<>>
      /\ ToSet(timers_') = ToSet(timers_) \cup {t}
      /\ IsInjective(timers_') /\ Sorted(timers_', due')
      /\ timers_ = <<>> \/ due[t] <= due[Head(timers_)] => due[Head(timers_')] = due[t]
      /\ timers_ # <<>> /\ due[Head(timers_)] <= due[t]
           => due[Head(timers_')] = due[Head(timers_)]
  <2>1. /\ timers_ \in Seq(Timers) /\ IsInjective(timers_) /\ due \in [Timers -> Int]
        /\ due' = due
    BY <1>1, <1>2, DueNumbers DEF Types, Places
  <2>2. due' = [due EXCEPT ![t] = due[t]]
    BY <2>1
  <2> QED
    BY <1>1, <1>2, <1>3, <2>1, <2>2, InsertEffect
<1>5. /\ end' \in 0 .. Len(timers_')
      /\ pc \notin {"copy", "erase"} => end' = end
      /\ pc \in {"copy", "erase"} => BeforeEnd' \in {BeforeEnd, BeforeEnd \cup {t}}
  <2>1. timers_ \in Seq(Timers) /\ end \in 0 .. Len(timers_) /\ t \in Timers
    BY <1>1, <1>3 DEF Types
  <2> QED
    BY <1>2, <1>3, <2>1, InsertBefore DEF BeforeEnd
<1>6. pc \in {"copy", "erase"} => th = "main"
  BY <1>2 DEF IInv, BatchesAgree, Threads
<1>7. /\ adding' \in [Threads -> Timers \cup {NoTimer}]
      /\ earliest' \in [Threads -> {"begin", "yes", "no"}]
      /\ arming' \in [Threads -> Timers \cup {NoTimer}]
      /\ adding'["loop"] # adding'["main"] \/ adding'["main"] = NoTimer
      /\ Added' = Added \ {t}
  BY <1>1, <1>2, <1>3, AddedIs DEF Types, Places, Threads
<1> HIDE DEF t
<1>8. Types'
  BY <1>1, <1>2, <1>4, <1>5, <1>7 DEF Types
<1>9. Queued' = Queued \cup {t} /\ Live' = Live /\ lost' = lost
  BY <1>2, <1>3, <1>4, <1>7 DEF Queued, Live
<1>10. Places'
  <2>1. Added' \cap lost' = {} /\ (Added' \cup lost') \cap Queued' = {}
    BY <1>1, <1>3, <1>7, <1>9 DEF Places
  <2>2. IF pc' = "erase" THEN ToSet(active_timers_') \subseteq BeforeEnd'
        ELSE ToSet(timers_') \cap (ToSet(active_timers_') \cup ToSet(rested')) = {}
    <3>1. t \notin Queued
      BY <1>1, <1>3 DEF Places
    <3> QED
      BY <1>1, <1>2, <1>4, <1>5, <3>1 DEF Places, Queued
  <2>3. raced' \subseteq Live' \ lost'
    BY <1>1, <1>2, <1>3, <1>9 DEF Places, Live
  <2> QED
    BY <1>1, <1>2, <1>4, <1>7, <2>1, <2>2, <2>3 DEF Places
<1>11. TypeOK'
  BY <1>4, <1>8, <1>10, TypePartsNext
<1>12. BatchesAgree' /\ DelaysBound'
  BY <1>1, <1>2, <1>5 DEF IInv, BatchesAgree, DelaysBound, Types, Threads
<1>13. OthersWait'
  BY <1>4 DEF OthersWait
<1>14. UncopiedRaced'
  <2> SUFFICES ASSUME pc = "erase" PROVE Uncopied' \subseteq raced'
    BY <1>2 DEF UncopiedRaced
  <2>1. raced' = raced \cup {t} /\ BeforeEnd' \subseteq BeforeEnd \cup {t}
    BY <1>2, <1>5, <1>6
  <2> QED
    BY <1>2, <2>1 DEF IInv, UncopiedRaced, Uncopied
<1>15. ASSUME ~shared PROVE th = "loop" /\ raced = {}
  BY <1>2, <1>15 DEF IInv, OwnLoop, Threads, t
<1>16. OwnLoop'
  BY <1>1, <1>2, <1>15 DEF IInv, OwnLoop, Types, Threads
<1>17. earliest[th] \in {"yes", "no"}
  BY <1>1, <1>2 DEF Types
<1>18. earliest[th] = "no" /\ t \notin raced => timers_ # <<>>
  BY <1>2 DEF IInv, OthersWait, t
<1>19. /\ earliest[th] = "yes" => arming'[th] = t
       /\ earliest[th] = "no" => arming' = arming
  BY <1>1, <1>2 DEF Types
<1>20. ASSUME ~shared, pc = "poll"
       PROVE  /\ arming["loop"] = NoTimer /\ adding'["loop"] = NoTimer
              /\ earliest["loop"] = "yes" =>
                   arming'["loop"] = t /\ due[Head(timers_')] = due[t]
              /\ earliest["loop"] = "no" =>
                   /\ arming'["loop"] = NoTimer /\ timers_ # <<>>
                   /\ due[Head(timers_')] = due[Head(timers_)]
  <2>1. th = "loop" /\ t = adding["loop"] /\ adding["loop"] # NoTimer
    BY <1>2, <1>15, <1>20 DEF t
  <2>2. arming["loop"] = NoTimer
    BY <1>20, <2>1 DEF IInv, OwnLoopArmsFirst
  <2>3. adding'["loop"] = NoTimer
    BY <1>1, <1>2, <2>1 DEF Types
  <2>4. earliest["loop"] = "yes" => timers_ = <<>> \/ due[t] <= due[Head(timers_)]
    BY <1>20, <2>1 DEF IInv, OwnLoopArmsFirst
  <2>5. earliest["loop"] = "no" => timers_ # <<>> /\ due[Head(timers_)] <= due[t]
    BY <1>15, <1>18, <1>20, <2>1 DEF IInv, OwnLoopArmsFirst
  <2> QED
    BY <1>4, <1>19, <2>1, <2>2, <2>3, <2>4, <2>5
<1>21. OwnLoopArmsFirst'
  <2> SUFFICES ASSUME ~shared, pc = "poll", arming'["loop"] # NoTimer
               PROVE  /\ arming'["loop"] \in Live
                      /\ due[arming'["loop"]] <= due[Head(timers_')]
    BY <1>2, <1>4, <1>9, <1>20 DEF OwnLoopArmsFirst
  <2>1. arming'["loop"] = t /\ due[Head(timers_')] = due[t]
    BY <1>15, <1>17, <1>20
  <2> QED
    BY <1>3, <2>1 DEF Live
<1>22. PendingIsArmed'
  <2> SUFFICES ASSUME raced' = {} PROVE WakeUpDue'
    BY DEF PendingIsArmed
  <2>1. raced = {}
    BY <1>2
  <2>2. CASE earliest[th] = "yes"
    BY <1>2, <1>19, <2>2 DEF WakeUpDue, Threads
  <2>3. CASE earliest[th] = "no"
    BY <1>2, <1>18, <1>19, <2>1, <2>3 DEF IInv, PendingIsArmed, WakeUpDue
  <2> QED
    BY <1>17, <2>2, <2>3
<1>23. ArmedThroughout'
  <2> SUFFICES ASSUME ~shared, steps = 0, pc = "poll", arming'["loop"] = NoTimer
               PROVE  readable \/ left = 1 \/ left <= due[Head(timers_')]
    BY <1>2 DEF ArmedThroughout
  <2>1. earliest["loop"] = "no"
    BY <1>2, <1>15, <1>17, <1>20
  <2> QED
    BY <1>20, <2>1 DEF IInv, ArmedThroughout
<1> QED
  BY <1>11, <1>12, <1>13, <1>14, <1>16, <1>21, <1>22, <1>23 DEF IInv

LEMMA RunKeepsIInv ==
  ASSUME IInv, RunTimer
  PROVE  IInv'
<1>1. Types /\ Places /\ Sorted(timers_, due) /\ DelaysBound
  BY TypeParts DEF IInv
<1>2. /\ pc = "run" /\ active_timers_ # <<>> /\ Idle("loop")
      /\ active_timers_' = Tail(active_timers_)
      /\ rested' = Append(rested, Head(active_timers_))
      /\ UNCHANGED <<timers_, end, lost, timerfd, pc, arming, shared, raced, steps>>
  BY DEF RunTimer, LoopAt
<1>3. /\ Head(active_timers_) \in Timers /\ active_timers_' \in Seq(Timers)
      /\ ToSet(active_timers_) = ToSet(active_timers_') \cup {Head(active_timers_)}
      /\ IsInjective(active_timers_')
      /\ Head(active_timers_) \notin ToSet(active_timers_')
  <2>1. active_timers_ \in Seq(Timers) /\ active_timers_ # <<>> /\ IsInjective(active_timers_)
    BY <1>1, <1>2 DEF Types, Places
  <2> QED
    BY <1>2, <2>1, TailPlaces
<1>4. /\ rested' \in Seq(Timers) /\ ToSet(rested') = ToSet(rested) \cup {Head(active_timers_)}
      /\ IsInjective(rested')
  <2>1. rested \in Seq(Timers) /\ IsInjective(rested) /\ Head(active_timers_) \notin ToSet(rested)
    BY <1>1, <1>3 DEF Types, Places
  <2> QED
    BY <1>2, <1>3, <2>1, AppendPlaces
<1>5. BatchStays
  <2>1. ToSet(active_timers_') \cap ToSet(rested') = {}
    BY <1>1, <1>3, <1>4 DEF Places
  <2>2. ToSet(active_timers_') \cup ToSet(rested') = ToSet(active_timers_) \cup ToSet(rested)
    BY <1>3, <1>4
  <2> QED
    BY <1>2, <1>3, <1>4, <2>1, <2>2 DEF BatchStays
<1>6. CASE AddTimer("loop")
  <2>1. "loop" \in Threads /\ "loop" # "main"
    BY DEF Threads
  <2> QED
    BY <1>2, <1>5, <1>6, <2>1, AddKeepsIInv
<1>7. CASE UNCHANGED <<due, interval_, inserting>>
  <2>1. UNCHANGED <<timers_, end, lost, due, interval_, adding, earliest, left, readable, pc,
                    arming, shared, raced, steps>>
    BY <1>2, <1>7 DEF timerfd, inserting
  <2>2. Types' /\ Sorted(timers_', due')
    BY <1>1, <1>3, <1>4, <2>1 DEF Types
  <2>3. Added' = Added /\ Queued' = Queued /\ Live' = Live
    BY <1>5, <2>1, AddedIs DEF Queued, Live, BatchStays
  <2>4. Places'
    BY <1>1, <1>2, <1>5, <2>1, <2>3 DEF Places, BatchStays
  <2>5. BatchesAgree' /\ OthersWait' /\ UncopiedRaced' /\ OwnLoop'
    BY <1>2, <2>1 DEF IInv, BatchesAgree, OthersWait, UncopiedRaced, OwnLoop
  <2> QED
    BY <1>1, <1>2, <2>1, <2>2, <2>4, <2>5, BusyKeepsIInv DEF DelaysBound
<1> QED
  BY <1>6, <1>7 DEF RunTimer

LEMMA ResetKeepsIInv ==
  ASSUME IInv, ResetTimer
  PROVE  IInv'
<1> DEFINE h == Head(rested)
<1>1. Types /\ Places /\ Sorted(timers_, due) /\ DelaysBound
  BY TypeParts DEF IInv
<1>2. /\ pc = "reset" /\ rested # <<>> /\ rested' = Tail(rested) /\ raced' = raced \ {h}
      /\ UNCHANGED <<active_timers_, lost, interval_, left, readable, pc, adding, earliest,
                     arming, shared, steps>>
  BY DEF ResetTimer, LoopAt, timerfd, inserting
<1>3. /\ h \in Timers /\ rested' \in Seq(Timers)
      /\ ToSet(rested) = ToSet(rested') \cup {h}
      /\ IsInjective(rested') /\ h \notin ToSet(rested')
  <2>1. rested \in Seq(Timers) /\ rested # <<>> /\ IsInjective(rested)
    BY <1>1, <1>2 DEF Types, Places
  <2> QED
    BY <1>2, <2>1, TailPlaces
<1>4. h \notin ToSet(timers_) /\ h \notin ToSet(active_timers_) /\ h \notin Added /\ h \notin lost
  BY <1>1, <1>2, <1>3 DEF Places, Queued
<1>5. /\ timers_ \in Seq(Timers) /\ IsInjective(timers_) /\ due \in [Timers -> Int]
      /\ interval_[h] \in Nat /\ interval_[h] <= MaxDelay
      /\ MaxDelay \in Nat /\ MaxSteps \in Nat /\ steps \in Nat
  BY <1>1, <1>3, DueNumbers, Numbers DEF Types, Places
<1>6. active_timers_ = <<>> /\ end = 0 /\ Added' = Added
  BY <1>2, AddedIs DEF IInv, BatchesAgree
<1> HIDE DEF h
<1>7. ASSUME NEW d \in Nat, d <= MaxDelay, due' = [due EXCEPT ![h] = d]
      PROVE  /\ due' \in [Timers -> -Floor .. MaxDelay + MaxSteps]
             /\ \A t \in Timers : due'[t] <= MaxDelay + steps
  <2>1. d \in -Floor .. MaxDelay + MaxSteps /\ d <= MaxDelay + steps
    BY <1>5, <1>7 DEF Floor
  <2> QED
    BY <1>1, <1>7, <2>1 DEF Types, DelaysBound
<1>8. ASSUME timers_' \in Seq(Timers), ToSet(timers_') \subseteq ToSet(timers_) \cup {h},
             ToSet(timers_) \subseteq ToSet(timers_'),
             IsInjective(timers_'), Sorted(timers_', due'), end' = end,
             due' \in [Timers -> -Floor .. MaxDelay + MaxSteps],
             \A t \in Timers : due'[t] <= MaxDelay + steps
      PROVE  IInv'
  <2>1. end' \in 0 .. Len(timers_')
    BY <1>6, <1>8
  <2>2. Types'
    BY <1>1, <1>2, <1>3, <1>8, <2>1 DEF Types
  <2>3. Queued' \subseteq Queued /\ Queued \ {h} \subseteq Queued'
    BY <1>2, <1>3, <1>8 DEF Queued
  <2>4. raced' \subseteq Live' \ lost'
    BY <1>1, <1>2, <1>6, <2>3 DEF Places, Live
  <2>5. ToSet(timers_') \cap (ToSet(active_timers_') \cup ToSet(rested')) = {}
    BY <1>1, <1>2, <1>3, <1>8 DEF Places
  <2>6. Places'
    BY <1>1, <1>2, <1>3, <1>6, <1>8, <2>3, <2>4, <2>5 DEF Places
  <2>7. OthersWait'
    <3>1. \A th \in Threads : adding[th] # NoTimer => adding[th] # h
      BY <1>4 DEF Added
    <3>2. timers_ # <<>> => timers_' # <<>>
      BY <1>1, <1>8, LiveIsTimers, EmptyPlace
    <3> QED
      BY <1>2, <3>1, <3>2 DEF IInv, OthersWait
  <2>8. BatchesAgree' /\ UncopiedRaced' /\ OwnLoop'
    BY <1>2, <1>8 DEF IInv, BatchesAgree, UncopiedRaced, OwnLoop
  <2> QED
    BY <1>2, <1>8, <2>2, <2>6, <2>7, <2>8, BusyKeepsIInv
<1>9. CASE interval_[h] > 0
  <2>1. due' = [due EXCEPT ![h] = interval_[h]] /\ Insert(h, interval_[h])
    BY <1>9 DEF ResetTimer, h
  <2>2. h \in Timers \ ToSet(timers_) /\ interval_[h] \in Int
    BY <1>3, <1>4, <1>5
  <2>3. /\ timers_' \in Seq(Timers)
        /\ ToSet(timers_') = ToSet(timers_) \cup {h}
        /\ IsInjective(timers_') /\ Sorted(timers_', due')
    BY <1>1, <1>5, <2>1, <2>2, InsertEffect
  <2>4. end' = end
    BY <1>2, <2>1 DEF Insert
  <2> QED
    BY <1>5, <1>7, <1>8, <2>1, <2>3, <2>4
<1>10. CASE ~(interval_[h] > 0)
  <2>1. due' = [due EXCEPT ![h] = 0] /\ timers_' = timers_ /\ end' = end
    BY <1>10 DEF ResetTimer, h
  <2>2. Sorted(timers_', due')
    <3>1. \A i \in 1 .. Len(timers_) : timers_[i] \in Timers /\ timers_[i] # h
      BY <1>4, <1>5, SetOfSeq
    <3>2. \A i \in 1 .. Len(timers_) : due'[timers_[i]] = due[timers_[i]]
      BY <1>5, <2>1, <3>1
    <3> QED
      BY <1>1, <2>1, <3>2 DEF Sorted
  <2>3. /\ due' \in [Timers -> -Floor .. MaxDelay + MaxSteps]
        /\ \A t \in Timers : due'[t] <= MaxDelay + steps
    <3>1. 0 \in -Floor .. MaxDelay + MaxSteps /\ 0 <= MaxDelay + steps
      BY <1>5 DEF Floor
    <3> QED
      BY <1>1, <2>1, <3>1 DEF Types, DelaysBound
  <2>4. /\ timers_' \in Seq(Timers) /\ IsInjective(timers_')
        /\ ToSet(timers_') = ToSet(timers_)
    BY <1>5, <2>1
  <2> QED
    BY <1>8, <2>1, <2>2, <2>3, <2>4
<1> QED
  BY <1>9, <1>10

LEMMA ClockKeepsIInv ==
  ASSUME IInv, Tick \/ SetClock
  PROVE  IInv'
<1>1. /\ Types /\ Places /\ TypeOK /\ DelaysBound
  BY TypeParts DEF IInv
<1>2. /\ \A t \in Timers : due[t] \in Int /\ due[t] <= MaxDelay + steps
      /\ MaxDelay \in Nat /\ MaxSteps \in Nat /\ steps \in Nat /\ steps <= MaxSteps
      /\ left \in Nat /\ left <= MaxDelay + steps
  BY <1>1, DueNumbers, Numbers DEF DelaysBound
<1>3. UNCHANGED <<timers_, end, active_timers_, rested, lost, interval_, pc, adding, earliest,
                  arming, shared, raced>>
  BY DEF Tick, SetClock, inserting
<1>4. readable \in BOOLEAN /\ left \in Int
  BY <1>1, <1>2 DEF Types
<1>5. PICK delta \in {-1, 1} :
        /\ WallClock(delta)
        /\ \/ /\ delta = -1 /\ steps' = steps
              /\ left' = (IF left = 0 THEN 0 ELSE left - 1)
              /\ left = 1 \/ readable => readable'
           \/ steps < MaxSteps /\ steps' = steps + 1 /\ UNCHANGED <<left, readable>>
  <2>1. CASE Tick
    <3>1. /\ WallClock(-1) /\ steps' = steps
          /\ left' = (IF left = 0 THEN 0 ELSE left - 1)
      BY <2>1 DEF Tick
    <3>2. left = 1 \/ readable => readable'
      BY <2>1, Zenon DEF Tick
    <3> QED
      BY <3>1, <3>2
  <2>2. CASE SetClock
    BY <2>2 DEF SetClock, timerfd
  <2> QED
    BY <2>1, <2>2
<1>6. readable' \in BOOLEAN
  BY <1>4, Zenon DEF Tick, SetClock, timerfd
<1>7. /\ due' \in [Timers -> Int]
      /\ \A t \in Timers : /\ due'[t] >= -Floor
                           /\ due'[t] <= due[t] + 1
                           /\ delta = -1 => due'[t] <= due[t]
      /\ \A t \in Live : due'[t] = IF due[t] + delta < -Floor THEN -Floor
                                                              ELSE due[t] + delta
      /\ Sorted(timers_, due')
  BY <1>1, <1>5, ClockEffect
<1>8. steps' \in Nat /\ steps' <= MaxSteps
  BY <1>2, <1>5
<1>9. ASSUME NEW t \in Timers PROVE due'[t] \in Int /\ due'[t] <= MaxDelay + steps'
  BY <1>2, <1>5, <1>7
<1>10. left' \in Nat /\ left' <= MaxDelay + steps'
  BY <1>2, <1>5
<1>11. due' \in [Timers -> -Floor .. MaxDelay + MaxSteps]
  <2>1. \A t \in Timers : due'[t] \in -Floor .. MaxDelay + MaxSteps
    BY <1>2, <1>7, <1>8, <1>9 DEF Floor
  <2> QED
    BY <1>7, <2>1
<1>12. Types'
  <2>1. left' \in 0 .. MaxDelay + MaxSteps
    <3>1. /\ MaxDelay \in Nat /\ MaxSteps \in Nat /\ steps' \in Nat /\ left' \in Nat
          /\ steps' <= MaxSteps /\ left' <= MaxDelay + steps'
      BY <1>2, <1>8, <1>10
    <3>2. \A d, m, k, n \in Nat : k <= m /\ n <= d + k => n \in 0 .. d + m
      OBVIOUS
    <3> QED
      BY <3>1, <3>2
  <2>2. steps' \in 0 .. MaxSteps
    BY <1>2, <1>8
  <2> QED
    BY <1>1, <1>3, <1>11, <1>6, <2>1, <2>2 DEF Types
<1>13. Live' = Live /\ BeforeEnd' = BeforeEnd /\ Queued' = Queued /\ Added' = Added
  BY <1>3, AddedIs DEF Live, BeforeEnd, Queued
<1>14. TypeOK'
  <2>1. Places'
    BY <1>1, <1>3, <1>13 DEF Places
  <2> QED
    BY <1>3, <1>7, <1>12, <2>1, TypePartsNext
<1>15. BatchesAgree' /\ DelaysBound' /\ OthersWait' /\ UncopiedRaced' /\ OwnLoop'
  BY <1>3, <1>9, <1>10, <1>13
  DEF IInv, BatchesAgree, DelaysBound, OthersWait, UncopiedRaced, Uncopied, OwnLoop
<1>16. \A t \in Live : t \in Timers /\ due[t] \in Int
  BY <1>1, <1>2, LiveIsTimers
<1>17. ASSUME NEW t \in Live, NEW u \in Live, due[t] <= due[u] PROVE due'[t] <= due'[u]
  <2>1. /\ due'[t] = IF due[t] + delta < -MaxSteps THEN -MaxSteps ELSE due[t] + delta
        /\ due'[u] = IF due[u] + delta < -MaxSteps THEN -MaxSteps ELSE due[u] + delta
    BY <1>7 DEF Floor
  <2>2. due[t] \in Int /\ due[u] \in Int
    BY <1>16
  <2> QED
    BY <1>2, <1>17, <2>1, <2>2
<1>18. timers_ # <<>> => Head(timers_) \in Live
  BY <1>1, LiveIsTimers DEF Live, Queued
<1>19. adding["loop"] # NoTimer => adding["loop"] \in Live
  BY AddedIs DEF Live
<1>20. OwnLoopArmsFirst'
  BY <1>3, <1>13, <1>17, <1>18, <1>19 DEF IInv, OwnLoopArmsFirst
<1>21. PendingIsArmed'
  <2>1. left > 0 \/ readable => left' > 0 \/ readable'
    BY <1>2, <1>5
  <2> QED
    BY <1>3, <2>1 DEF IInv, PendingIsArmed, WakeUpDue
<1>22. ArmedThroughout'
  <2> DEFINE h == Head(timers_)
  <2>1. CASE steps' = steps + 1
    BY <1>2, <2>1 DEF ArmedThroughout
  <2>2. CASE /\ delta = -1 /\ steps' = steps
             /\ left' = (IF left = 0 THEN 0 ELSE left - 1)
             /\ left = 1 \/ readable => readable'
    <3>1. ASSUME ~shared, steps = 0, timers_ # <<>>, pc = "poll", arming["loop"] = NoTimer
          PROVE  readable' \/ left' <= due'[h]
      <4>1. readable \/ left = 1 \/ left <= due[h]
        BY <3>1 DEF IInv, ArmedThroughout
      <4>2. left > 0 \/ readable
        BY <3>1 DEF IInv, OwnLoop, PendingIsArmed, WakeUpDue, Threads
      <4>3. h \in Live /\ due[h] \in Int
        BY <1>16, <1>18, <3>1
      <4>4. due'[h] = IF due[h] - 1 < -MaxSteps THEN -MaxSteps ELSE due[h] - 1
        BY <1>7, <2>2, <4>3 DEF Floor
      <4> HIDE DEF h
      <4> QED
        BY <1>2, <2>2, <4>1, <4>2, <4>3, <4>4
    <3> QED
      BY <1>3, <2>2, <3>1 DEF ArmedThroughout
  <2> QED
    BY <1>5, <2>1, <2>2
<1> QED
  BY <1>14, <1>15, <1>20, <1>21, <1>22 DEF IInv

LEMMA InitIInv == Init => IInv
<1> SUFFICES ASSUME Init PROVE IInv
  OBVIOUS
<1>1. /\ timers_ = <<>> /\ active_timers_ = <<>> /\ rested = <<>> /\ end = 0 /\ lost = {}
      /\ Added = {} /\ raced = {}
  BY DEF Init, Added
<1>2. Types
  <2>1. 0 \in -Floor .. MaxDelay + MaxSteps /\ 0 \in 0 .. MaxDelay + MaxSteps
        /\ 0 \in 0 .. MaxSteps /\ 0 \in Intervals \cup {0}
    BY Numbers DEF Floor
  <2>2. /\ due \in [Timers -> -Floor .. MaxDelay + MaxSteps]
        /\ interval_ \in [Timers -> Intervals \cup {0}]
        /\ adding \in [Threads -> Timers \cup {NoTimer}]
        /\ earliest \in [Threads -> {"begin", "yes", "no"}]
        /\ arming \in [Threads -> Timers \cup {NoTimer}]
    BY <2>1 DEF Init
  <2>3. /\ timers_ \in Seq(Timers) /\ active_timers_ \in Seq(Timers) /\ rested \in Seq(Timers)
        /\ end \in 0 .. Len(timers_)
    BY <1>1
  <2>4. /\ left \in 0 .. MaxDelay + MaxSteps /\ steps \in 0 .. MaxSteps
        /\ readable \in BOOLEAN /\ shared \in BOOLEAN
        /\ pc \in {"poll", "read", "bound", "copy", "erase", "run", "reset"}
    BY <2>1 DEF Init
  <2> QED
    BY <1>1, <2>2, <2>3, <2>4 DEF Types
<1>3. Places /\ Sorted(timers_, due)
  <2>1. pc = "poll" /\ adding["main"] = NoTimer
    BY DEF Init, Threads
  <2>2. Queued = {} /\ Live = {}
    BY <1>1, EmptyPlace DEF Queued, Live
  <2> QED
    BY <1>1, <2>1, <2>2, EmptyPlace DEF Places, Sorted
<1>4. TypeOK
  BY <1>2, <1>3, TypeParts
<1>5. BatchesAgree /\ DelaysBound /\ OthersWait /\ UncopiedRaced /\ OwnLoop /\ OwnLoopArmsFirst
  BY Numbers
  DEF Init, BatchesAgree, DelaysBound, OthersWait, UncopiedRaced, OwnLoop, OwnLoopArmsFirst, Threads
<1>6. PendingIsArmed /\ ArmedThroughout
  BY <1>1 DEF PendingIsArmed, ArmedThroughout
<1> QED
  BY <1>4, <1>5, <1>6 DEF IInv

LEMMA NextIInv == IInv /\ [Next]_vars => IInv'
<1> SUFFICES ASSUME IInv, [Next]_vars PROVE IInv'
  OBVIOUS
<1>1. CASE MainAdds \/ HandlerAdds
  <2>1. Types /\ Places
    BY TypeParts DEF IInv
  <2>2. PICK th \in Threads :
          /\ AddTimer(th) /\ Idle(th)
          /\ th = "main" => shared
          /\ th = "loop" => pc \in {"poll", "run"}
          /\ UNCHANGED <<active_timers_, rested>>
          /\ UNCHANGED <<timers_, end, lost, timerfd, pc, arming, shared, raced, steps>>
    BY <1>1 DEF MainAdds, HandlerAdds, LoopAt, Threads
  <2>3. BatchStays
    BY <2>1, <2>2 DEF BatchStays, Types, Places
  <2> QED
    BY <2>2, <2>3, AddKeepsIInv
<1>2. CASE Poll \/ ReadTimerFd \/ LowerBound \/ RunEnds \/ ResetLast
  BY <1>2, PassingKeepsIInv
<1>3. CASE CopyExpired
  BY <1>3, CopyKeepsIInv
<1>4. CASE EraseExpired
  BY <1>4, EraseKeepsIInv
<1>5. CASE RunTimer
  BY <1>5, RunKeepsIInv
<1>6. CASE ResetTimer
  BY <1>6, ResetKeepsIInv
<1>7. ASSUME NEW th \in Threads, CompareFirst(th) \/ Emplace(th) \/ Arm(th) PROVE IInv'
  BY <1>7, CompareKeepsIInv, EmplaceKeepsIInv, ArmKeepsIInv
<1>8. CASE Tick \/ SetClock
  BY <1>8, ClockKeepsIInv
<1>9. CASE UNCHANGED vars
  <2>1. /\ Types /\ Places /\ Sorted(timers_, due) /\ DelaysBound
        /\ UNCHANGED <<timers_, end, active_timers_, rested, lost, due, interval_, left, readable,
                       pc, adding, earliest, arming, shared, raced, steps>>
    BY <1>9, TypeParts DEF IInv, vars, queue, timerfd, inserting
  <2>2. Added' = Added /\ Queued' = Queued /\ Live' = Live /\ BeforeEnd' = BeforeEnd
    BY <2>1, AddedIs DEF Queued, Live, BeforeEnd
  <2>3. BatchesAgree' /\ OthersWait' /\ OwnLoop' /\ OwnLoopArmsFirst'
    BY <2>1, <2>2 DEF IInv, BatchesAgree, OthersWait, OwnLoop, OwnLoopArmsFirst
  <2>4. PendingIsArmed' /\ ArmedThroughout'
    BY <2>1 DEF IInv, PendingIsArmed, WakeUpDue, ArmedThroughout
  <2>5. /\ left' \in 0 .. MaxDelay + MaxSteps /\ left' <= MaxDelay + steps
        /\ readable' \in BOOLEAN
        /\ pc' \in {"poll", "read", "bound", "copy", "erase", "run", "reset"}
        /\ earliest' \in [Threads -> {"begin", "yes", "no"}]
        /\ arming' \in [Threads -> Timers \cup {NoTimer}]
    BY <2>1 DEF Types, DelaysBound
  <2> QED
    BY <2>1, <2>3, <2>4, <2>5, QuietKeepsIInv
<1> QED
  BY <1>1, <1>2, <1>3, <1>4, <1>5, <1>6, <1>7, <1>8, <1>9
  DEF Next, LoopStep, HandleRead

LEMMA SpecIInv == Spec => []IInv
<1>1. Init => IInv
  BY InitIInv
<1>2. IInv /\ [Next]_vars => IInv'
  BY NextIInv
<1> QED
  BY <1>1, <1>2, PTL DEF Spec

-----------------------------------------------------------------------------
(* The state keeps its types, a Timer object is in one place of the queue  *)
(* only (in timers_ and active_timers_ both between the copy and the       *)
(* erase), and timers_ stays ordered by expiration, as the std::set of     *)
(* TimerQueue.h promises, whoever adds timers and however the wall clock   *)
(* is set between an Insert and the next (TimerQueue.cpp:87).              *)
THEOREM TypeCorrect == Spec => []TypeOK
<1>1. IInv => TypeOK
  BY DEF IInv
<1> QED
  BY <1>1, SpecIInv, PTL

(* While timers wait in timers_ the timerfd is armed or readable, or a     *)
(* thread is on its way to arm it (TimerQueue.cpp:72, :96), with AddTimer  *)
(* on the main thread (HttpServer.cpp:61) between any two calls of the     *)
(* loop's HandleRead on the set, unless an Insert of main overlapped a     *)
(* taking of expired timers (:47 to :50) and its timer has not run yet:    *)
(* only from that overlap can timers be left with nothing to wake the loop *)
(* for them.                                                               *)
THEOREM OnlyRacesStrandTimers == Spec => []PendingIsArmed
<1>1. IInv => PendingIsArmed
  BY DEF IInv
<1> QED
  BY <1>1, SpecIInv, PTL

(* The timerfd of a queue that only its own loop uses expires no later     *)
(* than the first timer of timers_, as the comments at TimerQueue.cpp:96   *)
(* and :115 say, while the wall clock is not set.                          *)
THEOREM TimerFdIsForTheEarliest == Spec => []ArmedForEarliest
<1>1. IInv => ArmedForEarliest
  BY DEF IInv, ArmedThroughout, ArmedForEarliest, LoopAt, Idle
<1> QED
  BY <1>1, SpecIInv, PTL

-----------------------------------------------------------------------------
(* The queue implements Timers, but for its fairness.                      *)

Waiting == (Added \cup ToSet(timers_)) \ Taken

PlaceAgrees ==
  /\ place = [t \in Timers |-> place[t]]
  /\ \A t \in Timers :
       /\ t \in Taken <=> place[t] = "expired"
       /\ t \in Waiting <=> place[t] = "waiting"
       /\ t \in ToSet(rested) <=> place[t] = "rested"
       /\ t \in lost <=> place[t] = "forgotten"
       /\ t \in Live <=> place[t] # "free"

LEMMA BeforeEndIsQueued ==
  Types => BeforeEnd \subseteq ToSet(timers_) /\ BeforeEnd \subseteq Timers
<1> SUFFICES ASSUME Types PROVE BeforeEnd \subseteq ToSet(timers_)
  BY LiveIsTimers
<1>1. timers_ \in Seq(Timers) /\ end \in 0 .. Len(timers_)
  BY DEF Types
<1> QED
  BY <1>1, BeforeIs DEF BeforeEnd

(* Every timer in use is in one place.                                     *)
LEMMA OnePlace ==
  ASSUME IInv
  PROVE  /\ Live = Taken \cup Waiting \cup ToSet(rested) \cup lost
         /\ Taken \cap Waiting = {} /\ (Taken \cup Waiting) \cap ToSet(rested) = {}
         /\ (Taken \cup Waiting \cup ToSet(rested)) \cap lost = {}
<1>1. Types /\ Places
  BY TypeParts DEF IInv
<1>2. BeforeEnd \subseteq ToSet(timers_)
  BY <1>1, BeforeEndIsQueued
<1>3. pc = "copy" => ToSet(active_timers_) = {} /\ ToSet(rested) = {}
  BY EmptyPlace DEF IInv, BatchesAgree
<1>4. pc = "erase" => ToSet(rested) = {} /\ ToSet(active_timers_) \subseteq BeforeEnd
  BY <1>1, EmptyPlace DEF IInv, BatchesAgree, Places
<1>5. Live = Taken \cup Waiting \cup ToSet(rested) \cup lost
  BY <1>2, <1>3 DEF Live, Queued, Taken, Waiting
<1>6. Taken \cap Waiting = {}
  BY DEF Waiting
<1>7. (Taken \cup Waiting) \cap ToSet(rested) = {}
  BY <1>1, <1>3, <1>4 DEF Places, Queued, Taken, Waiting
<1>8. (Taken \cup Waiting \cup ToSet(rested)) \cap lost = {}
  BY <1>1, <1>2 DEF Places, Queued, Taken, Waiting
<1> QED
  BY <1>5, <1>6, <1>7, <1>8

LEMMA PlaceIs == IInv => PlaceAgrees
<1> SUFFICES ASSUME IInv PROVE PlaceAgrees
  OBVIOUS
<1>1. place = [t \in Timers |-> place[t]]
  BY DEF place
<1>2. \A t \in Timers : place[t] = CASE t \in Taken -> "expired"
                                     [] t \in Waiting -> "waiting"
                                     [] t \in ToSet(rested) -> "rested"
                                     [] t \in lost -> "forgotten"
                                     [] OTHER -> "free"
  BY DEF place, Waiting
<1> HIDE DEF place
<1> QED
  BY <1>1, <1>2, OnePlace DEF PlaceAgrees

LEMMA PlaceIsNext == IInv' => PlaceAgrees'
BY PlaceIs, PTL

LEMMA InitPlaces == Init => T!Init
<1> SUFFICES ASSUME Init PROVE T!Init
  OBVIOUS
<1>1. \A t \in Timers : t \notin Live
  BY EmptyPlace DEF Init, Live, Added, Queued
<1>2. place = [t \in Timers |-> "free"]
  BY <1>1, InitIInv, PlaceIs DEF PlaceAgrees
<1> QED
  BY <1>2 DEF Init, T!Init

(* A step that moves no timer changes no place.                            *)
LEMMA PlacesStay ==
  ASSUME Taken' = Taken, Waiting' = Waiting, UNCHANGED <<rested, lost>>
  PROVE  place' = place
<1>1. \A t \in Timers : t \in Waiting <=> t \in (Added \cup ToSet(timers_)) \ Taken
  BY DEF Waiting
<1>2. \A t \in Timers : t \in Waiting <=> t \in (Added' \cup ToSet(timers_')) \ Taken'
  BY DEF Waiting
<1> QED
  BY <1>1, <1>2 DEF place

LEMMA QueueStutters ==
  ASSUME IInv,
         UNCHANGED <<timers_, active_timers_, rested, lost, due, interval_, adding, raced>>,
         UNCHANGED <<pc, end>> \/ (pc # "copy" /\ pc' # "copy")
  PROVE  UNCHANGED T!vars
<1>1. Taken' = Taken
  BY DEF Taken, BeforeEnd
<1>2. Waiting' = Waiting
  BY <1>1, AddedIs DEF Waiting
<1>3. place' = place
  BY <1>1, <1>2, PlacesStay
<1> QED
  BY <1>3 DEF T!vars

LEMMA AddIsAdd ==
  ASSUME IInv, IInv', NEW th \in Threads, AddTimer(th), adding[th] = NoTimer,
         UNCHANGED <<timers_, end, active_timers_, rested, lost, pc, raced>>
  PROVE  \E t \in Timers : T!Add(t)
<1>1. PlaceAgrees /\ PlaceAgrees'
  BY PlaceIs, PlaceIsNext
<1>2. PICK t \in Timers \ Live, d \in 0 .. MaxDelay, i \in Intervals :
        /\ Added' = Added \cup {t}
        /\ due' = [due EXCEPT ![t] = d]
        /\ interval_' = [interval_ EXCEPT ![t] = i]
  BY AddEffect DEF IInv
<1>3. place[t] = "free"
  BY <1>1, <1>2 DEF PlaceAgrees
<1>4. Taken' = Taken /\ Waiting' = Waiting \cup {t}
  BY <1>1, <1>2, <1>3 DEF Taken, BeforeEnd, Waiting, PlaceAgrees
<1>5. Live' = Live \cup {t}
  BY <1>2 DEF Live, Queued
<1>6. ASSUME NEW u \in Timers
      PROVE  place'[u] = IF u = t THEN "waiting" ELSE place[u]
  <2>1. CASE u \in Taken
    BY <1>1, <1>3, <1>4, <2>1 DEF PlaceAgrees
  <2>2. CASE u \in Waiting
    BY <1>1, <1>3, <1>4, <2>2 DEF PlaceAgrees
  <2>3. CASE u \in ToSet(rested)
    BY <1>1, <1>3, <1>4, <2>3 DEF PlaceAgrees
  <2>4. CASE u \in lost
    BY <1>1, <1>3, <1>4, <2>4 DEF PlaceAgrees
  <2>5. CASE u = t
    BY <1>1, <1>4, <2>5 DEF PlaceAgrees
  <2>6. CASE u \notin Live /\ u # t
    BY <1>1, <1>5, <2>6 DEF PlaceAgrees
  <2>7. Live = Taken \cup Waiting \cup ToSet(rested) \cup lost
    BY OnePlace
  <2> QED
    BY <2>1, <2>2, <2>3, <2>4, <2>5, <2>6, <2>7
<1>7. place' = [place EXCEPT ![t] = "waiting"]
  BY <1>1, <1>6 DEF PlaceAgrees
<1> QED
  BY <1>2, <1>3, <1>7 DEF T!Add

LEMMA SamePlace ==
  ASSUME IInv, IInv', NEW u \in Timers,
         u \in Taken' <=> u \in Taken, u \in Waiting' <=> u \in Waiting,
         u \in ToSet(rested') <=> u \in ToSet(rested), u \in lost' <=> u \in lost
  PROVE  place'[u] = place[u]
<1>1. PlaceAgrees /\ PlaceAgrees'
  BY PlaceIs, PlaceIsNext
<1>2. Live = Taken \cup Waiting \cup ToSet(rested) \cup lost
  BY OnePlace
<1>3. CASE u \in Taken
  BY <1>1, <1>3 DEF PlaceAgrees
<1>4. CASE u \in Waiting
  BY <1>1, <1>4 DEF PlaceAgrees
<1>5. CASE u \in ToSet(rested)
  BY <1>1, <1>5 DEF PlaceAgrees
<1>6. CASE u \in lost
  BY <1>1, <1>6 DEF PlaceAgrees
<1>7. CASE u \notin Live
  <2>1. (Live = Taken \cup Waiting \cup ToSet(rested) \cup lost)'
    BY OnePlace, PTL
  <2> QED
    BY <1>1, <1>2, <1>7, <2>1 DEF PlaceAgrees
<1> QED
  BY <1>2, <1>3, <1>4, <1>5, <1>6, <1>7

(* An emplace is seen only where it races with a taking: then the timer is *)
(* among those that run now, or waits and may be forgotten.                *)
LEMMA EmplaceIsRace ==
  ASSUME IInv, IInv', NEW th \in Threads, Emplace(th)
  PROVE  \/ \E t \in Timers : T!ExpireEarly(t) \/ T!Race({t}, {})
         \/ UNCHANGED T!vars
<1> DEFINE t == adding[th]
<1>1. Types /\ Places /\ PlaceAgrees /\ PlaceAgrees'
  BY TypeParts, PlaceIs, PlaceIsNext DEF IInv
<1>2. /\ t # NoTimer /\ Insert(t, due[t]) /\ adding' = [adding EXCEPT ![th] = NoTimer]
      /\ raced' = IF th = "main" /\ pc \in {"copy", "erase"} THEN raced \cup {t} ELSE raced
      /\ UNCHANGED <<active_timers_, rested, lost, due, interval_, pc>>
  BY DEF Emplace
<1>3. t \in Added /\ t \in Timers /\ due[t] \in Int
  BY <1>1, <1>2, DueNumbers DEF Added, Types
<1>4. t \notin Queued
  BY <1>1, <1>3 DEF Places
<1>5. /\ ToSet(timers_') = ToSet(timers_) \cup {t}
      /\ pc \in {"copy", "erase"} => BeforeEnd' \in {BeforeEnd, BeforeEnd \cup {t}}
  <2>1. timers_ \in Seq(Timers) /\ end \in 0 .. Len(timers_)
    BY <1>1 DEF Types
  <2> QED
    BY <1>2, <1>3, <2>1, InsertPlaces, InsertBefore DEF BeforeEnd
<1>6. Added' = Added \ {t}
  BY <1>1, <1>2, <1>3, AddedIs DEF Types, Places, Threads
<1> HIDE DEF t
<1>7. Taken \subseteq Queued
  <2>1. BeforeEnd \subseteq ToSet(timers_)
    BY <1>1, BeforeEndIsQueued
  <2> QED
    BY <2>1 DEF Taken, Queued
<1>8. place[t] = "waiting" /\ t \in Waiting
  BY <1>1, <1>3, <1>4, <1>7 DEF Waiting, PlaceAgrees
<1>9. pc \in {"copy", "erase"} => th = "main"
  BY <1>2 DEF IInv, BatchesAgree, Threads, t
<1>10. ASSUME Taken' = Taken
       PROVE  T!Race({t}, {}) \/ UNCHANGED T!vars
  <2>1. Waiting' = Waiting
    BY <1>3, <1>4, <1>5, <1>6, <1>7, <1>10 DEF Waiting
  <2>2. place' = place
    BY <1>2, <1>10, <2>1, PlacesStay
  <2>3. CASE pc \in {"copy", "erase"}
    <3>1. raced' = (raced \ {}) \cup {t}
      BY <1>2, <1>9, <2>3
    <3>2. place' = [u \in Timers |-> IF u \in {} THEN "forgotten" ELSE place[u]]
      BY <1>1, <2>2 DEF PlaceAgrees
    <3> QED
      BY <1>2, <1>8, <3>1, <3>2 DEF T!Race
  <2>4. CASE pc \notin {"copy", "erase"}
    BY <1>2, <2>2, <2>4 DEF T!vars
  <2> QED
    BY <2>3, <2>4
<1>11. CASE pc # "copy"
  <2>1. Taken' = Taken
    BY <1>2, <1>11 DEF Taken
  <2> QED
    BY <1>3, <1>10, <2>1
<1>12. CASE pc = "copy" /\ BeforeEnd' = BeforeEnd
  <2>1. Taken' = Taken
    BY <1>2, <1>12 DEF Taken
  <2> QED
    BY <1>3, <1>10, <2>1
<1>13. CASE pc = "copy" /\ BeforeEnd' = BeforeEnd \cup {t}
  <2>1. Taken' = Taken \cup {t}
    BY <1>2, <1>13 DEF Taken
  <2>2. Waiting' = Waiting \ {t}
    BY <1>3, <1>5, <1>6, <2>1 DEF Waiting
  <2>3. ASSUME NEW u \in Timers
        PROVE  place'[u] = IF u = t THEN "expired" ELSE place[u]
    <3>1. CASE u = t
      BY <1>1, <2>1, <3>1 DEF PlaceAgrees
    <3>2. CASE u # t
      BY <1>2, <2>1, <2>2, <3>2, SamePlace
    <3> QED
      BY <3>1, <3>2
  <2>4. place' = [place EXCEPT ![t] = "expired"]
    BY <1>1, <2>3 DEF PlaceAgrees
  <2>5. raced' = raced \cup {t}
    BY <1>2, <1>9, <1>13
  <2> QED
    BY <1>2, <1>3, <1>8, <2>4, <2>5 DEF T!ExpireEarly
<1> QED
  BY <1>5, <1>11, <1>12, <1>13

LEMMA BoundIsExpire ==
  ASSUME IInv, IInv', LowerBound
  PROVE  \E S \in SUBSET Timers : T!Expire(S)
<1> DEFINE S == BeforeEnd'
<1>1. Types /\ PlaceAgrees /\ PlaceAgrees'
  BY TypeParts, PlaceIs, PlaceIsNext DEF IInv
<1>2. /\ pc = "bound" /\ pc' = "copy" /\ end' \in Bounds
      /\ UNCHANGED <<timers_, active_timers_, rested, lost, due, interval_, adding, raced>>
  BY DEF LowerBound, LoopAt, inserting
<1>3. ToSet(active_timers_) = {}
  BY <1>2, EmptyPlace DEF IInv, BatchesAgree
<1>4. Taken = {} /\ Taken' = S
  BY <1>2, <1>3 DEF Taken
<1>5. /\ timers_ \in Seq(Timers) /\ end' \in 0 .. Len(timers_)
      /\ \A i \in 1 .. end' : due[timers_[i]] <= 0
  BY <1>1, <1>2 DEF Bounds, Types, Expired
<1>6. /\ S \subseteq ToSet(timers_)
      /\ \A t \in S : \E i \in 1 .. end' : timers_[i] = t
  BY <1>2, <1>5, BeforeIs DEF BeforeEnd
<1> HIDE DEF S
<1>7. \A t \in S : due[t] <= 0
  BY <1>5, <1>6
<1>8. ToSet(timers_) \subseteq Timers
  BY <1>1, LiveIsTimers
<1>9. Waiting' = Waiting \ S /\ S \subseteq Waiting
  BY <1>2, <1>4, <1>6, AddedIs DEF Waiting
<1>10. \A t \in S : place[t] = "waiting" /\ due[t] <= 0
  BY <1>1, <1>6, <1>7, <1>8, <1>9 DEF PlaceAgrees
<1>11. ASSUME NEW u \in Timers
       PROVE  place'[u] = IF u \in S THEN "expired" ELSE place[u]
  <2>1. CASE u \in S
    BY <1>1, <1>4, <2>1 DEF PlaceAgrees
  <2>2. CASE u \notin S
    BY <1>2, <1>4, <1>9, <2>2, SamePlace
  <2> QED
    BY <2>1, <2>2
<1>12. place' = [t \in Timers |-> IF t \in S THEN "expired" ELSE place[t]]
  BY <1>1, <1>11 DEF PlaceAgrees
<1> QED
  BY <1>2, <1>6, <1>8, <1>10, <1>12 DEF T!Expire

LEMMA CopyStutters ==
  ASSUME IInv, CopyExpired
  PROVE  UNCHANGED T!vars
<1>1. /\ pc = "copy" /\ pc' = "erase" /\ active_timers_' = SubSeq(timers_, 1, end)
      /\ UNCHANGED <<timers_, rested, lost, due, interval_, adding, raced>>
  BY DEF CopyExpired, LoopAt, inserting
<1>2. Taken' = Taken
  BY <1>1 DEF Taken, BeforeEnd
<1>3. Waiting' = Waiting
  BY <1>1, <1>2, AddedIs DEF Waiting
<1>4. place' = place
  BY <1>1, <1>2, <1>3, PlacesStay
<1> QED
  BY <1>1, <1>4 DEF T!vars

LEMMA EraseIsRace ==
  ASSUME IInv, IInv', EraseExpired
  PROVE  \E R, S \in SUBSET Timers : T!Race(R, S)
<1> DEFINE R == {adding["main"]} \ {NoTimer}
           S == Uncopied
<1>1. Types /\ Places /\ PlaceAgrees /\ PlaceAgrees'
  BY TypeParts, PlaceIs, PlaceIsNext DEF IInv
<1>2. /\ pc = "erase" /\ pc' = "run" /\ timers_' = SubSeq(timers_, end + 1, Len(timers_))
      /\ lost' = lost \cup S /\ raced' = (raced \ S) \cup R
      /\ UNCHANGED <<active_timers_, rested, due, interval_, adding>>
  BY DEF EraseExpired, LoopAt, inserting
<1>3. /\ ToSet(timers_) = BeforeEnd \cup ToSet(timers_') /\ BeforeEnd \cap ToSet(timers_') = {}
  <2>1. timers_ \in Seq(Timers) /\ end \in 0 .. Len(timers_) /\ IsInjective(timers_)
    BY <1>1 DEF Types, Places
  <2> QED
    BY <1>2, <2>1, SplitPlaces DEF BeforeEnd
<1>4. BeforeEnd = ToSet(active_timers_) \cup S /\ ToSet(active_timers_) \cap S = {}
  BY <1>1, <1>2 DEF Places, Uncopied
<1>5. S \subseteq raced /\ Added' = Added /\ R \subseteq Added
  BY <1>2, AddedIs DEF IInv, UncopiedRaced
<1>6. Taken = ToSet(active_timers_) /\ Taken' = Taken
  BY <1>2 DEF Taken
<1>7. Added \cap Queued = {}
  BY <1>1 DEF Places
<1> HIDE DEF R, S
<1>8. Waiting' = Waiting \ S /\ S \subseteq Waiting /\ R \subseteq Waiting
  BY <1>3, <1>4, <1>5, <1>6, <1>7 DEF Waiting, Queued
<1>9. R \subseteq Timers /\ S \subseteq Timers
  BY <1>1, <1>3, <1>4, <1>5, LiveIsTimers DEF Live
<1>10. /\ \A t \in R : place[t] = "waiting"
       /\ \A t \in S : t \in raced /\ place[t] = "waiting"
  BY <1>1, <1>5, <1>8, <1>9 DEF PlaceAgrees
<1>11. ASSUME NEW u \in Timers
       PROVE  place'[u] = IF u \in S THEN "forgotten" ELSE place[u]
  <2>1. CASE u \in S
    BY <1>1, <1>2, <2>1 DEF PlaceAgrees
  <2>2. CASE u \notin S
    BY <1>2, <1>6, <1>8, <2>2, SamePlace
  <2> QED
    BY <2>1, <2>2
<1>12. place' = [t \in Timers |-> IF t \in S THEN "forgotten" ELSE place[t]]
  BY <1>1, <1>11 DEF PlaceAgrees
<1> QED
  BY <1>2, <1>9, <1>10, <1>12 DEF T!Race

LEMMA RunIsFire ==
  ASSUME IInv, IInv', RunTimer
  PROVE  \/ \E t \in Timers : T!Fire(t)
         \/ \E t, u \in Timers : T!FireAndAdd(t, u)
<1> DEFINE h == Head(active_timers_)
<1>1. PlaceAgrees /\ PlaceAgrees' /\ Types /\ Places
  BY PlaceIs, PlaceIsNext, TypeParts DEF IInv
<1>2. /\ pc = "run" /\ adding["loop"] = NoTimer /\ active_timers_ # <<>>
      /\ active_timers_' = Tail(active_timers_) /\ rested' = Append(rested, h)
      /\ UNCHANGED <<timers_, end, lost, pc, raced>>
  BY DEF RunTimer, LoopAt, Idle
<1>3. /\ active_timers_ \in Seq(Timers) /\ rested \in Seq(Timers) /\ IsInjective(active_timers_)
  BY <1>1 DEF Types, Places
<1>4. /\ h \in Timers /\ ToSet(active_timers_) = ToSet(active_timers_') \cup {h}
      /\ h \notin ToSet(active_timers_')
  BY <1>2, <1>3, TailPlaces
<1>5. ToSet(rested') = ToSet(rested) \cup {h}
  BY <1>2, <1>3, <1>4, AppendPlaces
<1>6. Taken = ToSet(active_timers_) /\ Taken' = ToSet(active_timers_')
  BY <1>2 DEF Taken
<1>7. h \notin Added /\ h \notin ToSet(timers_)
  BY <1>1, <1>2, <1>4 DEF Places, Queued
<1>8. place[h] = "expired" /\ place'[h] = "rested"
  BY <1>1, <1>4, <1>5, <1>6 DEF PlaceAgrees
<1> HIDE DEF h
<1>9. CASE AddTimer("loop")
  <2>1. PICK t \in Timers \ Live, d \in 0 .. MaxDelay, i \in Intervals :
          /\ Added' = Added \cup {t}
          /\ due' = [due EXCEPT ![t] = d]
          /\ interval_' = [interval_ EXCEPT ![t] = i]
    <3>1. "loop" \in Threads /\ TypeOK /\ DelaysBound
      BY DEF Threads, IInv
    <3> QED
      BY <1>2, <1>9, <3>1, AddEffect
  <2>2. place[t] = "free" /\ t # h
    BY <1>1, <1>8, <2>1 DEF PlaceAgrees
  <2>3. t \notin Taken /\ t \notin Waiting
    BY <2>1, OnePlace
  <2>4. Waiting' = Waiting \cup {t}
    BY <1>2, <1>4, <1>6, <1>7, <2>1, <2>2, <2>3 DEF Waiting
  <2>5. ASSUME NEW u \in Timers
        PROVE  place'[u] = IF u = h THEN "rested" ELSE IF u = t THEN "waiting" ELSE place[u]
    <3>1. CASE u = h
      BY <1>8, <3>1
    <3>2. CASE u = t
      BY <1>1, <2>2, <2>4, <3>2 DEF PlaceAgrees
    <3>3. CASE u # h /\ u # t
      BY <1>2, <1>4, <1>5, <1>6, <2>4, <3>3, SamePlace
    <3> QED
      BY <2>2, <3>1, <3>2, <3>3
  <2>6. place' = [place EXCEPT ![h] = "rested", ![t] = "waiting"]
    BY <1>1, <1>4, <2>2, <2>5 DEF PlaceAgrees
  <2> QED
    BY <1>2, <1>4, <1>8, <2>1, <2>2, <2>6 DEF T!FireAndAdd
<1>10. CASE UNCHANGED <<due, interval_, inserting>>
  <2>1. Waiting' = Waiting
    BY <1>2, <1>4, <1>6, <1>7, <1>10, AddedIs DEF Waiting, inserting
  <2>2. ASSUME NEW u \in Timers
        PROVE  place'[u] = IF u = h THEN "rested" ELSE place[u]
    <3>1. CASE u = h
      BY <1>8, <3>1
    <3>2. CASE u # h
      BY <1>2, <1>4, <1>5, <1>6, <2>1, <3>2, SamePlace
    <3> QED
      BY <3>1, <3>2
  <2>3. place' = [place EXCEPT ![h] = "rested"]
    BY <1>1, <2>2 DEF PlaceAgrees
  <2> QED
    BY <1>2, <1>4, <1>8, <1>10, <2>3 DEF T!Fire
<1> QED
  BY <1>9, <1>10 DEF RunTimer

LEMMA ResetIsEndRun ==
  ASSUME IInv, IInv', ResetTimer
  PROVE  \E t \in Timers : T!EndRun(t)
<1> DEFINE h == Head(rested)
<1>1. PlaceAgrees /\ PlaceAgrees' /\ Types /\ Places
  BY PlaceIs, PlaceIsNext, TypeParts DEF IInv
<1>2. /\ pc = "reset" /\ rested # <<>> /\ rested' = Tail(rested) /\ raced' = raced \ {h}
      /\ UNCHANGED <<active_timers_, lost, interval_, pc, adding>>
  BY DEF ResetTimer, LoopAt, inserting
<1>3. rested \in Seq(Timers) /\ IsInjective(rested)
  BY <1>1 DEF Types, Places
<1>4. /\ h \in Timers /\ ToSet(rested) = ToSet(rested') \cup {h} /\ h \notin ToSet(rested')
  BY <1>2, <1>3, TailPlaces
<1>5. /\ place[h] = "rested" /\ h \notin ToSet(timers_) /\ h \notin Added
      /\ h \notin Taken /\ h \notin lost /\ Taken' = Taken /\ Added' = Added
  <2>1. h \notin ToSet(active_timers_) /\ h \notin ToSet(timers_)
    BY <1>1, <1>2, <1>4 DEF Places
  <2> QED
    BY <1>1, <1>2, <1>4, <2>1, AddedIs DEF PlaceAgrees, Taken, Places, Queued
<1> HIDE DEF h
<1>6. CASE interval_[h] > 0
  <2>1. due' = [due EXCEPT ![h] = interval_[h]] /\ Insert(h, interval_[h])
    BY <1>6 DEF ResetTimer, h
  <2>2. timers_ \in Seq(Timers) /\ interval_[h] \in Int
    BY <1>1, <1>4, Numbers DEF Types
  <2>3. ToSet(timers_') = ToSet(timers_) \cup {h}
    BY <1>4, <2>1, <2>2, InsertPlaces
  <2>4. Waiting' = Waiting \cup {h}
    BY <1>5, <2>3 DEF Waiting
  <2>5. ASSUME NEW u \in Timers
        PROVE  place'[u] = IF u = h THEN "waiting" ELSE place[u]
    <3>1. CASE u = h
      BY <1>1, <2>4, <3>1 DEF PlaceAgrees
    <3>2. CASE u # h
      BY <1>2, <1>4, <1>5, <2>4, <3>2, SamePlace
    <3> QED
      BY <3>1, <3>2
  <2>6. place' = [place EXCEPT ![h] = "waiting"]
    BY <1>1, <2>5 DEF PlaceAgrees
  <2> QED
    BY <1>2, <1>4, <1>5, <1>6, <2>1, <2>6 DEF T!EndRun
<1>7. CASE ~(interval_[h] > 0)
  <2>1. due' = [due EXCEPT ![h] = 0] /\ timers_' = timers_
    BY <1>7 DEF ResetTimer, h
  <2>2. Waiting' = Waiting /\ h \notin Waiting
    BY <1>5, <2>1 DEF Waiting
  <2>3. h \notin Live'
    <3>1. (Live = Taken \cup Waiting \cup ToSet(rested) \cup lost)'
      BY OnePlace, PTL
    <3> QED
      BY <1>2, <1>4, <1>5, <2>2, <3>1
  <2>4. ASSUME NEW u \in Timers
        PROVE  place'[u] = IF u = h THEN "free" ELSE place[u]
    <3>1. CASE u = h
      BY <1>1, <2>3, <3>1 DEF PlaceAgrees
    <3>2. CASE u # h
      BY <1>2, <1>4, <1>5, <2>2, <3>2, SamePlace
    <3> QED
      BY <3>1, <3>2
  <2>5. place' = [place EXCEPT ![h] = "free"]
    BY <1>1, <2>4 DEF PlaceAgrees
  <2> QED
    BY <1>2, <1>4, <1>5, <1>7, <2>1, <2>5 DEF T!EndRun
<1> QED
  BY <1>6, <1>7

LEMMA ClockIsClock ==
  ASSUME IInv, IInv', Tick \/ SetClock
  PROVE  T!ClockAdvances \/ T!ClockSetBack
<1>1. PlaceAgrees /\ Types
  BY PlaceIs, TypeParts DEF IInv
<1>2. UNCHANGED <<timers_, end, active_timers_, rested, lost, interval_, pc, adding, raced>>
  BY DEF Tick, SetClock, inserting
<1>3. UNCHANGED <<place, interval_, raced>>
  <2>1. Taken' = Taken
    BY <1>2 DEF Taken, BeforeEnd
  <2>2. Waiting' = Waiting
    BY <1>2, <2>1, AddedIs DEF Waiting
  <2> QED
    BY <1>2, <2>1, <2>2, PlacesStay
<1>4. T!Live = Live
  BY <1>1, LiveIsTimers DEF T!Live, PlaceAgrees
<1>5. PICK delta \in {-1, 1} : WallClock(delta)
  BY DEF Tick, SetClock
<1>6. \A t \in Timers : due[t] \in Int /\ due[t] >= -Floor
  BY <1>1, DueNumbers DEF Floor
<1>7. MaxSteps \in Nat
  BY Numbers
<1>8. CASE delta = -1
  <2>1. ASSUME NEW t \in Timers, t \in Live
        PROVE  (IF due[t] + delta < -Floor THEN -Floor ELSE due[t] + delta) = T!Later(due[t])
    BY <1>6, <1>7, <1>8 DEF T!Later, Floor
  <2>2. due' = [t \in Timers |-> IF t \in T!Live THEN T!Later(due[t]) ELSE due[t]]
    BY <1>4, <1>5, <2>1 DEF WallClock
  <2> QED
    BY <1>3, <2>2 DEF T!ClockAdvances
<1>9. CASE delta = 1
  <2>1. ASSUME NEW t \in Timers
        PROVE  (IF due[t] + delta < -Floor THEN -Floor ELSE due[t] + delta) = due[t] + 1
    BY <1>6, <1>7, <1>9 DEF Floor
  <2>2. due' = [t \in Timers |-> IF t \in T!Live THEN due[t] + 1 ELSE due[t]]
    BY <1>4, <1>5, <2>1 DEF WallClock
  <2> QED
    BY <1>3, <2>2 DEF T!ClockSetBack
<1> QED
  BY <1>8, <1>9

LEMMA StepsAreSteps ==
  IInv /\ IInv' /\ [Next]_vars => [T!Next]_(T!vars)
<1> SUFFICES ASSUME IInv, IInv', [Next]_vars PROVE [T!Next]_(T!vars)
  OBVIOUS
<1>1. CASE MainAdds \/ HandlerAdds
  <2>1. PICK th \in Threads :
          /\ AddTimer(th) /\ adding[th] = NoTimer
          /\ UNCHANGED <<timers_, end, active_timers_, rested, lost, pc, raced>>
    BY <1>1 DEF MainAdds, HandlerAdds, Threads, Idle, LoopAt
  <2> QED
    BY <2>1, AddIsAdd DEF T!Next
<1>2. ASSUME NEW th \in Threads, Emplace(th) PROVE [T!Next]_(T!vars)
  BY <1>2, EmplaceIsRace DEF T!Next
<1>3. CASE LowerBound
  BY <1>3, BoundIsExpire DEF T!Next
<1>4. CASE CopyExpired
  BY <1>4, CopyStutters
<1>5. CASE EraseExpired
  BY <1>5, EraseIsRace DEF T!Next
<1>6. CASE RunTimer
  BY <1>6, RunIsFire DEF T!Next
<1>7. CASE ResetTimer
  BY <1>7, ResetIsEndRun DEF T!Next
<1>8. CASE Tick \/ SetClock
  BY <1>8, ClockIsClock DEF T!Next
<1>9. ASSUME \/ Poll \/ ReadTimerFd \/ RunEnds \/ ResetLast \/ UNCHANGED vars
             \/ \E th \in Threads : CompareFirst(th) \/ Arm(th)
      PROVE  [T!Next]_(T!vars)
  <2>1. /\ UNCHANGED <<timers_, end, active_timers_, rested, lost, due, interval_, adding, raced>>
        /\ pc' = pc \/ (pc # "copy" /\ pc' # "copy")
    BY <1>9 DEF Poll, ReadTimerFd, RunEnds, ResetLast, CompareFirst, Arm, vars, queue,
                inserting, LoopAt
  <2> QED
    BY <2>1, QueueStutters
<1> QED
  BY <1>1, <1>2, <1>3, <1>4, <1>5, <1>6, <1>7, <1>8, <1>9 DEF Next, LoopStep, HandleRead

(* Every step of the queue is a step of Timers or changes nothing there: a *)
(* callback runs only after its timer was found expired, once per period,  *)
(* a timer that does not repeat is gone after its run, and its address is  *)
(* used again only then (TimerQueue.cpp:47 to :93).  Only a timer that the *)
(* main thread emplaced between :47 and :50 runs early or is forgotten.    *)
THEOREM QueueKeepsTheProtocol == Spec => T!Protocol
<1>1. Init => T!Init
  BY InitPlaces
<1>2. IInv /\ IInv' /\ [Next]_vars => [T!Next]_(T!vars)
  BY StepsAreSteps
<1> QED
  BY <1>1, <1>2, SpecIInv, PTL DEF Spec, T!Protocol

=============================================================================
