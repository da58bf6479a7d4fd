-------------------------- MODULE FrameQueueProofs --------------------------
(***************************************************************************)
(* What the queue's operations return, for every queue: the type of each,  *)
(* which frames it leaves, and that reset keeps exactly the uninterrupti-  *)
(* ble data and control frames, in their order.                            *)
(***************************************************************************)
EXTENDS FrameQueue, SubsequenceProofs, FiniteSetTheorems, SequenceTheorems, TLAPS

\* A frame appended to a sequence, and which frames are in the result.
LEMMA AppendTo ==
  ASSUME NEW s \in Seq(Frame), NEW f \in Frame
  PROVE  /\ Append(s, f) \in Seq(Frame)
         /\ Len(Append(s, f)) = Len(s) + 1
         /\ Append(s, f)[Len(s) + 1] = f
         /\ \A i \in 1..Len(s) : Append(s, f)[i] = s[i]
         /\ FramesOf(Append(s, f)) = FramesOf(s) \cup {f}
<1>1. /\ Append(s, f) \in Seq(Frame)
      /\ Len(Append(s, f)) = Len(s) + 1
      /\ Append(s, f)[Len(s) + 1] = f
      /\ \A i \in 1..Len(s) : Append(s, f)[i] = s[i]
  BY AppendProperties
<1>2. \A i : i \in 1..Len(Append(s, f)) <=> (i \in 1..Len(s) \/ i = Len(s) + 1)
  BY <1>1
<1>3. FramesOf(Append(s, f)) \subseteq FramesOf(s) \cup {f}
  BY <1>1, <1>2 DEF FramesOf
<1>4. FramesOf(s) \cup {f} \subseteq FramesOf(Append(s, f))
  BY <1>1, <1>2 DEF FramesOf
<1> QED BY <1>1, <1>3, <1>4

\* push files a frame in a tier of the queue and loses nothing.
LEMMA PushProperties ==
  ASSUME NEW q \in Queue, NEW f \in Frame
  PROVE  /\ push(q, f) \in Queue
         /\ FramesOf(q.other) \subseteq FramesOf(push(q, f).other)
         /\ ~isSystemFrame(f) => f \in FramesOf(push(q, f).other)
<1>1. CASE isStartFrame(f)
  <2>1. push(q, f) = [q EXCEPT !.start = Append(q.start, f)]
    BY <1>1 DEF push
  <2>2. Append(q.start, f) \in Seq(Frame)
    BY AppendTo DEF Queue
  <2>3. push(q, f) \in Queue /\ push(q, f).other = q.other
    BY <2>1, <2>2 DEF Queue
  <2> QED BY <1>1, <2>3 DEF isStartFrame, isSystemFrame, SystemKinds
<1>2. CASE ~isStartFrame(f) /\ isSystemFrame(f)
  <2>1. push(q, f) = [q EXCEPT !.system = Append(q.system, f)]
    BY <1>2 DEF push
  <2>2. Append(q.system, f) \in Seq(Frame)
    BY AppendTo DEF Queue
  <2>3. push(q, f) \in Queue /\ push(q, f).other = q.other
    BY <2>1, <2>2 DEF Queue
  <2> QED BY <1>2, <2>3
<1>3. CASE ~isStartFrame(f) /\ ~isSystemFrame(f)
  <2>1. push(q, f) = [q EXCEPT !.other = Append(q.other, f)]
    BY <1>3 DEF push
  <2>2. /\ Append(q.other, f) \in Seq(Frame)
        /\ FramesOf(Append(q.other, f)) = FramesOf(q.other) \cup {f}
    BY AppendTo DEF Queue
  <2>3. push(q, f) \in Queue /\ push(q, f).other = Append(q.other, f)
    BY <2>1, <2>2 DEF Queue
  <2> QED BY <2>2, <2>3
<1> QED BY <1>1, <1>2, <1>3

\* The first frame of a sequence and the rest.
LEMMA HeadAndTail ==
  ASSUME NEW s \in Seq(Frame), s # <<>>
  PROVE  /\ Head(s) \in Frame /\ Head(s) = s[1]
         /\ Tail(s) \in Seq(Frame) /\ Len(Tail(s)) = Len(s) - 1
         /\ \A i \in 1..Len(Tail(s)) : Tail(s)[i] = s[i+1]
  BY HeadTailProperties

\* get returns a frame of the queue and leaves every other one.
LEMMA GetProperties ==
  ASSUME NEW q \in Queue, ~isEmpty(q)
  PROVE  /\ head(q) \in Frame
         /\ get(q) \in Queue
         /\ \A f \in FramesOf(q.other) : f \in FramesOf(get(q).other) \/ f = head(q)
<1>1. CASE startsNext(q)
  <2>1. q.start \in Seq(Frame) /\ q.start # <<>>
    BY <1>1 DEF startsNext, Queue
  <2>2. head(q) = Head(q.start) /\ get(q) = [q EXCEPT !.start = Tail(q.start)]
    BY <1>1 DEF head, get
  <2>3. Head(q.start) \in Frame /\ Tail(q.start) \in Seq(Frame)
    BY <2>1, HeadAndTail
  <2>4. get(q) \in Queue /\ get(q).other = q.other
    BY <2>2, <2>3 DEF Queue
  <2> QED BY <2>2, <2>3, <2>4
<1>2. CASE systemNext(q)
  <2>1. q.system \in Seq(Frame) /\ q.system # <<>>
    BY <1>2 DEF systemNext, Queue
  <2>2. head(q) = Head(q.system) /\ get(q) = [q EXCEPT !.system = Tail(q.system)]
    BY <1>2 DEF head, get, systemNext
  <2>3. Head(q.system) \in Frame /\ Tail(q.system) \in Seq(Frame)
    BY <2>1, HeadAndTail
  <2>4. get(q) \in Queue /\ get(q).other = q.other
    BY <2>2, <2>3 DEF Queue
  <2> QED BY <2>2, <2>3, <2>4
<1>3. CASE ~startsNext(q) /\ ~systemNext(q)
  <2>1. q.other \in Seq(Frame) /\ q.other # <<>>
    BY <1>3 DEF startsNext, systemNext, Queue, isEmpty
  <2>2. head(q) = q.other[1] /\ get(q) = [q EXCEPT !.other = Tail(q.other)]
    BY <1>3, <2>1, HeadAndTail DEF head, get
  <2>3. get(q) \in Queue /\ get(q).other = Tail(q.other)
    BY <2>1, <2>2, HeadAndTail DEF Queue
  <2>4. ASSUME NEW i \in 1..Len(q.other), i # 1
        PROVE  q.other[i] \in FramesOf(Tail(q.other))
    <3>1. i - 1 \in 1..Len(Tail(q.other)) /\ Tail(q.other)[i-1] = q.other[i]
      BY <2>1, <2>4, HeadAndTail
    <3> QED BY <3>1 DEF FramesOf
  <2>5. q.other[1] \in Frame
    BY <2>1, HeadAndTail
  <2> QED BY <2>2, <2>3, <2>4, <2>5 DEF FramesOf
<1> QED BY <1>1, <1>2, <1>3

\* requeue puts the frame first and moves every other one down by a place.
LEMMA RequeueProperties ==
  ASSUME NEW q \in Queue, NEW f \in Frame
  PROVE  /\ requeue(q, f) \in Queue
         /\ f \in FramesOf(requeue(q, f).other)
         /\ FramesOf(q.other) \subseteq FramesOf(requeue(q, f).other)
<1> DEFINE r == <<f>> \o q.other
<1>1. q.other \in Seq(Frame) /\ <<f>> \in Seq(Frame)
  BY DEF Queue
<1>2. /\ r \in Seq(Frame) /\ Len(r) = Len(q.other) + 1
      /\ r[1] = f
      /\ \A i \in 1..Len(q.other) : r[i+1] = q.other[i]
  BY <1>1
<1>3. requeue(q, f) \in Queue /\ requeue(q, f).other = r
  BY <1>2 DEF requeue, Queue
<1>4. f \in FramesOf(r)
  BY <1>2, <1>1 DEF FramesOf
<1>5. ASSUME NEW i \in 1..Len(q.other) PROVE q.other[i] \in FramesOf(r)
  <2>1. i + 1 \in 1..Len(r) /\ r[i+1] = q.other[i]
    BY <1>1, <1>2
  <2> QED BY <2>1 DEF FramesOf
<1> HIDE DEF r
<1> QED BY <1>3, <1>4, <1>5 DEF FramesOf

\* reset keeps exactly the uninterruptible data and control frames ...
LEMMA KeepProperties ==
  ASSUME NEW s \in Seq(Frame)
  PROVE  /\ keep(s) \in Seq(Frame)
         /\ FramesOf(keep(s)) = {f \in FramesOf(s) : ~Interruptible(f)}
<1> DEFINE K == Survivors(s)
<1>1. K \in SUBSET (1..Len(s)) /\ \A i \in 1..Len(s) : i \in K <=> ~Interruptible(s[i])
  BY DEF Survivors
<1>2. /\ keep(s) \in Seq(Frame)
      /\ \E from \in [1..Len(keep(s)) -> K] : \A k \in 1..Len(keep(s)) : keep(s)[k] = s[from[k]]
      /\ \A i \in K : \E k \in 1..Len(keep(s)) : keep(s)[k] = s[i]
  BY <1>1, PickProperties DEF keep
<1>3. \A k \in 1..Len(keep(s)) : \E i \in K : keep(s)[k] = s[i]
  BY <1>2
<1> HIDE DEF K
<1>4. FramesOf(keep(s)) \subseteq {f \in FramesOf(s) : ~Interruptible(f)}
  BY <1>1, <1>3 DEF FramesOf
<1>5. ASSUME NEW f \in FramesOf(s), ~Interruptible(f) PROVE f \in FramesOf(keep(s))
  <2>1. PICK i \in 1..Len(s) : f = s[i]
    BY DEF FramesOf
  <2>2. i \in K
    BY <1>1, <1>5, <2>1
  <2> QED BY <1>2, <2>1, <2>2 DEF FramesOf
<1> QED BY <1>2, <1>4, <1>5

\* reset keeps the order: where each frame comes from is an increasing map.
LEMMA KeepOrder ==
  ASSUME NEW s \in Seq(Frame)
  PROVE  \E from \in [1..Len(keep(s)) -> 1..Len(s)] :
            /\ \A k \in 1..Len(keep(s)) : keep(s)[k] = s[from[k]]
            /\ \A k, l \in 1..Len(keep(s)) : k < l => from[k] < from[l]
<1> DEFINE K == Survivors(s)
<1>1. K \in SUBSET (1..Len(s))
  BY DEF Survivors
<1> HIDE DEF K
<1>2. PICK from \in [1..Len(Pick(s, K)) -> K] :
         /\ \A k \in 1..Len(Pick(s, K)) : Pick(s, K)[k] = s[from[k]]
         /\ \A k, l \in 1..Len(Pick(s, K)) : k < l => from[k] < from[l]
  BY <1>1, PickProperties
<1>3. keep(s) = Pick(s, K) /\ from \in [1..Len(Pick(s, K)) -> 1..Len(s)]
  BY <1>1, <1>2 DEF keep, K
<1> QED BY <1>2, <1>3


\* ... so it returns a queue and loses no frame that an interruption may not drop.
LEMMA ResetProperties ==
  ASSUME NEW q \in Queue
  PROVE  /\ reset(q) \in Queue
         /\ \A f \in FramesOf(q.other) :
                ~Interruptible(f) => f \in FramesOf(reset(q).other)
<1>1. q.other \in Seq(Frame)
  BY DEF Queue
<1>2. /\ keep(q.other) \in Seq(Frame)
      /\ FramesOf(keep(q.other)) = {f \in FramesOf(q.other) : ~Interruptible(f)}
  BY <1>1, KeepProperties
<1>3. reset(q) \in Queue /\ reset(q).other = keep(q.other)
  BY <1>2 DEF reset, Queue
<1> QED BY <1>2, <1>3

\* What the start tier holds: StartFrames, and get serves them first.
OnlyStarts(q) == \A i \in 1..Len(q.start) : isStartFrame(q.start[i])

LEMMA StartTier ==
  ASSUME NEW q \in Queue, OnlyStarts(q)
  PROVE  /\ \A f \in Frame : /\ OnlyStarts(push(q, f))
                             /\ (q.start # <<>> \/ isStartFrame(f)) => push(q, f).start # <<>>
         /\ ~isEmpty(q) => OnlyStarts(get(q))
         /\ q.start # <<>> => ~isEmpty(q) /\ isStartFrame(head(q))
<1>1. q.start \in Seq(Frame) /\ Len(q.start) \in Nat
  BY DEF Queue
<1>2. ASSUME NEW f \in Frame
      PROVE  /\ OnlyStarts(push(q, f))
             /\ (q.start # <<>> \/ isStartFrame(f)) => push(q, f).start # <<>>
  <2>1. CASE isStartFrame(f)
    <3> DEFINE t == Append(q.start, f)
    <3>1. push(q, f).start = t
      BY <2>1 DEF push, Queue
    <3>2. t \in Seq(Frame) /\ Len(t) = Len(q.start) + 1 /\ t[Len(q.start) + 1] = f
          /\ \A i \in 1..Len(q.start) : t[i] = q.start[i]
      BY <1>1, AppendTo
    <3>3. \A i \in 1..Len(t) : i \in 1..Len(q.start) \/ i = Len(q.start) + 1
      BY <1>1, <3>2
    <3> HIDE DEF t
    <3>4. t # <<>>
      <4>1. Len(t) # 0
        BY <1>1, <3>2
      <4> QED BY <4>1
    <3> QED BY <2>1, <3>1, <3>2, <3>3, <3>4 DEF OnlyStarts
  <2>2. CASE ~isStartFrame(f)
    <3>1. push(q, f).start = q.start
      BY <2>2 DEF push, Queue
    <3> QED BY <2>2, <3>1 DEF OnlyStarts
  <2> QED BY <2>1, <2>2
<1>3. ASSUME ~isEmpty(q) PROVE OnlyStarts(get(q))
  <2>1. CASE startsNext(q)
    <3>1. get(q).start = Tail(q.start) /\ q.start # <<>>
      BY <2>1 DEF get, startsNext, Queue
    <3>2. Len(Tail(q.start)) = Len(q.start) - 1
          /\ \A i \in 1..Len(Tail(q.start)) : Tail(q.start)[i] = q.start[i+1]
      BY <1>1, <3>1, HeadAndTail
    <3>3. \A i \in 1..Len(Tail(q.start)) : i + 1 \in 1..Len(q.start)
      BY <1>1, <3>2
    <3> QED BY <3>1, <3>2, <3>3 DEF OnlyStarts
  <2>2. CASE ~startsNext(q)
    <3>1. get(q).start = q.start
      BY <2>2 DEF get, Queue
    <3> QED BY <3>1 DEF OnlyStarts
  <2> QED BY <2>1, <2>2
<1>4. ASSUME q.start # <<>> PROVE ~isEmpty(q) /\ isStartFrame(head(q))
  <2>1. Head(q.start) = q.start[1] /\ 1 \in 1..Len(q.start)
    BY <1>1, <1>4, HeadAndTail
  <2> QED BY <1>4, <2>1 DEF head, startsNext, isEmpty, OnlyStarts
<1> QED BY <1>2, <1>3, <1>4

(***************************************************************************)
(* Frames in their tiers, each at one place.                               *)
(***************************************************************************)
OnlySystem(q) == \A i \in 1..Len(q.system) : isSystemFrame(q.system[i])
OnlyOther(q)  == \A i \in 1..Len(q.other) : ~isSystemFrame(q.other[i])
Tiered(q) == OnlyStarts(q) /\ OnlySystem(q) /\ OnlyOther(q)

Distinct(s) == \A i, j \in 1..Len(s) : s[i] = s[j] => i = j

\* A sequence without repetitions: what is left once the first is taken, ...
LEMMA DistinctTail ==
  ASSUME NEW s \in Seq(Frame), s # <<>>, Distinct(s)
  PROVE  Distinct(Tail(s)) /\ FramesOf(Tail(s)) = FramesOf(s) \ {Head(s)} /\ Head(s) \in FramesOf(s)
<1>1. /\ Head(s) = s[1] /\ Len(Tail(s)) = Len(s) - 1
      /\ \A i \in 1..Len(Tail(s)) : Tail(s)[i] = s[i+1]
  BY HeadAndTail
<1>2. Len(s) \in Nat /\ 1 \in 1..Len(s)
  <2>1. Len(s) \in Nat /\ Len(s) # 0
    OBVIOUS
  <2> QED BY <2>1
<1>3. \A i \in 1..Len(Tail(s)) : i + 1 \in 1..Len(s) /\ i + 1 # 1 /\ i \in Int
  BY <1>1, <1>2
<1>4. Distinct(Tail(s))
  <2> SUFFICES ASSUME NEW i \in 1..Len(Tail(s)), NEW j \in 1..Len(Tail(s)), Tail(s)[i] = Tail(s)[j]
               PROVE  i = j
    BY DEF Distinct
  <2>1. i + 1 = j + 1 /\ i \in Int /\ j \in Int
    BY <1>1, <1>3 DEF Distinct
  <2> QED BY <2>1
<1>5. FramesOf(Tail(s)) \subseteq FramesOf(s) \ {Head(s)}
  BY <1>1, <1>2, <1>3 DEF FramesOf, Distinct
<1>6. ASSUME NEW i \in 1..Len(s), s[i] # s[1] PROVE s[i] \in FramesOf(Tail(s))
  <2>1. i - 1 \in 1..Len(Tail(s)) /\ (i - 1) + 1 = i
    BY <1>1, <1>2, <1>6
  <2> QED BY <1>1, <2>1 DEF FramesOf
<1>7. FramesOf(s) \ {Head(s)} \subseteq FramesOf(Tail(s))
  BY <1>1, <1>6 DEF FramesOf
<1> QED BY <1>1, <1>2, <1>4, <1>5, <1>7 DEF FramesOf

\* ... when one more is added at the end, ...
LEMMA DistinctAppend ==
  ASSUME NEW s \in Seq(Frame), NEW f \in Frame, Distinct(s), f \notin FramesOf(s)
  PROVE  Distinct(Append(s, f))
<1> DEFINE t == Append(s, f)
<1>1. /\ Len(t) = Len(s) + 1 /\ t[Len(s) + 1] = f /\ Len(s) \in Nat
      /\ \A i \in 1..Len(s) : t[i] = s[i]
  BY AppendTo
<1> HIDE DEF t
<1>2. \A i \in 1..Len(t) : i \in 1..Len(s) \/ i = Len(s) + 1
  BY <1>1
<1>3. \A i \in 1..Len(s) : t[i] # f
  BY <1>1 DEF FramesOf
<1> QED BY <1>1, <1>2, <1>3 DEF Distinct, t

\* ... or at the front, ...
LEMMA DistinctRequeue ==
  ASSUME NEW s \in Seq(Frame), NEW f \in Frame, Distinct(s), f \notin FramesOf(s)
  PROVE  Distinct(<<f>> \o s) /\ FramesOf(<<f>> \o s) = FramesOf(s) \cup {f}
<1> DEFINE r == <<f>> \o s
<1>1. /\ Len(r) = Len(s) + 1 /\ r[1] = f /\ Len(s) \in Nat
      /\ \A i \in 1..Len(s) : r[i+1] = s[i]
  OBVIOUS
<1>2. \A i \in 1..Len(r) : i = 1 \/ (i - 1 \in 1..Len(s) /\ (i - 1) + 1 = i /\ i \in Int)
  BY <1>1
<1>3. \A i \in 1..Len(s) : i + 1 \in 1..Len(r) /\ i + 1 # 1 /\ i \in Int
  BY <1>1
<1> HIDE DEF r
<1>4. \A i \in 1..Len(r) : i = 1 \/ (i - 1 \in 1..Len(s) /\ r[i] = s[i - 1])
  BY <1>1, <1>2
<1>5. Distinct(r)
  <2> SUFFICES ASSUME NEW i \in 1..Len(r), NEW j \in 1..Len(r), r[i] = r[j] PROVE i = j
    BY DEF Distinct
  <2>1. CASE i = 1 /\ j = 1
    BY <2>1
  <2>2. CASE i = 1 /\ j # 1
    BY <1>1, <1>4, <2>2 DEF FramesOf
  <2>3. CASE i # 1 /\ j = 1
    BY <1>1, <1>4, <2>3 DEF FramesOf
  <2>4. CASE i # 1 /\ j # 1
    <3>1. i - 1 = j - 1
      BY <1>4, <2>4 DEF Distinct
    <3> QED BY <1>2, <2>4, <3>1
  <2> QED BY <2>1, <2>2, <2>3, <2>4
<1>6. FramesOf(r) \subseteq FramesOf(s) \cup {f}
  BY <1>1, <1>4 DEF FramesOf
<1>7. FramesOf(s) \cup {f} \subseteq FramesOf(r)
  <2>1. f \in FramesOf(r)
    BY <1>1 DEF FramesOf
  <2>2. \A i \in 1..Len(s) : s[i] \in FramesOf(r)
    BY <1>1, <1>3 DEF FramesOf
  <2> QED BY <2>1, <2>2 DEF FramesOf
<1> QED BY <1>5, <1>6, <1>7 DEF r

\* ... and when reset has thinned it out.
LEMMA DistinctKeep ==
  ASSUME NEW s \in Seq(Frame), Distinct(s)
  PROVE  Distinct(keep(s))
<1> DEFINE K == Survivors(s)
<1>1. K \in SUBSET (1..Len(s)) /\ Len(s) \in Nat
  BY DEF Survivors
<1>2. /\ keep(s) \in Seq(Frame)
      /\ \E from \in [1..Len(keep(s)) -> K] :
            /\ \A k \in 1..Len(keep(s)) : keep(s)[k] = s[from[k]]
            /\ \A k, l \in 1..Len(keep(s)) : k < l => from[k] < from[l]
  BY <1>1, PickProperties DEF keep
<1>3. PICK from \in [1..Len(keep(s)) -> K] :
            /\ \A k \in 1..Len(keep(s)) : keep(s)[k] = s[from[k]]
            /\ \A k, l \in 1..Len(keep(s)) : k < l => from[k] < from[l]
  BY <1>2
<1> HIDE DEF K
<1> SUFFICES ASSUME NEW k \in 1..Len(keep(s)), NEW l \in 1..Len(keep(s)), keep(s)[k] = keep(s)[l]
             PROVE  k = l
  BY DEF Distinct
<1>4. from[k] \in 1..Len(s) /\ from[l] \in 1..Len(s) /\ from[k] = from[l]
  <2>1. from[k] \in K /\ from[l] \in K
    BY <1>3
  <2>2. from[k] \in 1..Len(s) /\ from[l] \in 1..Len(s)
    BY <1>1, <2>1
  <2>3. s[from[k]] = s[from[l]]
    BY <1>3
  <2> QED BY <2>2, <2>3 DEF Distinct
<1>5. k \in Int /\ l \in Int /\ from[k] \in Int
  BY <1>4
<1>6. ~(k < l) /\ ~(l < k)
  BY <1>3, <1>4, <1>5
<1> QED BY <1>5, <1>6

\* push files a frame in the tier of its kind.
LEMMA PushTiers ==
  ASSUME NEW q \in Queue, Tiered(q), NEW f \in Frame
  PROVE  /\ Tiered(push(q, f))
         /\ isSystemFrame(f) => push(q, f).other = q.other
         /\ ~isSystemFrame(f) => /\ push(q, f).start = q.start /\ push(q, f).system = q.system
                                 /\ push(q, f).other = Append(q.other, f)
<1>1. q.system \in Seq(Frame) /\ q.other \in Seq(Frame)
  BY DEF Queue
<1>2. ASSUME NEW s \in Seq(Frame)
      PROVE  \A i \in 1..Len(Append(s, f)) : Append(s, f)[i] = f \/ (i \in 1..Len(s) /\ Append(s, f)[i] = s[i])
  <2>1. /\ Len(Append(s, f)) = Len(s) + 1 /\ Append(s, f)[Len(s) + 1] = f /\ Len(s) \in Nat
        /\ \A i \in 1..Len(s) : Append(s, f)[i] = s[i]
    BY AppendTo
  <2>2. \A i \in 1..Len(Append(s, f)) : i \in 1..Len(s) \/ i = Len(s) + 1
    BY <2>1
  <2> QED BY <2>1, <2>2
<1>3. OnlyStarts(push(q, f))
  BY StartTier DEF Tiered
<1>4. CASE isStartFrame(f)
  <2>1. push(q, f).system = q.system /\ push(q, f).other = q.other /\ isSystemFrame(f)
    BY <1>4 DEF push, Queue, isStartFrame, isSystemFrame, SystemKinds
  <2> QED BY <1>3, <2>1 DEF Tiered, OnlySystem, OnlyOther
<1>5. CASE ~isStartFrame(f) /\ isSystemFrame(f)
  <2>1. push(q, f).system = Append(q.system, f) /\ push(q, f).other = q.other
    BY <1>5 DEF push, Queue
  <2>2. OnlySystem(push(q, f))
    BY <1>1, <1>2, <1>5, <2>1 DEF Tiered, OnlySystem
  <2> QED BY <1>3, <1>5, <2>1, <2>2 DEF Tiered, OnlyOther
<1>6. CASE ~isStartFrame(f) /\ ~isSystemFrame(f)
  <2>1. /\ push(q, f).system = q.system /\ push(q, f).start = q.start
        /\ push(q, f).other = Append(q.other, f)
    BY <1>6 DEF push, Queue
  <2>2. OnlyOther(push(q, f))
    BY <1>1, <1>2, <1>6, <2>1 DEF Tiered, OnlyOther
  <2> QED BY <1>3, <1>6, <2>1, <2>2 DEF Tiered, OnlySystem
<1> QED BY <1>4, <1>5, <1>6

\* get serves a data or control frame from the last tier only.
LEMMA GetTiers ==
  ASSUME NEW q \in Queue, Tiered(q), ~isEmpty(q)
  PROVE  /\ Tiered(get(q))
         /\ isSystemFrame(head(q)) => get(q).other = q.other
         /\ ~isSystemFrame(head(q)) =>
               /\ get(q).start = q.start /\ get(q).system = q.system
               /\ q.other # <<>> /\ head(q) = Head(q.other) /\ get(q).other = Tail(q.other)
<1>1. q.start \in Seq(Frame) /\ q.system \in Seq(Frame) /\ q.other \in Seq(Frame)
  BY DEF Queue
<1>2. ASSUME NEW s \in Seq(Frame), s # <<>>
      PROVE  /\ \A i \in 1..Len(Tail(s)) : i + 1 \in 1..Len(s) /\ Tail(s)[i] = s[i + 1]
             /\ Head(s) = s[1] /\ 1 \in 1..Len(s)
  <2>1. /\ Len(s) \in Nat /\ Len(Tail(s)) = Len(s) - 1 /\ Head(s) = s[1]
        /\ \A i \in 1..Len(Tail(s)) : Tail(s)[i] = s[i+1]
    BY <1>2, HeadAndTail
  <2>2. Len(s) # 0
    BY <1>2
  <2> QED BY <2>1, <2>2
<1>3. OnlyStarts(get(q))
  BY StartTier DEF Tiered
<1>4. CASE startsNext(q)
  <2>1. get(q).system = q.system /\ get(q).other = q.other /\ q.start # <<>> /\ head(q) = Head(q.start)
    BY <1>4 DEF get, head, startsNext, Queue
  <2>2. isSystemFrame(head(q))
    BY <1>1, <1>2, <2>1 DEF Tiered, OnlyStarts, isStartFrame, isSystemFrame, SystemKinds
  <2> QED BY <1>3, <2>1, <2>2 DEF Tiered, OnlySystem, OnlyOther
<1>5. CASE systemNext(q)
  <2>1. /\ get(q).system = Tail(q.system) /\ get(q).other = q.other
        /\ q.system # <<>> /\ head(q) = Head(q.system)
    BY <1>5 DEF get, head, systemNext, Queue
  <2>2. isSystemFrame(head(q))
    BY <1>1, <1>2, <2>1 DEF Tiered, OnlySystem
  <2>3. OnlySystem(get(q))
    BY <1>1, <1>2, <2>1 DEF Tiered, OnlySystem
  <2> QED BY <1>3, <2>1, <2>2, <2>3 DEF Tiered, OnlyOther
<1>6. CASE ~startsNext(q) /\ ~systemNext(q)
  <2>1. /\ get(q).start = q.start /\ get(q).system = q.system /\ get(q).other = Tail(q.other)
        /\ q.other # <<>> /\ head(q) = Head(q.other)
    BY <1>6 DEF get, head, startsNext, systemNext, isEmpty, Queue
  <2>2. ~isSystemFrame(head(q))
    BY <1>1, <1>2, <2>1 DEF Tiered, OnlyOther
  <2>3. OnlyOther(get(q))
    BY <1>1, <1>2, <2>1 DEF Tiered, OnlyOther
  <2> QED BY <1>3, <2>1, <2>2, <2>3 DEF Tiered, OnlySystem
<1> QED BY <1>4, <1>5, <1>6

\* requeue and reset change the last tier only.
LEMMA OtherTiers ==
  ASSUME NEW q \in Queue, Tiered(q)
  PROVE  /\ \A f \in Frame : ~isSystemFrame(f) =>
               /\ Tiered(requeue(q, f)) /\ requeue(q, f).other = <<f>> \o q.other
               /\ requeue(q, f).start = q.start /\ requeue(q, f).system = q.system
         /\ Tiered(reset(q)) /\ reset(q).other = keep(q.other)
         /\ reset(q).start = q.start /\ reset(q).system = q.system
<1>1. q.other \in Seq(Frame) /\ keep(q.other) \in Seq(Frame)
      /\ FramesOf(keep(q.other)) = {f \in FramesOf(q.other) : ~Interruptible(f)}
  BY KeepProperties DEF Queue
<1>2. /\ reset(q).other = keep(q.other) /\ reset(q).start = q.start /\ reset(q).system = q.system
      /\ \A f : /\ requeue(q, f).other = <<f>> \o q.other
                /\ requeue(q, f).start = q.start /\ requeue(q, f).system = q.system
  BY DEF reset, requeue, Queue
<1>3. \A f \in FramesOf(q.other) : ~isSystemFrame(f)
  BY DEF FramesOf, Tiered, OnlyOther
<1>4. OnlyOther(reset(q))
  BY <1>1, <1>2, <1>3 DEF OnlyOther, FramesOf
<1>5. ASSUME NEW f \in Frame, ~isSystemFrame(f) PROVE OnlyOther(requeue(q, f))
  <2> DEFINE r == <<f>> \o q.other
  <2>1. /\ Len(r) = Len(q.other) + 1 /\ r[1] = f /\ Len(q.other) \in Nat
        /\ \A i \in 1..Len(q.other) : r[i+1] = q.other[i]
    BY <1>1
  <2> HIDE DEF r
  <2>2. \A i \in 1..Len(r) : i = 1 \/ (i - 1 \in 1..Len(q.other) /\ (i - 1) + 1 = i)
    BY <2>1
  <2>3. \A i \in 1..Len(r) : i = 1 \/ (i - 1 \in 1..Len(q.other) /\ r[i] = q.other[i - 1])
    BY <2>1, <2>2
  <2>4. requeue(q, f).other = r
    BY <1>2 DEF r
  <2> QED BY <1>5, <2>1, <2>3, <2>4 DEF OnlyOther, Tiered
<1> QED BY <1>2, <1>4, <1>5 DEF Tiered, OnlyStarts, OnlySystem
=============================================================================
