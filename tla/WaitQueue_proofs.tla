-------------------------- MODULE WaitQueue_proofs --------------------------
(***************************************************************************)
(* The ring buffer implements a bounded FIFO for every capacity and any    *)
(* threads, as long as the head of a full ring is not removed.             *)
(***************************************************************************)
EXTENDS WaitQueue, SequenceTheorems, TLAPS

Entry == Threads \cup {None}

(* Slots by their distance from head.                                      *)
LEMMA WrapFacts ==
  ASSUME NEW h \in Slots
  PROVE  /\ \A i \in 0 .. Cap : Wrap(h + i) \in Slots
         /\ \A i, j \in Slots : Wrap(h + i) = Wrap(h + j) => i = j
         /\ \A i \in Slots : Wrap(Wrap(h + i) + 1) = Wrap(h + (i + 1))
         /\ \A k \in Slots : \E i \in Slots : k = Wrap(h + i)
         /\ Wrap(h + Cap) = h /\ Wrap(h + 0) = h
<1>1. \A k \in Slots : \E i \in Slots : k = Wrap(h + i)
  <2> TAKE k \in Slots
  <2>1. Offset(k, h) \in Slots /\ k = Wrap(h + Offset(k, h))
    BY RingAssumption DEF Slots, Wrap, Offset
  <2> QED BY <2>1
<1> QED BY <1>1, RingAssumption DEF Slots, Wrap

(* The sequence of n entries from h on.                                    *)
From(it, h, n) == [i \in 1 .. n |-> it[Wrap(h + i - 1)]]

LEMMA FromFacts ==
  ASSUME NEW it \in [Slots -> Entry], NEW h \in Slots, NEW n \in 0 .. Cap
  PROVE  /\ From(it, h, n) \in Seq(Entry) /\ Len(From(it, h, n)) = n
         /\ \A i \in 1 .. n : From(it, h, n)[i] = it[Wrap(h + (i - 1))]
<1>1. \A i \in 1 .. n : Wrap(h + i - 1) \in Slots /\ h + i - 1 = h + (i - 1)
  BY RingAssumption DEF Slots, Wrap
<1>2. n \in Nat
  BY RingAssumption
<1> QED BY <1>1, <1>2 DEF From

LEMMA ContentsNow ==
  ASSUME TypeOK
  PROVE  /\ Contents \in Seq(Entry) /\ Len(Contents) = count
         /\ \A i \in 1 .. count : Contents[i] = items[Wrap(head + (i - 1))]
<1>1. Contents = From(items, head, count)
  BY DEF Contents, From
<1>2. items \in [Slots -> Entry] /\ head \in Slots /\ count \in 0 .. Cap
  BY DEF TypeOK, Entry
<1> QED BY <1>1, <1>2, FromFacts

LEMMA ContentsNext ==
  ASSUME TypeOK'
  PROVE  /\ Contents' \in Seq(Entry) /\ Len(Contents') = count'
         /\ \A i \in 1 .. count' : Contents'[i] = items'[Wrap(head' + (i - 1))]
<1>1. Contents' = From(items', head', count')
  BY DEF Contents, From
<1>2. items' \in [Slots -> Entry] /\ head' \in Slots /\ count' \in 0 .. Cap
  BY DEF TypeOK, Entry
<1> QED BY <1>1, <1>2, FromFacts

LEMMA PushKeeps ==
  ASSUME TypeOK, NoHoles, NEW t \in Threads, Push(t)
  PROVE  TypeOK' /\ NoHoles' /\ Fifo!Push(t)
<1> USE RingAssumption
<1>0. Contents \in Seq(Entry) /\ Len(Contents) = count
  BY ContentsNow
<1>1. CASE count >= Cap
  <2>1. UNCHANGED ringVars /\ out' = "Err"
    BY <1>1 DEF Push, TypeOK
  <2> QED BY <1>0, <1>1, <2>1 DEF TypeOK, NoHoles, ringVars, Fifo!Push, Contents
<1>2. CASE count < Cap
  <2>1. /\ items' = [items EXCEPT ![tail] = t] /\ tail' = Wrap(tail + 1)
        /\ count' = count + 1 /\ out' = "Ok" /\ head' = head
    BY <1>2 DEF Push, TypeOK
  <2>2. count \in Slots /\ tail = Wrap(head + count) /\ head \in Slots /\ tail \in Slots
    BY <1>2 DEF TypeOK, NoHoles, Slots
  <2>3. tail' = Wrap(head + (count + 1)) /\ tail' \in Slots
    BY <2>1, <2>2 DEF Slots, Wrap
  <2>4. \A i \in Slots : items'[Wrap(head + i)] = IF i = count THEN t ELSE items[Wrap(head + i)]
    <3> TAKE i \in Slots
    <3>1. Wrap(head + i) \in Slots /\ (Wrap(head + i) = tail <=> i = count)
      BY <2>2 DEF Slots, Wrap
    <3> QED BY <2>1, <3>1 DEF TypeOK
  <2>5. NoHoles'
    BY <2>1, <2>2, <2>3, <2>4 DEF NoHoles, Slots
  <2>6. TypeOK'
    BY <1>2, <2>1, <2>2, <2>3 DEF TypeOK
  <2>7. Contents' = Append(Contents, t)
    <3>1. /\ Contents' \in Seq(Entry) /\ Len(Contents') = count + 1
          /\ \A i \in 1 .. (count + 1) : Contents'[i] = items'[Wrap(head + (i - 1))]
      BY <2>1, <2>6, ContentsNext
    <3>2. \A i \in 1 .. count : Contents[i] = items[Wrap(head + (i - 1))]
      BY ContentsNow
    <3>3. \A i \in 1 .. (count + 1) : i - 1 \in Slots /\ (i - 1 = count <=> i = count + 1)
      BY <2>2 DEF Slots
    <3>4. /\ Append(Contents, t) \in Seq(Entry) /\ Len(Append(Contents, t)) = count + 1
          /\ \A i \in 1 .. count : Append(Contents, t)[i] = Contents[i]
          /\ Append(Contents, t)[count + 1] = t
      BY <1>0, AppendProperties DEF Entry
    <3>5. \A i \in 1 .. (count + 1) : Contents'[i] = Append(Contents, t)[i]
      <4> TAKE i \in 1 .. (count + 1)
      <4>1. CASE i = count + 1
        BY <2>4, <3>1, <3>3, <3>4, <4>1
      <4>2. CASE i # count + 1
        <5>1. i \in 1 .. count
          BY <2>2, <4>2 DEF Slots
        <5> QED BY <2>4, <3>1, <3>2, <3>3, <3>4, <4>2, <5>1
      <4> QED BY <4>1, <4>2
    <3> HIDE DEF Contents
    <3> QED BY <3>1, <3>4, <3>5, SeqEqual
  <2> QED BY <1>0, <1>2, <2>1, <2>5, <2>6, <2>7 DEF Fifo!Push
<1> QED BY <1>1, <1>2 DEF TypeOK

LEMMA PopKeeps ==
  ASSUME TypeOK, NoHoles, Pop
  PROVE  TypeOK' /\ NoHoles' /\ Fifo!Pop
<1> USE RingAssumption
<1>0. /\ Contents \in Seq(Entry) /\ Len(Contents) = count
      /\ \A i \in 1 .. count : Contents[i] = items[Wrap(head + (i - 1))]
  BY ContentsNow
<1>1. CASE count = 0
  <2>1. UNCHANGED ringVars /\ out' = None
    BY <1>1 DEF Pop, TypeOK
  <2>2. Contents = << >>
    BY <1>0, <1>1, EmptySeq
  <2>3. Contents' = Contents
    BY <2>1 DEF ringVars, Contents
  <2> QED BY <2>1, <2>2, <2>3 DEF TypeOK, NoHoles, ringVars, Fifo!Pop
<1>2. CASE count # 0
  <2>1. /\ items' = [items EXCEPT ![head] = None] /\ head' = Wrap(head + 1)
        /\ count' = count - 1 /\ out' = items[head] /\ tail' = tail
    BY <1>2 DEF Pop, TypeOK
  <2>2. head \in Slots /\ tail = Wrap(head + count) /\ count \in 1 .. Cap
    BY <1>2 DEF TypeOK, NoHoles
  <2>3. TypeOK'
    <3>1. head' \in Slots /\ count' \in 0 .. Cap
      BY <2>1, <2>2 DEF Slots, Wrap
    <3> QED BY <2>1, <3>1 DEF TypeOK
  <2>4. \A i \in Slots : Wrap(head' + i) = IF i = Cap - 1 THEN head ELSE Wrap(head + (i + 1))
    BY <2>1, <2>2 DEF Slots, Wrap
  <2>5. /\ \A i \in 0 .. (Cap - 2) : items'[Wrap(head' + i)] = items[Wrap(head + (i + 1))]
        /\ items'[Wrap(head' + (Cap - 1))] = None
    <3>1. \A i \in 0 .. (Cap - 2) : i \in Slots /\ i # Cap - 1
             /\ Wrap(head + (i + 1)) \in Slots /\ Wrap(head + (i + 1)) # head
      BY <2>2 DEF Slots, Wrap
    <3>2. Cap - 1 \in Slots
      BY DEF Slots
    <3> QED BY <2>1, <2>2, <2>4, <3>1, <3>2 DEF TypeOK
  <2>6. NoHoles'
    <3>1. tail' = Wrap(head' + count')
      BY <2>1, <2>2 DEF Slots, Wrap
    <3>2. ASSUME NEW i \in Slots
          PROVE  items'[Wrap(head' + i)] # None <=> i < count'
      <4>1. CASE i = Cap - 1
        BY <2>1, <2>2, <2>5, <4>1
      <4>2. CASE i # Cap - 1
        <5>1. i \in 0 .. (Cap - 2) /\ i + 1 \in Slots
          BY <4>2 DEF Slots
        <5>2. items[Wrap(head + (i + 1))] # None <=> i + 1 < count
          BY <5>1 DEF NoHoles
        <5> QED BY <2>1, <2>2, <2>5, <5>1, <5>2
      <4> QED BY <4>1, <4>2
    <3> QED BY <3>1, <3>2 DEF NoHoles
  <2>7. Contents # << >> /\ Head(Contents) = items[head]
    <3>1. Contents # << >> /\ Head(Contents) = Contents[1]
      BY <1>0, <2>2 DEF Entry
    <3>2. 1 \in 1 .. count /\ Wrap(head + (1 - 1)) = head
      BY <2>2 DEF Slots, Wrap
    <3> QED BY <1>0, <3>1, <3>2
  <2>8. Contents' = Tail(Contents)
    <3>1. /\ Contents' \in Seq(Entry) /\ Len(Contents') = count - 1
          /\ \A i \in 1 .. (count - 1) : Contents'[i] = items'[Wrap(head' + (i - 1))]
      BY <2>1, <2>3, ContentsNext
    <3>2. /\ Tail(Contents) \in Seq(Entry) /\ Len(Tail(Contents)) = count - 1
          /\ \A i \in 1 .. (count - 1) : Tail(Contents)[i] = Contents[i + 1]
      BY <1>0, <2>7, HeadTailProperties
    <3>3. \A i \in 1 .. (count - 1) : Contents'[i] = Tail(Contents)[i]
      <4> TAKE i \in 1 .. (count - 1)
      <4>1. i - 1 \in 0 .. (Cap - 2) /\ i + 1 \in 1 .. count /\ (i - 1) + 1 = (i + 1) - 1
        BY <2>2
      <4> QED BY <1>0, <2>5, <3>1, <3>2, <4>1
    <3> HIDE DEF Contents
    <3> QED BY <3>1, <3>2, <3>3, SeqEqual
  <2> QED BY <2>1, <2>3, <2>6, <2>7, <2>8 DEF Fifo!Pop
<1> QED BY <1>1, <1>2

(* Without() by the position of the first entry of t.                      *)
LEMMA WithoutFirst ==
  ASSUME NEW C \in Seq(Entry), NEW t, NEW p \in 1 .. Len(C),
         C[p] = t, \A j \in 1 .. (p - 1) : C[j] # t
  PROVE  /\ Fifo!Without(C, t) \in Seq(Entry)
         /\ Len(Fifo!Without(C, t)) = Len(C) - 1
         /\ \A j \in 1 .. (Len(C) - 1) :
              Fifo!Without(C, t)[j] = IF j < p THEN C[j] ELSE C[j + 1]
<1> DEFINE P(i) == C[i] = t /\ \A j \in 1 .. (i - 1) : C[j] # t
           first == CHOOSE i \in 1 .. Len(C) : P(i)
           A == SubSeq(C, 1, p - 1)
           B == SubSeq(C, p + 1, Len(C))
<1>0. Len(C) \in Nat
  OBVIOUS
<1>1. \A i \in 1 .. Len(C) : P(i) => i = p
  <2> SUFFICES ASSUME NEW i \in 1 .. Len(C), P(i), i # p PROVE FALSE
    OBVIOUS
  <2>1. i \in 1 .. (p - 1) \/ p \in 1 .. (i - 1)
    BY <1>0
  <2> QED BY <2>1
<1>2. first = p
  <2>1. P(p)
    OBVIOUS
  <2> HIDE DEF P
  <2> QED BY <1>1, <2>1
<1>3. Fifo!Without(C, t) = A \o B
  <2>1. \E i \in 1 .. Len(C) : C[i] = t
    OBVIOUS
  <2>2. Fifo!Without(C, t) = SubSeq(C, 1, first - 1) \o SubSeq(C, first + 1, Len(C))
    BY <2>1, Zenon DEF Fifo!Without
  <2> HIDE DEF first
  <2> QED BY <1>2, <2>2
<1>4. /\ A \in Seq(Entry) /\ Len(A) = p - 1
      /\ \A j \in 1 .. (p - 1) : A[j] = C[j]
  BY <1>0
<1>5. /\ B \in Seq(Entry) /\ Len(B) = Len(C) - p
      /\ \A j \in 1 .. (Len(C) - p) : B[j] = C[p + j]
  BY <1>0
<1> HIDE DEF A, B
<1>6. /\ A \o B \in Seq(Entry) /\ Len(A \o B) = Len(A) + Len(B)
      /\ \A j \in 1 .. (Len(A) + Len(B)) :
           (A \o B)[j] = IF j <= Len(A) THEN A[j] ELSE B[j - Len(A)]
  BY <1>4, <1>5, ConcatProperties
<1>7. \A j \in 1 .. (Len(C) - 1) : (A \o B)[j] = IF j < p THEN C[j] ELSE C[j + 1]
  <2> TAKE j \in 1 .. (Len(C) - 1)
  <2>1. j \in 1 .. (Len(A) + Len(B))
    BY <1>0, <1>4, <1>5
  <2>2. CASE j < p
    BY <1>0, <1>4, <1>6, <2>1, <2>2
  <2>3. CASE ~ (j < p)
    <3>1. j - Len(A) \in 1 .. (Len(C) - p) /\ p + (j - Len(A)) = j + 1 /\ ~ (j <= Len(A))
      BY <1>0, <1>4, <2>3
    <3> QED BY <1>5, <1>6, <2>1, <2>3, <3>1
  <2> QED BY <2>2, <2>3
<1> QED BY <1>0, <1>3, <1>4, <1>5, <1>6, <1>7

LEMMA RemoveKeeps ==
  ASSUME FullRemoval = FALSE, TypeOK, NoHoles, NEW t \in Threads, RemoveByTid(t)
  PROVE  TypeOK' /\ NoHoles' /\ Fifo!Remove(t)
<1> USE RingAssumption
<1>0. /\ Contents \in Seq(Entry) /\ Len(Contents) = count
      /\ \A i \in 1 .. count : Contents[i] = items[Wrap(head + (i - 1))]
  BY ContentsNow
<1>1. CASE \A i \in Slots : items[i] # t
  <2>1. \A i \in Slots : ~ FoundAt(t, i)
    <3>1. \A i \in Slots : Wrap(head + i) \in Slots
      BY DEF TypeOK, Slots, Wrap
    <3> QED BY <1>1, <3>1 DEF FoundAt
  <2>2. UNCHANGED ringVars /\ out' = "Ok"
    BY <1>1, <2>1 DEF RemoveByTid
  <2>3. \A i \in 1 .. Len(Contents) : Contents[i] # t
    <3>1. \A i \in 1 .. count : Wrap(head + (i - 1)) \in Slots
      BY DEF TypeOK, Slots, Wrap
    <3> QED BY <1>0, <1>1, <3>1
  <2>4. Contents' = Contents /\ Fifo!Without(Contents, t) = Contents
    BY <2>2, <2>3 DEF ringVars, Contents, Fifo!Without
  <2> QED BY <2>2, <2>4 DEF TypeOK, NoHoles, ringVars, Fifo!Remove
<1>2. CASE ~ \A i \in Slots : items[i] # t
  <2>1. PICK i \in Slots :
          /\ FoundAt(t, i) /\ items' = Compacted(Wrap(head + i))
          /\ tail' = Wrap(Wrap(head + i) + Moved(Wrap(head + i)))
          /\ count' = count - 1 /\ head' = head /\ out' = "Ok"
    BY <1>2 DEF RemoveByTid
  <2>2. /\ head \in Slots /\ tail = Wrap(head + count) /\ count \in 1 .. Cap
        /\ i < count /\ i \in Slots
    <3>1. items[Wrap(head + i)] # None
      BY <2>1 DEF FoundAt
    <3>2. i < count
      BY <3>1 DEF NoHoles
    <3>3. head \in Slots /\ count \in 0 .. Cap /\ tail = Wrap(head + count)
      BY DEF TypeOK, NoHoles
    <3> QED BY <3>2, <3>3 DEF Slots
  <2>3. count - i < Cap
    <3>1. CASE i = 0
      <4>1. Wrap(head + 0) = head
        BY <2>2 DEF Wrap, Slots
      <4>2. items[head] = t
        BY <2>1, <3>1, <4>1 DEF FoundAt
      <4> QED BY <2>2, <3>1, <4>2 DEF RemoveByTid, TypeOK
    <3>2. CASE i # 0
      BY <2>2, <3>2 DEF Slots
    <3> QED BY <3>1, <3>2
  <2> DEFINE idx == Wrap(head + i)
  <2>4. idx \in Slots /\ idx # tail /\ Moved(idx) = count - i - 1
    BY <2>2, <2>3 DEF Slots, Wrap, Moved
  <2>5. tail' = Wrap(head + (count - 1)) /\ tail' \in Slots
    BY <2>1, <2>2, <2>4 DEF Slots, Wrap
  <2>6. \A k \in Slots : /\ Wrap(head + k) \in Slots
                         /\ Offset(Wrap(head + k), idx) = IF k >= i THEN k - i ELSE k + Cap - i
    BY <2>2 DEF Slots, Wrap, Offset
  <2>7. \A k \in Slots : items'[Wrap(head + k)] =
          IF k >= i /\ k < count - 1 THEN items[Wrap(head + (k + 1))]
          ELSE IF k = count - 1 THEN None ELSE items[Wrap(head + k)]
    <3> TAKE k \in Slots
    <3> DEFINE x == Wrap(head + k)
    <3>1. x \in Slots /\ Wrap(x + 1) = Wrap(head + (k + 1))
      BY <2>2, WrapFacts DEF Slots
    <3>2. items'[x] = CASE Offset(x, idx) < Moved(idx) -> items[Wrap(x + 1)]
                        [] Offset(x, idx) = Moved(idx) -> None
                        [] OTHER                       -> items[x]
      BY <2>1, <3>1 DEF Compacted
    <3> DEFINE before == Offset(x, idx) < Moved(idx)
               last == Offset(x, idx) = Moved(idx)
    <3>3. /\ before <=> k >= i /\ k < count - 1
          /\ last <=> k = count - 1
          /\ ~ (before /\ last)
      BY <2>2, <2>3, <2>4, <2>6 DEF Slots
    <3>4. /\ before => items'[x] = items[Wrap(x + 1)]
          /\ last => items'[x] = None
          /\ ~ before /\ ~ last => items'[x] = items[x]
      <4> HIDE DEF x, before, last, idx
      <4>1. items'[x] = CASE before -> items[Wrap(x + 1)] [] last -> None [] OTHER -> items[x]
        BY <3>2 DEF before, last
      <4> QED BY <3>3, <4>1
    <3> HIDE DEF before, last
    <3> QED BY <3>1, <3>3, <3>4
  <2>8. TypeOK'
    <3>1. \A k \in Slots : Wrap(k + 1) \in Slots
      BY DEF Slots, Wrap
    <3>2. Compacted(idx) \in [Slots -> Threads \cup {None}]
      BY <3>1 DEF Compacted, TypeOK
    <3>3. count' \in 0 .. Cap
      BY <2>1, <2>2
    <3> QED BY <2>1, <2>5, <3>2, <3>3 DEF TypeOK
  <2>9. NoHoles'
    <3>1. ASSUME NEW k \in Slots
          PROVE  items'[Wrap(head' + k)] # None <=> k < count'
      <4>1. CASE k >= i /\ k < count - 1
        <5>1. k + 1 \in Slots /\ k + 1 < count
          BY <2>2, <4>1 DEF Slots
        <5> QED BY <2>1, <2>7, <4>1, <5>1 DEF NoHoles
      <4>2. CASE k = count - 1
        <5>1. ~ (k < count - 1)
          BY <2>2, <4>2
        <5> QED BY <2>1, <2>7, <4>2, <5>1
      <4>3. CASE ~ (k >= i /\ k < count - 1) /\ k # count - 1
        <5>1. k < count <=> k < count - 1
          BY <2>2, <4>3 DEF Slots
        <5> QED BY <2>1, <2>7, <4>3, <5>1 DEF NoHoles
      <4> QED BY <4>1, <4>2, <4>3
    <3> QED BY <2>1, <2>5, <3>1 DEF NoHoles
  <2>10. Contents' = Fifo!Without(Contents, t)
    <3> DEFINE W == Fifo!Without(Contents, t)
    <3>1. /\ i + 1 \in 1 .. Len(Contents) /\ Contents[i + 1] = t
          /\ \A j \in 1 .. ((i + 1) - 1) : Contents[j] # t
      <4>1. i + 1 \in 1 .. count /\ (i + 1) - 1 = i
        BY <2>2 DEF Slots
      <4>2. ASSUME NEW j \in 1 .. i PROVE Contents[j] # t
        <5>1. j \in 1 .. count /\ j - 1 \in 0 .. (i - 1)
          BY <2>2 DEF Slots
        <5> QED BY <1>0, <2>1, <5>1 DEF FoundAt
      <4>3. Contents[i + 1] = t
        BY <1>0, <2>1, <4>1 DEF FoundAt
      <4> QED BY <1>0, <4>1, <4>2, <4>3
    <3>2. /\ W \in Seq(Entry) /\ Len(W) = count - 1
          /\ \A j \in 1 .. (count - 1) : W[j] = IF j < i + 1 THEN Contents[j] ELSE Contents[j + 1]
      <4>1. /\ W \in Seq(Entry) /\ Len(W) = Len(Contents) - 1
            /\ \A j \in 1 .. (Len(Contents) - 1) :
                 W[j] = IF j < i + 1 THEN Contents[j] ELSE Contents[j + 1]
        BY <1>0, <3>1, WithoutFirst
      <4> HIDE DEF W
      <4> QED BY <1>0, <4>1
    <3>3. /\ Contents' \in Seq(Entry) /\ Len(Contents') = count - 1
          /\ \A j \in 1 .. (count - 1) : Contents'[j] = items'[Wrap(head + (j - 1))]
      BY <2>1, <2>8, ContentsNext
    <3>4. \A j \in 1 .. (count - 1) : Contents'[j] = W[j]
      <4> TAKE j \in 1 .. (count - 1)
      <4>1. /\ j - 1 \in Slots /\ j \in 1 .. count /\ j + 1 \in 1 .. count
            /\ (j - 1) + 1 = (j + 1) - 1 /\ j - 1 # count - 1 /\ j - 1 < count - 1
            /\ (j - 1 >= i <=> ~ (j < i + 1))
        BY <2>2 DEF Slots
      <4> HIDE DEF W, Contents
      <4> QED BY <1>0, <2>7, <3>2, <3>3, <4>1
    <3> HIDE DEF Contents, W
    <3>5. Contents' = W
      BY <3>2, <3>3, <3>4, SeqEqual
    <3> QED BY <3>5 DEF W
  <2> QED BY <2>1, <2>8, <2>9, <2>10 DEF Fifo!Remove
<1> QED BY <1>1, <1>2

LEMMA NextKeeps ==
  ASSUME FullRemoval = FALSE, TypeOK, NoHoles, [Next]_vars
  PROVE  TypeOK' /\ NoHoles' /\ [Fifo!Next]_<<Contents, out>>
<1>1. ASSUME NEW t \in Threads, Push(t)
      PROVE  TypeOK' /\ NoHoles' /\ [Fifo!Next]_<<Contents, out>>
  BY <1>1, PushKeeps DEF Fifo!Next
<1>2. ASSUME NEW t \in Threads, RemoveByTid(t)
      PROVE  TypeOK' /\ NoHoles' /\ [Fifo!Next]_<<Contents, out>>
  BY <1>2, RemoveKeeps DEF Fifo!Next
<1>3. CASE Pop
  BY <1>3, PopKeeps DEF Fifo!Next
<1>4. CASE UNCHANGED vars
  BY <1>4 DEF vars, TypeOK, NoHoles, Contents
<1> QED BY <1>1, <1>2, <1>3, <1>4 DEF Next

LEMMA InitKeeps ==
  ASSUME Init
  PROVE  TypeOK /\ NoHoles /\ Fifo!Init
<1>1. TypeOK /\ NoHoles
  BY RingAssumption DEF Init, TypeOK, NoHoles, Slots, Wrap
<1>2. Contents = << >>
  BY <1>1, ContentsNow DEF Init
<1> QED BY <1>1, <1>2 DEF Init, Fifo!Init

(* The occupied slots are contiguous in every reachable state, so a pop()  *)
(* of a non-empty queue always returns a waiting thread.                   *)
THEOREM RingHasNoHoles ==
  ASSUME FullRemoval = FALSE
  PROVE  Spec => [](TypeOK /\ NoHoles)
<1>1. Init => TypeOK /\ NoHoles
  BY InitKeeps
<1>2. TypeOK /\ NoHoles /\ [Next]_vars => TypeOK' /\ NoHoles'
  BY NextKeeps
<1> QED BY <1>1, <1>2, PTL DEF Spec

(* push, pop and remove_by_tid on the ring are push, pop and removal on a  *)
(* bounded first-in first-out queue, for every capacity.                   *)
THEOREM RingIsFifo ==
  ASSUME FullRemoval = FALSE
  PROVE  Spec => ImplementsFifo
<1>1. Init => Fifo!Init
  BY InitKeeps
<1>2. TypeOK /\ NoHoles /\ [Next]_vars => [Fifo!Next]_<<Contents, out>>
  BY NextKeeps
<1> QED BY <1>1, <1>2, RingHasNoHoles, PTL DEF Spec, ImplementsFifo, Fifo!Spec

(* head, tail and count stay within the ring, for every capacity.          *)
THEOREM RingTyped ==
  ASSUME FullRemoval = FALSE
  PROVE  Spec => []TypeOK
BY RingHasNoHoles, PTL

=============================================================================
