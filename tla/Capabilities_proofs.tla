------------------------ MODULE Capabilities_proofs ------------------------
(***************************************************************************)
(* Revocation reaches every capability that was derived, and rights only   *)
(* shrink, for any number of processes, slots and derivations.             *)
(*                                                                         *)
(* The lemmas on the derivation table are about any table T, so that they  *)
(* apply to the table before and after a step alike.                       *)
(***************************************************************************)
EXTENDS Capabilities, SequenceTheorems, TLAPS

Kids(T, i) == {T[i].children[k] : k \in 1 .. Len(T[i].children)}

Hung(T, i) == T[i].parent # None => i \in Kids(T, T[i].parent)

Shape(T) ==
  \A i \in DOMAIN T :
    /\ T[i].parent # None =>
         /\ T[i].parent \in DOMAIN T
         /\ Hung(T, T[i].parent)
         /\ T[i].rights \subseteq T[T[i].parent].rights
         /\ T[i].obj = T[T[i].parent].obj
    /\ \A c \in Kids(T, i) : c \in DOMAIN T /\ T[c].parent = i

Down(T) == \A i \in DOMAIN T : T[i].revoked => \A c \in Kids(T, i) : T[c].revoked

Fits(T, c) == /\ c.id \in DOMAIN T /\ Hung(T, c.id)
              /\ c.rights = T[c.id].rights /\ c.obj = T[c.id].obj

LEMMA Unfolded ==
  /\ TreeShape <=> Shape(table)
  /\ MarksGoDown <=> Down(table)
  /\ HeldHang <=> \A c \in HeldCaps : Fits(table, c)
BY Zenon DEF TreeShape, Shape, MarksGoDown, Down, HeldHang, Fits, Hangs, Hung, Children, Kids, Ids

LEMMA UnfoldedNext ==
  /\ TreeShape' <=> Shape(table')
  /\ MarksGoDown' <=> Down(table')
  /\ HeldHang' <=> \A c \in HeldCaps' : Fits(table', c)
BY Zenon DEF TreeShape, Shape, MarksGoDown, Down, HeldHang, Fits, Hangs, Hung, Children, Kids, Ids

-----------------------------------------------------------------------------
(* A table with one more entry, with or without a link from its parent.    *)
Link(T, linked, P) ==
  IF linked THEN [T EXCEPT ![P].children = Append(@, Len(T) + 1)] ELSE T

LEMMA LinkFacts ==
  ASSUME NEW T \in Seq(DeriveEntry), NEW linked \in BOOLEAN, NEW P, linked => P \in DOMAIN T
  PROVE  /\ Link(T, linked, P) \in Seq(DeriveEntry) /\ Len(Link(T, linked, P)) = Len(T)
         /\ \A i \in DOMAIN T :
              /\ Link(T, linked, P)[i].obj = T[i].obj
              /\ Link(T, linked, P)[i].rights = T[i].rights
              /\ Link(T, linked, P)[i].parent = T[i].parent
              /\ Link(T, linked, P)[i].revoked = T[i].revoked
              /\ Link(T, linked, P)[i].children =
                   IF linked /\ i = P THEN Append(T[i].children, Len(T) + 1) ELSE T[i].children
<1> DEFINE n == Len(T) + 1
<1>1. DOMAIN T = 1 .. Len(T) /\ Len(T) \in Nat /\ n \in Nat
  BY LenProperties
<1>2. \A i \in DOMAIN T : T[i] \in DeriveEntry
  BY ElementOfSeq, <1>1
<1>3. CASE ~ linked
  BY <1>1, <1>3 DEF Link
<1>4. CASE linked
  <2> DEFINE c == Append(T[P].children, n)
             u == [T[P] EXCEPT !.children = c]
  <2>1. P \in DOMAIN T /\ Link(T, linked, P) = [T EXCEPT ![P] = u]
    BY <1>4 DEF Link
  <2>2. T[P].children \in Seq(Nat) /\ T[P] \in DeriveEntry
    BY <1>2, <2>1 DEF DeriveEntry
  <2>3. c \in Seq(Nat)
    BY <1>1, <2>2, AppendProperties
  <2> HIDE DEF c
  <2>4. /\ u \in DeriveEntry /\ u.children = c /\ u.obj = T[P].obj
        /\ u.rights = T[P].rights /\ u.parent = T[P].parent /\ u.revoked = T[P].revoked
    BY <2>2, <2>3 DEF DeriveEntry
  <2> HIDE DEF u
  <2>5. [T EXCEPT ![P] = u] \in Seq(DeriveEntry) /\ Len([T EXCEPT ![P] = u]) = Len(T)
    BY <2>1, <2>4, ExceptSeq
  <2>6. \A i \in DOMAIN T : [T EXCEPT ![P] = u][i] = IF i = P THEN u ELSE T[i]
    BY <2>1
  <2> QED BY <1>4, <2>1, <2>4, <2>5, <2>6 DEF c
<1> QED BY <1>3, <1>4

Grown(T, linked, P, e) == Append(Link(T, linked, P), e)

(* U is T with e added, and linked from P if so.                           *)
Extends(T, U, linked, P, e) ==
  /\ U \in Seq(DeriveEntry) /\ Len(U) = Len(T) + 1
  /\ DOMAIN U = DOMAIN T \cup {Len(T) + 1} /\ Len(T) + 1 \notin DOMAIN T
  /\ U[Len(T) + 1] = e
  /\ \A i \in DOMAIN T :
       /\ U[i].obj = T[i].obj /\ U[i].rights = T[i].rights
       /\ U[i].parent = T[i].parent /\ U[i].revoked = T[i].revoked
       /\ U[i].children = IF linked /\ i = P THEN Append(T[i].children, Len(T) + 1)
                                             ELSE T[i].children

LEMMA GrownFacts ==
  ASSUME NEW T \in Seq(DeriveEntry), NEW e \in DeriveEntry,
         NEW linked \in BOOLEAN, NEW P, linked => P \in DOMAIN T
  PROVE  Extends(T, Grown(T, linked, P, e), linked, P, e)
<1> DEFINE n == Len(T) + 1
           L == Link(T, linked, P)
           U == Grown(T, linked, P, e)
<1>1. L \in Seq(DeriveEntry) /\ Len(L) = Len(T) /\ Len(T) \in Nat /\ DOMAIN T = 1 .. Len(T)
  BY LinkFacts, LenProperties
<1>2. \A i \in DOMAIN T :
        /\ L[i].obj = T[i].obj /\ L[i].rights = T[i].rights
        /\ L[i].parent = T[i].parent /\ L[i].revoked = T[i].revoked
        /\ L[i].children = IF linked /\ i = P THEN Append(T[i].children, n) ELSE T[i].children
  BY LinkFacts
<1> HIDE DEF L
<1>3. /\ Append(L, e) \in Seq(DeriveEntry) /\ Len(Append(L, e)) = n
      /\ Append(L, e)[n] = e /\ \A i \in 1 .. Len(L) : Append(L, e)[i] = L[i]
  BY <1>1, AppendProperties
<1>4. U = Append(L, e)
  BY DEF Grown, L
<1>5. DOMAIN U = 1 .. n
  BY <1>3, <1>4, LenProperties
<1>6. 1 .. n = (1 .. Len(T)) \cup {n} /\ n \notin 1 .. Len(T)
  BY <1>1
<1> HIDE DEF U
<1> QED BY <1>1, <1>2, <1>3, <1>4, <1>5, <1>6 DEF Extends, U

LEMMA GrownKids ==
  ASSUME NEW T \in Seq(DeriveEntry), NEW e \in DeriveEntry, e.children = << >>,
         NEW linked \in BOOLEAN, NEW P, NEW U, Extends(T, U, linked, P, e)
  PROVE  /\ \A i \in DOMAIN T : Kids(U, i) = IF linked /\ i = P THEN Kids(T, i) \cup {Len(T) + 1}
                                                                ELSE Kids(T, i)
         /\ Kids(U, Len(T) + 1) = {}
<1> DEFINE n == Len(T) + 1
<1>1. Len(T) \in Nat /\ \A i \in DOMAIN T : T[i].children \in Seq(Nat)
  <2>1. \A i \in DOMAIN T : T[i] \in DeriveEntry
    BY ElementOfSeq, LenProperties
  <2> QED BY <2>1, LenProperties DEF DeriveEntry
<1>2. /\ U[n] = e
      /\ \A i \in DOMAIN T : U[i].children = IF linked /\ i = P THEN Append(T[i].children, n)
                                                                ELSE T[i].children
  BY DEF Extends
<1>3. Kids(U, n) = {}
  <2> DEFINE q == U[n].children
  <2>1. Len(q) = 0
    BY <1>2
  <2>2. Kids(U, n) = {q[k] : k \in 1 .. Len(q)}
    BY DEF Kids
  <2> HIDE DEF q, n
  <2>3. 1 .. Len(q) = {}
    BY <2>1
  <2> QED BY <2>2, <2>3
<1>4. ASSUME NEW i \in DOMAIN T
      PROVE  Kids(U, i) = IF linked /\ i = P THEN Kids(T, i) \cup {n} ELSE Kids(T, i)
  <2> DEFINE q == T[i].children
  <2>1. CASE linked /\ i = P
    <3>1. /\ Len(Append(q, n)) = Len(q) + 1 /\ Append(q, n)[Len(q) + 1] = n
          /\ \A k \in 1 .. Len(q) : Append(q, n)[k] = q[k]
          /\ Len(q) \in Nat
      BY <1>1, AppendProperties, LenProperties
    <3>2. 1 .. (Len(q) + 1) = (1 .. Len(q)) \cup {Len(q) + 1}
      BY <3>1
    <3>3. U[i].children = Append(q, n)
      BY <1>2, <2>1
    <3>4. Kids(U, i) = {Append(q, n)[k] : k \in 1 .. (Len(q) + 1)}
      BY <3>1, <3>3 DEF Kids
    <3>5. Kids(T, i) = {q[k] : k \in 1 .. Len(q)}
      BY DEF Kids
    <3> HIDE DEF q, n
    <3>6. {Append(q, n)[k] : k \in 1 .. (Len(q) + 1)} = {q[k] : k \in 1 .. Len(q)} \cup {n}
      BY <3>1, <3>2
    <3> QED BY <2>1, <3>4, <3>5, <3>6
  <2>2. CASE ~ (linked /\ i = P)
    <3>1. U[i].children = T[i].children
      BY <1>2, <2>2
    <3> QED BY <2>2, <3>1 DEF Kids
  <2> QED BY <2>1, <2>2
<1> QED BY <1>3, <1>4

NewFits(T, e, linked, P) ==
  /\ e.children = << >> /\ ~ e.revoked /\ e.parent = P
  /\ P = None => ~ linked
  /\ P # None => /\ P \in DOMAIN T /\ Hung(T, P) /\ ~ T[P].revoked
                 /\ e.rights \subseteq T[P].rights /\ e.obj = T[P].obj

(* An entry with the parent's object and no more rights keeps the tree in  *)
(* shape, and the entries that hung go on to.                              *)
LEMMA GrownTree ==
  ASSUME NEW T \in Seq(DeriveEntry), Shape(T), Down(T), NEW e \in DeriveEntry,
         NEW linked \in BOOLEAN, NEW P, NewFits(T, e, linked, P),
         NEW U, Extends(T, U, linked, P, e)
  PROVE  /\ Shape(U) /\ Down(U)
         /\ \A i \in DOMAIN T : Hung(T, i) => Hung(U, i)
         /\ linked \/ P = None => Hung(U, Len(T) + 1)
<1> DEFINE n == Len(T) + 1
<1> USE DEF NewFits
<1>1. /\ DOMAIN U = DOMAIN T \cup {n} /\ n \notin DOMAIN T /\ U[n] = e
      /\ \A i \in DOMAIN T : /\ U[i].obj = T[i].obj /\ U[i].rights = T[i].rights
                             /\ U[i].parent = T[i].parent /\ U[i].revoked = T[i].revoked
  BY DEF Extends
<1>2. /\ \A i \in DOMAIN T : Kids(U, i) = IF linked /\ i = P THEN Kids(T, i) \cup {n}
                                                             ELSE Kids(T, i)
      /\ Kids(U, n) = {}
  BY GrownKids
<1> HIDE DEF n
<1>3. ASSUME NEW i \in DOMAIN T
      PROVE  /\ T[i].parent # None =>
                  /\ T[i].parent \in DOMAIN T
                  /\ Hung(T, T[i].parent)
                  /\ T[i].rights \subseteq T[T[i].parent].rights
                  /\ T[i].obj = T[T[i].parent].obj
             /\ \A c \in Kids(T, i) : c \in DOMAIN T /\ T[c].parent = i
  BY <1>3 DEF Shape
<1>4. ASSUME NEW i \in DOMAIN T, Hung(T, i) PROVE Hung(U, i)
  BY <1>1, <1>2, <1>3, <1>4 DEF Hung
<1>5. linked \/ P = None => Hung(U, n)
  BY <1>1, <1>2 DEF Hung
<1>6. ASSUME NEW i \in DOMAIN U
      PROVE  /\ U[i].parent # None =>
                  /\ U[i].parent \in DOMAIN U
                  /\ Hung(U, U[i].parent)
                  /\ U[i].rights \subseteq U[U[i].parent].rights
                  /\ U[i].obj = U[U[i].parent].obj
             /\ \A c \in Kids(U, i) : c \in DOMAIN U /\ U[c].parent = i
  <2>1. CASE i = n
    BY <1>1, <1>2, <1>4, <2>1
  <2>2. CASE i \in DOMAIN T
    <3>1. U[i].parent = T[i].parent /\ U[i].rights = T[i].rights /\ U[i].obj = T[i].obj
      BY <1>1, <2>2
    <3>2. ASSUME T[i].parent # None
          PROVE  /\ T[i].parent \in DOMAIN U /\ Hung(U, T[i].parent)
                 /\ T[i].rights \subseteq U[T[i].parent].rights
                 /\ T[i].obj = U[T[i].parent].obj
      BY <1>1, <1>3, <1>4, <2>2, <3>2
    <3>3. \A c \in Kids(U, i) : c \in DOMAIN U /\ U[c].parent = i
      BY <1>1, <1>2, <1>3, <2>2
    <3> QED BY <3>1, <3>2, <3>3
  <2> QED BY <1>1, <2>1, <2>2
<1>7. Down(U)
  <2>1. ASSUME NEW i \in DOMAIN U, U[i].revoked, NEW c \in Kids(U, i)
        PROVE  U[c].revoked
    <3>1. i \in DOMAIN T /\ T[i].revoked
      BY <1>1, <2>1
    <3>2. ~ (linked /\ i = P)
      BY <3>1
    <3>3. c \in Kids(T, i) /\ c \in DOMAIN T
      BY <1>2, <1>3, <2>1, <3>1, <3>2
    <3> QED BY <1>1, <3>1, <3>3 DEF Down
  <2> QED BY <2>1 DEF Down
<1> QED BY <1>4, <1>5, <1>6, <1>7 DEF n, Shape

-----------------------------------------------------------------------------
(* A table in which some entries are marked, closed under children.        *)
Marked(T, M) == [k \in DOMAIN T |-> [T[k] EXCEPT !.revoked = @ \/ k \in M]]

LEMMA MarkedTree ==
  ASSUME NEW T \in Seq(DeriveEntry), Shape(T), Down(T), NEW M,
         \A i \in DOMAIN T : i \in M => \A c \in Kids(T, i) : T[c].revoked \/ c \in M,
         NEW U, U = Marked(T, M)
  PROVE  /\ U \in Seq(DeriveEntry) /\ Len(U) = Len(T)
         /\ Shape(U) /\ Down(U)
         /\ \A c : Fits(T, c) => Fits(U, c)
<1>1. DOMAIN T = 1 .. Len(T) /\ Len(T) \in Nat /\ \A i \in DOMAIN T : T[i] \in DeriveEntry
  BY LenProperties, ElementOfSeq
<1>2. ASSUME NEW i \in DOMAIN T
      PROVE  /\ U[i] \in DeriveEntry
             /\ U[i].obj = T[i].obj /\ U[i].rights = T[i].rights /\ U[i].parent = T[i].parent
             /\ U[i].children = T[i].children /\ U[i].revoked = (T[i].revoked \/ i \in M)
  <2> DEFINE r == T[i].revoked \/ i \in M
             t == T[i]
  <2>1. U[i] = [t EXCEPT !.revoked = r] /\ r \in BOOLEAN /\ t \in DeriveEntry
    BY <1>1 DEF Marked
  <2> HIDE DEF r, t
  <2>2. /\ [t EXCEPT !.revoked = r] \in DeriveEntry
        /\ [t EXCEPT !.revoked = r].obj = t.obj /\ [t EXCEPT !.revoked = r].rights = t.rights
        /\ [t EXCEPT !.revoked = r].parent = t.parent
        /\ [t EXCEPT !.revoked = r].children = t.children /\ [t EXCEPT !.revoked = r].revoked = r
    BY <2>1 DEF DeriveEntry
  <2> QED BY <2>1, <2>2 DEF r, t
<1>3. DOMAIN U = DOMAIN T /\ U \in Seq(DeriveEntry) /\ Len(U) = Len(T)
  <2>1. U \in [1 .. Len(T) -> DeriveEntry]
    BY <1>1, <1>2 DEF Marked
  <2> QED BY <1>1, <2>1
<1>4. \A i \in DOMAIN T : Kids(U, i) = Kids(T, i)
  <2> TAKE i \in DOMAIN T
  <2>1. U[i].children = T[i].children
    BY <1>2
  <2> QED BY <2>1, Zenon DEF Kids
<1>5. ASSUME NEW i \in DOMAIN T
      PROVE  /\ T[i].parent # None =>
                  /\ T[i].parent \in DOMAIN T
                  /\ Hung(T, T[i].parent)
                  /\ T[i].rights \subseteq T[T[i].parent].rights
                  /\ T[i].obj = T[T[i].parent].obj
             /\ \A c \in Kids(T, i) : c \in DOMAIN T /\ T[c].parent = i
  BY <1>5 DEF Shape
<1>6. ASSUME NEW i \in DOMAIN T, Hung(T, i) PROVE Hung(U, i)
  BY <1>2, <1>4, <1>5, <1>6 DEF Hung
<1>7. Shape(U)
  <2>1. ASSUME NEW i \in DOMAIN T
        PROVE  /\ U[i].parent # None =>
                    /\ U[i].parent \in DOMAIN T
                    /\ Hung(U, U[i].parent)
                    /\ U[i].rights \subseteq U[U[i].parent].rights
                    /\ U[i].obj = U[U[i].parent].obj
               /\ \A c \in Kids(U, i) : c \in DOMAIN T /\ U[c].parent = i
    <3>1. U[i].parent = T[i].parent /\ U[i].rights = T[i].rights /\ U[i].obj = T[i].obj
      BY <1>2
    <3>2. ASSUME T[i].parent # None
          PROVE  /\ T[i].parent \in DOMAIN T /\ Hung(U, T[i].parent)
                 /\ T[i].rights \subseteq U[T[i].parent].rights
                 /\ T[i].obj = U[T[i].parent].obj
      BY <1>2, <1>5, <1>6, <3>2
    <3>3. \A c \in Kids(U, i) : c \in DOMAIN T /\ U[c].parent = i
      BY <1>2, <1>4, <1>5
    <3> QED BY <3>1, <3>2, <3>3
  <2> QED BY <1>3, <2>1, Zenon DEF Shape
<1>8. Down(U)
  <2>1. ASSUME NEW i \in DOMAIN T, U[i].revoked, NEW c \in Kids(T, i)
        PROVE  U[c].revoked
    <3>1. c \in DOMAIN T /\ (T[i].revoked \/ i \in M)
      BY <1>2, <1>5, <2>1
    <3>2. T[c].revoked \/ c \in M
      BY <3>1 DEF Down
    <3> QED BY <1>2, <3>1, <3>2
  <2> QED BY <1>3, <1>4, <2>1 DEF Down
<1>9. \A c : Fits(T, c) => Fits(U, c)
  BY <1>2, <1>3, <1>6 DEF Fits
<1> QED BY <1>3, <1>7, <1>8, <1>9

-----------------------------------------------------------------------------
(* The slots.  A fresh capability in one slot keeps them in order, and so  *)
(* does emptying a slot or moving a capability.                            *)
SlotsType == slots \in [Pids -> [Slots -> Capability \cup {None}]]

LEMMA OpenSpaceType ==
  ASSUME spaces \subseteq Pids, NEW p \in Pids, OpenSpace(p)
  PROVE  spaces' \subseteq Pids
BY DEF OpenSpace

LEMMA Inserted ==
  ASSUME SlotsType, spaces \subseteq Pids, NEW p \in Pids, NEW c \in Capability, InsertCap(p, c)
  PROVE  /\ SlotsType' /\ spaces' \subseteq Pids
         /\ \E k : \A q \in Pids, i \in Slots :
              \/ slots'[q][i] = slots[q][i]
              \/ q = p /\ i = k /\ slots'[q][i] = c
<1>1. spaces' \subseteq Pids
  BY OpenSpaceType DEF InsertCap
<1>2. CASE UNCHANGED slots
  BY <1>1, <1>2 DEF SlotsType
<1>3. ASSUME NEW i \in Slots, slots' = [slots EXCEPT ![p][i] = c]
      PROVE  /\ SlotsType'
             /\ \A q \in Pids, j \in Slots :
                  \/ slots'[q][j] = slots[q][j]
                  \/ q = p /\ j = i /\ slots'[q][j] = c
  BY <1>3 DEF SlotsType
<1>4. UNCHANGED slots \/ \E i \in Slots : slots' = [slots EXCEPT ![p][i] = c]
  BY Zenon DEF InsertCap
<1> QED BY <1>1, <1>2, <1>3, <1>4

LEMMA InsertedFresh ==
  ASSUME SlotsType, spaces \subseteq Pids, NEW p \in Pids, NEW c \in Capability,
         InsertCap(p, c), HeldOnce, \A h \in HeldCaps : h.id # c.id
  PROVE  HeldOnce' /\ HeldCaps' \subseteq HeldCaps \cup {c}
<1>1. PICK k : \A q \in Pids, i \in Slots :
                 \/ slots'[q][i] = slots[q][i]
                 \/ q = p /\ i = k /\ slots'[q][i] = c
  BY Inserted
<1>2. HeldCaps' \subseteq HeldCaps \cup {c}
  BY <1>1 DEF HeldCaps
<1>3. \A q \in Pids, i \in Slots : slots[q][i] # None => slots[q][i].id # c.id
  BY DEF HeldCaps
<1>4. SUFFICES ASSUME NEW q \in Pids, NEW r \in Pids, NEW i \in Slots, NEW j \in Slots,
                      slots'[q][i] # None, slots'[r][j] # None,
                      slots'[q][i].id = slots'[r][j].id
               PROVE  q = r /\ i = j
  BY <1>2 DEF HeldOnce
<1>5. CASE slots'[q][i] = slots[q][i] /\ slots'[r][j] = slots[r][j]
  BY <1>4, <1>5 DEF HeldOnce
<1>6. CASE ~ (slots'[q][i] = slots[q][i] /\ slots'[r][j] = slots[r][j])
  BY <1>1, <1>3, <1>4, <1>6
<1> QED BY <1>5, <1>6

LEMMA Emptied ==
  ASSUME SlotsType, HeldOnce, NEW p \in Pids, NEW i \in Slots,
         slots' = [slots EXCEPT ![p][i] = None]
  PROVE  SlotsType' /\ HeldOnce' /\ HeldCaps' \subseteq HeldCaps
<1>1. SlotsType'
  BY DEF SlotsType
<1>2. \A q \in Pids, j \in Slots : slots'[q][j] = None \/ slots'[q][j] = slots[q][j]
  BY DEF SlotsType
<1>3. HeldCaps' \subseteq HeldCaps
  BY <1>2 DEF HeldCaps
<1>4. HeldOnce'
  <2>1. SUFFICES ASSUME NEW q \in Pids, NEW r \in Pids, NEW j \in Slots, NEW k \in Slots,
                        slots'[q][j] # None, slots'[r][k] # None,
                        slots'[q][j].id = slots'[r][k].id
                 PROVE  q = r /\ j = k
    BY DEF HeldOnce
  <2>2. slots'[q][j] = slots[q][j] /\ slots'[r][k] = slots[r][k]
    BY <1>2, <2>1
  <2> QED BY <2>1, <2>2 DEF HeldOnce
<1> QED BY <1>1, <1>3, <1>4

LEMMA Moved ==
  ASSUME SlotsType, HeldOnce, NEW p \in Pids, NEW src \in Slots, NEW dst,
         slots' = [slots EXCEPT ![p] = [i \in Slots |-> IF i = dst THEN slots[p][src]
                                                        ELSE IF i = src THEN None
                                                        ELSE slots[p][i]]]
  PROVE  SlotsType' /\ HeldOnce' /\ HeldCaps' \subseteq HeldCaps
<1> DEFINE from(q, i) == IF q = p /\ i = dst THEN src ELSE i
<1>1. SlotsType'
  BY DEF SlotsType
<1>2. \A q \in Pids, i \in Slots : slots'[q][i] = None \/ slots'[q][i] = slots[q][from(q, i)]
  BY DEF SlotsType
<1>3. \A q \in Pids, i \in Slots : from(q, i) \in Slots
  OBVIOUS
<1>4. \A q \in Pids, i, j \in Slots :
        slots'[q][i] # None /\ slots'[q][j] # None /\ from(q, i) = from(q, j) => i = j
  BY DEF SlotsType
<1> HIDE DEF from
<1>5. HeldCaps' \subseteq HeldCaps
  BY <1>2, <1>3 DEF HeldCaps
<1>6. HeldOnce'
  <2>1. SUFFICES ASSUME NEW q \in Pids, NEW r \in Pids, NEW i \in Slots, NEW j \in Slots,
                        slots'[q][i] # None, slots'[r][j] # None,
                        slots'[q][i].id = slots'[r][j].id
                 PROVE  q = r /\ i = j
    BY DEF HeldOnce
  <2>2. slots'[q][i] = slots[q][from(q, i)] /\ slots'[r][j] = slots[r][from(r, j)]
    BY <1>2, <2>1
  <2>3. q = r /\ from(q, i) = from(r, j)
    BY <1>3, <2>1, <2>2 DEF HeldOnce
  <2> QED BY <1>4, <2>1, <2>3
<1> QED BY <1>1, <1>5, <1>6

-----------------------------------------------------------------------------
(* The marking of revoke_recursive() is closed under children.             *)
LEMMA ReachedClosed ==
  ASSUME TreeShape, NEW id \in Ids, NEW i \in Reached(id), NEW c \in Children(i)
  PROVE  table[c].revoked \/ c \in Reached(id)
<1>1. c \in Ids
  BY DEF TreeShape, Reached
<1>2. SUFFICES ASSUME ~ table[c].revoked, NEW S \in SUBSET Ids, id \in S,
                      \A j \in S : \A d \in Children(j) : ~ table[d].revoked => d \in S
               PROVE  c \in S
  BY <1>1 DEF Reached
<1>3. i \in S
  BY <1>2 DEF Reached
<1> QED BY <1>2, <1>3

-----------------------------------------------------------------------------
LEMMA IdsFacts ==
  ASSUME TypeOK
  PROVE  /\ Ids = 1 .. Len(table) /\ Len(table) \in Nat
         /\ \A i \in Ids : table[i] \in DeriveEntry
BY LenProperties, ElementOfSeq DEF TypeOK, Ids

LEMMA CapTypes ==
  ASSUME NEW o \in Objects, NEW r \in CapRights, NEW id \in Nat \ {0}, NEW P \in Nat \cup {None}
  PROVE  /\ [obj |-> o, rights |-> r, id |-> id] \in Capability
         /\ NewEntry(o, r, P) \in DeriveEntry
         /\ NewEntry(o, r, P).children = << >> /\ ~ NewEntry(o, r, P).revoked
         /\ NewEntry(o, r, P).parent = P
         /\ NewEntry(o, r, P).rights = r /\ NewEntry(o, r, P).obj = o
<1>1. << >> \in Seq(Nat)
  OBVIOUS
<1> QED BY <1>1 DEF Capability, NewEntry, DeriveEntry

(* What an entry added to the table, with a capability for it put in a     *)
(* slot or with none, does to the invariant.                               *)
LEMMA Added ==
  ASSUME CapInv, NEW p \in Pids, NEW o \in Objects, NEW r \in CapRights,
         NEW P \in Nat \cup {None}, NEW linked \in BOOLEAN,
         P = None => ~ linked,
         P # None => /\ P \in Ids /\ Hung(table, P) /\ ~ table[P].revoked
                     /\ r \subseteq table[P].rights /\ o = table[P].obj,
         Len(table) < MaxDerivations,
         table' = Grown(table, linked, P, NewEntry(o, r, P)),
         \/ /\ InsertCap(p, [obj |-> o, rights |-> r, id |-> Len(table) + 1])
            /\ linked \/ P = None
         \/ UNCHANGED <<spaces, slots>>
  PROVE  CapInv'
<1> DEFINE n == Len(table) + 1
           e == NewEntry(o, r, P)
           cap == [obj |-> o, rights |-> r, id |-> n]
<1>1. /\ Ids = 1 .. Len(table) /\ Len(table) \in Nat /\ n \in Nat \ {0}
      /\ table \in Seq(DeriveEntry) /\ SlotsType /\ spaces \subseteq Pids
  BY IdsFacts DEF CapInv, TypeOK, SlotsType
<1>2. /\ cap \in Capability /\ e \in DeriveEntry
      /\ e.children = << >> /\ ~ e.revoked /\ e.parent = P /\ e.rights = r /\ e.obj = o
  <2> HIDE DEF n
  <2>1. n \in Nat \ {0}
    BY <1>1
  <2>2. cap \in Capability
    BY <2>1, CapTypes, Zenon
  <2>3. /\ e \in DeriveEntry
        /\ e.children = << >> /\ ~ e.revoked /\ e.parent = P /\ e.rights = r /\ e.obj = o
    BY <2>1, CapTypes
  <2> QED BY <2>2, <2>3
<1>3. Shape(table) /\ Down(table) /\ \A c \in HeldCaps : Fits(table, c)
  BY Unfolded DEF CapInv
<1> HIDE DEF e
<1>4. Extends(table, table', linked, P, e)
  BY <1>1, <1>2, GrownFacts DEF Ids, e
<1>5. /\ Shape(table') /\ Down(table')
      /\ \A i \in Ids : Hung(table, i) => Hung(table', i)
      /\ linked \/ P = None => Hung(table', n)
  <2>1. NewFits(table, e, linked, P)
    BY <1>2 DEF NewFits, Ids
  <2>2. table \in Seq(DeriveEntry) /\ e \in DeriveEntry
    BY <1>1, <1>2
  <2>3. /\ Shape(table') /\ Down(table')
        /\ \A i \in DOMAIN table : Hung(table, i) => Hung(table', i)
        /\ linked \/ P = None => Hung(table', Len(table) + 1)
    BY <1>3, <1>4, <2>1, <2>2, GrownTree
  <2> QED BY <2>3 DEF Ids
<1>6. /\ table' \in Seq(DeriveEntry) /\ Len(table') = n
      /\ DOMAIN table' = Ids \cup {n} /\ n \notin Ids /\ table'[n] = e
      /\ \A i \in Ids : table'[i].rights = table[i].rights /\ table'[i].obj = table[i].obj
  BY <1>4 DEF Extends, Ids
<1>7. \A c \in HeldCaps : Fits(table', c) /\ c.id # n
  BY <1>3, <1>5, <1>6 DEF Fits, Ids
<1>8. Len(table') <= MaxDerivations
  BY <1>1, <1>6, CapAssumption
<1>9. SlotsType' /\ spaces' \subseteq Pids /\ HeldOnce' /\ \A c \in HeldCaps' : Fits(table', c)
  <2>1. CASE UNCHANGED <<spaces, slots>>
    BY <1>1, <1>7, <2>1 DEF SlotsType, HeldOnce, HeldCaps, CapInv
  <2>2. CASE InsertCap(p, cap) /\ (linked \/ P = None)
    <3>1. cap.id = n /\ cap.rights = r /\ cap.obj = o
      OBVIOUS
    <3> HIDE DEF cap
    <3>2. Fits(table', cap)
      BY <1>2, <1>5, <1>6, <2>2, <3>1 DEF Fits
    <3>3. HeldOnce' /\ HeldCaps' \subseteq HeldCaps \cup {cap}
      BY <1>1, <1>2, <1>7, <2>2, <3>1, InsertedFresh DEF CapInv
    <3>4. SlotsType' /\ spaces' \subseteq Pids
      BY <1>1, <1>2, <2>2, Inserted
    <3> QED BY <1>7, <3>2, <3>3, <3>4
  <2> QED BY <2>1, <2>2
<1>10. TypeOK'
  BY <1>6, <1>8, <1>9 DEF TypeOK, SlotsType
<1> QED BY <1>5, <1>9, <1>10, UnfoldedNext DEF CapInv

LEMMA HeldFacts ==
  ASSUME CapInv, NEW p \in Pids, NEW i, Held(p, i)
  PROVE  /\ i \in Slots /\ slots[p][i] \in HeldCaps /\ slots[p][i] \in Capability
         /\ Fits(table, slots[p][i]) /\ slots[p][i].id \in Ids
<1>1. i \in Slots /\ slots[p][i] # None
  BY DEF Held
<1>2. slots[p][i] \in Capability
  BY <1>1 DEF CapInv, TypeOK
<1>3. slots[p][i] \in HeldCaps
  BY <1>1 DEF HeldCaps
<1>4. Fits(table, slots[p][i])
  BY <1>3, Unfolded DEF CapInv
<1> QED BY <1>1, <1>2, <1>3, <1>4 DEF Fits, Ids

LEMMA MintStep ==
  ASSUME CapInv, NEW p \in Pids, NEW o \in Objects, NEW r \in CapRights, Mint(p, o, r)
  PROVE  CapInv'
<1>1. table' = Grown(table, FALSE, None, NewEntry(o, r, None))
  BY DEF Mint, Grown, Link
<1> QED BY <1>1, Added DEF Mint

LEMMA DeriveStep ==
  ASSUME CapInv, NEW p \in Pids, NEW src \in CPtr, NEW r \in CapRights, Derive(p, src, r)
  PROVE  CapInv'
<1> DEFINE cap == slots[p][src]
           P == cap.id
           e == NewEntry(cap.obj, r, P)
<1>1. /\ cap \in Capability /\ Fits(table, cap) /\ P \in Ids
      /\ P \in Nat \ {0} /\ cap.obj \in Objects /\ P # None
  <2>1. Held(p, src)
    BY DEF Derive
  <2>2. cap \in Capability /\ Fits(table, cap) /\ P \in Ids
    BY <2>1, HeldFacts
  <2> QED BY <2>2, CapAssumption DEF Capability
<1>2. /\ r \subseteq cap.rights /\ ~ table[P].revoked /\ Len(table) < MaxDerivations
  BY DEF Derive, MayDerive
<1>3. /\ Hung(table, P) /\ r \subseteq table[P].rights /\ cap.obj = table[P].obj
  BY <1>1, <1>2 DEF Fits
<1>4. \/ /\ table' = Append(Linked(cap, Len(table) + 1), e)
         /\ InsertCap(p, [obj |-> cap.obj, rights |-> r, id |-> Len(table) + 1])
      \/ /\ table' = Append(table, e)
         /\ UNCHANGED <<spaces, slots>>
  BY Zenon DEF Derive
<1>5. CASE /\ table' = Append(Linked(cap, Len(table) + 1), e)
           /\ InsertCap(p, [obj |-> cap.obj, rights |-> r, id |-> Len(table) + 1])
  <2>1. table' = Grown(table, TRUE, P, e)
    BY <1>5, Zenon DEF Grown, Link, Linked
  <2> HIDE DEF cap
  <2> QED BY <1>1, <1>2, <1>3, <1>5, <2>1, Added
<1>6. CASE table' = Append(table, e) /\ UNCHANGED <<spaces, slots>>
  <2>1. table' = Grown(table, FALSE, P, e)
    BY <1>6 DEF Grown, Link
  <2> HIDE DEF cap
  <2> QED BY <1>1, <1>2, <1>3, <1>6, <2>1, Added
<1> QED BY <1>4, <1>5, <1>6

LEMMA RevokeStep ==
  ASSUME CapInv, NEW p \in Pids, NEW i \in CPtr, Revoke(p, i)
  PROVE  CapInv'
<1> DEFINE M == Reached(slots[p][i].id)
<1>1. i \in Slots /\ slots[p][i].id \in Ids
  BY HeldFacts DEF Revoke
<1>2. /\ table' = Marked(table, M)
      /\ slots' = [slots EXCEPT ![p][i] = None] /\ spaces' = spaces
  BY Zenon DEF Revoke, Ids, Marked
<1>3. \A j \in DOMAIN table : j \in M => \A c \in Kids(table, j) : table[c].revoked \/ c \in M
  BY <1>1, ReachedClosed, Zenon DEF CapInv, Kids, Children
<1>4. /\ Shape(table) /\ Down(table) /\ \A c \in HeldCaps : Fits(table, c)
      /\ table \in Seq(DeriveEntry) /\ SlotsType /\ HeldOnce /\ spaces \subseteq Pids
      /\ Len(table) <= MaxDerivations
  BY Unfolded DEF CapInv, TypeOK, SlotsType
<1> HIDE DEF M
<1>5. /\ table' \in Seq(DeriveEntry) /\ Len(table') = Len(table)
      /\ Shape(table') /\ Down(table') /\ \A c : Fits(table, c) => Fits(table', c)
  BY <1>2, <1>3, <1>4, MarkedTree
<1>6. SlotsType' /\ HeldOnce' /\ HeldCaps' \subseteq HeldCaps
  BY <1>1, <1>2, <1>4, Emptied
<1>7. TypeOK'
  BY <1>2, <1>4, <1>5, <1>6 DEF TypeOK, SlotsType
<1> QED BY <1>4, <1>5, <1>6, <1>7, UnfoldedNext DEF CapInv

LEMMA SlotStep ==
  ASSUME CapInv, UNCHANGED table, SlotsType', HeldOnce', HeldCaps' \subseteq HeldCaps,
         spaces' \subseteq Pids
  PROVE  CapInv'
<1>1. TreeShape /\ MarksGoDown /\ TypeOK /\ \A c \in HeldCaps : Fits(table, c)
  BY Unfolded DEF CapInv
<1>2. Shape(table') /\ Down(table') /\ \A c \in HeldCaps' : Fits(table', c)
  <2>1. Shape(table) /\ Down(table) /\ table' = table
    BY <1>1, Unfolded
  <2> QED BY <1>1, <2>1
<1>3. TypeOK'
  BY <1>1 DEF TypeOK, SlotsType
<1> QED BY <1>2, <1>3, UnfoldedNext DEF CapInv

LEMMA MoveStep ==
  ASSUME CapInv, NEW p \in Pids, NEW src \in CPtr, NEW dst \in CPtr, Move(p, src, dst)
  PROVE  CapInv'
<1>1. SlotsType /\ HeldOnce /\ spaces' \subseteq Pids /\ UNCHANGED table
  BY OpenSpaceType DEF CapInv, TypeOK, SlotsType, Move
<1>2. CASE ~ Held(p, src)
  <2>1. slots' = slots
    BY <1>2 DEF Move
  <2> QED BY <1>1, <2>1, SlotStep DEF SlotsType, HeldOnce, HeldCaps
<1>3. CASE Held(p, src)
  <2>1. src \in Slots
    BY <1>3 DEF Held
  <2>2. SlotsType' /\ HeldOnce' /\ HeldCaps' \subseteq HeldCaps
    BY <1>1, <1>3, <2>1, Moved DEF Move
  <2> QED BY <1>1, <2>2, SlotStep
<1> QED BY <1>2, <1>3

LEMMA DeleteStep ==
  ASSUME CapInv, NEW p \in Pids, NEW i \in CPtr, Delete(p, i)
  PROVE  CapInv'
<1>1. SlotsType /\ HeldOnce /\ spaces' \subseteq Pids /\ UNCHANGED table
  BY OpenSpaceType DEF CapInv, TypeOK, SlotsType, Delete
<1>2. CASE ~ Held(p, i)
  <2>1. slots' = slots
    BY <1>2 DEF Delete
  <2> QED BY <1>1, <2>1, SlotStep DEF SlotsType, HeldOnce, HeldCaps
<1>3. CASE Held(p, i)
  <2>1. i \in Slots
    BY <1>3 DEF Held
  <2>2. SlotsType' /\ HeldOnce' /\ HeldCaps' \subseteq HeldCaps
    BY <1>1, <1>3, <2>1, Emptied DEF Delete
  <2> QED BY <1>1, <2>2, SlotStep
<1> QED BY <1>2, <1>3

LEMMA CapInvInit == Init => CapInv
<1> SUFFICES ASSUME Init PROVE CapInv
  OBVIOUS
<1>1. table = << >> /\ Ids = {} /\ Len(table) = 0 /\ table \in Seq(DeriveEntry)
  BY DEF Init, Ids
<1>2. SlotsType /\ \A p \in Pids, i \in Slots : slots[p][i] = None
  BY DEF Init, SlotsType
<1>3. HeldCaps = {}
  BY <1>2 DEF HeldCaps
<1>4. TypeOK
  BY <1>1, <1>2, CapAssumption DEF TypeOK, SlotsType, Init
<1> QED BY <1>1, <1>2, <1>3, <1>4 DEF CapInv, TreeShape, MarksGoDown, HeldHang, HeldOnce

(* The tree that revocation walks is well shaped in every reachable state: *)
(* whatever is held hangs on its ancestors, and marks go down (CapInv).    *)
THEOREM CapInvHolds == Spec => []CapInv
<1>1. CapInv /\ [Next]_vars => CapInv'
  <2> SUFFICES ASSUME CapInv, [Next]_vars PROVE CapInv'
    OBVIOUS
  <2>1. CASE UNCHANGED vars
    BY <2>1, SlotStep DEF vars, CapInv, TypeOK, SlotsType, HeldOnce, HeldCaps
  <2>2. ASSUME NEW p \in Pids, NEW o \in Objects, NEW r \in CapRights, Mint(p, o, r)
        PROVE  CapInv'
    BY <2>2, MintStep
  <2>3. ASSUME NEW p \in Pids, NEW i \in CPtr, NEW r \in CapRights, Derive(p, i, r)
        PROVE  CapInv'
    BY <2>3, DeriveStep
  <2>4. ASSUME NEW p \in Pids, NEW i \in CPtr, Revoke(p, i)
        PROVE  CapInv'
    BY <2>4, RevokeStep
  <2>5. ASSUME NEW p \in Pids, NEW i \in CPtr, Delete(p, i)
        PROVE  CapInv'
    BY <2>5, DeleteStep
  <2>6. ASSUME NEW p \in Pids, NEW i \in CPtr, NEW j \in CPtr, Move(p, i, j)
        PROVE  CapInv'
    BY <2>6, MoveStep
  <2> QED BY <2>1, <2>2, <2>3, <2>4, <2>5, <2>6, Zenon DEF Next
<1> QED BY <1>1, CapInvInit, PTL DEF Spec

-----------------------------------------------------------------------------
LEMMA OwnAncestor ==
  ASSUME NEW id \in Ids
  PROVE  id \in Ancestors(id)
BY DEF Ancestors

LEMMA MarkFromInv ==
  ASSUME CapInv
  PROVE  MarkTellsChain
<1>1. SUFFICES ASSUME NEW c \in HeldCaps
               PROVE  c.id \in Ids /\ (table[c.id].revoked <=> ~ ChainIntact(c.id))
  BY DEF MarkTellsChain
<1>2. c.id \in Ids /\ Hangs(c.id)
  BY DEF CapInv, HeldHang
<1>3. ASSUME table[c.id].revoked PROVE ~ ChainIntact(c.id)
  BY <1>2, <1>3, OwnAncestor DEF ChainIntact
<1>4. ASSUME ~ table[c.id].revoked PROVE ChainIntact(c.id)
  <2> DEFINE S == {i \in Ids : ~ table[i].revoked /\ Hangs(i)}
  <2>1. c.id \in S
    BY <1>2, <1>4
  <2>2. ASSUME NEW i \in S, table[i].parent # None PROVE table[i].parent \in S
    <3>1. table[i].parent \in Ids /\ Hangs(table[i].parent) /\ i \in Children(table[i].parent)
      BY <2>2 DEF CapInv, TreeShape, Hangs
    <3>2. ~ table[table[i].parent].revoked
      BY <3>1 DEF CapInv, MarksGoDown
    <3> QED BY <3>1, <3>2
  <2>3. \A a \in Ancestors(c.id) : a \in S
    <3>1. S \in SUBSET Ids
      OBVIOUS
    <3> HIDE DEF S
    <3> QED BY <2>1, <2>2, <3>1 DEF Ancestors
  <2> QED BY <2>3 DEF ChainIntact
<1> QED BY <1>2, <1>3, <1>4

LEMMA RightsFromInv ==
  ASSUME CapInv
  PROVE  RightsOnlyShrink
<1>1. SUFFICES ASSUME NEW c \in HeldCaps, NEW a \in Ancestors(c.id)
               PROVE  c.rights \subseteq table[a].rights /\ c.obj = table[a].obj
  BY DEF RightsOnlyShrink
<1> DEFINE S == {i \in Ids : c.rights \subseteq table[i].rights /\ c.obj = table[i].obj}
<1>2. c.id \in S
  BY DEF CapInv, HeldHang
<1>3. ASSUME NEW i \in S, table[i].parent # None PROVE table[i].parent \in S
  <2>1. /\ table[i].parent \in Ids /\ table[i].rights \subseteq table[table[i].parent].rights
        /\ table[i].obj = table[table[i].parent].obj
    BY <1>3 DEF CapInv, TreeShape
  <2> QED BY <2>1
<1>4. a \in S
  <2>1. S \in SUBSET Ids
    OBVIOUS
  <2> HIDE DEF S
  <2> QED BY <1>2, <1>3, <2>1 DEF Ancestors
<1> QED BY <1>4

(* A held capability is marked revoked exactly when its derivation chain   *)
(* is broken, so derive_cap() may look at the parent's own mark alone, for *)
(* every size of the table and of the CSpaces (MarkTellsChain).            *)
THEOREM MarksTellChains == Spec => []MarkTellsChain
BY CapInvHolds, MarkFromInv, PTL

(* Rights only shrink along a derivation chain (RightsOnlyShrink).         *)
THEOREM RightsShrink == Spec => []RightsOnlyShrink
BY CapInvHolds, RightsFromInv, PTL

(* No sequence of calls puts one capability in two slots (HeldOnce).       *)
THEOREM HeldOnceOnly == Spec => []HeldOnce
<1>1. CapInv => HeldOnce
  BY DEF CapInv
<1> QED BY <1>1, CapInvHolds, PTL

(* The derivation table and the CSpaces stay well typed, the table within  *)
(* its capacity.                                                           *)
THEOREM CapsTyped == Spec => []TypeOK
<1>1. CapInv => TypeOK
  BY DEF CapInv
<1> QED BY <1>1, CapInvHolds, PTL

-----------------------------------------------------------------------------
(* What the recursion of revoke_recursive() reaches was derived from where *)
(* it started: the children lists only hold what names them as parent.     *)
LEMMA ReachedBelow ==
  ASSUME TreeShape, NEW id \in Ids, NEW k \in Reached(id), None \notin Ids
  PROVE  k \in Ids /\ id \in Ancestors(k)
<1> DEFINE S == {i \in Ids : id \in Ancestors(i)}
<1>1. id \in S
  BY OwnAncestor
<1>2. ASSUME NEW i \in S, NEW c \in Children(i) PROVE c \in S
  <2>1. c \in Ids /\ table[c].parent = i /\ i \in Ids
    BY <1>2 DEF TreeShape
  <2>2. table[c].parent # None
    BY <2>1
  <2>3. id \in Ancestors(c)
    <3> SUFFICES ASSUME NEW Z \in SUBSET Ids, c \in Z,
                        \A j \in Z : table[j].parent # None => table[j].parent \in Z
                 PROVE  id \in Z
      BY DEF Ancestors
    <3>1. i \in Z
      BY <2>1, <2>2
    <3>2. id \in Ancestors(i)
      BY <1>2
    <3> QED BY <3>1, <3>2 DEF Ancestors
  <2> QED BY <2>1, <2>3
<1>3. S \in SUBSET Ids
  OBVIOUS
<1> HIDE DEF S
<1>4. k \in S
  BY <1>1, <1>2, <1>3 DEF Reached
<1> QED BY <1>4 DEF S, Reached

LEMMA KeptMarks ==
  ASSUME CapInv, Ids \subseteq Ids', \A k \in Ids : table'[k].revoked = table[k].revoked
  PROVE  MarksOnlyBelow
BY DEF MarksOnlyBelow

LEMMA GrownMarks ==
  ASSUME CapInv, NEW linked \in BOOLEAN, NEW P, linked => P \in Ids, NEW e \in DeriveEntry,
         table' = Grown(table, linked, P, e)
  PROVE  MarksOnlyBelow
<1>1. table \in Seq(DeriveEntry) /\ DOMAIN table = Ids
  BY DEF CapInv, TypeOK, Ids
<1>2. Extends(table, table', linked, P, e)
  BY <1>1, GrownFacts
<1>3. Ids \subseteq Ids' /\ \A k \in Ids : table'[k].revoked = table[k].revoked
  BY <1>2 DEF Extends, Ids
<1> QED BY <1>3, KeptMarks

LEMMA RevokeMarks ==
  ASSUME CapInv, NEW p \in Pids, NEW i \in CPtr, Revoke(p, i)
  PROVE  MarksOnlyBelow
<1> DEFINE cap == slots[p][i]
           M == Reached(cap.id)
<1>1. i \in Slots /\ cap \in HeldCaps /\ cap.id \in Ids /\ cap # None
  BY HeldFacts DEF Revoke, Held
<1>2. None \notin Ids /\ TreeShape /\ HeldOnce /\ SlotsType
  BY IdsFacts, CapAssumption DEF CapInv, TypeOK, SlotsType
<1>3. /\ table' = [k \in Ids |-> [table[k] EXCEPT !.revoked = @ \/ k \in M]]
      /\ slots' = [slots EXCEPT ![p][i] = None]
  BY Zenon DEF Revoke
<1>4. \A k \in M : k \in Ids /\ cap.id \in Ancestors(k)
  BY <1>1, <1>2, ReachedBelow
<1>5. cap \notin HeldCaps'
  <2> SUFFICES ASSUME NEW q \in Pids, NEW j \in Slots, slots'[q][j] = cap
               PROVE  FALSE
    BY <1>1 DEF HeldCaps
  <2>1. slots'[q][j] = IF q = p /\ j = i THEN None ELSE slots[q][j]
    BY <1>1, <1>2, <1>3 DEF SlotsType
  <2>2. slots[q][j] = cap /\ ~ (q = p /\ j = i)
    BY <1>1, <2>1
  <2> QED BY <1>1, <1>2, <2>2 DEF HeldOnce
<1> HIDE DEF M
<1>6. ASSUME NEW k \in Ids
      PROVE  k \in Ids' /\ (table'[k].revoked <=> table[k].revoked \/ k \in M)
  <2>1. table[k] \in DeriveEntry
    BY IdsFacts DEF CapInv
  <2> QED BY <1>3, <2>1 DEF Ids, DeriveEntry
<1> HIDE DEF cap
<1> QED BY <1>1, <1>4, <1>5, <1>6 DEF MarksOnlyBelow

LEMMA StepMarks ==
  ASSUME CapInv, Next
  PROVE  MarksOnlyBelow
<1>1. ASSUME NEW p \in Pids, NEW o \in Objects, NEW r \in CapRights, Mint(p, o, r)
      PROVE  MarksOnlyBelow
  <2>1. table' = Grown(table, FALSE, None, NewEntry(o, r, None))
    BY <1>1 DEF Mint, Grown, Link
  <2>2. NewEntry(o, r, None) \in DeriveEntry
    BY CapTypes, 1 \in Nat \ {0}, None \in Nat \cup {None}
  <2> QED BY <2>1, <2>2, GrownMarks
<1>2. ASSUME NEW p \in Pids, NEW src \in CPtr, NEW r \in CapRights, Derive(p, src, r)
      PROVE  MarksOnlyBelow
  <2> DEFINE cap == slots[p][src]
             e == NewEntry(cap.obj, r, cap.id)
  <2>1. Held(p, src)
    BY <1>2 DEF Derive
  <2>2. cap \in Capability /\ cap.id \in Ids
    BY <2>1, HeldFacts
  <2>3. e \in DeriveEntry
    BY <2>2, CapTypes DEF Capability
  <2>4. table' = Append(Linked(cap, Len(table) + 1), e) \/ table' = Append(table, e)
    BY <1>2, Zenon DEF Derive
  <2>5. table' = Grown(table, TRUE, cap.id, e) \/ table' = Grown(table, FALSE, cap.id, e)
    BY <2>4, Zenon DEF Grown, Link, Linked
  <2> HIDE DEF e, cap
  <2> QED BY <2>2, <2>3, <2>5, GrownMarks
<1>3. ASSUME NEW p \in Pids, NEW i \in CPtr, Revoke(p, i)
      PROVE  MarksOnlyBelow
  BY <1>3, RevokeMarks
<1>4. ASSUME NEW p \in Pids, NEW i \in CPtr, Delete(p, i) \/ \E j \in CPtr : Move(p, i, j)
      PROVE  MarksOnlyBelow
  <2>1. table' = table
    BY <1>4 DEF Delete, Move
  <2> QED BY <2>1, KeptMarks DEF Ids
<1> QED BY <1>1, <1>2, <1>3, <1>4, Zenon DEF Next

(* For every size of the tables: revoke() marks only what was derived from *)
(* the capability it takes from the caller, and no call clears a mark      *)
(* (RevokesOnlyBelow).                                                     *)
THEOREM RevocationIsExact == Spec => RevokesOnlyBelow
<1>1. CapInv /\ [Next]_vars => [MarksOnlyBelow]_vars
  BY StepMarks
<1> QED BY <1>1, CapInvHolds, PTL DEF Spec, RevokesOnlyBelow

=============================================================================
