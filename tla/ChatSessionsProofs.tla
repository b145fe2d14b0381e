------------------------- MODULE ChatSessionsProofs -------------------------
(***************************************************************************)
(* Slices over shared arrays behave like lists of their own as long as the *)
(* requests of a session come one after the other.  The reason is in Own:  *)
(* two slices that share an array belong to one session, and the one that  *)
(* is still written to is the longer one.                                  *)
(*                                                                         *)
(* What is in the slices follows from TalkInv: a request's messages are    *)
(* the history it took, which ends with an answer, its own question and    *)
(* the beginning of its own exchange; what is stored is whole exchanges.   *)
(***************************************************************************)
EXTENDS ChatSessions, SequenceTheorems, TLAPS

Cells(as, slice) ==
  IF slice = Nil THEN <<>> ELSE SubSeq(as[slice.array], 1, slice.len)

SliceOf(as) == [array: 1..Len(as), len: Nat \ {0}]

Fits(as, slice) == slice.len <= Len(as[slice.array])

\* Sequences with one domain are of one length.
LEMMA SameInterval ==
  ASSUME NEW a \in Nat, NEW b \in Nat, 1..a = 1..b
  PROVE  a = b
<1>1. a > b => a \in 1..a /\ a \notin 1..b OBVIOUS
<1>2. b > a => b \in 1..b /\ b \notin 1..a OBVIOUS
<1> QED BY <1>1, <1>2

\* A prefix is what its messages are.
LEMMA Prefix ==
  ASSUME NEW s \in Seq(Cell), NEW l \in 0..Len(s)
  PROVE  /\ SubSeq(s, 1, l) \in Seq(Cell)
         /\ Len(SubSeq(s, 1, l)) = l
         /\ \A i \in 1..l : SubSeq(s, 1, l)[i] = s[i]
<1>1. l \in Nat /\ \A i \in 1..l : s[i] \in Cell
  BY ElementOfSeq, LenProperties
<1> QED BY <1>1, SubSeqProperties

LEMMA SamePrefix ==
  ASSUME NEW s \in Seq(Cell), NEW t \in Seq(Cell), NEW l \in 0..Len(s),
         l <= Len(t), \A i \in 1..l : s[i] = t[i]
  PROVE  SubSeq(s, 1, l) = SubSeq(t, 1, l)
<1>1. l \in 0..Len(t) /\ l \in Nat BY LenProperties
<1>2. /\ SubSeq(s, 1, l) \in Seq(Cell) /\ Len(SubSeq(s, 1, l)) = l
      /\ \A i \in 1..l : SubSeq(s, 1, l)[i] = s[i]
  BY Prefix
<1>3. /\ SubSeq(t, 1, l) \in Seq(Cell) /\ Len(SubSeq(t, 1, l)) = l
      /\ \A i \in 1..l : SubSeq(t, 1, l)[i] = t[i]
  BY <1>1, Prefix
<1> QED BY <1>2, <1>3, SeqEqual

\* One cell is written: the prefix up to it has one message more, the shorter
\* ones do not differ.
LEMMA WrittenCell ==
  ASSUME NEW a \in Seq(Cell), NEW n \in Nat, n < Len(a), NEW m \in Cell
  PROVE  /\ [a EXCEPT ![n + 1] = m] \in Seq(Cell)
         /\ Len([a EXCEPT ![n + 1] = m]) = Len(a)
         /\ SubSeq([a EXCEPT ![n + 1] = m], 1, n + 1) = Append(SubSeq(a, 1, n), m)
         /\ \A l \in 0..n : SubSeq([a EXCEPT ![n + 1] = m], 1, l) = SubSeq(a, 1, l)
<1> DEFINE c == [a EXCEPT ![n + 1] = m]
<1>1. n + 1 \in 1..Len(a) /\ n \in 0..Len(a) BY LenProperties
<1>2. /\ c \in Seq(Cell) /\ Len(c) = Len(a)
      /\ \A j \in 1..Len(a) : c[j] = IF j = n + 1 THEN m ELSE a[j]
  BY <1>1, ExceptSeq
<1> HIDE DEF c
<1>3. \A l \in 0..n : SubSeq(c, 1, l) = SubSeq(a, 1, l)
  <2> SUFFICES ASSUME NEW l \in 0..n PROVE SubSeq(c, 1, l) = SubSeq(a, 1, l)
    OBVIOUS
  <2>1. l \in 0..Len(c) /\ l <= Len(a) BY <1>1, <1>2
  <2>2. \A i \in 1..l : c[i] = a[i] BY <1>1, <1>2
  <2> QED BY <1>2, <2>1, <2>2, SamePrefix
<1>4. SubSeq(c, 1, n + 1) = Append(SubSeq(a, 1, n), m)
  <2> DEFINE p == SubSeq(a, 1, n)
             q == SubSeq(c, 1, n + 1)
  <2>1. p \in Seq(Cell) /\ Len(p) = n /\ \A i \in 1..n : p[i] = a[i]
    BY <1>1, Prefix
  <2>2. q \in Seq(Cell) /\ Len(q) = n + 1 /\ \A i \in 1..(n + 1) : q[i] = c[i]
    BY <1>1, <1>2, Prefix
  <2>3. /\ Append(p, m) \in Seq(Cell) /\ Len(Append(p, m)) = n + 1
        /\ \A i \in 1..(n + 1) :
             Append(p, m)[i] = IF i <= n THEN p[i] ELSE m
    BY <2>1, AppendProperties
  <2>4. \A i \in 1..(n + 1) : q[i] = Append(p, m)[i]
    BY <1>1, <1>2, <2>1, <2>2, <2>3
  <2> HIDE DEF p, q
  <2>5. q = Append(p, m) BY <2>2, <2>3, <2>4, SeqEqual
  <2> QED BY <2>5 DEF p, q
<1> QED BY <1>2, <1>3, <1>4 DEF c

\* The arrays bs are as with m written after the first n cells of array k.
InPlace(as, bs, k, n, m) ==
  /\ bs \in Seq(Seq(Cell))
  /\ Len(bs) = Len(as)
  /\ \A i \in 1..Len(as) : Len(bs[i]) = Len(as[i])
  /\ \A i \in 1..Len(as) : i # k => bs[i] = as[i]
  /\ SubSeq(bs[k], 1, n + 1) = Append(SubSeq(as[k], 1, n), m)
  /\ \A l \in 0..n : SubSeq(bs[k], 1, l) = SubSeq(as[k], 1, l)

\* The arrays after an append in place (Written).
LEMMA WrittenArrays ==
  ASSUME NEW as \in Seq(Seq(Cell)), NEW k \in 1..Len(as),
         NEW n \in Nat, n < Len(as[k]), NEW m \in Cell,
         NEW bs, bs = [as EXCEPT ![k] = [@ EXCEPT ![n + 1] = m]]
  PROVE  InPlace(as, bs, k, n, m)
<1> DEFINE c == [as[k] EXCEPT ![n + 1] = m]
           T == Seq(Cell)
<1>1. as[k] \in Seq(Cell) BY ElementOfSeq
<1>2. c \in Seq(Cell) BY <1>1, WrittenCell
<1>3. Len(c) = Len(as[k]) BY <1>1, WrittenCell
<1>4. SubSeq(c, 1, n + 1) = Append(SubSeq(as[k], 1, n), m) BY <1>1, WrittenCell
<1>5. \A l \in 0..n : SubSeq(c, 1, l) = SubSeq(as[k], 1, l) BY <1>1, WrittenCell
<1>6. bs = [as EXCEPT ![k] = c] OBVIOUS
<1> HIDE DEF c
<1>7. as \in Seq(T) /\ c \in T BY <1>2
<1> HIDE DEF T
<1>8. [as EXCEPT ![k] = c] \in Seq(T) BY <1>7, ExceptSeq
<1>9. Len([as EXCEPT ![k] = c]) = Len(as)
  <2> DEFINE es == [as EXCEPT ![k] = c]
  <2>1. DOMAIN es = DOMAIN as OBVIOUS
  <2>2. Len(as) \in Nat /\ DOMAIN as = 1..Len(as) BY <1>7, LenProperties
  <2> HIDE DEF es
  <2>3. es \in Seq(T) BY <1>8 DEF es
  <2>4. Len(es) \in Nat /\ DOMAIN es = 1..Len(es) BY <2>3, LenProperties
  <2>5. 1..Len(es) = 1..Len(as) BY <2>1, <2>2, <2>4
  <2>6. Len(es) \in Nat /\ Len(as) \in Nat BY <2>2, <2>4
  <2>7. Len(es) = Len(as) BY <2>5, <2>6, SameInterval, Zenon
  <2> QED BY <2>7 DEF es
<1>10. \A j \in 1..Len(as) : [as EXCEPT ![k] = c][j] = IF j = k THEN c ELSE as[j]
  <2>1. DOMAIN as = 1..Len(as) BY LenProperties
  <2> QED BY <2>1
<1> QED BY <1>3, <1>4, <1>5, <1>6, <1>8, <1>9, <1>10 DEF T, InPlace

\* The arrays after an allocation: the old ones are as they were.
LEMMA AllocatedArrays ==
  ASSUME NEW as \in Seq(Seq(Cell)), NEW c \in Seq(Cell)
  PROVE  /\ Append(as, c) \in Seq(Seq(Cell))
         /\ Len(Append(as, c)) = Len(as) + 1
         /\ \A i \in 1..Len(as) : Append(as, c)[i] = as[i]
         /\ Append(as, c)[Len(as) + 1] = c
<1> DEFINE T == Seq(Cell)
<1>1. as \in Seq(T) /\ c \in T OBVIOUS
<1> HIDE DEF T
<1>2. Append(as, c) \in Seq(T) BY <1>1, AppendProperties
<1>3. Len(Append(as, c)) = Len(as) + 1 BY <1>1, AppendProperties
<1>4. \A i \in 1..Len(as) : Append(as, c)[i] = as[i] BY <1>1, AppendProperties
<1>5. Append(as, c)[Len(as) + 1] = c BY <1>1, AppendProperties
<1> QED BY <1>2, <1>3, <1>4, <1>5 DEF T

\* The array c begins with the messages d and m.
BeginsWith(c, d, m) ==
  /\ c \in Seq(Cell)
  /\ Len(c) >= Len(d) + 1
  /\ SubSeq(c, 1, Len(d) + 1) = Append(d, m)

\* The new array of an append without room begins with the messages and the
\* one appended (Moved).
LEMMA MovedCells ==
  ASSUME NEW d \in Seq(Cell), Len(d) >= 1, NEW m \in Cell
  PROVE  BeginsWith(d \o <<m>> \o [i \in 1..(Len(d) - 1) |-> Zero], d, m)
<1> DEFINE z == [i \in 1..(Len(d) - 1) |-> Zero]
           e == d \o <<m>>
           c == e \o z
<1>0. Len(d) \in Nat BY LenProperties
<1>1. z \in Seq(Cell) /\ Len(z) = Len(d) - 1
  <2>1. Zero \in Cell BY DEF Cell
  <2>2. z \in [1..(Len(d) - 1) -> Cell] BY <2>1
  <2> HIDE DEF z
  <2>3. z \in Seq(Cell)
    <3> DEFINE k == Len(d) - 1
    <3>1. k \in Nat /\ z \in [1..k -> Cell] BY <1>0, <2>2
    <3> HIDE DEF k
    <3>2. Seq(Cell) = UNION {[1..n -> Cell] : n \in Nat} BY SeqDef, Zenon
    <3> QED BY <3>1, <3>2, Zenon
  <2> QED BY <1>0, <2>2, <2>3, LenProperties
<1>2. e \in Seq(Cell) /\ Len(e) = Len(d) + 1 /\ e = Append(d, m)
  BY <1>0, AppendProperties, AppendIsConcat
<1> HIDE DEF z, e
<1>3. c = e \o z OBVIOUS
<1> HIDE DEF c
<1>4. c \in Seq(Cell) /\ Len(c) = Len(e) + Len(z)
  <2>0. e \in Seq(Cell) /\ z \in Seq(Cell) BY <1>1, <1>2
  <2>1. e \o z \in Seq(Cell) BY <2>0, ConcatProperties
  <2>2. Len(e \o z) = Len(e) + Len(z) BY <2>0, ConcatProperties
  <2> QED BY <1>3, <2>1, <2>2
<1>5. SubSeq(c, 1, Len(e)) = SubSeq(e, 1, Len(e))
  BY <1>0, <1>1, <1>2, <1>3, SubSeqOfConcat1
<1>6. SubSeq(e, 1, Len(e)) = e BY <1>2, SubSeqFull
<1> QED BY <1>0, <1>1, <1>2, <1>4, <1>5, <1>6 DEF BeginsWith, c, z, e

-----------------------------------------------------------------------------
\* Two slices that share an array belong to one session; a slice that a request
\* appends to is longer than the one its session keeps.
Own ==
  /\ \A s \in Session : sessions[s] # Nil => Fits(arrays, sessions[s])
  /\ \A r \in Request : messages[r] # Nil => Fits(arrays, messages[r])
  /\ \A r \in Request : messages[r] # Nil <=> r \in Active
  /\ \A r \in Request, s \in Session :
       messages[r] # Nil /\ sessions[s] # Nil /\ sessions[s].array = messages[r].array
       => SessionOf[r] = s /\ sessions[s].len < messages[r].len
  /\ \A r, q \in Request :
       r # q /\ messages[r] # Nil /\ messages[q] # Nil
       => messages[r].array # messages[q].array
  /\ \A s, t \in Session :
       s # t /\ sessions[s] # Nil /\ sessions[t] # Nil
       => sessions[s].array # sessions[t].array
  /\ \A r, q \in Active : SessionOf[r] = SessionOf[q] => r = q


\* What a slice refers to has the type of a list of cells.
LEMMA CellsType ==
  ASSUME NEW as \in Seq(Seq(Cell)), NEW x \in SliceOf(as), Fits(as, x)
  PROVE  /\ Cells(as, x) \in Seq(Cell)
         /\ Len(Cells(as, x)) = x.len
         /\ x.len \in Nat \ {0}
         /\ x # Nil
<1>1. x.array \in 1..Len(as) /\ x.len \in Nat \ {0} BY DEF SliceOf
<1>2. x # Nil BY <1>1 DEF Nil
<1>3. as[x.array] \in Seq(Cell) BY <1>1, ElementOfSeq
<1>4. x.len \in 0..Len(as[x.array])
  <2>1. Len(as[x.array]) \in Nat BY <1>3, LenProperties
  <2>2. x.len <= Len(as[x.array]) BY DEF Fits
  <2>3. \A i, j \in Nat : i <= j => i \in 0..j OBVIOUS
  <2> QED BY <1>1, <2>1, <2>2, <2>3, Zenon
<1>5. SubSeq(as[x.array], 1, x.len) \in Seq(Cell) BY <1>3, <1>4, Prefix
<1>6. Len(SubSeq(as[x.array], 1, x.len)) = x.len BY <1>3, <1>4, Prefix
<1> QED BY <1>1, <1>2, <1>5, <1>6 DEF Cells

\* An allocation leaves every slice what it was.
LEMMA Allocation ==
  ASSUME NEW as \in Seq(Seq(Cell)), NEW c \in Seq(Cell), NEW bs, bs = Append(as, c)
  PROVE  /\ bs \in Seq(Seq(Cell))
         /\ Len(bs) = Len(as) + 1
         /\ bs[Len(as) + 1] = c
         /\ \A y \in SliceOf(as) : Fits(as, y) =>
              Fits(bs, y) /\ Cells(bs, y) = Cells(as, y)
<1>1. /\ bs \in Seq(Seq(Cell))
      /\ Len(bs) = Len(as) + 1
      /\ \A i \in 1..Len(as) : bs[i] = as[i]
      /\ bs[Len(as) + 1] = c
  BY AllocatedArrays
<1>2. \A y \in SliceOf(as) : bs[y.array] = as[y.array]
  BY <1>1 DEF SliceOf
<1> QED BY <1>1, <1>2 DEF Fits, Cells

\* append gives request r the messages d and m, in array k behind d or in a
\* new array; every slice that does not reach beyond d in array k stays what it
\* was.  With k = 0 there is no array that d is in.
Appended(r, k, d, m) ==
  /\ arrays' \in Seq(Seq(Cell))
  /\ Len(arrays') >= Len(arrays)
  /\ \E x \in SliceOf(arrays') :
       /\ messages' = [messages EXCEPT ![r] = x]
       /\ Fits(arrays', x)
       /\ x.len = Len(d) + 1
       /\ x.array # 0 /\ (x.array = k \/ x.array = Len(arrays) + 1)
       /\ Cells(arrays', x) = Append(d, m)
  /\ \A y \in SliceOf(arrays) : Fits(arrays, y) =>
       /\ Fits(arrays', y)
       /\ (y.array = k => y.len <= Len(d)) => Cells(arrays', y) = Cells(arrays, y)

LEMMA AppendToWorks ==
  ASSUME arrays \in Seq(Seq(Cell)), NEW r \in Request,
         NEW slice \in SliceOf(arrays), Fits(arrays, slice), NEW m \in Cell,
         AppendTo(r, slice, m)
  PROVE  Appended(r, slice.array, Cells(arrays, slice), m)
<1> DEFINE k == slice.array
           n == slice.len
<1>1. k \in 1..Len(arrays) /\ n \in Nat \ {0} BY DEF SliceOf
<1>2. slice # Nil /\ slice = [array |-> k, len |-> n] BY <1>1 DEF Nil, SliceOf
<1>3. arrays[k] \in Seq(Cell) /\ Len(arrays[k]) \in Nat /\ Len(arrays) \in Nat
  BY <1>1, ElementOfSeq, LenProperties
<1>6. Len(Cells(arrays, slice)) = n BY CellsType
<1>4. CASE Room(slice)
  <2> DEFINE x == [array |-> k, len |-> n + 1]
  <2>1. n < Len(arrays[k]) BY <1>4 DEF Room
  <2>2. arrays' = [arrays EXCEPT ![k] = [@ EXCEPT ![n + 1] = m]]
    BY <1>4 DEF AppendTo, Written
  <2>3. messages' = [messages EXCEPT ![r] = x]
    BY <1>2, <1>4 DEF AppendTo
  <2>4. /\ arrays' \in Seq(Seq(Cell))
        /\ Len(arrays') = Len(arrays)
        /\ \A i \in 1..Len(arrays) : Len(arrays'[i]) = Len(arrays[i])
        /\ \A i \in 1..Len(arrays) : i # k => arrays'[i] = arrays[i]
        /\ SubSeq(arrays'[k], 1, n + 1) = Append(SubSeq(arrays[k], 1, n), m)
        /\ \A l \in 0..n : SubSeq(arrays'[k], 1, l) = SubSeq(arrays[k], 1, l)
    <3>1. InPlace(arrays, arrays', k, n, m) BY <1>1, <2>1, <2>2, WrittenArrays
    <3> QED BY <3>1 DEF InPlace
  <2>5. x \in SliceOf(arrays') /\ x # Nil BY <1>1, <2>4 DEF SliceOf, Nil
  <2>6. Fits(arrays', x) BY <1>1, <1>3, <2>1, <2>4 DEF Fits
  <2>7. Cells(arrays', x) = Append(Cells(arrays, slice), m)
    BY <1>2, <2>4, <2>5 DEF Cells
  <2>8. ASSUME NEW y \in SliceOf(arrays), Fits(arrays, y)
        PROVE  /\ Fits(arrays', y)
               /\ (y.array = k => y.len <= n) => Cells(arrays', y) = Cells(arrays, y)
    <3>1. y.array \in 1..Len(arrays) /\ y.len \in Nat BY DEF SliceOf
    <3>2. Fits(arrays', y) BY <2>4, <2>8, <3>1 DEF Fits
    <3>3. CASE y.array # k BY <2>4, <3>1, <3>2, <3>3 DEF Cells
    <3>4. CASE y.array = k
      <4>1. y.len <= n => y.len \in 0..n BY <1>1, <3>1
      <4> QED BY <2>4, <3>2, <3>4, <4>1 DEF Cells
    <3> QED BY <3>3, <3>4
  <2>9. x.len = n + 1 /\ x.array = k /\ x.array # 0 BY <1>1
  <2>10. Len(arrays') >= Len(arrays) BY <1>3, <2>4
  <2> HIDE DEF x
  <2> QED BY <1>6, <2>3, <2>4, <2>5, <2>6, <2>7, <2>8, <2>9, <2>10 DEF Appended
<1>5. CASE ~Room(slice)
  <2> DEFINE d == Cells(arrays, slice)
             c == d \o <<m>> \o [i \in 1..(Len(d) - 1) |-> Zero]
             x == [array |-> Len(arrays) + 1, len |-> n + 1]
  <2>1. d \in Seq(Cell) /\ Len(d) = n BY <1>1, CellsType
  <2>2. arrays' = Append(arrays, c)
    BY <1>5 DEF AppendTo, Moved, Content, Cells
  <2>3. messages' = [messages EXCEPT ![r] = x] BY <1>5 DEF AppendTo
  <2>4. /\ c \in Seq(Cell)
        /\ Len(c) >= Len(d) + 1
        /\ SubSeq(c, 1, Len(d) + 1) = Append(d, m)
    <3> HIDE DEF d
    <3>1. Len(d) >= 1 BY <1>1, <2>1
    <3>2. BeginsWith(c, d, m) BY <2>1, <3>1, MovedCells
    <3> HIDE DEF c
    <3> QED BY <3>2 DEF BeginsWith
  <2> HIDE DEF c, d
  <2>5. /\ arrays' \in Seq(Seq(Cell))
        /\ Len(arrays') = Len(arrays) + 1
        /\ arrays'[Len(arrays) + 1] = c
        /\ \A y \in SliceOf(arrays) : Fits(arrays, y) =>
             Fits(arrays', y) /\ Cells(arrays', y) = Cells(arrays, y)
    BY <2>2, <2>4, Allocation
  <2>6. x \in SliceOf(arrays') /\ x # Nil BY <1>1, <1>3, <2>5 DEF SliceOf, Nil
  <2>7. Fits(arrays', x) BY <2>1, <2>4, <2>5 DEF Fits
  <2>8. Cells(arrays', x) = Append(d, m) BY <2>1, <2>4, <2>5, <2>6 DEF Cells
  <2>9. x.len = n + 1 /\ x.array = Len(arrays) + 1 /\ x.array # 0 BY <1>3
  <2>10. Len(arrays') >= Len(arrays) BY <1>3, <2>5
  <2> HIDE DEF x
  <2> QED BY <1>6, <2>3, <2>5, <2>6, <2>7, <2>8, <2>9, <2>10 DEF Appended, d
<1> QED BY <1>4, <1>5

\* A request that finds no history begins a list of its own.
LEMMA NewTalkWorks ==
  ASSUME arrays \in Seq(Seq(Cell)), NEW r \in Request, NEW m \in Cell,
         arrays' = Moved(<<System>>, m),
         messages' = [messages EXCEPT ![r] = [array |-> Len(arrays) + 1, len |-> 2]]
  PROVE  Appended(r, 0, <<System>>, m)
<1> DEFINE d == <<System>>
           c == d \o <<m>> \o [i \in 1..(Len(d) - 1) |-> Zero]
           x == [array |-> Len(arrays) + 1, len |-> 2]
<1>1. Len(arrays) \in Nat BY LenProperties
<1>2. d \in Seq(Cell) /\ Len(d) = 1
  <2>1. System \in Cell BY DEF Cell, Message
  <2> QED BY <2>1
<1>3. arrays' = Append(arrays, c) BY DEF Moved
<1>4. BeginsWith(c, d, m)
  <2> HIDE DEF d
  <2>1. Len(d) >= 1 BY <1>2
  <2> QED BY <1>2, <2>1, MovedCells
<1>5. messages' = [messages EXCEPT ![r] = x] OBVIOUS
<1> HIDE DEF c, d
<1>6. /\ arrays' \in Seq(Seq(Cell))
      /\ Len(arrays') = Len(arrays) + 1
      /\ arrays'[Len(arrays) + 1] = c
      /\ \A y \in SliceOf(arrays) : Fits(arrays, y) =>
           Fits(arrays', y) /\ Cells(arrays', y) = Cells(arrays, y)
  BY <1>3, <1>4, Allocation DEF BeginsWith
<1>7. x \in SliceOf(arrays') /\ x # Nil BY <1>1, <1>6 DEF SliceOf, Nil
<1>8. Fits(arrays', x) BY <1>2, <1>4, <1>6 DEF Fits, BeginsWith
<1>9. Cells(arrays', x) = Append(d, m)
  <2>0. Len(d) + 1 = 2 BY <1>2
  <2>1. SubSeq(c, 1, 2) = Append(d, m) BY <1>4, <2>0, Zenon DEF BeginsWith
  <2>2. x.array = Len(arrays) + 1 /\ x.len = 2 OBVIOUS
  <2> QED BY <1>6, <1>7, <2>1, <2>2 DEF Cells
<1>10. x.len = Len(d) + 1 /\ x.array = Len(arrays) + 1 /\ x.array # 0
  BY <1>1, <1>2
<1>11. Len(arrays') >= Len(arrays) BY <1>1, <1>6
<1> HIDE DEF x
<1> QED BY <1>5, <1>6, <1>7, <1>8, <1>9, <1>10, <1>11 DEF Appended, d

\* What an append changes for the rest of the state: the slices stay apart, and
\* only request r's list becomes longer.
SlicesTyped ==
  /\ arrays \in Seq(Seq(Cell))
  /\ sessions \in [Session -> Slice \cup {Nil}]
  /\ messages \in [Request -> Slice \cup {Nil}]

LEMMA AppendKeeps ==
  ASSUME SlicesTyped, Own, NEW r \in Request, NEW k \in Nat,
         NEW d \in Seq(Cell), NEW m \in Cell, Appended(r, k, d, m),
         UNCHANGED sessions, Active' = Active \cup {r},
         \A q \in Request : q # r /\ messages[q] # Nil => messages[q].array # k,
         \A s \in Session : sessions[s] # Nil /\ sessions[s].array = k =>
           SessionOf[r] = s /\ sessions[s].len <= Len(d),
         \A q \in Active : SessionOf[q] = SessionOf[r] => q = r
  PROVE  /\ SlicesTyped'
         /\ Own'
         /\ \A s \in Session : Content(sessions[s])' = Content(sessions[s])
         /\ \A q \in Request :
              Content(messages[q])' = IF q = r THEN Append(d, m) ELSE Content(messages[q])
<1>1. PICK x \in SliceOf(arrays') :
        /\ messages' = [messages EXCEPT ![r] = x]
        /\ Fits(arrays', x)
        /\ x.len = Len(d) + 1
        /\ x.array # 0 /\ (x.array = k \/ x.array = Len(arrays) + 1)
        /\ Cells(arrays', x) = Append(d, m)
  BY DEF Appended
<1>2. /\ arrays' \in Seq(Seq(Cell))
      /\ Len(arrays') >= Len(arrays)
      /\ Len(arrays') \in Nat /\ Len(arrays) \in Nat /\ Len(d) \in Nat
  BY LenProperties DEF Appended, SlicesTyped
<1>3. x # Nil /\ x.array # 0 /\ x.len \in Nat BY <1>1, <1>2 DEF Nil
<1>4. \A y \in SliceOf(arrays) : y \in SliceOf(arrays') /\ y # Nil /\ y.array <= Len(arrays)
  BY <1>2 DEF SliceOf, Nil
<1>5. /\ \A s \in Session : sessions[s] \in SliceOf(arrays) \cup {Nil}
      /\ \A q \in Request : messages[q] \in SliceOf(arrays) \cup {Nil}
  BY DEF SlicesTyped, Slice, SliceOf
<1>6. \A q \in Request : messages'[q] = IF q = r THEN x ELSE messages[q]
  BY <1>1 DEF SlicesTyped
<1>7. SlicesTyped'
  BY <1>1, <1>2, <1>4, <1>5 DEF SlicesTyped, Slice, SliceOf
<1>8. \A s \in Session : sessions[s] # Nil =>
        Fits(arrays', sessions[s]) /\ Cells(arrays', sessions[s]) = Cells(arrays, sessions[s])
  BY <1>5 DEF Own, Appended
<1>9. \A q \in Request : q # r /\ messages[q] # Nil =>
        Fits(arrays', messages[q]) /\ Cells(arrays', messages[q]) = Cells(arrays, messages[q])
  BY <1>5 DEF Own, Appended
<1>10. \A q \in Request : messages'[q] # Nil <=> q \in Active'
  BY <1>3, <1>6 DEF Own
<1>11. \A s \in Session : sessions[s] # Nil /\ sessions[s].array = x.array =>
         SessionOf[r] = s /\ sessions[s].len < x.len
  <2> SUFFICES ASSUME NEW s \in Session, sessions[s] # Nil, sessions[s].array = x.array
               PROVE  SessionOf[r] = s /\ sessions[s].len < x.len
    OBVIOUS
  <2>1. sessions[s] \in SliceOf(arrays) /\ sessions[s].len \in Nat
    BY <1>5 DEF SliceOf
  <2>2. x.array = k BY <1>1, <1>2, <1>4, <2>1
  <2> QED BY <1>1, <1>2, <2>1, <2>2
<1>12. \A q \in Request : q # r /\ messages[q] # Nil => messages[q].array # x.array
  <2> SUFFICES ASSUME NEW q \in Request, q # r, messages[q] # Nil,
                      messages[q].array = x.array
               PROVE  FALSE
    OBVIOUS
  <2>1. messages[q] \in SliceOf(arrays) /\ messages[q].array \in Nat
    BY <1>5 DEF SliceOf
  <2>2. x.array = k BY <1>1, <1>2, <1>4, <2>1
  <2> QED BY <2>2
<1>13. Own'
  <2>1. \A s \in Session : sessions'[s] # Nil => Fits(arrays', sessions'[s])
    BY <1>8
  <2>2. \A q \in Request : messages'[q] # Nil => Fits(arrays', messages'[q])
    BY <1>1, <1>6, <1>9
  <2>3. \A q \in Request, s \in Session :
          messages'[q] # Nil /\ sessions'[s] # Nil /\ sessions'[s].array = messages'[q].array
          => SessionOf[q] = s /\ sessions'[s].len < messages'[q].len
    BY <1>6, <1>11 DEF Own
  <2>4. \A p, q \in Request :
          p # q /\ messages'[p] # Nil /\ messages'[q] # Nil
          => messages'[p].array # messages'[q].array
    BY <1>6, <1>12 DEF Own
  <2>5. \A p, q \in Active' : SessionOf[p] = SessionOf[q] => p = q
    BY DEF Own
  <2>6. \A s, t \in Session :
          s # t /\ sessions'[s] # Nil /\ sessions'[t] # Nil
          => sessions'[s].array # sessions'[t].array
    BY DEF Own
  <2> QED BY <1>10, <2>1, <2>2, <2>3, <2>4, <2>5, <2>6 DEF Own, Fits
<1>14. \A s \in Session : Content(sessions[s])' = Content(sessions[s])
  BY <1>8 DEF Content, Cells
<1>15. \A q \in Request :
         Content(messages[q])' = IF q = r THEN Append(d, m) ELSE Content(messages[q])
  BY <1>1, <1>3, <1>6, <1>9 DEF Content, Cells
<1> QED BY <1>7, <1>13, <1>14, <1>15

-----------------------------------------------------------------------------
\* What every step keeps, apart from the types of the other variables.
ListInv == SlicesTyped /\ Own

\* Any two slices that do not share more than Own allows stay so when arrays
\* stay and slices are dropped.
LEMMA DropKeeps ==
  ASSUME ListInv, UNCHANGED arrays,
         sessions' \in [Session -> Slice \cup {Nil}],
         messages' \in [Request -> Slice \cup {Nil}],
         \A s \in Session : sessions'[s] \in {sessions[s], Nil},
         \A r \in Request : messages'[r] \in {messages[r], Nil},
         \A r \in Request : messages'[r] # Nil <=> r \in Active',
         Active' \subseteq Active
  PROVE  ListInv'
<1>1. SlicesTyped' BY DEF ListInv, SlicesTyped, Slice
<1>2. Own' BY DEF ListInv, Own, Fits
<1> QED BY <1>1, <1>2 DEF ListInv

\* A request's question: the list of its session, or a new one, with the
\* question at the end.
LEMMA AskWorks ==
  ASSUME TypeOK, ListInv, OnePerSession, NEW r \in Request, Ask(r)
  PROVE  ListInv' /\ Lists!Ask(r)
<1> DEFINE s == SessionOf[r]
           slice == sessions[s]
           m == Said("user", r)
<1>1. s \in Session BY ChatAssumption
<1>2. m \in Cell BY DEF Said, Cell, Message, Spoken
<1>3. r \notin Active /\ Active' = Active \cup {r} /\ messages[r] = Nil
  <2>1. pc[r] = "idle" /\ pc' = [pc EXCEPT ![r] = "call"] BY DEF Ask
  <2>2. pc \in [Request -> {"idle", "call", "wait", "tools", "store", "end"}]
    BY DEF TypeOK
  <2>3. r \notin Active /\ Active' = Active \cup {r} BY <2>1, <2>2 DEF Active
  <2> QED BY <2>3 DEF ListInv, Own
<1>4. \A q \in Active : SessionOf[q] # s BY DEF Ask, MayAsk
<1>5. slice \in SliceOf(arrays) \cup {Nil}
  BY <1>1 DEF ListInv, SlicesTyped, Slice, SliceOf
<1>6. UNCHANGED sessions BY DEF Ask
<1>10. \A q \in Active : SessionOf[q] = SessionOf[r] => q = r BY <1>4
<1>11. Active' = Active \cup {r} BY <1>3
<1>7. ASSUME NEW d,
             d = IF Content(slice) = <<>> THEN <<System>> ELSE Content(slice),
             \A t \in Session : Content(sessions[t])' = Content(sessions[t]),
             \A q \in Request :
               Content(messages[q])' = IF q = r THEN Append(d, m) ELSE Content(messages[q])
      PROVE  Lists!Ask(r)
  <2>2. Content(messages[r]) = <<>> BY <1>3 DEF Content
  <2>3. d = Lists!Remembered(s)
    BY <1>1, <1>7 DEF Lists!Remembered, Lists!System, System
  <2>4. m = Lists!Said("user", r) BY DEF Said, Lists!Said
  <2> QED BY <1>7, <2>2, <2>3, <2>4 DEF Lists!Ask
<1>8. CASE slice # Nil
  <2> DEFINE k == slice.array
             d == Cells(arrays, slice)
  <2>1. slice \in SliceOf(arrays) /\ Fits(arrays, slice) /\ k \in Nat
    BY <1>1, <1>5, <1>8 DEF ListInv, Own, SliceOf
  <2>2. d \in Seq(Cell) /\ Len(d) = slice.len /\ slice.len \in Nat \ {0}
    BY <2>1, CellsType DEF ListInv, SlicesTyped
  <2>3. AppendTo(r, slice, m) BY <1>8 DEF Ask
  <2>4. Appended(r, k, d, m)
    BY <1>2, <2>1, <2>3, AppendToWorks DEF ListInv, SlicesTyped
  <2>5. \A q \in Request : q # r /\ messages[q] # Nil => messages[q].array # k
    BY <1>1, <1>4, <1>8 DEF ListInv, Own
  <2>6. \A t \in Session : sessions[t] # Nil /\ sessions[t].array = k =>
          SessionOf[r] = t /\ sessions[t].len <= Len(d)
    BY <1>1, <1>8, <2>2 DEF ListInv, Own
  <2>7. d = Content(slice) /\ Content(slice) # <<>>
    <3>1. d = Content(slice) BY DEF Content, Cells
    <3>2. d # <<>> BY <2>2
    <3> QED BY <3>1, <3>2
  <2>8. /\ SlicesTyped'
        /\ Own'
        /\ \A t \in Session : Content(sessions[t])' = Content(sessions[t])
        /\ \A q \in Request :
             Content(messages[q])' = IF q = r THEN Append(d, m) ELSE Content(messages[q])
    <3> HIDE DEF d, k, m
    <3> QED
      BY <1>2, <1>6, <1>10, <1>11, <2>1, <2>2, <2>4, <2>5, <2>6, AppendKeeps DEF ListInv
  <2> HIDE DEF d
  <2> QED BY <1>7, <2>7, <2>8 DEF ListInv
<1>9. CASE slice = Nil
  <2> DEFINE d == <<System>>
  <2>1. Appended(r, 0, d, m)
    BY <1>2, <1>9, NewTalkWorks DEF Ask, ListInv, SlicesTyped
  <2>2. d \in Seq(Cell) BY DEF Cell, Message
  <2>3. \A q \in Request : q # r /\ messages[q] # Nil => messages[q].array # 0
    BY DEF ListInv, SlicesTyped, Slice
  <2>4. \A t \in Session : sessions[t] # Nil => sessions[t].array # 0
    BY DEF ListInv, SlicesTyped, Slice
  <2>5. Content(slice) = <<>> BY <1>9 DEF Content
  <2>7. 0 \in Nat OBVIOUS
  <2>8. /\ SlicesTyped'
        /\ Own'
        /\ \A t \in Session : Content(sessions[t])' = Content(sessions[t])
        /\ \A q \in Request :
             Content(messages[q])' = IF q = r THEN Append(d, m) ELSE Content(messages[q])
    <3> HIDE DEF d, m
    <3> QED
      BY <1>2, <1>6, <1>10, <1>11, <2>1, <2>2, <2>3, <2>4, <2>7, AppendKeeps DEF ListInv
  <2> QED BY <1>7, <2>5, <2>8 DEF ListInv
<1> QED BY <1>8, <1>9

\* A reply, or a tool's result, at the end of a request's list.
LEMMA SayWorks ==
  ASSUME ListInv, NEW r \in Request, NEW role \in Spoken,
         messages[r] # Nil, AppendTo(r, messages[r], Said(role, r)),
         UNCHANGED sessions, Active' = Active
  PROVE  /\ ListInv' /\ Lists!Say(r)
         /\ \A s \in Session : Content(sessions[s])' = Content(sessions[s])
         /\ \A q \in Request :
              Content(messages[q])' = IF q = r THEN Append(Content(messages[r]), Said(role, r))
                                      ELSE Content(messages[q])
<1> DEFINE slice == messages[r]
           k == slice.array
           d == Cells(arrays, slice)
           m == Said(role, r)
<1>1. m \in Cell BY DEF Said, Cell, Message
<1>2. slice \in SliceOf(arrays) /\ Fits(arrays, slice) /\ k \in Nat
  BY DEF ListInv, Own, SlicesTyped, Slice, SliceOf
<1>3. d \in Seq(Cell) /\ Len(d) = slice.len /\ slice.len \in Nat \ {0}
  BY <1>2, CellsType DEF ListInv, SlicesTyped
<1>4. Appended(r, k, d, m)
  BY <1>1, <1>2, AppendToWorks DEF ListInv, SlicesTyped
<1>5. \A q \in Request : q # r /\ messages[q] # Nil => messages[q].array # k
  BY DEF ListInv, Own
<1>6. \A t \in Session : sessions[t] # Nil /\ sessions[t].array = k =>
        SessionOf[r] = t /\ sessions[t].len <= Len(d)
  <2>1. \A t \in Session : sessions[t] # Nil => sessions[t].len \in Nat
    BY DEF ListInv, SlicesTyped, Slice
  <2> QED BY <1>3, <2>1 DEF ListInv, Own
<1>7. r \in Active /\ \A q \in Active : SessionOf[q] = SessionOf[r] => q = r
  BY DEF ListInv, Own
<1>8. d = Content(slice) /\ d # <<>>
  <2>1. d = Content(slice) BY DEF Content, Cells
  <2>2. d # <<>> BY <1>3
  <2> QED BY <2>1, <2>2
<1>9. /\ SlicesTyped'
      /\ Own'
      /\ \A t \in Session : Content(sessions[t])' = Content(sessions[t])
      /\ \A q \in Request :
           Content(messages[q])' = IF q = r THEN Append(d, m) ELSE Content(messages[q])
  <2> HIDE DEF d, k, m
  <2> QED BY <1>1, <1>2, <1>3, <1>4, <1>5, <1>6, <1>7, AppendKeeps DEF ListInv
<1>10. m = Lists!Said(role, r) /\ role \in Lists!Spoken
  BY DEF Said, Lists!Said, Spoken, Lists!Spoken
<1>11. ListInv' /\ Lists!Say(r) BY <1>8, <1>9, <1>10 DEF ListInv, Lists!Say
<1> QED BY <1>8, <1>9, <1>11

\* trimHistory for a list that is too long.
LEMMA TrimmedCells ==
  ASSUME NEW d \in Seq(Cell), Len(d) > MaxMessages
  PROVE  TrimmedList(d) \in Seq(Cell) /\ Len(TrimmedList(d)) = MaxMessages
<1> DEFINE h == <<d[1]>>
           i == Len(d) - MaxMessages + 2
           t == SubSeq(d, i, Len(d))
<1>1. MaxMessages \in Nat /\ MaxMessages >= 2 BY ChatAssumption
<1>2. Len(d) \in Nat BY LenProperties
<1>3. d[1] \in Cell BY <1>1, <1>2, ElementOfSeq
<1>4. h \in Seq(Cell) /\ Len(h) = 1 BY <1>3
<1>5. i \in Int /\ i \in 1..Len(d) /\ Len(d) \in Int /\ i <= Len(d)
  BY <1>1, <1>2
<1>6. \A j \in i..Len(d) : d[j] \in Cell
  <2> HIDE DEF i
  <2>1. \A j \in i..Len(d) : j \in 1..Len(d) BY <1>2, <1>5
  <2> QED BY <2>1, ElementOfSeq
<1>7. t \in Seq(Cell) /\ Len(t) = MaxMessages - 1
  <2>1. Len(d) - i + 1 = MaxMessages - 1 BY <1>1, <1>2
  <2> HIDE DEF i
  <2>2. t \in Seq(Cell) BY <1>5, <1>6, SubSeqProperties
  <2>3. Len(t) = Len(d) - i + 1 BY <1>5, <1>6, SubSeqProperties
  <2> QED BY <2>1, <2>2, <2>3
<1> HIDE DEF h, t
<1>8. h \o t \in Seq(Cell) BY <1>4, <1>7, ConcatProperties
<1>9. Len(h \o t) = Len(h) + Len(t) BY <1>4, <1>7, ConcatProperties
<1>10. Len(h \o t) = MaxMessages BY <1>1, <1>4, <1>7, <1>9
<1>11. TrimmedList(d) = h \o t BY DEF TrimmedList, h, t
<1> QED BY <1>8, <1>10, <1>11

\* The answer is there: the session's list is the request's, trimmed.
LEMMA StoreWorks ==
  ASSUME TypeOK, ListInv, NEW r \in Request, Store(r)
  PROVE  ListInv' /\ Lists!Keep(r)
<1> DEFINE s == SessionOf[r]
           x == messages[r]
           d == Cells(arrays, x)
<1>1. s \in Session BY ChatAssumption
<1>2. pc[r] = "store" /\ messages' = [messages EXCEPT ![r] = Nil]
  BY DEF Store
<1>3. r \in Active BY <1>2 DEF Active
<1>4. x # Nil /\ Fits(arrays, x) BY <1>3 DEF ListInv, Own
<1>5. x \in SliceOf(arrays) /\ x.len \in Nat
  BY <1>4 DEF ListInv, SlicesTyped, Slice, SliceOf
<1>6. Active' = Active \ {r}
  <2>1. pc \in [Request -> {"idle", "call", "wait", "tools", "store", "end"}]
    BY DEF TypeOK
  <2> QED BY <2>1 DEF Store, Active
<1>7. \A q \in Request : messages'[q] = IF q = r THEN Nil ELSE messages[q]
  BY <1>2 DEF ListInv, SlicesTyped
<1>8. d \in Seq(Cell) /\ Len(d) = x.len /\ d # <<>> /\ d = Content(x)
  <2>1. d \in Seq(Cell) /\ Len(d) = x.len /\ x.len # 0
    BY <1>4, <1>5, CellsType DEF ListInv, SlicesTyped
  <2>2. d # <<>> BY <2>1
  <2>3. d = Content(x) BY DEF Content, Cells
  <2> QED BY <2>1, <2>2, <2>3
<1>9. \A q \in Active' : q # r /\ q \in Active BY <1>6
<1>10. CASE x.len <= MaxMessages
  <2>1. UNCHANGED arrays /\ sessions' = [sessions EXCEPT ![s] = x]
    BY <1>10 DEF Store
  <2>2. \A t \in Session : sessions'[t] = IF t = s THEN x ELSE sessions[t]
    BY <2>1 DEF ListInv, SlicesTyped
  <2>3. SlicesTyped'
    BY <1>1, <1>2, <1>5, <2>1 DEF ListInv, SlicesTyped, Slice, SliceOf
  <2>4. Own'
    <3>1. \A t \in Session : sessions'[t] # Nil => Fits(arrays', sessions'[t])
      BY <1>4, <2>1, <2>2 DEF ListInv, Own, Fits
    <3>2. \A q \in Request : messages'[q] # Nil => Fits(arrays', messages'[q])
      BY <1>7, <2>1 DEF ListInv, Own, Fits
    <3>3. \A q \in Request : messages'[q] # Nil <=> q \in Active'
      BY <1>6, <1>7 DEF ListInv, Own
    <3>4. \A q \in Request, t \in Session :
            messages'[q] # Nil /\ sessions'[t] # Nil /\ sessions'[t].array = messages'[q].array
            => SessionOf[q] = t /\ sessions'[t].len < messages'[q].len
      BY <1>4, <1>7, <2>2 DEF ListInv, Own
    <3>5. \A p, q \in Request :
            p # q /\ messages'[p] # Nil /\ messages'[q] # Nil
            => messages'[p].array # messages'[q].array
      BY <1>7 DEF ListInv, Own
    <3>6. \A t, u \in Session :
            t # u /\ sessions'[t] # Nil /\ sessions'[u] # Nil
            => sessions'[t].array # sessions'[u].array
      BY <1>4, <2>2 DEF ListInv, Own
    <3>7. \A p, q \in Active' : SessionOf[p] = SessionOf[q] => p = q
      BY <1>9 DEF ListInv, Own
    <3> QED BY <3>1, <3>2, <3>3, <3>4, <3>5, <3>6, <3>7 DEF Own, Fits
  <2>5. Lists!Trimmed(Content(x)) = Content(x)
    BY <1>8, <1>10 DEF Lists!Trimmed
  <2>6. \A t \in Session : Content(sessions[t])' =
          IF t = s THEN Content(x) ELSE Content(sessions[t])
    BY <2>1, <2>2 DEF Content
  <2>7. \A q \in Request : Content(messages[q])' =
          IF q = r THEN <<>> ELSE Content(messages[q])
    BY <1>7, <2>1 DEF Content
  <2> QED BY <1>1, <1>8, <2>3, <2>4, <2>5, <2>6, <2>7 DEF ListInv, Lists!Keep
<1>11. CASE ~(x.len <= MaxMessages)
  <2> DEFINE c == TrimmedList(d)
             y == [array |-> Len(arrays) + 1, len |-> MaxMessages]
  <2>1. /\ arrays' = Append(arrays, c)
        /\ sessions' = [sessions EXCEPT ![s] = y]
    BY <1>8, <1>11 DEF Store
  <2>2. MaxMessages \in Nat \ {0} /\ Len(d) > MaxMessages
    BY <1>5, <1>8, <1>11, ChatAssumption
  <2>3. c \in Seq(Cell) /\ Len(c) = MaxMessages BY <1>8, <2>2, TrimmedCells
  <2>4. Len(arrays) \in Nat BY LenProperties DEF ListInv, SlicesTyped
  <2>5. /\ arrays' \in Seq(Seq(Cell))
        /\ Len(arrays') = Len(arrays) + 1
        /\ arrays'[Len(arrays) + 1] = c
        /\ \A z \in SliceOf(arrays) : Fits(arrays, z) =>
             Fits(arrays', z) /\ Cells(arrays', z) = Cells(arrays, z)
    <3> HIDE DEF c
    <3> QED BY <2>1, <2>3, Allocation DEF ListInv, SlicesTyped
  <2>6. \A t \in Session : sessions'[t] = IF t = s THEN y ELSE sessions[t]
    BY <2>1 DEF ListInv, SlicesTyped
  <2>7. y \in SliceOf(arrays') /\ y # Nil BY <2>2, <2>4, <2>5 DEF SliceOf, Nil
  <2>8. y.array = Len(arrays) + 1 /\ y.len = MaxMessages OBVIOUS
  <2>9. Fits(arrays', y) BY <2>2, <2>3, <2>5, <2>8 DEF Fits
  <2>10. Cells(arrays', y) = c
    <3>1. SubSeq(c, 1, Len(c)) = c BY <2>3, SubSeqFull
    <3> QED BY <2>3, <2>5, <2>7, <2>8, <3>1 DEF Cells
  <2>11. \A z \in SliceOf(arrays) :
           z \in SliceOf(arrays') /\ z # Nil /\ z.array <= Len(arrays)
    BY <2>4, <2>5 DEF SliceOf, Nil
  <2>12. /\ \A t \in Session : sessions[t] \in SliceOf(arrays) \cup {Nil}
         /\ \A q \in Request : messages[q] \in SliceOf(arrays) \cup {Nil}
    BY DEF ListInv, SlicesTyped, Slice, SliceOf
  <2> HIDE DEF y, c
  <2>13. SlicesTyped'
    BY <1>1, <1>2, <2>1, <2>5, <2>7, <2>11, <2>12
    DEF ListInv, SlicesTyped, Slice, SliceOf
  <2>14. \A t \in Session : sessions[t] # Nil =>
           /\ Fits(arrays', sessions[t])
           /\ Cells(arrays', sessions[t]) = Cells(arrays, sessions[t])
           /\ sessions[t].array # y.array
    BY <2>4, <2>5, <2>8, <2>11, <2>12 DEF ListInv, Own
  <2>15. \A q \in Request : messages[q] # Nil =>
           /\ Fits(arrays', messages[q])
           /\ Cells(arrays', messages[q]) = Cells(arrays, messages[q])
           /\ messages[q].array # y.array
    BY <2>4, <2>5, <2>8, <2>11, <2>12 DEF ListInv, Own
  <2>16. Own'
    <3>1. \A t \in Session : sessions'[t] # Nil => Fits(arrays', sessions'[t])
      BY <2>6, <2>9, <2>14
    <3>2. \A q \in Request : messages'[q] # Nil => Fits(arrays', messages'[q])
      BY <1>7, <2>15
    <3>3. \A q \in Request : messages'[q] # Nil <=> q \in Active'
      BY <1>6, <1>7 DEF ListInv, Own
    <3>4. \A q \in Request, t \in Session :
            messages'[q] # Nil /\ sessions'[t] # Nil /\ sessions'[t].array = messages'[q].array
            => SessionOf[q] = t /\ sessions'[t].len < messages'[q].len
      BY <1>7, <2>6, <2>15 DEF ListInv, Own
    <3>5. \A p, q \in Request :
            p # q /\ messages'[p] # Nil /\ messages'[q] # Nil
            => messages'[p].array # messages'[q].array
      BY <1>7 DEF ListInv, Own
    <3>6. \A t, u \in Session :
            t # u /\ sessions'[t] # Nil /\ sessions'[u] # Nil
            => sessions'[t].array # sessions'[u].array
      BY <2>6, <2>14 DEF ListInv, Own
    <3>7. \A p, q \in Active' : SessionOf[p] = SessionOf[q] => p = q
      BY <1>9 DEF ListInv, Own
    <3> QED BY <3>1, <3>2, <3>3, <3>4, <3>5, <3>6, <3>7 DEF Own, Fits
  <2>17. Lists!Trimmed(Content(x)) = c
    <3>1. ~(Len(d) <= MaxMessages) BY <1>8, <1>11
    <3> HIDE DEF d
    <3>2. Lists!Trimmed(d) = TrimmedList(d) BY <3>1 DEF Lists!Trimmed, TrimmedList
    <3> QED BY <1>8, <3>2 DEF c
  <2>18. \A t \in Session : Content(sessions[t])' =
           IF t = s THEN c ELSE Content(sessions[t])
    BY <2>6, <2>7, <2>10, <2>14 DEF Content, Cells
  <2>19. \A q \in Request : Content(messages[q])' =
           IF q = r THEN <<>> ELSE Content(messages[q])
    BY <1>7, <2>15 DEF Content, Cells
  <2> QED BY <1>1, <1>8, <2>13, <2>16, <2>17, <2>18, <2>19 DEF ListInv, Lists!Keep
<1> QED BY <1>10, <1>11

-----------------------------------------------------------------------------
\* The steps that drop slices, or leave them.
LEMMA GiveUpWorks ==
  ASSUME TypeOK, ListInv, NEW r \in Request, Fail(r)
  PROVE  ListInv' /\ Lists!GiveUp(r)
<1>1. /\ UNCHANGED <<arrays, sessions>>
      /\ messages' = [messages EXCEPT ![r] = Nil]
      /\ pc' = [pc EXCEPT ![r] = "end"]
  BY DEF Fail
<1>2. \A q \in Request : messages'[q] = IF q = r THEN Nil ELSE messages[q]
  BY <1>1 DEF ListInv, SlicesTyped
<1>3. Active' = Active \ {r}
  BY <1>1 DEF Active, TypeOK
<1>4. ListInv'
  <2>1. \A q \in Request : messages'[q] # Nil <=> q \in Active'
    BY <1>2, <1>3 DEF ListInv, Own
  <2>2. /\ messages' \in [Request -> Slice \cup {Nil}]
        /\ sessions' \in [Session -> Slice \cup {Nil}]
    BY <1>1 DEF ListInv, SlicesTyped
  <2> QED BY <1>1, <1>2, <1>3, <2>1, <2>2, DropKeeps
<1>5. \A q \in Request : Content(messages[q])' = IF q = r THEN <<>> ELSE Content(messages[q])
  BY <1>1, <1>2 DEF Content
<1>6. \A s \in Session : Content(sessions[s])' = Content(sessions[s])
  BY <1>1 DEF Content
<1> QED BY <1>4, <1>5, <1>6 DEF Lists!GiveUp

LEMMA ClearWorks ==
  ASSUME TypeOK, ListInv, NEW s \in Session, ClearSession(s)
  PROVE  ListInv' /\ Lists!Clear(s)
<1>1. /\ UNCHANGED <<arrays, messages, pc>>
      /\ sessions' = [sessions EXCEPT ![s] = Nil]
  BY DEF ClearSession
<1>2. \A t \in Session : sessions'[t] = IF t = s THEN Nil ELSE sessions[t]
  BY <1>1 DEF ListInv, SlicesTyped
<1>3. Active' = Active BY <1>1 DEF Active
<1>4. ListInv'
  <2>1. \A q \in Request : messages'[q] # Nil <=> q \in Active'
    BY <1>1, <1>3 DEF ListInv, Own
  <2>2. /\ messages' \in [Request -> Slice \cup {Nil}]
        /\ sessions' \in [Session -> Slice \cup {Nil}]
    BY <1>1 DEF ListInv, SlicesTyped
  <2> QED BY <1>1, <1>2, <1>3, <2>1, <2>2, DropKeeps
<1>5. \A t \in Session : Content(sessions[t])' = IF t = s THEN <<>> ELSE Content(sessions[t])
  BY <1>1, <1>2 DEF Content
<1>6. \A q \in Request : Content(messages[q])' = Content(messages[q])
  BY <1>1 DEF Content
<1> QED BY <1>4, <1>5, <1>6 DEF Lists!Clear

LEMMA RestartWorks ==
  ASSUME TypeOK, ListInv, Restart
  PROVE  ListInv' /\ Lists!Forget
<1>1. /\ arrays' = <<>>
      /\ sessions' = [s \in Session |-> Nil]
      /\ messages' = [r \in Request |-> Nil]
      /\ pc' = [r \in Request |-> IF r \in Active THEN "end" ELSE pc[r]]
  BY DEF Restart
<1>2. Active' = {} BY <1>1 DEF Active
<1>3. arrays' \in Seq(Seq(Cell)) BY <1>1
<1>4. SlicesTyped' BY <1>1, <1>3 DEF SlicesTyped
<1>5. Own' BY <1>1, <1>2 DEF Own
<1>6. /\ \A s \in Session : Content(sessions[s])' = <<>>
      /\ \A r \in Request : Content(messages[r])' = <<>>
  BY <1>1 DEF Content
<1> QED BY <1>4, <1>5, <1>6 DEF ListInv, Lists!Forget

\* A step that touches no slice is none of ChatHistory's.
LEMMA StutterWorks ==
  ASSUME ListInv, UNCHANGED <<arrays, sessions, messages>>, Active' = Active
  PROVE  ListInv' /\ UNCHANGED Lists!vars
<1>1. SlicesTyped' BY DEF ListInv, SlicesTyped, Slice
<1>2. Own' BY DEF ListInv, Own, Fits
<1>3. UNCHANGED Lists!vars BY DEF Lists!vars, Content
<1> QED BY <1>1, <1>2, <1>3 DEF ListInv

\* A reply of the model or a tool's result.
LEMMA TalkWorks ==
  ASSUME TypeOK, ListInv, NEW r \in Request,
         ReplyCalls(r) \/ ReplyAnswer(r) \/ RunTool(r)
  PROVE  ListInv' /\ Lists!Say(r)
<1>1. pc \in [Request -> {"idle", "call", "wait", "tools", "store", "end"}]
  BY DEF TypeOK
<1>2. CASE ReplyCalls(r)
  <2>1. r \in Active /\ Active' = Active BY <1>1, <1>2 DEF ReplyCalls, Active
  <2>2. messages[r] # Nil BY <2>1 DEF ListInv, Own
  <2>3. AppendTo(r, messages[r], Said("calls", r)) /\ UNCHANGED sessions
    BY <1>2 DEF ReplyCalls
  <2>4. "calls" \in Spoken BY DEF Spoken
  <2> QED BY <2>1, <2>2, <2>3, <2>4, SayWorks
<1>3. CASE ReplyAnswer(r)
  <2>1. r \in Active /\ Active' = Active BY <1>1, <1>3 DEF ReplyAnswer, Active
  <2>2. messages[r] # Nil BY <2>1 DEF ListInv, Own
  <2>3. AppendTo(r, messages[r], Said("answer", r)) /\ UNCHANGED sessions
    BY <1>3 DEF ReplyAnswer
  <2>4. "answer" \in Spoken BY DEF Spoken
  <2> QED BY <2>1, <2>2, <2>3, <2>4, SayWorks
<1>4. CASE RunTool(r)
  <2>1. r \in Active /\ Active' = Active BY <1>1, <1>4 DEF RunTool, Active
  <2>2. messages[r] # Nil BY <2>1 DEF ListInv, Own
  <2>3. AppendTo(r, messages[r], Said("tool", r)) /\ UNCHANGED sessions
    BY <1>4 DEF RunTool
  <2>4. "tool" \in Spoken BY DEF Spoken
  <2> QED BY <2>1, <2>2, <2>3, <2>4, SayWorks
<1> QED BY <1>2, <1>3, <1>4

\* Every step keeps the invariant and is one of ChatHistory or none.
LEMMA StepWorks ==
  ASSUME TypeOK, ListInv, OnePerSession, [Next]_vars
  PROVE  ListInv' /\ [Lists!Next]_(Lists!vars)
<1>1. ASSUME NEW r \in Request, Ask(r)
      PROVE  ListInv' /\ Lists!Next
  BY <1>1, AskWorks DEF Lists!Next
<1>2. ASSUME NEW r \in Request, Call(r)
      PROVE  ListInv' /\ UNCHANGED Lists!vars
  <2>1. Active' = Active BY <1>2 DEF Call, Active, TypeOK
  <2>2. UNCHANGED <<arrays, sessions, messages>> BY <1>2 DEF Call
  <2> QED BY <2>1, <2>2, StutterWorks
<1>3. ASSUME NEW r \in Request, ReplyCalls(r) \/ ReplyAnswer(r) \/ RunTool(r)
      PROVE  ListInv' /\ Lists!Next
  BY <1>3, TalkWorks DEF Lists!Next
<1>4. ASSUME NEW r \in Request, Store(r)
      PROVE  ListInv' /\ Lists!Next
  BY <1>4, StoreWorks DEF Lists!Next
<1>5. ASSUME NEW r \in Request, Fail(r)
      PROVE  ListInv' /\ Lists!Next
  BY <1>5, GiveUpWorks DEF Lists!Next
<1>6. ASSUME NEW s \in Session, ClearSession(s)
      PROVE  ListInv' /\ Lists!Next
  BY <1>6, ClearWorks DEF Lists!Next
<1>7. CASE Restart BY <1>7, RestartWorks DEF Lists!Next
<1>8. CASE UNCHANGED vars
  <2>1. UNCHANGED <<arrays, sessions, messages>> /\ Active' = Active
    BY <1>8 DEF vars, Active
  <2> QED BY <2>1, StutterWorks
<1> QED BY <1>1, <1>2, <1>3, <1>4, <1>5, <1>6, <1>7, <1>8 DEF Next, Go

\* While tools are run there is a tool call left to run.
Counted == \A r \in Request : pc[r] = "tools" => pending[r] > 0

\* The variables that hold no slice.
Control ==
  /\ pc \in [Request -> {"idle", "call", "wait", "tools", "store", "end"}]
  /\ round \in [Request -> 0..MaxToolRounds]
  /\ pending \in [Request -> 0..MaxTools]
  /\ sent \in [Request -> Seq(Cell)]
  /\ events \in 0..MaxEvents

ControlInv == Control /\ Counted

\* A call of the model sends messages only.
LEMMA ContentType ==
  ASSUME ListInv, NEW r \in Active
  PROVE  Content(messages[r]) \in Seq(Cell)
<1>0. r \in Request BY DEF Active
<1>1. messages[r] \in SliceOf(arrays) /\ Fits(arrays, messages[r])
  BY <1>0 DEF ListInv, Own, SlicesTyped, Slice, SliceOf
<1>2. Cells(arrays, messages[r]) \in Seq(Cell)
  BY <1>1, CellsType DEF ListInv, SlicesTyped
<1> QED BY <1>2 DEF Cells, Content

\* The other variables keep their types, and a request never waits for a tool
\* call that has been run.
LEMMA ControlStep ==
  ASSUME ControlInv, ListInv, [Next]_vars
  PROVE  ControlInv'
<1> USE ChatAssumption DEF ControlInv, Control, Counted
<1>a. 0 \in 0..MaxToolRounds /\ 0 \in 0..MaxTools /\ <<>> \in Seq(Cell) OBVIOUS
<1>1. ASSUME NEW r \in Request, Ask(r) PROVE ControlInv'
  BY <1>1 DEF Ask
<1>2. ASSUME NEW r \in Request, Call(r) PROVE ControlInv'
  <2>1. Content(messages[r]) \in Seq(Cell)
    BY <1>2, ContentType DEF Call, Active
  <2> QED BY <1>2, <2>1 DEF Call
<1>3. ASSUME NEW r \in Request, ReplyCalls(r) PROVE ControlInv'
  <2>1. PICK n \in 1..MaxTools : pending' = [pending EXCEPT ![r] = n]
    BY <1>3 DEF ReplyCalls
  <2>2. pending' \in [Request -> 0..MaxTools] BY <2>1
  <2>3. round' \in [Request -> 0..MaxToolRounds] BY <1>3 DEF ReplyCalls
  <2>4. Counted' BY <1>3, <2>1 DEF ReplyCalls
  <2> QED BY <1>a, <1>3, <2>2, <2>3, <2>4 DEF ReplyCalls
<1>4. ASSUME NEW r \in Request, ReplyAnswer(r) PROVE ControlInv'
  BY <1>a, <1>4 DEF ReplyAnswer
<1>5. ASSUME NEW r \in Request, Fail(r) PROVE ControlInv'
  BY <1>a, <1>5 DEF Fail
<1>6. ASSUME NEW r \in Request, RunTool(r) PROVE ControlInv'
  <2>1. pending[r] \in 1..MaxTools BY <1>6 DEF RunTool
  <2>2. pending' \in [Request -> 0..MaxTools] BY <1>6, <2>1 DEF RunTool
  <2>3. Counted' BY <1>6, <2>1 DEF RunTool
  <2> QED BY <1>6, <2>2, <2>3 DEF RunTool
<1>7. ASSUME NEW r \in Request, Store(r) PROVE ControlInv'
  BY <1>7 DEF Store
<1>8. ASSUME NEW s \in Session, ClearSession(s) PROVE ControlInv'
  BY <1>8 DEF ClearSession, Event
<1>9. ASSUME Restart PROVE ControlInv'
  BY <1>a, <1>9 DEF Restart, Event, Active
<1>10. ASSUME UNCHANGED vars PROVE ControlInv'
  BY <1>10 DEF vars
<1> QED
  BY <1>1, <1>2, <1>3, <1>4, <1>5, <1>6, <1>7, <1>8, <1>9, <1>10 DEF Next, Go

-----------------------------------------------------------------------------
\* What TypeOK lacks is that every slice fits its array, that a slice no other
\* one may write over belongs to each request, and that tools are counted.
IInv == ListInv /\ ControlInv

LEMMA IInvTypeOK ==
  ASSUME IInv
  PROVE  TypeOK
BY DEF IInv, ListInv, SlicesTyped, ControlInv, Control, TypeOK

LEMMA InitWorks ==
  ASSUME Init
  PROVE  IInv /\ Lists!Init
<1> USE ChatAssumption DEF Init
<1>1. Active = {} BY DEF Active
<1>2. SlicesTyped BY DEF SlicesTyped
<1>3. Own BY <1>1 DEF Own
<1>4. ControlInv BY DEF ControlInv, Control, Counted
<1>5. Lists!Init BY DEF Lists!Init, Content
<1> QED BY <1>2, <1>3, <1>4, <1>5 DEF IInv, ListInv

LEMMA Inductive ==
  ASSUME IInv, OnePerSession, [Next]_vars
  PROVE  IInv' /\ [Lists!Next]_(Lists!vars)
<1>1. TypeOK BY IInvTypeOK
<1>2. ListInv' /\ [Lists!Next]_(Lists!vars) BY <1>1, StepWorks DEF IInv
<1>3. ControlInv' BY ControlStep DEF IInv
<1> QED BY <1>2, <1>3 DEF IInv

\* With one request per session at a time every slice always lies within its
\* array and the counts of tool rounds and tool calls within their limits.
THEOREM TypeCorrect ==
  ASSUME OnePerSession
  PROVE  Spec => []TypeOK
<1>1. Init => IInv BY InitWorks
<1>2. IInv /\ [Next]_vars => IInv' BY Inductive
<1>3. IInv => TypeOK BY IInvTypeOK
<1> QED BY <1>1, <1>2, <1>3, PTL DEF Spec

\* With one request per session at a time the slices of ChatHandler, which
\* share arrays, behave like lists that nobody shares (ImplementsHistory).
THEOREM ListsCorrect ==
  ASSUME OnePerSession
  PROVE  Spec => ImplementsHistory
<1>1. Init => IInv /\ Lists!Init BY InitWorks
<1>2. IInv /\ [Next]_vars => IInv' /\ [Lists!Next]_(Lists!vars) BY Inductive
<1> QED BY <1>1, <1>2, PTL DEF Spec, ImplementsHistory, Lists!Spec

-----------------------------------------------------------------------------
(***************************************************************************)
(* What is in the lists.  A history is made of whole exchanges of requests *)
(* that have ended; the list of a request under way is such a history, the *)
(* request's question, and what was said since.                            *)
(***************************************************************************)

\* Within a list every exchange goes on to its answer, and the next message
\* after an answer is a question.
Chained(c) ==
  \A i \in 2..(Len(c) - 1) :
    IF c[i].role = "answer" THEN c[i + 1].role = "user"
                            ELSE c[i + 1].role # "user" /\ c[i + 1].of = c[i].of

\* The system prompt and then exchanges of the requests R, the last one perhaps
\* not over yet.
Exchanges(c, R) ==
  /\ c \in Seq(Cell)
  /\ Len(c) >= 2
  /\ c[1] = System
  /\ \A i \in 2..Len(c) : c[i].of \in R
  /\ Chained(c)

\* A list that may be a history.
Kept(c, R) == Exchanges(c, R) /\ c[Len(c)].role = "answer"

\* The list of request r on top of exchanges of R: its question is at p, behind
\* it are its tool calls, their results and, once it is done, the answer.
Asked(c, r, done, p) ==
  /\ c[p] = Said("user", r)
  /\ \A i \in 2..(p - 1) : c[i].of # r
  /\ \A i \in (p + 1)..Len(c) :
       \/ c[i] \in {Said("calls", r), Said("tool", r)}
       \/ done /\ i = Len(c)

Under(c, r, R, done) ==
  /\ Exchanges(c, R \cup {r})
  /\ \E p \in 2..Len(c) : Asked(c, r, done, p)
  /\ done => c[Len(c)].role = "answer"

\* Of an append's result every message is known.
LEMMA Longer ==
  ASSUME NEW c \in Seq(Cell), NEW m \in Cell
  PROVE  /\ Append(c, m) \in Seq(Cell)
         /\ Len(c) \in Nat
         /\ Len(Append(c, m)) = Len(c) + 1
         /\ \A i \in 1..Len(c) : Append(c, m)[i] = c[i]
         /\ Append(c, m)[Len(c) + 1] = m
BY AppendProperties, LenProperties

\* A question may follow an answer or the system prompt; anything else goes on
\* with the exchange at the end of the list.
LEMMA ChainLonger ==
  ASSUME NEW c \in Seq(Cell), NEW m \in Cell, Chained(c),
         Len(c) >= 2 => IF c[Len(c)].role = "answer"
                        THEN m.role = "user"
                        ELSE m.role # "user" /\ m.of = c[Len(c)].of
  PROVE  Chained(Append(c, m))
<1> DEFINE b == Append(c, m)
<1>1. /\ Len(c) \in Nat
      /\ Len(b) = Len(c) + 1
      /\ \A i \in 1..Len(c) : b[i] = c[i]
      /\ b[Len(c) + 1] = m
  BY Longer
<1> HIDE DEF b
<1>2. SUFFICES ASSUME NEW i \in 2..(Len(b) - 1)
               PROVE  IF b[i].role = "answer" THEN b[i + 1].role = "user"
                      ELSE b[i + 1].role # "user" /\ b[i + 1].of = b[i].of
  BY DEF Chained, b
<1>3. CASE i = Len(c)
  BY <1>1, <1>3
<1>4. CASE i # Len(c)
  <2>1. i \in 2..(Len(c) - 1) /\ b[i] = c[i] /\ b[i + 1] = c[i + 1]
    BY <1>1, <1>4
  <2> QED BY <2>1 DEF Chained
<1> QED BY <1>3, <1>4

\* A request begins with its session's history or the system prompt alone.
LEMMA UnderBegins ==
  ASSUME NEW h \in Seq(Cell), NEW R \in SUBSET Request, NEW r \in Request \ R,
         h = <<System>> \/ Kept(h, R)
  PROVE  Under(Append(h, Said("user", r)), r, R, FALSE)
<1> DEFINE m == Said("user", r)
           b == Append(h, m)
<1>1. m \in Cell /\ m.role = "user" /\ m.of = r
  BY DEF Said, Cell, Message, Spoken
<1>2. /\ b \in Seq(Cell) /\ Len(h) \in Nat /\ Len(b) = Len(h) + 1
      /\ \A i \in 1..Len(h) : b[i] = h[i]
      /\ b[Len(h) + 1] = m
  BY <1>1, Longer
<1>3. /\ Len(h) >= 1 /\ h[1] = System
      /\ \A i \in 2..Len(h) : h[i].of \in R
      /\ Chained(h)
      /\ Len(h) >= 2 => h[Len(h)].role = "answer"
  <2>1. CASE h = <<System>>
    <3>1. Len(h) = 1 /\ h[1] = System BY <2>1
    <3>2. Chained(h) BY <3>1 DEF Chained
    <3> QED BY <3>1, <3>2
  <2>2. CASE Kept(h, R) BY <1>2, <2>2 DEF Kept, Exchanges
  <2> QED BY <2>1, <2>2
<1>4. Chained(b) BY <1>1, <1>3, ChainLonger
<1> HIDE DEF b
<1>5. Exchanges(b, R \cup {r}) BY <1>1, <1>2, <1>3, <1>4 DEF Exchanges
<1>6. Asked(b, r, FALSE, Len(b)) BY <1>1, <1>2, <1>3 DEF Asked
<1>7. Len(b) \in 2..Len(b) BY <1>2, <1>3
<1> HIDE DEF m
<1> QED BY <1>5, <1>6, <1>7 DEF Under, b, m

\* The end of the list of a request that is not done is its own, and no answer.
LEMMA UnderEnd ==
  ASSUME NEW c, NEW r \in Request, NEW R, Under(c, r, R, FALSE)
  PROVE  c[Len(c)].role # "answer" /\ c[Len(c)].of = r
<1>1. PICK p \in 2..Len(c) : Asked(c, r, FALSE, p) BY DEF Under
<1>2. Len(c) \in Nat BY LenProperties DEF Under, Exchanges
<1>3. c[Len(c)] \in {Said("user", r), Said("calls", r), Said("tool", r)}
  BY <1>1, <1>2 DEF Asked
<1> QED BY <1>3 DEF Said

\* Tool calls and results, and at last the answer, go to the end of the list.
LEMMA UnderGoesOn ==
  ASSUME NEW c, NEW r \in Request, NEW R, Under(c, r, R, FALSE),
         NEW role \in {"calls", "tool", "answer"}
  PROVE  Under(Append(c, Said(role, r)), r, R, role = "answer")
<1> DEFINE m == Said(role, r)
           b == Append(c, m)
           done == role = "answer"
<1>1. m \in Cell /\ m.role = role /\ m.of = r
  BY DEF Said, Cell, Message, Spoken
<1>2. /\ c \in Seq(Cell) /\ Len(c) >= 2 /\ c[1] = System
      /\ \A i \in 2..Len(c) : c[i].of \in R \cup {r}
      /\ Chained(c)
  BY DEF Under, Exchanges
<1>3. /\ b \in Seq(Cell) /\ Len(c) \in Nat /\ Len(b) = Len(c) + 1
      /\ \A i \in 1..Len(c) : b[i] = c[i]
      /\ b[Len(c) + 1] = m
  BY <1>1, <1>2, Longer
<1>4. Chained(b) BY <1>1, <1>2, UnderEnd, ChainLonger
<1>5. PICK p \in 2..Len(c) : Asked(c, r, FALSE, p) BY DEF Under
<1> HIDE DEF b
<1>6. Exchanges(b, R \cup {r}) BY <1>1, <1>2, <1>3, <1>4 DEF Exchanges
<1>7. Asked(b, r, done, p)
  <2>1. b[p] = Said("user", r) BY <1>3, <1>5 DEF Asked
  <2>2. \A i \in 2..(p - 1) : b[i].of # r BY <1>3, <1>5 DEF Asked
  <2>3. ASSUME NEW i \in (p + 1)..Len(b)
        PROVE  b[i] \in {Said("calls", r), Said("tool", r)} \/ (done /\ i = Len(b))
    <3>1. CASE i = Len(b) BY <1>3, <3>1
    <3>2. CASE i # Len(b) BY <1>3, <1>5, <3>2 DEF Asked
    <3> QED BY <3>1, <3>2
  <2> HIDE DEF done
  <2> QED BY <2>1, <2>2, <2>3 DEF Asked
<1>8. p \in 2..Len(b) BY <1>3
<1>9. done => b[Len(b)].role = "answer" BY <1>1, <1>3
<1> QED BY <1>6, <1>7, <1>8, <1>9 DEF Under, b

\* The list of a request that is done may become the history.
LEMMA UnderDone ==
  ASSUME NEW c, NEW r, NEW R, Under(c, r, R, TRUE)
  PROVE  Kept(c, R \cup {r})
BY DEF Under, Kept

\* Of two lists one after the other every message is known.
LEMMA ConcatCells ==
  ASSUME NEW a \in Seq(Cell), NEW b \in Seq(Cell)
  PROVE  \A j \in 1..(Len(a) + Len(b)) :
           (a \o b)[j] = IF j <= Len(a) THEN a[j] ELSE b[j - Len(a)]
BY ConcatProperties, Zenon

\* What may become the history may do so trimmed: where exchanges are cut, they
\* are cut at the front (trimHistory).
LEMMA KeptTrimmed ==
  ASSUME NEW c, NEW R, Kept(c, R), Len(c) > MaxMessages
  PROVE  Kept(TrimmedList(c), R)
<1> DEFINE h == <<c[1]>>
           k == Len(c) - MaxMessages
           t == SubSeq(c, k + 2, Len(c))
           b == TrimmedList(c)
<1>1. /\ c \in Seq(Cell) /\ Len(c) >= 2 /\ c[1] = System
      /\ \A i \in 2..Len(c) : c[i].of \in R
      /\ Chained(c)
      /\ c[Len(c)].role = "answer"
  BY DEF Kept, Exchanges
<1>2. Len(c) \in Nat /\ MaxMessages \in Nat /\ MaxMessages >= 2
  BY <1>1, LenProperties, ChatAssumption
<1>3. b \in Seq(Cell) /\ Len(b) = MaxMessages BY <1>1, TrimmedCells
<1>4. h \in Seq(Cell) /\ Len(h) = 1 /\ h[1] = c[1]
  BY <1>1, <1>2, ElementOfSeq
<1>5. /\ t \in Seq(Cell) /\ Len(t) = MaxMessages - 1
      /\ \A i \in 1..(MaxMessages - 1) : t[i] = c[i + k + 1]
  <2>1. \A i \in 1..Len(c) : c[i] \in Cell BY <1>1, ElementOfSeq
  <2>2. /\ k + 2 \in 1..(Len(c) + 1) /\ k + 2 \in Int /\ Len(c) \in Int
        /\ Len(c) - (k + 2) + 1 = MaxMessages - 1
        /\ k + 2 <= Len(c)
    BY <1>2
  <2>3. \A i \in 1..(MaxMessages - 1) : (k + 2) + i - 1 = i + k + 1
    BY <1>2
  <2> DEFINE a == k + 2
  <2>4. \A i \in a..Len(c) : c[i] \in Cell BY <1>2, <2>1
  <2> HIDE DEF k, a
  <2>5. /\ SubSeq(c, a, Len(c)) \in Seq(Cell)
        /\ Len(SubSeq(c, a, Len(c))) = Len(c) - a + 1
        /\ \A i \in 1..(Len(c) - a + 1) : SubSeq(c, a, Len(c))[i] = c[a + i - 1]
    BY <2>2, <2>4, SubSeqProperties DEF a
  <2> QED BY <2>2, <2>3, <2>5 DEF a
<1>6. b = h \o t BY <1>2 DEF TrimmedList, h, t
<1>6a. \A j \in 1..(Len(h) + Len(t)) :
         b[j] = IF j <= Len(h) THEN h[j] ELSE t[j - Len(h)]
  <2> HIDE DEF h, t, b
  <2>1. \A j \in 1..(Len(h) + Len(t)) :
          (h \o t)[j] = IF j <= Len(h) THEN h[j] ELSE t[j - Len(h)]
    BY <1>4, <1>5, ConcatCells, Zenon
  <2> QED BY <1>6, <2>1, Zenon
<1>7. \A i \in 2..MaxMessages : b[i] = c[i + k]
  <2> HIDE DEF h, t, b, k
  <2> SUFFICES ASSUME NEW i \in 2..MaxMessages PROVE b[i] = c[i + k]
    OBVIOUS
  <2>1. b[i] = t[i - 1]
    <3>1. i \in 1..(Len(h) + Len(t)) /\ ~(i <= Len(h)) BY <1>2, <1>4, <1>5
    <3>2. b[i] = t[i - Len(h)] BY <1>6a, <3>1
    <3> QED BY <1>4, <3>2
  <2>2. t[i - 1] = c[(i - 1) + k + 1] BY <1>2, <1>5
  <2>3. (i - 1) + k + 1 = i + k BY <1>2 DEF k
  <2> QED BY <2>1, <2>2, <2>3
<1>8. b[1] = System
  <2> HIDE DEF h, t, b
  <2>1. 1 \in 1..(Len(h) + Len(t)) /\ 1 <= Len(h) BY <1>2, <1>4, <1>5
  <2>2. b[1] = h[1] BY <1>6a, <2>1
  <2> QED BY <1>1, <1>4, <2>2
<1> HIDE DEF b, h, t
<1>9. \A i \in 2..MaxMessages : i + k \in 2..Len(c) BY <1>2
<1>10. Chained(b)
  <2> SUFFICES ASSUME NEW i \in 2..(MaxMessages - 1)
               PROVE  IF b[i].role = "answer" THEN b[i + 1].role = "user"
                      ELSE b[i + 1].role # "user" /\ b[i + 1].of = b[i].of
    BY <1>3 DEF Chained
  <2>1. i + k \in 2..(Len(c) - 1) BY <1>2
  <2>2. b[i] = c[i + k] /\ b[i + 1] = c[(i + k) + 1]
    <3>1. i \in 2..MaxMessages /\ i + 1 \in 2..MaxMessages /\ (i + 1) + k = (i + k) + 1
      BY <1>2
    <3> QED BY <1>7, <3>1
  <2> HIDE DEF k
  <2> QED BY <1>1, <2>1, <2>2 DEF Chained
<1>11. b[Len(b)].role = "answer" BY <1>1, <1>2, <1>3, <1>7
<1>12. \A i \in 2..Len(b) : b[i].of \in R BY <1>1, <1>3, <1>7, <1>9
<1> QED BY <1>2, <1>3, <1>8, <1>10, <1>11, <1>12 DEF Kept, Exchanges, b

\* More requests come to an end.
LEMMA MoreEnded ==
  ASSUME NEW R, NEW S, R \subseteq S
  PROVE  /\ \A c : Kept(c, R) => Kept(c, S)
         /\ \A c, r, done : Under(c, r, R, done) => Under(c, r, S, done)
<1>1. \A c : Exchanges(c, R) => Exchanges(c, S) BY DEF Exchanges
<1>2. \A c, r : Exchanges(c, R \cup {r}) => Exchanges(c, S \cup {r}) BY DEF Exchanges
<1> QED BY <1>1, <1>2 DEF Kept, Under

Ended == {r \in Request : pc[r] = "end"}

\* Every history may be one, every request under way talks on top of one, and
\* what the model is being told is the request's list.
TalkInv ==
  /\ \A s \in Session :
       Content(sessions[s]) # <<>> => Kept(Content(sessions[s]), Ended)
  /\ \A r \in Active : Under(Content(messages[r]), r, Ended, pc[r] = "store")
  /\ \A r \in Request : sent[r] # <<>> => pc[r] = "wait" /\ sent[r] = Content(messages[r])

\* A request changes its own list only; it is under way before and after, and
\* what it told the model is over.
LEMMA OwnTalk ==
  ASSUME IInv, TalkInv, NEW r \in Request, NEW at \in {"call", "tools", "store"},
         pc' = [pc EXCEPT ![r] = at], pc[r] # "end",
         sent' = [sent EXCEPT ![r] = <<>>] \/ (pc[r] # "wait" /\ UNCHANGED sent),
         \A s \in Session : Content(sessions[s])' = Content(sessions[s]),
         \A q \in Request : q # r => Content(messages[q])' = Content(messages[q]),
         Under(Content(messages[r])', r, Ended, at = "store")
  PROVE  TalkInv'
<1>1. /\ pc \in [Request -> {"idle", "call", "wait", "tools", "store", "end"}]
      /\ sent \in [Request -> Seq(Cell)]
  BY DEF IInv, ControlInv, Control
<1>2. Ended' = Ended BY <1>1 DEF Ended
<1>3. Active' = Active \cup {r} BY <1>1 DEF Active
<1>4. \A s \in Session :
        Content(sessions[s])' # <<>> => Kept(Content(sessions[s])', Ended')
  BY <1>2 DEF TalkInv
<1>5. ASSUME NEW q \in Active'
      PROVE  Under(Content(messages[q])', q, Ended', pc'[q] = "store")
  <2>1. CASE q = r BY <1>1, <1>2, <2>1
  <2>2. CASE q # r
    <3>1. q \in Active /\ q \in Request /\ pc'[q] = pc[q] BY <1>1, <1>3, <2>2 DEF Active
    <3> QED BY <1>2, <2>2, <3>1 DEF TalkInv
  <2> QED BY <2>1, <2>2
<1>6. ASSUME NEW q \in Request, sent'[q] # <<>>
      PROVE  pc'[q] = "wait" /\ sent'[q] = Content(messages[q])'
  <2>1. q # r /\ sent'[q] = sent[q] /\ pc'[q] = pc[q] BY <1>1, <1>6 DEF TalkInv
  <2> QED BY <1>6, <2>1 DEF TalkInv
<1> QED BY <1>4, <1>5, <1>6 DEF TalkInv

\* A request ends: its list is gone, and perhaps the history of its session is
\* a new one.
LEMMA EndTalk ==
  ASSUME IInv, TalkInv, NEW r \in Request, pc[r] # "end",
         pc' = [pc EXCEPT ![r] = "end"],
         sent' = [sent EXCEPT ![r] = <<>>] \/ (pc[r] # "wait" /\ UNCHANGED sent),
         \A q \in Request : q # r => Content(messages[q])' = Content(messages[q]),
         \A s \in Session : \/ Content(sessions[s])' = Content(sessions[s])
                            \/ Kept(Content(sessions[s])', Ended \cup {r})
  PROVE  TalkInv'
<1>1. /\ pc \in [Request -> {"idle", "call", "wait", "tools", "store", "end"}]
      /\ sent \in [Request -> Seq(Cell)]
  BY DEF IInv, ControlInv, Control
<1>2. Ended' = Ended \cup {r} /\ Ended \subseteq Ended' BY <1>1 DEF Ended
<1>3. Active' \subseteq Active /\ r \notin Active' BY <1>1 DEF Active
<1>4. ASSUME NEW s \in Session, Content(sessions[s])' # <<>>
      PROVE  Kept(Content(sessions[s])', Ended')
  <2>1. CASE Content(sessions[s])' = Content(sessions[s])
    <3>1. Kept(Content(sessions[s]), Ended) BY <1>4, <2>1 DEF TalkInv
    <3> QED BY <1>2, <2>1, <3>1, MoreEnded
  <2>2. CASE Kept(Content(sessions[s])', Ended \cup {r}) BY <1>2, <2>2
  <2> QED BY <2>1, <2>2
<1>5. ASSUME NEW q \in Active'
      PROVE  Under(Content(messages[q])', q, Ended', pc'[q] = "store")
  <2>1. q \in Active /\ q \in Request /\ q # r /\ pc'[q] = pc[q]
    BY <1>1, <1>3 DEF Active
  <2>2. Under(Content(messages[q]), q, Ended, pc[q] = "store") BY <2>1 DEF TalkInv
  <2>3. Under(Content(messages[q]), q, Ended', pc[q] = "store") BY <1>2, <2>2, MoreEnded
  <2> QED BY <2>1, <2>3
<1>6. ASSUME NEW q \in Request, sent'[q] # <<>>
      PROVE  pc'[q] = "wait" /\ sent'[q] = Content(messages[q])'
  <2>1. q # r /\ sent'[q] = sent[q] /\ pc'[q] = pc[q] BY <1>1, <1>6 DEF TalkInv
  <2> QED BY <1>6, <2>1 DEF TalkInv
<1> QED BY <1>4, <1>5, <1>6 DEF TalkInv

\* What a step of ChatHistory makes of the lists.
LEMMA TalkAsked ==
  ASSUME NEW r \in Request, Lists!Ask(r)
  PROVE  /\ \A s \in Session : Content(sessions[s])' = Content(sessions[s])
         /\ \A q \in Request : q # r => Content(messages[q])' = Content(messages[q])
         /\ Content(messages[r])' =
              Append(IF Content(sessions[SessionOf[r]]) = <<>> THEN <<System>>
                     ELSE Content(sessions[SessionOf[r]]), Said("user", r))
BY ChatAssumption
DEF Lists!Ask, Lists!Remembered, Lists!System, Lists!Said, System, Said

LEMMA TalkKept ==
  ASSUME NEW r \in Request, Lists!Keep(r)
  PROVE  /\ \A s \in Session : s # SessionOf[r] => Content(sessions[s])' = Content(sessions[s])
         /\ Content(sessions[SessionOf[r]])' = Lists!Trimmed(Content(messages[r]))
         /\ \A q \in Request : q # r => Content(messages[q])' = Content(messages[q])
BY ChatAssumption DEF Lists!Keep

\* The question.
LEMMA AskTalks ==
  ASSUME IInv, TalkInv, OnePerSession, NEW r \in Request, Ask(r)
  PROVE  TalkInv'
<1> DEFINE h == IF Content(sessions[SessionOf[r]]) = <<>> THEN <<System>>
                ELSE Content(sessions[SessionOf[r]])
<1>1. /\ pc[r] = "idle" /\ pc' = [pc EXCEPT ![r] = "call"] /\ UNCHANGED sent
  BY DEF Ask
<1>2. Lists!Ask(r) BY IInvTypeOK, AskWorks DEF IInv
<1>3. SessionOf[r] \in Session BY ChatAssumption
<1>4. h = <<System>> \/ Kept(h, Ended) BY <1>3 DEF TalkInv
<1>5. h \in Seq(Cell)
  <2>1. System \in Cell BY DEF Cell, Message
  <2>2. <<System>> \in Seq(Cell) BY <2>1
  <2> QED BY <1>4, <2>2 DEF Kept, Exchanges
<1>6. r \in Request \ Ended /\ Ended \in SUBSET Request BY <1>1 DEF Ended
<1> HIDE DEF h
<1>7. Under(Append(h, Said("user", r)), r, Ended, FALSE) BY <1>4, <1>5, <1>6, UnderBegins
<1>8. Content(messages[r])' = Append(h, Said("user", r)) BY <1>2, TalkAsked DEF h
<1>9. Under(Content(messages[r])', r, Ended, "call" = "store") BY <1>7, <1>8
<1> QED BY <1>1, <1>2, <1>9, TalkAsked, OwnTalk

\* A reply or a tool's result.
LEMMA SayTalks ==
  ASSUME IInv, TalkInv, NEW r \in Request, ReplyCalls(r) \/ ReplyAnswer(r) \/ RunTool(r)
  PROVE  TalkInv'
<1>1. /\ pc \in [Request -> {"idle", "call", "wait", "tools", "store", "end"}]
      /\ TypeOK /\ ListInv
  BY IInvTypeOK DEF IInv, ControlInv, Control
<1>2. pc[r] \in {"wait", "tools"}
  BY DEF ReplyCalls, ReplyAnswer, RunTool
<1>3. r \in Active /\ messages[r] # Nil
  BY <1>1, <1>2 DEF Active, ListInv, Own
<1>4. Under(Content(messages[r]), r, Ended, FALSE)
  <2>1. Under(Content(messages[r]), r, Ended, pc[r] = "store") BY <1>3 DEF TalkInv
  <2>2. pc[r] # "store" BY <1>2
  <2> QED BY <2>1, <2>2
<1>5. ASSUME NEW role \in {"calls", "tool", "answer"},
             NEW at \in {"call", "tools", "store"}, (at = "store") = (role = "answer"),
             pc' = [pc EXCEPT ![r] = at],
             sent' = [sent EXCEPT ![r] = <<>>] \/ (pc[r] # "wait" /\ UNCHANGED sent),
             AppendTo(r, messages[r], Said(role, r)), UNCHANGED sessions
      PROVE  TalkInv'
  <2>1. role \in Spoken BY DEF Spoken
  <2>2. Active' = Active BY <1>1, <1>3, <1>5 DEF Active
  <2>3. /\ \A s \in Session : Content(sessions[s])' = Content(sessions[s])
        /\ \A q \in Request :
             Content(messages[q])' = IF q = r THEN Append(Content(messages[r]), Said(role, r))
                                     ELSE Content(messages[q])
    BY <1>1, <1>3, <1>5, <2>1, <2>2, SayWorks
  <2>4. Under(Append(Content(messages[r]), Said(role, r)), r, Ended, role = "answer")
    BY <1>4, UnderGoesOn
  <2>5. Under(Content(messages[r])', r, Ended, at = "store") BY <1>5, <2>3, <2>4
  <2> QED BY <1>2, <1>5, <2>3, <2>5, OwnTalk
<1>6. CASE ReplyCalls(r)
  BY <1>5, <1>6 DEF ReplyCalls
<1>7. CASE ReplyAnswer(r)
  BY <1>5, <1>7 DEF ReplyAnswer
<1>8. CASE RunTool(r)
  <2>1. CASE pending[r] = 1 BY <1>5, <1>8, <2>1 DEF RunTool
  <2>2. CASE pending[r] # 1 BY <1>5, <1>8, <2>2 DEF RunTool
  <2> QED BY <2>1, <2>2
<1> QED BY <1>6, <1>7, <1>8

\* The exchange becomes history, or is dropped.
LEMMA StoreTalks ==
  ASSUME IInv, TalkInv, NEW r \in Request, Store(r)
  PROVE  TalkInv'
<1> DEFINE c == Content(messages[r])
<1>1. /\ pc[r] = "store" /\ pc' = [pc EXCEPT ![r] = "end"] /\ UNCHANGED sent
  BY DEF Store
<1>2. Lists!Keep(r) BY IInvTypeOK, StoreWorks DEF IInv
<1>3. r \in Active BY <1>1 DEF Active
<1>4. Under(c, r, Ended, TRUE)
  <2>1. Under(c, r, Ended, pc[r] = "store") BY <1>3 DEF TalkInv
  <2> QED BY <1>1, <2>1
<1>5. Kept(c, Ended \cup {r}) BY <1>4, UnderDone
<1>6. Kept(Lists!Trimmed(c), Ended \cup {r})
  <2> HIDE DEF c
  <2>1. CASE Len(c) <= MaxMessages BY <1>5, <2>1 DEF Lists!Trimmed
  <2>2. CASE ~(Len(c) <= MaxMessages)
    <3>1. Lists!Trimmed(c) = TrimmedList(c) BY <2>2 DEF Lists!Trimmed, TrimmedList
    <3>2. Len(c) > MaxMessages
      BY <1>5, <2>2, LenProperties, ChatAssumption DEF Kept, Exchanges
    <3> QED BY <1>5, <3>1, <3>2, KeptTrimmed
  <2> QED BY <2>1, <2>2
<1>7. \A s \in Session : \/ Content(sessions[s])' = Content(sessions[s])
                         \/ Kept(Content(sessions[s])', Ended \cup {r})
  BY <1>2, <1>6, TalkKept
<1> QED BY <1>1, <1>2, <1>7, TalkKept, EndTalk

\* The invariant holds of the lists in every step.
LEMMA TalkStep ==
  ASSUME IInv, TalkInv, OnePerSession, [Next]_vars
  PROVE  TalkInv'
<1>1. TypeOK /\ ListInv BY IInvTypeOK DEF IInv
<1>2. ASSUME NEW r \in Request, Call(r) PROVE TalkInv'
  <2>1. /\ pc[r] = "call" /\ pc' = [pc EXCEPT ![r] = "wait"]
        /\ sent' = [sent EXCEPT ![r] = Content(messages[r])]
        /\ UNCHANGED <<arrays, sessions, messages>>
    BY <1>2 DEF Call
  <2>2. /\ pc \in [Request -> {"idle", "call", "wait", "tools", "store", "end"}]
        /\ sent \in [Request -> Seq(Cell)]
    BY DEF IInv, ControlInv, Control
  <2>3. Ended' = Ended /\ Active' = Active BY <2>1, <2>2 DEF Ended, Active
  <2>4. /\ \A s \in Session : Content(sessions[s])' = Content(sessions[s])
        /\ \A q \in Request : Content(messages[q])' = Content(messages[q])
    BY <2>1 DEF Content
  <2>5. \A q \in Request : (pc'[q] = "store") = (pc[q] = "store") BY <2>1, <2>2
  <2>6. \A q \in Active' : Under(Content(messages[q])', q, Ended', pc'[q] = "store")
    BY <2>3, <2>4, <2>5 DEF TalkInv, Active
  <2>7. \A q \in Request : sent'[q] # <<>> =>
          pc'[q] = "wait" /\ sent'[q] = Content(messages[q])'
    BY <2>1, <2>2, <2>4 DEF TalkInv
  <2> QED BY <2>3, <2>4, <2>6, <2>7 DEF TalkInv
<1>3. ASSUME NEW r \in Request, Fail(r) PROVE TalkInv'
  <2>1. /\ pc[r] = "wait" /\ pc' = [pc EXCEPT ![r] = "end"]
        /\ sent' = [sent EXCEPT ![r] = <<>>]
        /\ messages' = [messages EXCEPT ![r] = Nil]
        /\ UNCHANGED <<arrays, sessions>>
    BY <1>3 DEF Fail
  <2>2. \A q \in Request : q # r => messages'[q] = messages[q]
    BY <1>1, <2>1 DEF ListInv, SlicesTyped
  <2>3. /\ \A s \in Session : Content(sessions[s])' = Content(sessions[s])
        /\ \A q \in Request : q # r => Content(messages[q])' = Content(messages[q])
    BY <2>1, <2>2 DEF Content
  <2> QED BY <2>1, <2>3, EndTalk
<1>4. ASSUME NEW s \in Session, ClearSession(s) PROVE TalkInv'
  <2>1. /\ UNCHANGED <<arrays, messages, pc, sent>>
        /\ \A u \in Session : sessions'[u] \in {sessions[u], Nil}
    BY <1>1, <1>4 DEF ClearSession, ListInv, SlicesTyped
  <2>2. /\ \A u \in Session : \/ Content(sessions[u])' = Content(sessions[u])
                              \/ Content(sessions[u])' = <<>>
        /\ \A q \in Request : Content(messages[q])' = Content(messages[q])
    BY <2>1 DEF Content
  <2>3. Ended' = Ended /\ Active' = Active BY <2>1 DEF Ended, Active
  <2> QED BY <2>1, <2>2, <2>3 DEF TalkInv, Active
<1>5. CASE Restart
  <2>1. /\ sessions' = [s \in Session |-> Nil]
        /\ sent' = [r \in Request |-> <<>>]
        /\ pc' = [r \in Request |-> IF r \in Active THEN "end" ELSE pc[r]]
    BY <1>5 DEF Restart
  <2>2. Active' = {} BY <2>1 DEF Active
  <2>3. \A s \in Session : Content(sessions[s])' = <<>> BY <2>1 DEF Content
  <2> QED BY <2>1, <2>2, <2>3 DEF TalkInv
<1>6. CASE UNCHANGED vars
  <2>1. /\ \A s \in Session : Content(sessions[s])' = Content(sessions[s])
        /\ \A q \in Request : Content(messages[q])' = Content(messages[q])
        /\ UNCHANGED <<pc, sent>>
    BY <1>6 DEF vars, Content
  <2>2. Ended' = Ended /\ Active' = Active BY <2>1 DEF Ended, Active
  <2> QED BY <2>1, <2>2 DEF TalkInv, Active
<1> QED
  BY <1>2, <1>3, <1>4, <1>5, <1>6, AskTalks, SayTalks, StoreTalks DEF Next, Go

LEMMA TalkInit ==
  ASSUME Init
  PROVE  TalkInv
<1>1. Active = {} BY DEF Init, Active
<1>2. \A s \in Session : Content(sessions[s]) = <<>> BY DEF Init, Content
<1> QED BY <1>1, <1>2 DEF Init, TalkInv

LEMMA TalkInvariant ==
  ASSUME OnePerSession
  PROVE  Spec => [](IInv /\ TalkInv)
<1>1. Init => IInv /\ TalkInv BY InitWorks, TalkInit
<1>2. IInv /\ TalkInv /\ [Next]_vars => IInv' /\ TalkInv' BY Inductive, TalkStep
<1> QED BY <1>1, <1>2, PTL DEF Spec

\* The model is asked a request's own question once, behind the history and
\* before nothing but what the request has said since, though the cells are
\* shared with the history and written over by later appends
\* (AsksItsOwnQuestion; ChatHandler.Chat, chat.go:48-101).
THEOREM OwnQuestionAsked ==
  ASSUME OnePerSession
  PROVE  Spec => []AsksItsOwnQuestion
<1>1. ASSUME IInv, TalkInv PROVE AsksItsOwnQuestion
  <2> SUFFICES ASSUME NEW r \in Request, sent[r] # <<>>
               PROVE  \E i \in 1..Len(sent[r]) :
                        /\ sent[r][i] = Said("user", r)
                        /\ \A j \in 1..(i - 1) : sent[r][j] = System \/ sent[r][j].of # r
                        /\ \A j \in (i + 1)..Len(sent[r]) :
                             sent[r][j] \in {Said("calls", r), Said("tool", r)}
    BY DEF AsksItsOwnQuestion
  <2>1. pc[r] = "wait" /\ sent[r] = Content(messages[r]) BY <1>1 DEF TalkInv
  <2>2. Under(sent[r], r, Ended, FALSE)
    <3>1. Under(sent[r], r, Ended, pc[r] = "store") BY <1>1, <2>1 DEF TalkInv, Active
    <3> QED BY <2>1, <3>1
  <2>3. Len(sent[r]) \in Nat /\ sent[r][1] = System
    BY <2>2, LenProperties DEF Under, Exchanges
  <2>4. PICK p \in 2..Len(sent[r]) : Asked(sent[r], r, FALSE, p) BY <2>2 DEF Under
  <2>5. \A j \in 1..(p - 1) : sent[r][j] = System \/ sent[r][j].of # r
    BY <2>3, <2>4 DEF Asked
  <2> QED BY <2>3, <2>4, <2>5 DEF Asked
<1> QED BY <1>1, TalkInvariant, PTL

\* A history is the system prompt and whole exchanges, whatever calls failed,
\* were trimmed away or were cleared in between (HistoriesAreWhole; Chat's
\* error returns and store, trimHistory, chat.go:62-75, 103-108).
THEOREM HistoriesWhole ==
  ASSUME OnePerSession
  PROVE  Spec => []HistoriesAreWhole
<1>1. ASSUME IInv, TalkInv PROVE HistoriesAreWhole
  <2> SUFFICES ASSUME NEW s \in Session, sessions[s] # Nil
               PROVE  Whole(Content(sessions[s]))
    BY DEF HistoriesAreWhole
  <2>1. Content(sessions[s]) # <<>>
    <3>1. sessions[s] \in SliceOf(arrays) /\ Fits(arrays, sessions[s])
      BY <1>1 DEF IInv, ListInv, Own, SlicesTyped, Slice, SliceOf
    <3>2. Len(Cells(arrays, sessions[s])) # 0
      BY <1>1, <3>1, CellsType DEF IInv, ListInv, SlicesTyped
    <3>3. Content(sessions[s]) = Cells(arrays, sessions[s]) BY DEF Content, Cells
    <3> QED BY <3>2, <3>3
  <2> QED BY <1>1, <2>1 DEF TalkInv, Kept, Exchanges, Chained, Whole
<1> QED BY <1>1, TalkInvariant, PTL
=============================================================================
