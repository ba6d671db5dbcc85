--------------------------- MODULE BitSlicerProofs ----------------------------
(***************************************************************************)
(* The bit-slicer transposes every column of every size up to 64 words of  *)
(* 64 bits, although its stages work in place.                             *)
(***************************************************************************)
EXTENDS BitSlicer, TLAPS

Strides == {1, 2, 4, 8, 16, 32}

\* x with its place in its group of s replaced by that of y: a word arranged
\* in squares of size s has bit y of word x from bit Corner(x, y, s) of word
\* Corner(y, x, s).
Corner(x, y, s) == (x \div s) * s + (y % s)

LEMMA ArrangedCorner ==
    \A r, s : Arranged(r, s) =
        {b \in Index : Corner(r, b, s) \in in[Corner(b, r, s)]}
  BY DEF Arranged, Corner

-----------------------------------------------------------------------------
(* Arithmetic of the strides.  Each fact is linear for a given stride.     *)

Low(x, s) == x % (2 * s) < s

LEMMA SameHalf ==
    ASSUME NEW s \in Strides, NEW x \in Nat, NEW y \in Nat,
           Low(x, s) <=> Low(y, s)
    PROVE  Corner(x, y, s) = Corner(x, y, 2 * s)
  <1>1. CASE s = 1
    BY <1>1 DEF Low, Corner
  <1>2. CASE s = 2
    BY <1>2 DEF Low, Corner
  <1>3. CASE s = 4
    BY <1>3 DEF Low, Corner
  <1>4. CASE s = 8
    BY <1>4 DEF Low, Corner
  <1>5. CASE s = 16
    BY <1>5 DEF Low, Corner
  <1>6. CASE s = 32
    BY <1>6 DEF Low, Corner
  <1> QED
    BY <1>1, <1>2, <1>3, <1>4, <1>5, <1>6 DEF Strides

LEMMA OtherHalf ==
    ASSUME NEW s \in Strides, NEW x \in Nat, NEW y \in Nat,
           Low(x, s), Low(y, s)
    PROVE  /\ Corner(x, y + s, s) = Corner(x + s, y, 2 * s)
           /\ Corner(x + s, y, s) = Corner(x, y + s, 2 * s)
  <1>1. CASE s = 1
    BY <1>1 DEF Low, Corner
  <1>2. CASE s = 2
    BY <1>2 DEF Low, Corner
  <1>3. CASE s = 4
    BY <1>3 DEF Low, Corner
  <1>4. CASE s = 8
    BY <1>4 DEF Low, Corner
  <1>5. CASE s = 16
    BY <1>5 DEF Low, Corner
  <1>6. CASE s = 32
    BY <1>6 DEF Low, Corner
  <1> QED
    BY <1>1, <1>2, <1>3, <1>4, <1>5, <1>6 DEF Strides

\* Halves alternate.
LEMMA Halves ==
    ASSUME NEW s \in Strides, NEW x \in Nat
    PROVE  /\ s \in Nat /\ s >= 1
           /\ Low(x, s) => ~Low(x + s, s)
           /\ ~Low(x, s) => x >= s /\ Low(x - s, s)
  <1>1. CASE s = 1
    BY <1>1 DEF Low
  <1>2. CASE s = 2
    BY <1>2 DEF Low
  <1>3. CASE s = 4
    BY <1>3 DEF Low
  <1>4. CASE s = 8
    BY <1>4 DEF Low
  <1>5. CASE s = 16
    BY <1>5 DEF Low
  <1>6. CASE s = 32
    BY <1>6 DEF Low
  <1> QED
    BY <1>1, <1>2, <1>3, <1>4, <1>5, <1>6 DEF Strides

\* The size is a multiple of every group that fits.
LEMMA Multiple ==
    ASSUME NEW s \in Strides, 2 * s <= N
    PROVE  N \in Nat /\ N % (2 * s) = 0
  BY SizeAssumption DEF Strides

LEMMA ZeroLow == \A s \in Strides : Low(0, s)
  BY DEF Low, Strides

\* The upper word of a pair is there.
LEMMA LowFits ==
    ASSUME NEW s \in Strides, NEW n \in Nat, n % (2 * s) = 0,
           NEW x \in 0 .. n - 1, Low(x, s)
    PROVE  x + s < n
  <1>1. CASE s = 1
    BY <1>1 DEF Low
  <1>2. CASE s = 2
    BY <1>2 DEF Low
  <1>3. CASE s = 4
    BY <1>3 DEF Low
  <1>4. CASE s = 8
    BY <1>4 DEF Low
  <1>5. CASE s = 16
    BY <1>5 DEF Low
  <1>6. CASE s = 32
    BY <1>6 DEF Low
  <1> QED
    BY <1>1, <1>2, <1>3, <1>4, <1>5, <1>6 DEF Strides

\* The loop counter walks over the lower words.
LEMMA NextLow ==
    ASSUME NEW s \in Strides, NEW n \in Nat, n % (2 * s) = 0,
           NEW x \in 0 .. n - 1, Low(x, s),
           NEW y, y = IF (x + 1) % (2 * s) = s THEN x + 1 + s ELSE x + 1
    PROVE  /\ y \in 0 .. n /\ (y < n => Low(y, s))
           /\ \A r \in Nat : Low(r, s) => (r < y <=> r < x \/ r = x)
  <1>1. CASE s = 1
    BY <1>1 DEF Low
  <1>2. CASE s = 2
    BY <1>2 DEF Low
  <1>3. CASE s = 4
    BY <1>3 DEF Low
  <1>4. CASE s = 8
    BY <1>4 DEF Low
  <1>5. CASE s = 16
    BY <1>5 DEF Low
  <1>6. CASE s = 32
    BY <1>6 DEF Low
  <1> QED
    BY <1>1, <1>2, <1>3, <1>4, <1>5, <1>6 DEF Strides

-----------------------------------------------------------------------------
(* One butterfly.                                                          *)

PosInv ==
    /\ stride \in Strides \cup {0}
    /\ stride > 0 => 2 * stride <= N
    /\ k \in 0 .. N
    /\ stride > 0 /\ k < N => Low(k, stride)

TypeInv == TypeOK /\ PosInv

LEMMA InLowHalf ==
    \A b \in Index : b \in LowHalf <=> Low(b, stride)
  BY DEF LowHalf, Low

\* What a butterfly makes of its two words.
LEMMA ButterflyWords ==
    ASSUME TypeInv, Butterfly
    PROVE  /\ k + stride \in Index /\ k \in Index /\ k # k + stride
           /\ A' \in [Index -> SUBSET Index]
           /\ A'[k] = Xor(A[k], ShiftLeft(Delta))
           /\ A'[k + stride] = Xor(A[k + stride], Delta)
           /\ \A r \in Index \ {k, k + stride} : A'[r] = A[r]
  <1>1. stride \in Strides /\ stride \in Nat /\ stride >= 1
    BY Halves DEF TypeInv, PosInv, Butterfly, Strides
  <1>2. N \in Nat /\ N % (2 * stride) = 0
    BY <1>1, Multiple DEF TypeInv, PosInv
  <1>3. k \in 0 .. N - 1 /\ k \in Nat /\ Low(k, stride)
    BY <1>1, <1>2 DEF TypeInv, PosInv, Butterfly
  <1>4. k + stride < N
    BY <1>1, <1>2, <1>3, LowFits
  <1>5. k + stride \in Index /\ k \in Index /\ k # k + stride
    BY <1>1, <1>2, <1>3, <1>4 DEF Index
  <1>6. A \in [Index -> SUBSET Index]
    BY DEF TypeInv, TypeOK
  <1>7. Delta \subseteq Index
    BY DEF Delta, LowHalf
  <1>8. ShiftLeft(Delta) \subseteq Index
    BY <1>1, <1>2, <1>7 DEF ShiftLeft, Index
  <1>9. /\ Xor(A[k], ShiftLeft(Delta)) \in SUBSET Index
        /\ Xor(A[k + stride], Delta) \in SUBSET Index
    BY <1>5, <1>6, <1>7, <1>8 DEF Xor
  <1>10. PICK p, q : /\ p = Xor(A[k], ShiftLeft(Delta))
                     /\ q = Xor(A[k + stride], Delta)
    OBVIOUS
  <1>11. A' = [A EXCEPT ![k] = p, ![k + stride] = q]
    BY <1>5, <1>6, <1>10 DEF Butterfly
  <1> QED
    BY <1>5, <1>6, <1>9, <1>10, <1>11

\* Bit by bit: a bit of the lower word's low half and one of the upper word's
\* high half stay, the other two change places.
LEMMA ButterflyBits ==
    ASSUME TypeInv, Butterfly, NEW b \in Index
    PROVE  /\ Low(b, stride) => /\ b + stride \in Index
                                /\ b \in A'[k] <=> b \in A[k]
                                /\ b \in A'[k + stride] <=> b + stride \in A[k]
           /\ ~Low(b, stride) =>
                  /\ b - stride \in Index
                  /\ b \in A'[k] <=> b - stride \in A[k + stride]
                  /\ b \in A'[k + stride] <=> b \in A[k + stride]
  <1>1. stride \in Strides /\ stride \in Nat /\ stride >= 1
    BY Halves DEF TypeInv, PosInv, Butterfly, Strides
  <1>2. N \in Nat /\ N % (2 * stride) = 0
    BY <1>1, Multiple DEF TypeInv, PosInv
  <1>3. b \in Nat /\ b < N /\ b \in 0 .. N - 1
    BY <1>2 DEF Index
  <1>4. PICK d : d = Delta
    OBVIOUS
  <1>5. A[k] \subseteq Index /\ A[k + stride] \subseteq Index
        /\ A'[k] = Xor(A[k], ShiftLeft(d))
        /\ A'[k + stride] = Xor(A[k + stride], d)
    BY <1>4, ButterflyWords DEF TypeInv, TypeOK
  <1>6. \A c \in Index : c \in ShiftRight(A[k]) <=> c + stride \in A[k]
    BY <1>1, <1>2, <1>5 DEF ShiftRight, Index
  <1>7. \A c \in Index :
            c \in d <=> /\ Low(c, stride)
                        /\ (c + stride \in A[k]) # (c \in A[k + stride])
    BY <1>4, <1>6, InLowHalf DEF Delta, Xor
  <1>8. ShiftLeft(d) = {c + stride : c \in {x \in d : x + stride < N}}
    BY DEF ShiftLeft
  <1>9. d \subseteq Index
    BY <1>4 DEF Delta, LowHalf
  <1>10. ASSUME Low(b, stride)
         PROVE  /\ b + stride \in Index
                /\ b \in A'[k] <=> b \in A[k]
                /\ b \in A'[k + stride] <=> b + stride \in A[k]
    <2>1. b + stride < N
      BY <1>1, <1>2, <1>3, <1>10, LowFits
    <2>2. b + stride \in Index
      BY <1>1, <1>2, <1>3, <2>1 DEF Index
    <2>3. b \notin ShiftLeft(d)
      <3>1. SUFFICES ASSUME NEW c \in d, b = c + stride PROVE FALSE
        BY <1>8
      <3>2. c \in Index /\ Low(c, stride)
        BY <1>7, <1>9
      <3>3. c \in Nat
        BY <1>2, <3>2 DEF Index
      <3> QED
        BY <1>1, <1>10, <3>1, <3>2, <3>3, Halves
    <2> QED
      BY <1>5, <1>7, <1>10, <2>2, <2>3 DEF Xor
  <1>11. ASSUME ~Low(b, stride)
         PROVE  /\ b - stride \in Index
                /\ b \in A'[k] <=> b - stride \in A[k + stride]
                /\ b \in A'[k + stride] <=> b \in A[k + stride]
    <2>1. b >= stride /\ Low(b - stride, stride)
      BY <1>1, <1>3, <1>11, Halves
    <2>2. PICK c : c = b - stride
      OBVIOUS
    <2>3. c \in Index /\ c + stride = b /\ Low(c, stride)
      BY <1>1, <1>2, <1>3, <2>1, <2>2 DEF Index
    <2>4. b \in ShiftLeft(d) <=> c \in d
      <3>1. \A x \in d : x + stride = b => x = c
        BY <1>1, <1>2, <1>3, <1>9, <2>2 DEF Index
      <3> QED
        BY <1>3, <1>8, <2>3, <3>1
    <2>5. b \notin d
      BY <1>7, <1>11
    <2> QED
      BY <1>5, <1>7, <2>2, <2>3, <2>4, <2>5 DEF Xor
  <1> QED
    BY <1>10, <1>11

-----------------------------------------------------------------------------
(* The loop counter and the strides.                                       *)

LEMMA IndexNat ==
    N \in Nat /\ N >= 1 /\ Index \subseteq Nat /\ \A r \in Index : r < N
  BY SizeAssumption DEF Index

LEMMA InitType == Init => TypeInv
  <1> SUFFICES ASSUME Init PROVE TypeInv
    OBVIOUS
  <1>1. stride \in Strides /\ 2 * stride = N
    BY SizeAssumption DEF Init, Strides
  <1>2. 0 % (2 * stride) = 0
    BY <1>1 DEF Strides
  <1>3. Low(k, stride)
    BY <1>1, <1>2 DEF Init, Low, Strides
  <1>4. stride \in 0 .. N \div 2
    BY SizeAssumption DEF Init
  <1>5. PosInv
    BY <1>1, <1>3, IndexNat DEF PosInv, Init
  <1>6. in \in [Index -> SUBSET Index] /\ A = in
    BY ColumnsAssumption DEF Init
  <1> QED
    BY <1>4, <1>5, <1>6 DEF TypeInv, TypeOK, PosInv

LEMMA ButterflyNext ==
    ASSUME TypeInv, Butterfly
    PROVE  /\ k' \in 0 .. N /\ (k' < N => Low(k', stride))
           /\ \A r \in Nat : Low(r, stride) => (r < k' <=> r < k \/ r = k)
  <1>1. stride \in Strides
    BY DEF TypeInv, PosInv, Butterfly
  <1>2. N \in Nat /\ N % (2 * stride) = 0
    BY <1>1, Halves, Multiple DEF TypeInv, PosInv, Butterfly
  <1>3. k \in 0 .. N - 1 /\ Low(k, stride)
    BY <1>2 DEF TypeInv, PosInv, Butterfly
  <1>4. k' = IF (k + 1) % (2 * stride) = stride THEN k + 1 + stride ELSE k + 1
    BY DEF Butterfly, NextWord
  <1> QED
    BY <1>1, <1>2, <1>3, <1>4, NextLow

\* The next stage's stride.
LEMMA HalfStride ==
    ASSUME NEW s \in Strides
    PROVE  \/ s = 1 /\ s \div 2 = 0
           \/ s \div 2 \in Strides /\ s = 2 * (s \div 2)
  BY DEF Strides

LEMMA TypeStep == TypeInv /\ [Next]_vars => TypeInv'
  <1> SUFFICES ASSUME TypeInv, [Next]_vars PROVE TypeInv'
    OBVIOUS
  <1>1. CASE UNCHANGED vars \/ Finished
    BY <1>1 DEF vars, Finished, TypeInv, TypeOK, PosInv, Low
  <1>2. CASE Butterfly
    <2>1. UNCHANGED <<in, stride>>
      BY <1>2 DEF Butterfly
    <2>2. PosInv'
      BY <1>2, <2>1, ButterflyNext DEF TypeInv, PosInv, Low
    <2> QED
      BY <1>2, <2>1, <2>2, ButterflyWords DEF TypeInv, TypeOK, PosInv
  <1>3. CASE NextStage
    <2>1. stride \in Strides /\ stride' = stride \div 2 /\ k' = 0
      BY <1>3 DEF NextStage, TypeInv, PosInv
    <2>2. stride' \in Strides \cup {0} /\ stride' \in Nat /\ stride' <= stride
      BY <2>1, HalfStride DEF Strides
    <2>3. 2 * stride <= N /\ stride \in Nat
      BY <2>1 DEF TypeInv, PosInv, Strides
    <2>4. stride' > 0 => Low(0, stride')
      BY <2>2, ZeroLow
    <2>5. PosInv'
      BY <2>1, <2>2, <2>3, <2>4, IndexNat DEF PosInv, Low
    <2>6. stride' \in 0 .. N \div 2
      BY <2>2, <2>3, SizeAssumption DEF TypeInv, TypeOK
    <2> QED
      BY <1>3, <2>5, <2>6 DEF NextStage, TypeInv, TypeOK, PosInv
  <1> QED
    BY <1>1, <1>2, <1>3 DEF Next

-----------------------------------------------------------------------------
(* The squares.                                                            *)

\* The lower word of a pair gets its squares of the current size.
LEMMA LowerArranged ==
    ASSUME TypeInv, Butterfly, A[k] = Arranged(k, 2 * stride),
           A[k + stride] = Arranged(k + stride, 2 * stride)
    PROVE  A'[k] = Arranged(k, stride)
  <1>1. stride \in Strides /\ Low(k, stride) /\ k \in Nat
    BY IndexNat DEF TypeInv, PosInv, Butterfly
  <1>2. A'[k] \subseteq Index
    BY ButterflyWords
  <1>3. SUFFICES ASSUME NEW b \in Index
                 PROVE  b \in A'[k] <=>
                            Corner(k, b, stride) \in in[Corner(b, k, stride)]
    BY <1>2, ArrangedCorner
  <1>4. b \in Nat
    BY IndexNat
  <1>5. CASE Low(b, stride)
    <2>1. b \in A'[k] <=>
              Corner(k, b, 2 * stride) \in in[Corner(b, k, 2 * stride)]
      BY <1>5, ButterflyBits, ArrangedCorner
    <2> QED
      BY <1>1, <1>4, <1>5, <2>1, SameHalf
  <1>6. CASE ~Low(b, stride)
    <2>1. PICK c : c = b - stride
      OBVIOUS
    <2>2. c \in Index /\ c \in Nat /\ b = c + stride /\ Low(c, stride)
      BY <1>1, <1>4, <1>6, <2>1, ButterflyBits, Halves, IndexNat
    <2>3. b \in A'[k] <=> c \in A[k + stride]
      BY <1>6, <2>1, ButterflyBits
    <2>4. c \in A[k + stride] <=>
              Corner(k + stride, c, 2 * stride)
                  \in in[Corner(c, k + stride, 2 * stride)]
      BY <2>2, ArrangedCorner
    <2>5. /\ Corner(k + stride, c, 2 * stride) = Corner(k, b, stride)
          /\ Corner(c, k + stride, 2 * stride) = Corner(b, k, stride)
      BY <1>1, <2>2, OtherHalf
    <2> QED
      BY <2>3, <2>4, <2>5
  <1> QED
    BY <1>5, <1>6

\* The upper word.
LEMMA UpperArranged ==
    ASSUME TypeInv, Butterfly, A[k] = Arranged(k, 2 * stride),
           A[k + stride] = Arranged(k + stride, 2 * stride)
    PROVE  A'[k + stride] = Arranged(k + stride, stride)
  <1>1. PICK h : h = k + stride
    OBVIOUS
  <1>2. /\ stride \in Strides /\ Low(k, stride) /\ k \in Nat
        /\ h \in Nat /\ ~Low(h, stride)
    BY <1>1, IndexNat, ButterflyWords, Halves DEF TypeInv, PosInv, Butterfly
  <1>3. A'[h] \subseteq Index
    BY <1>1, ButterflyWords
  <1>4. SUFFICES ASSUME NEW b \in Index
                 PROVE  b \in A'[h] <=>
                            Corner(h, b, stride) \in in[Corner(b, h, stride)]
    BY <1>1, <1>3, ArrangedCorner
  <1>5. b \in Nat
    BY IndexNat
  <1>6. CASE ~Low(b, stride)
    <2>1. b \in A'[h] <=>
              Corner(h, b, 2 * stride) \in in[Corner(b, h, 2 * stride)]
      BY <1>1, <1>6, ButterflyBits, ArrangedCorner
    <2> QED
      BY <1>2, <1>5, <1>6, <2>1, SameHalf
  <1>7. CASE Low(b, stride)
    <2>1. b + stride \in Index /\ (b \in A'[h] <=> b + stride \in A[k])
      BY <1>1, <1>7, ButterflyBits
    <2>2. b + stride \in A[k] <=>
              Corner(k, b + stride, 2 * stride)
                  \in in[Corner(b + stride, k, 2 * stride)]
      BY <2>1, ArrangedCorner
    <2>3. /\ Corner(k, b + stride, 2 * stride) = Corner(h, b, stride)
          /\ Corner(b + stride, k, 2 * stride) = Corner(b, h, stride)
      BY <1>1, <1>2, <1>5, <1>7, OtherHalf
    <2> QED
      BY <2>1, <2>2, <2>3
  <1> QED
    BY <1>6, <1>7

LEMMA ButterflyStep ==
    ASSUME TypeInv, HalfTransposed, Butterfly
    PROVE  HalfTransposed'
  <1>1. /\ stride \in Strides /\ stride \in Nat /\ stride > 0
        /\ Low(k, stride) /\ k \in Nat
        /\ UNCHANGED <<in, stride>>
    BY IndexNat, Halves DEF TypeInv, PosInv, Butterfly
  <1>2. PICK i, h : i = k /\ h = k + stride
    OBVIOUS
  <1>3. /\ i \in Index /\ h \in Index /\ i # h
        /\ Low(i, stride) /\ ~Low(h, stride) /\ i \in Nat
        /\ \A r \in Index \ {i, h} : A'[r] = A[r]
    BY <1>1, <1>2, ButterflyWords, Halves
  <1>4. \A r \in Index :
            /\ PairDone(r) <=> IF Low(r, stride) THEN r < i
                               ELSE r - stride < i
            /\ PairDone(r)' <=> IF Low(r, stride) THEN r < k'
                                ELSE r - stride < k'
    BY <1>1, <1>2 DEF PairDone, Low
  <1>5. \A r \in Nat : Low(r, stride) => (r < k' <=> r < i \/ r = i)
    BY <1>2, ButterflyNext
  <1>6. \A r \in Index : ~Low(r, stride) =>
            r - stride \in Nat /\ Low(r - stride, stride)
    BY <1>1, IndexNat, Halves
  <1>7. ~PairDone(i) /\ ~PairDone(h) /\ PairDone(i)' /\ PairDone(h)'
    <2>1. h - stride = i
      BY <1>1, <1>2
    <2> QED
      BY <1>3, <1>4, <1>5, <2>1
  <1>8. \A r \in Index \ {i, h} : PairDone(r)' <=> PairDone(r)
    <2>1. \A r \in Index \ {h} : r - stride # i
      BY <1>1, <1>2, IndexNat
    <2> QED
      BY <1>3, <1>4, <1>5, <1>6, <2>1, IndexNat
  <1>9. \A r \in Index :
            A[r] = Arranged(r, IF PairDone(r) THEN stride ELSE 2 * stride)
    BY <1>1 DEF HalfTransposed
  <1>10. A'[i] = Arranged(i, stride) /\ A'[h] = Arranged(h, stride)
    <2>1. A[k] = Arranged(k, 2 * stride) /\ A[h] = Arranged(h, 2 * stride)
      BY <1>2, <1>3, <1>7, <1>9
    <2> QED
      BY <1>2, <2>1, LowerArranged, UpperArranged
  <1>11. ASSUME NEW r \in Index
         PROVE  A'[r] = Arranged(r, IF PairDone(r)' THEN stride
                                    ELSE 2 * stride)
    <2>1. CASE r \in {i, h}
      BY <1>7, <1>10, <2>1
    <2>2. CASE r \notin {i, h}
      BY <1>3, <1>8, <1>9, <2>2
    <2> QED
      BY <2>1, <2>2
  <1>12. \A r, s : Arranged(r, s)' = Arranged(r, s)
    BY <1>1 DEF Arranged
  <1> QED
    BY <1>1, <1>11, <1>12 DEF HalfTransposed

\* At the end of a stage every pair is done, and none of the next one is.
LEMMA StageStep ==
    ASSUME TypeInv, HalfTransposed, NextStage
    PROVE  HalfTransposed' /\ Transposed'
  <1>1. /\ stride \in Strides /\ stride \in Nat /\ stride > 0
        /\ k = N /\ k' = 0 /\ stride' = stride \div 2
        /\ UNCHANGED <<in, A>>
    BY IndexNat, Halves DEF TypeInv, PosInv, NextStage
  <1>2. \A r \in Index : r \in Nat /\ r < N
    BY IndexNat
  <1>3. \A r \in Index : A[r] = Arranged(r, stride)
    <2>1. \A r \in Index : PairDone(r)
      BY <1>1, <1>2, IndexNat DEF PairDone
    <2> QED
      BY <1>1, <2>1 DEF HalfTransposed
  <1>4. PICK s : s = stride'
    OBVIOUS
  <1>5. CASE s = 0
    <2>1. stride = 1
      BY <1>1, <1>4, <1>5, HalfStride DEF Strides
    <2>2. \A x, y \in Index : Corner(x, y, 1) = x
      BY <1>2 DEF Corner
    <2>3. \A r \in Index : Arranged(r, 1) = {b \in Index : r \in in[b]}
      BY <2>2, ArrangedCorner
    <2> QED
      BY <1>1, <1>3, <1>4, <1>5, <2>1, <2>3 DEF HalfTransposed, Transposed
  <1>6. CASE s # 0
    <2>1. s \in Strides /\ stride = 2 * s
      BY <1>1, <1>4, <1>6, HalfStride
    <2>2. s \in Nat /\ s >= 1 /\ \A r \in Nat : ~Low(r, s) => r >= s
      BY <2>1, Halves
    <2>3. \A r \in Index : ~PairDone(r)'
      BY <1>1, <1>2, <1>4, <2>2 DEF PairDone, Low
    <2>4. \A r \in Index : A'[r] = Arranged(r, 2 * s)'
      BY <1>1, <1>3, <2>1 DEF Arranged
    <2> QED
      BY <1>4, <1>6, <2>3, <2>4 DEF HalfTransposed, Transposed
  <1> QED
    BY <1>5, <1>6

LEMMA InitArranged == Init => HalfTransposed /\ Transposed
  <1> SUFFICES ASSUME Init PROVE HalfTransposed /\ Transposed
    OBVIOUS
  <1>1. stride \in Strides /\ 2 * stride = N /\ k = 0 /\ A = in
    BY SizeAssumption DEF Init, Strides
  <1>2. stride \in Nat /\ stride >= 1 /\ \A r \in Nat :
            ~Low(r, stride) => r >= stride
    BY <1>1, Halves
  <1>3. \A r \in Index : ~PairDone(r)
    BY <1>1, <1>2, IndexNat DEF PairDone, Low
  <1>4. \A x, y \in Index : Corner(x, y, N) = y
    <2>1. \A x \in Index : x \div N = 0 /\ x % N = x
      BY SizeAssumption DEF Index
    <2> QED
      BY <2>1, IndexNat DEF Corner
  <1>5. in \in [Index -> SUBSET Index]
    BY ColumnsAssumption DEF Init
  <1>6. \A r \in Index : A[r] = Arranged(r, N)
    BY <1>1, <1>4, <1>5, ArrangedCorner
  <1> QED
    BY <1>1, <1>2, <1>3, <1>6 DEF HalfTransposed, Transposed

-----------------------------------------------------------------------------
(* The inductive invariant: the types, the lower words the counter visits, *)
(* and the squares.                                                        *)

IInv == TypeInv /\ HalfTransposed /\ Transposed

\* The inductive invariant holds after every butterfly of every call of slice
\* (bit_slicer.cpp:25-140).
THEOREM Invariance == Spec => []IInv
  <1>1. Init => IInv
    BY InitType, InitArranged DEF IInv
  <1>2. IInv /\ [Next]_vars => IInv'
    <2> SUFFICES ASSUME IInv, [Next]_vars PROVE IInv'
      OBVIOUS
    <2>1. TypeInv'
      BY TypeStep DEF IInv
    <2>2. CASE UNCHANGED vars \/ Finished
      BY <2>1, <2>2 DEF IInv, vars, Finished, HalfTransposed, Transposed,
                        PairDone, Arranged
    <2>3. CASE Butterfly
      <3>1. Transposed'
        BY <2>3 DEF Butterfly, Transposed
      <3> QED
        BY <2>1, <2>3, <3>1, ButterflyStep DEF IInv
    <2>4. CASE NextStage
      BY <2>1, <2>4, StageStep DEF IInv
    <2> QED
      BY <2>2, <2>3, <2>4 DEF Next
  <1> QED
    BY <1>1, <1>2, PTL DEF Spec

\* Every butterfly reads and writes words of the buffer
\* (bit_slicer.cpp:25-131).
THEOREM TypeCorrect == Spec => []TypeOK
  <1>1. IInv => TypeOK
    BY DEF IInv, TypeInv
  <1> QED
    BY <1>1, Invariance, PTL

\* Whatever the column: no butterfly reads a word its own stage has replaced
\* (bit_slicer.cpp:25-131).
THEOREM StagesInPlace == Spec => []HalfTransposed
  <1>1. IInv => HalfTransposed
    BY DEF IInv
  <1> QED
    BY <1>1, Invariance, PTL

\* Whatever the column, with 64 words of 64 bits as in the code or fewer: what
\* slice leaves is the transpose (bit_slicer.cpp:133-140).
THEOREM SliceTransposes == Spec => []Transposed
  <1>1. IInv => Transposed
    BY DEF IInv
  <1> QED
    BY <1>1, Invariance, PTL

=============================================================================
