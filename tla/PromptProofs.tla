---------------------------- MODULE PromptProofs ----------------------------
(***************************************************************************)
(* Theorems about Prompt, for every length of the buffer, every history    *)
(* and whatever memory holds that nobody has written.                      *)
(***************************************************************************)
EXTENDS Prompt, SequenceTheorems, WellFoundedInduction, TLAPS

\* No byte of the line is a 0, so that no string of the buffer ends in it.
NoNul == \A i \in 1 .. size : buf[i] # NUL

\* The buffer of a shell that was given zeros still has them behind all the
\* bytes that may have been moved there, one for each put into it at most.
HighWater ==
  zeroed => \A i \in 1 .. Capacity : i > written => buf[i] = NUL

\* No byte of the line that was saved is a 0 either.
CommandNoNul == \A i \in 1 .. Len(command) : command[i] # NUL

PromptInv == TypeOK /\ NoNul /\ CommandNoNul /\ HighWater /\ LineIsTerminated /\ StaysInBuffer

-----------------------------------------------------------------------------
(* What the string functions do to each byte.                              *)

\* Every nonempty set of positions has a first one.
LEMMA FirstOne ==
  ASSUME NEW S \in SUBSET Nat, S # {}
  PROVE  \E m \in S : \A k \in S : m <= k
<1>1. IsWellFoundedOn(OpToRel(<, Nat), Nat)
  BY NatLessThanWellFounded
<1>2. \E m \in S : \A k \in S : <<k, m>> \notin OpToRel(<, Nat)
  BY <1>1, WFMin
<1>3. \E m \in S : \A k \in S : ~ (k < m)
  BY <1>2 DEF OpToRel
<1> QED
  BY <1>3

\* Where strlen() finds the end of a string.
LEMMA LengthEnds ==
  ASSUME NEW b \in Seq(Bytes)
  PROVE  /\ LengthOf(b) \in 0 .. Len(b)
         /\ \A i \in 1 .. LengthOf(b) : b[i] # NUL
         /\ LengthOf(b) < Len(b) => b[LengthOf(b) + 1] = NUL
<1> DEFINE ends == {i \in 1 .. Len(b) : b[i] = NUL}
<1>1. Len(b) \in Nat
  BY LenProperties
<1>2. CASE ends = {}
  BY <1>1, <1>2 DEF LengthOf
<1>3. CASE ends # {}
  <2>1. \E i \in ends : \A j \in ends : i <= j
    <3>1. ends \in SUBSET Nat
      BY <1>1
    <3> HIDE DEF ends
    <3> QED
      BY <1>3, <3>1, FirstOne
  <2> DEFINE m == CHOOSE i \in ends : \A j \in ends : i <= j
  <2>2. m \in ends /\ (\A j \in ends : m <= j) /\ LengthOf(b) = m - 1
    <3>1. m \in ends /\ \A j \in ends : m <= j
      BY <2>1
    <3>2. LengthOf(b) = m - 1
      BY <1>3 DEF LengthOf
    <3> QED
      BY <3>1, <3>2
  <2> HIDE DEF m
  <2>3. m \in 1 .. Len(b) /\ b[m] = NUL
    BY <2>2
  <2>4. \A i \in 1 .. m - 1 : b[i] # NUL
    BY <1>1, <2>2, <2>3
  <2> QED
    BY <1>1, <2>2, <2>3, <2>4
<1> QED
  BY <1>2, <1>3

\* A string without a 0 in its first bytes does not end there.
LEMMA LengthBeyond ==
  ASSUME NEW b \in Seq(Bytes), NEW n \in Nat, n <= Len(b), \A i \in 1 .. n : b[i] # NUL
  PROVE  n <= LengthOf(b)
<1>1. PICK k \in Nat, m \in Nat : k = LengthOf(b) /\ m = Len(b) /\ k <= m
  BY LengthEnds, LenProperties
<1>2. k < m => b[k + 1] = NUL
  BY <1>1, LengthEnds
<1>3. ASSUME k < n
      PROVE  FALSE
  <2>1. k < m /\ k + 1 \in 1 .. n
    BY <1>1, <1>3
  <2> QED
    BY <1>2, <2>1
<1> QED
  BY <1>1, <1>3

\* If the first 0 is behind the first n bytes, it is the end.
LEMMA LengthIs ==
  ASSUME NEW b \in Seq(Bytes), NEW n \in Nat, n < Len(b),
         \A i \in 1 .. n : b[i] # NUL, b[n + 1] = NUL
  PROVE  LengthOf(b) = n
<1>1. PICK k \in Nat, m \in Nat : k = LengthOf(b) /\ m = Len(b) /\ k <= m
  BY LengthEnds, LenProperties
<1>2. n <= k
  BY <1>1, LengthBeyond
<1>3. \A i \in 1 .. k : b[i] # NUL
  BY <1>1, LengthEnds
<1>4. ~ (n + 1 \in 1 .. k)
  BY <1>3
<1> QED
  BY <1>1, <1>2, <1>4

\* Where the string ends that a buffer without a 0 in its line holds.
LEMMA StrLenEnds ==
  ASSUME TypeOK, NoNul
  PROVE  /\ StrLen \in size .. Capacity
         /\ \A i \in 1 .. StrLen : buf[i] # NUL
         /\ StrLen < Capacity => buf[StrLen + 1] = NUL
<1>1. buf \in Seq(Bytes) /\ Capacity = Len(buf) /\ Capacity \in Nat /\ size \in 0 .. Capacity
  BY LenProperties DEF TypeOK, Capacity
<1>2. PICK k : k = LengthOf(buf)
  OBVIOUS
<1>3. /\ k \in 0 .. Capacity /\ \A i \in 1 .. k : buf[i] # NUL
      /\ k < Capacity => buf[k + 1] = NUL
  BY <1>1, <1>2, LengthEnds
<1>4. size <= k
  BY <1>1, <1>2, LengthBeyond DEF NoNul
<1> QED
  BY <1>1, <1>2, <1>3, <1>4 DEF StrLen

\* What is cut off, and what is not.
LEMMA CutBytes ==
  ASSUME NEW S, NEW s \in Seq(S), NEW n \in Nat
  PROVE  /\ Cut(s, n) \in Seq(S) /\ Len(Cut(s, n)) \in Nat
         /\ Len(Cut(s, n)) = IF Len(s) <= n THEN Len(s) ELSE n
         /\ \A i \in 1 .. Len(Cut(s, n)) : Cut(s, n)[i] = s[i]
<1>1. PICK l \in Nat : l = Len(s)
  BY LenProperties
<1>2. CASE l <= n
  BY <1>1, <1>2 DEF Cut
<1>3. CASE ~ (l <= n)
  <2>1. \A i \in 1 .. n : s[i] \in S
    BY <1>1, <1>3, ElementOfSeq
  <2>2. PICK t : t = SubSeq(s, 1, n)
    OBVIOUS
  <2>3. t \in Seq(S) /\ Len(t) = n /\ \A i \in 1 .. n : t[i] = s[i]
    BY <2>1, <2>2, SubSeqProperties
  <2>4. Cut(s, n) = t
    BY <1>1, <1>3, <2>2 DEF Cut
  <2> QED
    BY <1>1, <1>3, <2>3, <2>4
<1> QED
  BY <1>2, <1>3

LEMMA ConcatBytes ==
  ASSUME NEW s \in Seq(Bytes), NEW t \in Seq(Bytes)
  PROVE  /\ s \o t \in Seq(Bytes) /\ Len(s \o t) = Len(s) + Len(t)
         /\ \A i \in 1 .. Len(s) : (s \o t)[i] = s[i]
         /\ \A i \in Len(s) + 1 .. Len(s) + Len(t) : (s \o t)[i] = t[i - Len(s)]
<1>1. Len(s) \in Nat /\ Len(t) \in Nat
  BY LenProperties
<1>2. /\ s \o t \in Seq(Bytes) /\ Len(s \o t) = Len(s) + Len(t)
      /\ \A i \in 1 .. Len(s) + Len(t) :
           (s \o t)[i] = IF i <= Len(s) THEN s[i] ELSE t[i - Len(s)]
  BY ConcatProperties
<1> QED
  BY <1>1, <1>2

LEMMA PartBytes ==
  ASSUME NEW s \in Seq(Bytes), NEW m \in Nat \ {0}, NEW n \in Nat, m <= n + 1, n <= Len(s)
  PROVE  /\ SubSeq(s, m, n) \in Seq(Bytes) /\ Len(SubSeq(s, m, n)) = n + 1 - m
         /\ \A i \in 1 .. n + 1 - m : SubSeq(s, m, n)[i] = s[m + i - 1]
<1>1. Len(s) \in Nat
  BY LenProperties
<1>2. \A i \in m .. n : s[i] \in Bytes
  BY <1>1, ElementOfSeq
<1> QED
  BY <1>2, SubSeqProperties

LEMMA CopiedBytes ==
  ASSUME NEW s \in Seq(Bytes), NEW b \in Seq(Bytes), Len(s) <= Len(b)
  PROVE  /\ Copied(s, b) \in Seq(Bytes) /\ Len(Copied(s, b)) = Len(b)
         /\ \A i \in 1 .. Len(s) : Copied(s, b)[i] = s[i]
         /\ \A i \in Len(s) + 1 .. Len(b) : Copied(s, b)[i] = b[i]
<1>1. PICK n \in Nat, m \in Nat : n = Len(s) /\ m = Len(b)
  BY LenProperties
<1>2. PICK k \in Nat \ {0} : k = n + 1
  OBVIOUS
<1>3. PICK t : t = SubSeq(b, k, m)
  OBVIOUS
<1>4. t \in Seq(Bytes) /\ Len(t) = m - n /\ \A i \in 1 .. m - n : t[i] = b[n + i]
  <2>1. k <= m + 1 /\ m <= Len(b)
    BY <1>1, <1>2
  <2>2. t \in Seq(Bytes) /\ Len(t) = m + 1 - k /\ \A i \in 1 .. m + 1 - k : t[i] = b[k + i - 1]
    BY <1>3, <2>1, PartBytes
  <2> QED
    BY <1>2, <2>2
<1>5. Copied(s, b) = s \o t
  BY <1>1, <1>2, <1>3 DEF Copied
<1>6. /\ s \o t \in Seq(Bytes) /\ Len(s \o t) = m
      /\ \A i \in 1 .. n : (s \o t)[i] = s[i]
      /\ \A i \in n + 1 .. m : (s \o t)[i] = t[i - n]
  BY <1>1, <1>4, ConcatBytes
<1> QED
  BY <1>1, <1>4, <1>5, <1>6

LEMMA InsertBytes ==
  ASSUME NEW s \in Seq(Bytes), NEW k \in 1 .. Len(s) + 1, NEW c \in Bytes
  PROVE  /\ InsertAt(s, k, c) \in Seq(Bytes) /\ Len(InsertAt(s, k, c)) = Len(s) + 1
         /\ \A i \in 1 .. k - 1 : InsertAt(s, k, c)[i] = s[i]
         /\ InsertAt(s, k, c)[k] = c
         /\ \A i \in k + 1 .. Len(s) + 1 : InsertAt(s, k, c)[i] = s[i - 1]
<1>1. PICK n \in Nat : n = Len(s)
  BY LenProperties
<1>2. k \in Nat \ {0} /\ k <= n + 1
  BY <1>1
<1>3. PICK j \in Nat : j = k - 1
  BY <1>2
<1>4. PICK a, b : a = SubSeq(s, 1, j) /\ b = SubSeq(s, k, n)
  OBVIOUS
<1>5. a \in Seq(Bytes) /\ Len(a) = j /\ \A i \in 1 .. j : a[i] = s[i]
  BY <1>1, <1>2, <1>3, <1>4, PartBytes
<1>6. /\ b \in Seq(Bytes) /\ Len(b) = n + 1 - k
      /\ \A i \in 1 .. n + 1 - k : b[i] = s[k + i - 1]
  BY <1>1, <1>2, <1>4, PartBytes
<1>7. <<c>> \in Seq(Bytes) /\ Len(<<c>>) = 1 /\ <<c>>[1] = c
  OBVIOUS
<1>8. PICK x : x = a \o <<c>>
  OBVIOUS
<1>9. /\ x \in Seq(Bytes) /\ Len(x) = k
      /\ \A i \in 1 .. j : x[i] = s[i]
      /\ x[k] = c
  <2>1. /\ x \in Seq(Bytes) /\ Len(x) = j + 1
        /\ \A i \in 1 .. j : x[i] = a[i]
        /\ \A i \in j + 1 .. j + 1 : x[i] = <<c>>[i - j]
    BY <1>5, <1>7, <1>8, ConcatBytes
  <2>2. x[k] = <<c>>[1]
    <3>1. k \in j + 1 .. j + 1 /\ k - j = 1
      BY <1>2, <1>3
    <3> QED
      BY <2>1, <3>1
  <2> QED
    BY <1>2, <1>3, <1>5, <1>7, <2>1, <2>2
<1>10. PICK r : r = x \o b
  OBVIOUS
<1>11. /\ r \in Seq(Bytes) /\ Len(r) = n + 1
       /\ \A i \in 1 .. k : r[i] = x[i]
       /\ \A i \in k + 1 .. n + 1 : r[i] = b[i - k]
  <2>1. PICK q \in Nat : q = n + 1 - k
    BY <1>2
  <2>2. x \in Seq(Bytes) /\ Len(x) = k /\ b \in Seq(Bytes) /\ Len(b) = q
    BY <1>6, <1>9, <2>1
  <2>3. /\ r \in Seq(Bytes) /\ Len(r) = k + q
        /\ \A i \in 1 .. k : r[i] = x[i]
        /\ \A i \in k + 1 .. k + q : r[i] = b[i - k]
    BY <2>2, <1>10, ConcatBytes
  <2> QED
    BY <1>2, <2>1, <2>3
<1>12. ASSUME NEW i \in k + 1 .. n + 1
       PROVE  r[i] = s[i - 1]
  <2>1. i - k \in 1 .. n + 1 - k /\ k + (i - k) - 1 = i - 1
    BY <1>2
  <2> QED
    BY <1>6, <1>11, <2>1
<1>13. r = InsertAt(s, k, c)
  BY <1>1, <1>3, <1>4, <1>8, <1>10 DEF InsertAt
<1> QED
  BY <1>1, <1>2, <1>3, <1>9, <1>11, <1>12, <1>13

LEMMA RemoveBytes ==
  ASSUME NEW s \in Seq(Bytes), NEW k \in 1 .. Len(s)
  PROVE  /\ RemoveAt(s, k) \in Seq(Bytes) /\ Len(RemoveAt(s, k)) = Len(s) - 1
         /\ \A i \in 1 .. k - 1 : RemoveAt(s, k)[i] = s[i]
         /\ \A i \in k .. Len(s) - 1 : RemoveAt(s, k)[i] = s[i + 1]
<1>1. PICK n \in Nat : n = Len(s)
  BY LenProperties
<1>2. k \in Nat \ {0} /\ k <= n
  BY <1>1
<1>3. PICK j \in Nat, l \in Nat \ {0} : j = k - 1 /\ l = k + 1
  BY <1>2
<1>4. PICK a, b : a = SubSeq(s, 1, j) /\ b = SubSeq(s, l, n)
  OBVIOUS
<1>5. a \in Seq(Bytes) /\ Len(a) = j /\ \A i \in 1 .. j : a[i] = s[i]
  BY <1>1, <1>2, <1>3, <1>4, PartBytes
<1>6. /\ b \in Seq(Bytes) /\ Len(b) = n - k
      /\ \A i \in 1 .. n - k : b[i] = s[k + i]
  <2>1. /\ b \in Seq(Bytes) /\ Len(b) = n + 1 - l
        /\ \A i \in 1 .. n + 1 - l : b[i] = s[l + i - 1]
    BY <1>1, <1>2, <1>3, <1>4, PartBytes
  <2>2. n + 1 - l = n - k /\ \A i \in 1 .. n - k : l + i - 1 = k + i
    BY <1>2, <1>3
  <2> QED
    BY <2>1, <2>2
<1>7. PICK r : r = a \o b
  OBVIOUS
<1>8. /\ r \in Seq(Bytes) /\ Len(r) = n - 1
      /\ \A i \in 1 .. j : r[i] = a[i]
      /\ \A i \in k .. n - 1 : r[i] = b[i - j]
  <2>1. PICK q \in Nat : q = n - k
    BY <1>2
  <2>2. a \in Seq(Bytes) /\ Len(a) = j /\ b \in Seq(Bytes) /\ Len(b) = q
    BY <1>5, <1>6, <2>1
  <2>3. /\ r \in Seq(Bytes) /\ Len(r) = j + q
        /\ \A i \in 1 .. j : r[i] = a[i]
        /\ \A i \in j + 1 .. j + q : r[i] = b[i - j]
    BY <2>2, <1>7, ConcatBytes
  <2>4. j + 1 = k /\ j + q = n - 1
    BY <1>2, <1>3, <2>1
  <2> QED
    BY <2>3, <2>4
<1>9. ASSUME NEW i \in k .. n - 1
      PROVE  r[i] = s[i + 1]
  <2>1. i - j \in 1 .. n - k /\ k + (i - j) = i + 1
    BY <1>2, <1>3
  <2> QED
    BY <1>6, <1>8, <2>1
<1>10. r = RemoveAt(s, k)
  BY <1>1, <1>3, <1>4, <1>7 DEF RemoveAt
<1> QED
  BY <1>1, <1>2, <1>3, <1>5, <1>8, <1>9, <1>10

-----------------------------------------------------------------------------
(* What the actions do to each byte.                                       *)

LEMMA Sizes ==
  ASSUME TypeOK
  PROVE  /\ buf \in Seq(Bytes) /\ Len(buf) = Capacity /\ Capacity \in Nat
         /\ MaxCommandLen \in Nat \ {0, 1} /\ Capacity >= MaxCommandLen
         /\ size \in Nat /\ size <= Capacity /\ cursor \in Nat /\ cursor <= size
BY LenProperties, PromptAssumption DEF TypeOK, Capacity

\* The line and the string that the buffer holds.
LEMMA PrefixBytes ==
  ASSUME TypeOK, NEW n \in Nat, n <= Capacity, NEW r, r = SubSeq(buf, 1, n)
  PROVE  r \in Seq(Bytes) /\ Len(r) = n /\ \A i \in 1 .. n : r[i] = buf[i]
BY Sizes, PartBytes

LEMMA TextBytes ==
  ASSUME TypeOK
  PROVE  Text \in Seq(Bytes) /\ Len(Text) = size /\ \A i \in 1 .. size : Text[i] = buf[i]
<1>1. size \in Nat /\ size <= Capacity
  BY Sizes
<1> QED
  BY <1>1, PrefixBytes DEF Text

\* vstr_insert_c(): what is behind the cursor moves on, up to the first 0.
LEMMA InsertEffect ==
  ASSUME TypeOK, NoNul, cursor # size, StrLen + 2 <= Capacity, NEW c \in Bytes,
         buf' = Copied(InsertAt(SubSeq(buf, 1, StrLen), cursor + 1, c) \o <<NUL>>, buf)
  PROVE  /\ buf' \in Seq(Bytes) /\ Len(buf') = Capacity
         /\ \A i \in 1 .. cursor : buf'[i] = buf[i]
         /\ buf'[cursor + 1] = c
         /\ \A i \in cursor + 2 .. StrLen + 1 : buf'[i] = buf[i - 1]
         /\ buf'[StrLen + 2] = NUL
         /\ \A i \in StrLen + 3 .. Capacity : buf'[i] = buf[i]
<1>1. PICK n \in Nat : n = StrLen
  BY Sizes, StrLenEnds
<1>2. cursor <= size /\ size <= n /\ n + 2 <= Capacity /\ cursor \in Nat /\ size \in Nat
  BY <1>1, Sizes, StrLenEnds
<1>3. PICK s : s = SubSeq(buf, 1, n)
  OBVIOUS
<1>4. s \in Seq(Bytes) /\ Len(s) = n /\ \A i \in 1 .. n : s[i] = buf[i]
  BY <1>2, <1>3, Sizes, PrefixBytes
<1>5. PICK k \in 1 .. n + 1 : k = cursor + 1
  BY <1>2
<1>6. PICK x : x = InsertAt(s, k, c)
  OBVIOUS
<1>7. /\ x \in Seq(Bytes) /\ Len(x) = n + 1
      /\ \A i \in 1 .. k - 1 : x[i] = s[i]
      /\ x[k] = c
      /\ \A i \in k + 1 .. n + 1 : x[i] = s[i - 1]
  BY <1>4, <1>6, InsertBytes, ZenonT(40)
<1>8. <<NUL>> \in Seq(Bytes) /\ Len(<<NUL>>) = 1 /\ <<NUL>>[1] = NUL
  BY DEF Bytes
<1>9. PICK y : y = x \o <<NUL>>
  OBVIOUS
<1>10. /\ y \in Seq(Bytes) /\ Len(y) = n + 2
       /\ \A i \in 1 .. n + 1 : y[i] = x[i]
       /\ y[n + 2] = NUL
  <2>1. /\ y \in Seq(Bytes) /\ Len(y) = n + 2
        /\ \A i \in 1 .. n + 1 : y[i] = x[i]
        /\ \A i \in n + 2 .. n + 2 : y[i] = <<NUL>>[i - (n + 1)]
    BY <1>7, <1>8, <1>9, ConcatBytes
  <2>2. n + 2 \in n + 2 .. n + 2 /\ n + 2 - (n + 1) = 1
    OBVIOUS
  <2> QED
    BY <1>8, <2>1, <2>2
<1>11. /\ buf' \in Seq(Bytes) /\ Len(buf') = Capacity
       /\ \A i \in 1 .. n + 2 : buf'[i] = y[i]
       /\ \A i \in n + 3 .. Capacity : buf'[i] = buf[i]
  <2>1. buf' = Copied(y, buf)
    BY <1>1, <1>3, <1>5, <1>6, <1>9
  <2>2. /\ y \in Seq(Bytes) /\ buf \in Seq(Bytes) /\ Len(y) <= Len(buf)
        /\ Len(y) = n + 2 /\ Len(buf) = Capacity
    BY <1>2, <1>10, Sizes
  <2>3. /\ Copied(y, buf) \in Seq(Bytes) /\ Len(Copied(y, buf)) = Len(buf)
        /\ \A i \in 1 .. Len(y) : Copied(y, buf)[i] = y[i]
        /\ \A i \in Len(y) + 1 .. Len(buf) : Copied(y, buf)[i] = buf[i]
    BY ONLY <2>2, CopiedBytes
  <2> QED
    BY <2>1, <2>2, <2>3
<1>12. \A i \in 1 .. cursor : buf'[i] = buf[i]
  BY <1>2, <1>4, <1>5, <1>7, <1>10, <1>11
<1>13. buf'[cursor + 1] = c
  <2>1. k \in 1 .. n + 1 /\ k \in 1 .. n + 2
    BY <1>5
  <2>2. buf'[k] = y[k] /\ y[k] = x[k]
    BY <1>10, <1>11, <2>1
  <2> QED
    BY <1>5, <1>7, <2>2
<1>14. ASSUME NEW i \in cursor + 2 .. n + 1
       PROVE  buf'[i] = buf[i - 1]
  <2>1. i - 1 \in 1 .. n /\ i \in 1 .. n + 2 /\ i \in 1 .. n + 1 /\ i \in k + 1 .. n + 1
    BY <1>2, <1>5
  <2>2. x[i] = s[i - 1] /\ s[i - 1] = buf[i - 1]
    BY <1>4, <1>7, <2>1
  <2> QED
    BY <1>10, <1>11, <2>1, <2>2
<1>15. buf'[n + 2] = NUL
  BY <1>10, <1>11
<1> QED
  BY <1>1, <1>11, <1>12, <1>13, <1>14, <1>15

\* vstr_remove_idx(): it moves back, up to the first 0 and with it.
LEMMA BackspaceEffect ==
  ASSUME TypeOK, NoNul, cursor > 0, StrLen < Capacity,
         buf' = Copied(RemoveAt(SubSeq(buf, 1, StrLen), cursor) \o <<NUL>>, buf)
  PROVE  /\ buf' \in Seq(Bytes) /\ Len(buf') = Capacity
         /\ \A i \in 1 .. cursor - 1 : buf'[i] = buf[i]
         /\ \A i \in cursor .. StrLen - 1 : buf'[i] = buf[i + 1]
         /\ buf'[StrLen] = NUL
         /\ \A i \in StrLen + 1 .. Capacity : buf'[i] = buf[i]
<1>1. PICK n \in Nat : n = StrLen
  BY Sizes, StrLenEnds
<1>2. cursor <= size /\ size <= n /\ n < Capacity /\ cursor \in Nat /\ size \in Nat
  BY <1>1, Sizes, StrLenEnds
<1>3. PICK s : s = SubSeq(buf, 1, n)
  OBVIOUS
<1>4. s \in Seq(Bytes) /\ Len(s) = n /\ \A i \in 1 .. n : s[i] = buf[i]
  BY <1>2, <1>3, Sizes, PrefixBytes
<1>5. PICK k \in 1 .. n : k = cursor
  BY <1>2
<1>6. PICK x : x = RemoveAt(s, k)
  OBVIOUS
<1>7. /\ x \in Seq(Bytes) /\ Len(x) = n - 1
      /\ \A i \in 1 .. k - 1 : x[i] = s[i]
      /\ \A i \in k .. n - 1 : x[i] = s[i + 1]
  BY <1>4, <1>6, RemoveBytes
<1>8. <<NUL>> \in Seq(Bytes) /\ Len(<<NUL>>) = 1 /\ <<NUL>>[1] = NUL
  BY DEF Bytes
<1>9. PICK y : y = x \o <<NUL>>
  OBVIOUS
<1>10. /\ y \in Seq(Bytes) /\ Len(y) = n
       /\ \A i \in 1 .. n - 1 : y[i] = x[i]
       /\ y[n] = NUL
  <2>1. n - 1 \in Nat
    BY <1>5
  <2>2. /\ y \in Seq(Bytes) /\ Len(y) = n
        /\ \A i \in 1 .. n - 1 : y[i] = x[i]
        /\ \A i \in n .. n : y[i] = <<NUL>>[i - (n - 1)]
    BY <1>7, <1>8, <1>9, <2>1, ConcatBytes
  <2>3. n \in n .. n /\ n - (n - 1) = 1
    OBVIOUS
  <2> QED
    BY <1>8, <2>2, <2>3
<1>11. /\ buf' \in Seq(Bytes) /\ Len(buf') = Capacity
       /\ \A i \in 1 .. n : buf'[i] = y[i]
       /\ \A i \in n + 1 .. Capacity : buf'[i] = buf[i]
  <2>1. buf' = Copied(y, buf)
    BY <1>1, <1>3, <1>5, <1>6, <1>9
  <2>2. /\ y \in Seq(Bytes) /\ buf \in Seq(Bytes) /\ Len(y) <= Len(buf)
        /\ Len(y) = n /\ Len(buf) = Capacity
    BY <1>2, <1>10, Sizes
  <2>3. /\ buf' \in Seq(Bytes) /\ Len(buf') = Len(buf)
        /\ \A i \in 1 .. Len(y) : buf'[i] = y[i]
        /\ \A i \in Len(y) + 1 .. Len(buf) : buf'[i] = buf[i]
    <3>1. /\ Copied(y, buf) \in Seq(Bytes) /\ Len(Copied(y, buf)) = Len(buf)
          /\ \A i \in 1 .. Len(y) : Copied(y, buf)[i] = y[i]
          /\ \A i \in Len(y) + 1 .. Len(buf) : Copied(y, buf)[i] = buf[i]
      BY ONLY <2>2, CopiedBytes
    <3> QED
      BY <2>1, <3>1
  <2> QED
    BY <2>2, <2>3
<1>12. ASSUME NEW i \in 1 .. cursor - 1
       PROVE  buf'[i] = buf[i]
  <2>1. i \in 1 .. n /\ i \in 1 .. n - 1 /\ i \in 1 .. k - 1
    BY <1>2, <1>5
  <2> QED
    BY <1>4, <1>7, <1>10, <1>11, <2>1
<1>13. ASSUME NEW i \in cursor .. n - 1
       PROVE  buf'[i] = buf[i + 1]
  <2>1. i + 1 \in 1 .. n /\ i \in 1 .. n /\ i \in 1 .. n - 1 /\ i \in k .. n - 1
    BY <1>2, <1>5
  <2> QED
    BY <1>4, <1>7, <1>10, <1>11, <2>1
<1>14. buf'[n] = NUL
  BY <1>5, <1>10, <1>11
<1> QED
  BY <1>1, <1>11, <1>12, <1>13, <1>14

\* A line of the file comes with a 0, and a 0 more where its newline was.
LEMMA FileEffect ==
  ASSUME TypeOK, NEW whole \in FromFile, NEW line, line = Fetched(whole),
         buf' = Copied(line \o <<NUL, NUL>>, buf)
  PROVE  /\ buf' \in Seq(Bytes) /\ Len(buf') = Capacity
         /\ Len(line) \in Nat /\ Len(line) + 2 <= Capacity /\ line \in Seq(Letters)
         /\ \A i \in 1 .. Len(line) : buf'[i] = line[i]
         /\ \A i \in Len(line) + 1 .. Len(line) + 2 : buf'[i] = NUL
         /\ \A i \in Len(line) + 3 .. Capacity : buf'[i] = buf[i]
<1>1. line \in Seq(Letters) /\ Len(line) + 2 <= MaxCommandLen
  <2>1. PICK m \in Nat : m = MaxCommandLen - 2
    BY Sizes
  <2>2. line = Cut(whole, m) /\ whole \in Seq(Letters)
    BY <2>1, PromptAssumption DEF Fetched
  <2>3. /\ line \in Seq(Letters) /\ Len(line) \in Nat
        /\ Len(line) = IF Len(whole) <= m THEN Len(whole) ELSE m
    BY <2>2, CutBytes
  <2>4. Len(whole) \in Nat
    BY <2>2, LenProperties
  <2> QED
    BY <2>1, <2>3, <2>4, Sizes
<1>2. PICK n \in Nat : n = Len(line)
  BY <1>1, LenProperties
<1>3. n + 2 <= Capacity
  BY <1>1, <1>2, Sizes
<1>4. line \in Seq(Bytes)
  BY <1>1, SeqMonotonic DEF Bytes
<1>5. /\ <<NUL, NUL>> \in Seq(Bytes) /\ Len(<<NUL, NUL>>) = 2
      /\ <<NUL, NUL>>[1] = NUL /\ <<NUL, NUL>>[2] = NUL
  BY DEF Bytes
<1>6. PICK y : y = line \o <<NUL, NUL>>
  OBVIOUS
<1>7. /\ y \in Seq(Bytes) /\ Len(y) = n + 2
      /\ \A i \in 1 .. n : y[i] = line[i]
      /\ \A i \in n + 1 .. n + 2 : y[i] = <<NUL, NUL>>[i - n]
  BY <1>2, <1>4, <1>5, <1>6, ConcatBytes
<1>8. \A i \in n + 1 .. n + 2 : y[i] = NUL
  <2>1. \A i \in n + 1 .. n + 2 : i - n = 1 \/ i - n = 2
    OBVIOUS
  <2> QED
    BY <1>5, <1>7, <2>1
<1>9. /\ buf' \in Seq(Bytes) /\ Len(buf') = Capacity
      /\ \A i \in 1 .. n + 2 : buf'[i] = y[i]
      /\ \A i \in n + 3 .. Capacity : buf'[i] = buf[i]
  <2>1. /\ y \in Seq(Bytes) /\ buf \in Seq(Bytes) /\ Len(y) <= Len(buf)
        /\ Len(y) = n + 2 /\ Len(buf) = Capacity
    BY <1>3, <1>7, Sizes
  <2>2. /\ buf' \in Seq(Bytes) /\ Len(buf') = Len(buf)
        /\ \A i \in 1 .. Len(y) : buf'[i] = y[i]
        /\ \A i \in Len(y) + 1 .. Len(buf) : buf'[i] = buf[i]
    <3>1. /\ Copied(y, buf) \in Seq(Bytes) /\ Len(Copied(y, buf)) = Len(buf)
          /\ \A i \in 1 .. Len(y) : Copied(y, buf)[i] = y[i]
          /\ \A i \in Len(y) + 1 .. Len(buf) : Copied(y, buf)[i] = buf[i]
      BY ONLY <2>1, CopiedBytes
    <3> QED
      BY <1>6, <3>1
  <2>3. n + 2 + 1 = n + 3
    OBVIOUS
  <2> QED
    BY <2>1, <2>2, <2>3
<1>10. ASSUME NEW i \in 1 .. n
       PROVE  buf'[i] = line[i]
  <2>1. i \in 1 .. n + 2
    OBVIOUS
  <2>2. buf'[i] = y[i]
    BY <1>9, <2>1
  <2>3. y[i] = line[i]
    BY <1>7
  <2> QED
    BY <2>2, <2>3
<1>11. ASSUME NEW i \in n + 1 .. n + 2
       PROVE  buf'[i] = NUL
  <2>1. i \in 1 .. n + 2
    OBVIOUS
  <2>2. buf'[i] = y[i]
    BY <1>9, <2>1
  <2> QED
    BY <1>8, <2>2
<1> QED
  BY <1>1, <1>2, <1>3, <1>9, <1>10, <1>11

\* A slot comes as it is: what was kept of the line, and zeros behind it.
LEMMA MemoryEffect ==
  ASSUME TypeOK, NEW b, b = Copied(Slot(command), buf)
  PROVE  /\ b \in Seq(Bytes) /\ Len(b) = Capacity /\ Len(command) \in Nat
         /\ \A i \in 1 .. MaxCommandLen : i <= Len(command) => b[i] = command[i]
         /\ \A i \in 1 .. MaxCommandLen : i > Len(command) => b[i] = NUL
         /\ \A i \in MaxCommandLen + 1 .. Capacity : b[i] = buf[i]
<1>1. PICK n \in Nat, m \in Nat : n = Len(command) /\ m = MaxCommandLen
  BY LenProperties, Sizes DEF TypeOK
<1>2. PICK y : y = Slot(command)
  OBVIOUS
<1>3. y = [i \in 1 .. m |-> IF i <= n THEN command[i] ELSE NUL]
  BY <1>1, <1>2 DEF Slot
<1>4. ASSUME NEW i \in 1 .. m
      PROVE  y[i] = (IF i <= n THEN command[i] ELSE NUL) /\ y[i] \in Bytes
  <2>1. y[i] = IF i <= n THEN command[i] ELSE NUL
    BY <1>3
  <2>2. CASE i <= n
    <3>1. command \in Seq(Bytes) /\ i \in 1 .. Len(command)
      BY <1>1, <2>2 DEF TypeOK
    <3>2. command[i] \in Bytes
      BY <3>1, ElementOfSeq
    <3> QED
      BY <2>1, <2>2, <3>2
  <2>3. CASE ~ (i <= n)
    BY <2>1, <2>3 DEF Bytes
  <2> QED
    BY <2>1, <2>2, <2>3
<1>5. y \in Seq(Bytes) /\ Len(y) = m
  <2>1. y \in [1 .. m -> Bytes]
    BY <1>3, <1>4
  <2> QED
    BY <1>1, <2>1
<1>6. m <= Len(buf) /\ Len(buf) = Capacity /\ buf \in Seq(Bytes)
  BY <1>1, Sizes
<1>7. /\ b \in Seq(Bytes) /\ Len(b) = Capacity
      /\ \A i \in 1 .. m : b[i] = y[i]
      /\ \A i \in m + 1 .. Capacity : b[i] = buf[i]
  BY <1>2, <1>5, <1>6, CopiedBytes
<1> QED
  BY <1>1, <1>4, <1>7

\* The newline, and the sentinel byte if the buffer has one more.
LEMMA FinishEffect ==
  ASSUME TypeOK, NEW m \in Nat, NEW b \in Seq(Bytes), Len(b) = m, size + 1 <= m,
         Finish(b)
  PROVE  /\ buf' \in Seq(Bytes) /\ Len(buf') = m
         /\ \A i \in 1 .. size : buf'[i] = buf[i]
         /\ buf'[size + 1] = "\n"
         /\ size + 2 <= m => buf'[size + 2] = NUL
         /\ \A i \in size + 3 .. m : buf'[i] = b[i]
<1>1. PICK n \in Nat : n = size
  BY Sizes
<1>2. PICK s : s = Text
  OBVIOUS
<1>3. s \in Seq(Bytes) /\ Len(s) = n /\ \A i \in 1 .. n : s[i] = buf[i]
  BY <1>1, <1>2, Sizes, PrefixBytes DEF Text
<1>4. CASE n + 2 <= m
  <2>1. /\ <<"\n", NUL>> \in Seq(Bytes) /\ Len(<<"\n", NUL>>) = 2
        /\ <<"\n", NUL>>[1] = "\n" /\ <<"\n", NUL>>[2] = NUL
    BY DEF Bytes
  <2>2. PICK y : y = s \o <<"\n", NUL>>
    OBVIOUS
  <2>3. /\ y \in Seq(Bytes) /\ Len(y) = n + 2
        /\ \A i \in 1 .. n : y[i] = s[i]
        /\ \A i \in n + 1 .. n + 2 : y[i] = <<"\n", NUL>>[i - n]
    BY <1>3, <2>1, <2>2, ConcatBytes
  <2>4. y[n + 1] = "\n" /\ y[n + 2] = NUL
    <3>1. /\ n + 1 \in n + 1 .. n + 2 /\ n + 1 - n = 1
          /\ n + 2 \in n + 1 .. n + 2 /\ n + 2 - n = 2
      OBVIOUS
    <3> QED
      BY <2>1, <2>3, <3>1
  <2>5. buf' = Copied(y, b)
    BY <1>1, <1>2, <1>4, <2>2 DEF Finish
  <2>6. /\ buf' \in Seq(Bytes) /\ Len(buf') = m
        /\ \A i \in 1 .. n + 2 : buf'[i] = y[i]
        /\ \A i \in n + 3 .. m : buf'[i] = b[i]
    <3>1. y \in Seq(Bytes) /\ Len(y) = n + 2 /\ n + 2 <= m
      BY <1>4, <2>3
    <3> QED
      BY <3>1, <2>5, CopiedBytes
  <2> QED
    BY <1>1, <1>3, <2>3, <2>4, <2>6
<1>5. CASE ~ (n + 2 <= m)
  <2>1. PICK y : y = Append(s, "\n")
    OBVIOUS
  <2>2. /\ y \in Seq(Bytes) /\ Len(y) = n + 1
        /\ \A i \in 1 .. n : y[i] = s[i]
        /\ y[n + 1] = "\n"
    BY <1>3, <2>1, AppendProperties DEF Bytes
  <2>3. buf' = Copied(y, b)
    BY <1>1, <1>2, <1>5, <2>1 DEF Finish
  <2>4. n + 1 <= m
    BY <1>1
  <2>5. /\ buf' \in Seq(Bytes) /\ Len(buf') = m
        /\ \A i \in 1 .. n + 1 : buf'[i] = y[i]
    BY <2>2, <2>3, <2>4, CopiedBytes
  <2> QED
    BY <1>1, <1>3, <1>5, <2>2, <2>4, <2>5
<1> QED
  BY <1>4, <1>5

-----------------------------------------------------------------------------
(* The invariant, action by action.                                        *)

LEMMA Initially ==
  Init => PromptInv
<1> SUFFICES ASSUME Init
             PROVE  PromptInv
  OBVIOUS
<1>1. MaxCommandLen \in Nat \ {0} /\ MaxCapacity \in Nat /\ MaxCapacity >= MaxCommandLen
  BY PromptAssumption
<1>2. buf \in [1 .. MaxCommandLen -> Bytes]
  BY DEF Init, Garbage, Bytes
<1>3. buf \in Seq(Bytes) /\ Len(buf) = MaxCommandLen
  BY <1>1, <1>2
<1>4. TypeOK
  BY <1>1, <1>3 DEF Init, TypeOK, Capacity, Phases
<1>5. NoNul /\ CommandNoNul
  <2>1. size = 0 /\ command = <<>> /\ Len(<<>>) = 0
    BY DEF Init
  <2> QED
    BY <2>1 DEF NoNul, CommandNoNul
<1>6. HighWater
  <2>2. ASSUME zeroed, NEW i \in 1 .. Capacity
        PROVE  buf[i] = NUL
    <3>1. buf = Zeros(MaxCommandLen)
      BY <2>2 DEF Init
    <3>2. i \in 1 .. MaxCommandLen
      BY <1>3 DEF Capacity
    <3> QED
      BY <3>1, <3>2 DEF Zeros
  <2> QED
    BY <2>2 DEF HighWater
<1>7. LineIsTerminated /\ StaysInBuffer
  BY DEF Init, LineIsTerminated, StaysInBuffer
<1> QED
  BY <1>4, <1>5, <1>6, <1>7 DEF PromptInv

LEMMA PromptStartKeeps ==
  ASSUME PromptInv, PromptStart
  PROVE  PromptInv'
<1>1. TypeOK' /\ CommandNoNul'
  <2>1. PICK t : t = Text
    OBVIOUS
  <2>2. t \in Seq(Bytes) /\ \A i \in 1 .. Len(t) : t[i] # NUL
    BY <2>1, TextBytes DEF PromptInv, NoNul
  <2>3. command' = command \/ command' = t
    BY <2>1 DEF PromptStart
  <2>4. command' \in Seq(Bytes) /\ CommandNoNul'
    BY <2>2, <2>3 DEF PromptInv, TypeOK, CommandNoNul
  <2> QED
    BY <2>4, Sizes DEF PromptInv, PromptStart, TypeOK, Capacity, Phases, ghosts
<1>2. NoNul' /\ HighWater'
  BY DEF PromptInv, PromptStart, TypeOK, NoNul, HighWater, Capacity, ghosts
<1>3. LineIsTerminated' /\ StaysInBuffer'
  BY DEF PromptStart, LineIsTerminated, StaysInBuffer
<1> QED
  BY <1>1, <1>2, <1>3 DEF PromptInv

LEMMA MoveKeeps ==
  ASSUME PromptInv, MoveLeft \/ MoveRight
  PROVE  PromptInv'
<1>1. TypeOK /\ cursor' \in 0 .. size
  BY Sizes DEF PromptInv, MoveLeft, MoveRight
<1>2. TypeOK'
  BY <1>1 DEF MoveLeft, MoveRight, TypeOK, Capacity, ghosts
<1>3. NoNul' /\ CommandNoNul' /\ HighWater'
  BY DEF PromptInv, MoveLeft, MoveRight, NoNul, CommandNoNul, HighWater, Capacity, ghosts
<1>4. LineIsTerminated' /\ StaysInBuffer'
  BY DEF MoveLeft, MoveRight, Room, Editing, LineIsTerminated, StaysInBuffer
<1> QED
  BY <1>2, <1>3, <1>4 DEF PromptInv

\* The garbage of a larger buffer is behind the line; if it is zeros, it is
\* beyond the high water too.
LEMMA MoreGarbage ==
  ASSUME TypeOK, NEW g \in Garbage(Capacity), NEW b, b = buf \o g
  PROVE  /\ b \in Seq(Bytes) /\ Len(b) = 2 * Capacity
         /\ \A i \in 1 .. Capacity : b[i] = buf[i]
         /\ g = Zeros(Capacity) => \A i \in Capacity + 1 .. 2 * Capacity : b[i] = NUL
<1>1. PICK n \in Nat : n = Capacity
  BY Sizes
<1>2. g \in [1 .. n -> Bytes]
  BY <1>1 DEF Garbage, Bytes
<1>3. g \in Seq(Bytes) /\ Len(g) = n
  BY <1>2
<1>4. buf \in Seq(Bytes) /\ Len(buf) = n
  BY <1>1, Sizes
<1>5. /\ b \in Seq(Bytes) /\ Len(b) = n + n
      /\ \A i \in 1 .. n : b[i] = buf[i]
      /\ \A i \in n + 1 .. n + n : b[i] = g[i - n]
  <2>1. /\ buf \o g \in Seq(Bytes) /\ Len(buf \o g) = Len(buf) + Len(g)
        /\ \A i \in 1 .. Len(buf) : (buf \o g)[i] = buf[i]
        /\ \A i \in Len(buf) + 1 .. Len(buf) + Len(g) : (buf \o g)[i] = g[i - Len(buf)]
    BY <1>3, <1>4, ConcatBytes
  <2> QED
    BY <1>3, <1>4, <2>1
<1>6. ASSUME g = Zeros(Capacity), NEW i \in n + 1 .. n + n
      PROVE  b[i] = NUL
  <2>1. i - n \in 1 .. n
    OBVIOUS
  <2> QED
    BY <1>1, <1>5, <1>6, <2>1 DEF Zeros
<1>7. 2 * n = n + n
  OBVIOUS
<1> QED
  BY <1>1, <1>5, <1>6, <1>7

LEMMA EnlargeKeeps ==
  ASSUME PromptInv, Enlarge
  PROVE  PromptInv'
<1>1. PICK g \in Garbage(Capacity) :
        buf' = buf \o g /\ zeroed' = (zeroed /\ g = Zeros(Capacity))
  BY DEF Enlarge
<1>2. /\ buf' \in Seq(Bytes) /\ Len(buf') = 2 * Capacity
      /\ \A i \in 1 .. Capacity : buf'[i] = buf[i]
      /\ g = Zeros(Capacity) => \A i \in Capacity + 1 .. 2 * Capacity : buf'[i] = NUL
  BY <1>1, MoreGarbage DEF PromptInv
<1>3. Capacity' = 2 * Capacity /\ 2 * Capacity <= MaxCapacity
  BY <1>2 DEF Capacity, Enlarge
<1>4. /\ Capacity \in Nat /\ Capacity >= MaxCommandLen /\ MaxCommandLen \in Nat
      /\ size \in Nat /\ size <= Capacity /\ MaxCapacity \in Nat
  BY Sizes, PromptAssumption DEF PromptInv
<1>5. TypeOK'
  <2>1. zeroed' \in BOOLEAN
    BY <1>1 DEF PromptInv, TypeOK
  <2>2. Capacity' \in MaxCommandLen .. MaxCapacity /\ size \in 0 .. Capacity'
    BY <1>3, <1>4
  <2> QED
    BY <1>2, <2>1, <2>2 DEF PromptInv, Enlarge, TypeOK
<1>6. NoNul' /\ CommandNoNul'
  <2>1. NoNul'
    BY <1>2, <1>4 DEF PromptInv, Enlarge, NoNul
  <2>2. CommandNoNul'
    BY DEF PromptInv, Enlarge, CommandNoNul
  <2> QED
    BY <2>1, <2>2
<1>7. HighWater'
  <2>1. written' = written /\ written \in Nat
    BY DEF PromptInv, Enlarge, TypeOK
  <2>2. ASSUME zeroed', NEW i \in 1 .. Capacity', i > written
        PROVE  buf'[i] = NUL
    <3>1. zeroed /\ g = Zeros(Capacity)
      BY <1>1, <2>2
    <3>2. CASE i \in 1 .. Capacity
      BY <1>2, <2>2, <3>1, <3>2 DEF PromptInv, HighWater
    <3>3. CASE i \in Capacity + 1 .. 2 * Capacity
      BY <1>2, <3>1, <3>3
    <3> QED
      BY <1>3, <1>4, <3>2, <3>3
  <2> QED
    BY <2>1, <2>2 DEF HighWater
<1>8. LineIsTerminated' /\ StaysInBuffer'
  BY DEF Enlarge, Editing, LineIsTerminated, StaysInBuffer
<1> QED
  BY <1>5, <1>6, <1>7, <1>8 DEF PromptInv

\* The bytes up to the first 0 are not more than were put into the buffer, if
\* the rest of it is zeros.
LEMMA StringBelowHighWater ==
  ASSUME PromptInv, zeroed
  PROVE  StrLen <= written
<1>1. /\ StrLen \in Nat /\ StrLen <= Capacity /\ Capacity \in Nat /\ written \in Nat
      /\ \A i \in 1 .. StrLen : buf[i] # NUL
      /\ \A i \in 1 .. Capacity : i > written => buf[i] = NUL
  BY StrLenEnds, Sizes DEF PromptInv, HighWater, TypeOK
<1>2. PICK n \in Nat : n = StrLen
  BY <1>1
<1>3. ASSUME n > written
      PROVE  FALSE
  <2>1. n \in 1 .. StrLen /\ n \in 1 .. Capacity
    BY <1>1, <1>2, <1>3
  <2> QED
    BY <1>1, <1>3, <2>1
<1> QED
  BY <1>1, <1>2, <1>3

LEMMA SizeBelowHighWater ==
  ASSUME PromptInv, zeroed
  PROVE  size <= written
<1>1. StrLen <= written /\ StrLen \in size .. Capacity /\ size \in Nat /\ Capacity \in Nat
      /\ written \in Nat
  BY StringBelowHighWater, StrLenEnds, Sizes DEF PromptInv, TypeOK
<1> QED
  BY <1>1

LEMMA TypeAtEndKeeps ==
  ASSUME PromptInv, NEW c \in Letters, TypeAtEnd(c)
  PROVE  PromptInv'
<1>1. /\ buf \in Seq(Bytes) /\ Len(buf) = Capacity /\ Capacity \in Nat
      /\ size \in Nat /\ cursor = size /\ size + 1 <= Capacity /\ c \in Bytes /\ c # NUL
  BY Sizes, PromptAssumption DEF PromptInv, TypeAtEnd, Room, Bytes
<1>2. buf' = [buf EXCEPT ![size + 1] = c] /\ size' = size + 1 /\ cursor' = size + 1
  BY <1>1 DEF TypeAtEnd
<1>3. /\ buf' \in Seq(Bytes) /\ Len(buf') = Capacity /\ Capacity' = Capacity
      /\ buf'[size + 1] = c
      /\ \A i \in 1 .. Capacity : i # size + 1 => buf'[i] = buf[i]
  BY <1>1, <1>2 DEF Capacity
<1>4. written' = written + 1 /\ written \in Nat /\ zeroed' = zeroed /\ phase' = phase
      /\ command' = command
  BY DEF PromptInv, TypeOK, TypeAtEnd, Puts
<1>5. TypeOK'
  BY <1>1, <1>2, <1>3, <1>4 DEF PromptInv, TypeOK
<1>6. NoNul' /\ CommandNoNul'
  BY <1>1, <1>2, <1>3, <1>4 DEF PromptInv, NoNul, CommandNoNul
<1>7. HighWater'
  <2>1. zeroed => size <= written
    BY SizeBelowHighWater
  <2>3. ASSUME zeroed, NEW i \in 1 .. Capacity, i > written + 1
        PROVE  buf'[i] = NUL
    <3>1. i # size + 1 /\ i > written
      BY <1>1, <1>4, <2>1, <2>3
    <3> QED
      BY <1>3, <2>3, <3>1 DEF PromptInv, HighWater
  <2> QED
    BY <1>3, <1>4, <2>3 DEF HighWater
<1>8. LineIsTerminated' /\ StaysInBuffer'
  BY <1>4 DEF TypeAtEnd, Room, Editing, LineIsTerminated, StaysInBuffer
<1> QED
  BY <1>5, <1>6, <1>7, <1>8 DEF PromptInv

LEMMA InsertKeeps ==
  ASSUME PromptInv, NEW c \in Letters, Insert(c)
  PROVE  PromptInv'
<1>1. /\ buf \in Seq(Bytes) /\ Len(buf) = Capacity /\ Capacity \in Nat
      /\ size \in Nat /\ cursor \in Nat /\ cursor < size /\ c \in Bytes /\ c # NUL
  BY Sizes, PromptAssumption DEF PromptInv, Insert, Room, Bytes
<1>2. PICK n \in Nat : n = StrLen
  BY StrLenEnds, Sizes DEF PromptInv
<1>3. /\ size <= n /\ n <= Capacity
      /\ zeroed => n <= written
  BY <1>1, <1>2, StrLenEnds, StringBelowHighWater DEF PromptInv
<1>4. /\ written' = written + 1 /\ written \in Nat /\ zeroed' = zeroed
      /\ zeroed \in BOOLEAN /\ phase = "edit" /\ command' = command
  BY DEF PromptInv, TypeOK, Insert, Puts, Room, Editing
<1>5. CASE n + 2 <= Capacity
  <2>1. /\ size' = size + 1 /\ cursor' = cursor + 1 /\ phase' = phase
        /\ buf' = Copied(InsertAt(SubSeq(buf, 1, StrLen), cursor + 1, c) \o <<NUL>>, buf)
    BY <1>2, <1>5 DEF Insert
  <2>2. /\ buf' \in Seq(Bytes) /\ Len(buf') = Capacity
        /\ \A i \in 1 .. cursor : buf'[i] = buf[i]
        /\ buf'[cursor + 1] = c
        /\ \A i \in cursor + 2 .. n + 1 : buf'[i] = buf[i - 1]
        /\ buf'[n + 2] = NUL
        /\ \A i \in n + 3 .. Capacity : buf'[i] = buf[i]
    <3>1. TypeOK /\ NoNul /\ cursor # size /\ StrLen + 2 <= Capacity
      BY <1>1, <1>2, <1>5 DEF PromptInv
    <3> QED
      BY <1>1, <1>2, <2>1, <3>1, InsertEffect
  <2>3. Capacity' = Capacity
    BY <2>2 DEF Capacity
  <2>4. TypeOK'
    <3>1. size' \in 0 .. Capacity' /\ cursor' \in 0 .. size'
      BY <1>1, <1>3, <1>5, <2>1, <2>3
    <3> QED
      BY <1>4, <2>1, <2>2, <2>3, <3>1 DEF PromptInv, TypeOK
  <2>5. NoNul' /\ CommandNoNul'
    <3>1. ASSUME NEW i \in 1 .. size + 1
          PROVE  buf'[i] # NUL
      <4>1. CASE i \in 1 .. cursor
        BY <1>1, <2>2, <4>1 DEF PromptInv, NoNul
      <4>2. CASE i = cursor + 1
        BY <1>1, <2>2, <4>2
      <4>3. CASE i \in cursor + 2 .. size + 1
        <5>1. i \in cursor + 2 .. n + 1 /\ i - 1 \in 1 .. size
          BY <1>1, <1>3, <4>3
        <5> QED
          BY <2>2, <5>1 DEF PromptInv, NoNul
      <4> QED
        BY <1>1, <4>1, <4>2, <4>3
    <3> QED
      BY <1>4, <2>1, <3>1 DEF PromptInv, NoNul, CommandNoNul
  <2>6. HighWater'
    <3>1. ASSUME zeroed, NEW i \in 1 .. Capacity, i > written + 1
          PROVE  buf'[i] = NUL
      <4>1. \A k \in 1 .. Capacity : k > written => buf[k] = NUL
        BY <3>1 DEF PromptInv, HighWater
      <4>2. i >= n + 2
        BY <1>3, <1>4, <3>1
      <4>3. CASE i = n + 2
        BY <2>2, <4>3
      <4>4. CASE i \in n + 3 .. Capacity
        <5>1. i > written
          BY <1>4, <3>1
        <5> QED
          BY <2>2, <4>1, <4>4, <5>1
      <4> QED
        BY <4>2, <4>3, <4>4
    <3> QED
      BY <1>4, <2>3, <3>1 DEF HighWater
  <2>7. LineIsTerminated' /\ StaysInBuffer'
    BY <1>4, <2>1 DEF LineIsTerminated, StaysInBuffer
  <2> QED
    BY <2>4, <2>5, <2>6, <2>7 DEF PromptInv
<1>6. CASE ~ (n + 2 <= Capacity)
  <2>1. phase' = "overflow" /\ UNCHANGED <<buf, size, cursor>>
    BY <1>2, <1>6 DEF Insert
  <2>2. TypeOK' /\ NoNul' /\ CommandNoNul'
    BY <1>4, <2>1 DEF PromptInv, TypeOK, NoNul, CommandNoNul, Capacity, Phases
  <2>3. HighWater'
    <3>1. ASSUME zeroed, NEW i \in 1 .. Capacity, i > written + 1
          PROVE  buf[i] = NUL
      BY <1>4, <3>1 DEF PromptInv, HighWater
    <3> QED
      BY <1>1, <1>4, <2>1, <3>1 DEF HighWater, Capacity
  <2>4. LineIsTerminated'
    BY <2>1 DEF LineIsTerminated
  <2>5. StaysInBuffer'
    <3>1. zeroed => written + 1 + 2 > Capacity
      BY <1>1, <1>3, <1>4, <1>6
    <3> QED
      BY <1>4, <2>1, <3>1 DEF StaysInBuffer, Capacity
  <2> QED
    BY <2>2, <2>3, <2>4, <2>5 DEF PromptInv
<1> QED
  BY <1>5, <1>6

LEMMA BackspaceKeeps ==
  ASSUME PromptInv, Backspace
  PROVE  PromptInv'
<1>1. /\ buf \in Seq(Bytes) /\ Len(buf) = Capacity /\ Capacity \in Nat
      /\ size \in Nat /\ cursor \in Nat /\ cursor <= size /\ cursor > 0
  BY Sizes DEF PromptInv, Backspace
<1>2. PICK n \in Nat : n = StrLen
  BY StrLenEnds, Sizes DEF PromptInv
<1>3. /\ size <= n /\ n <= Capacity
      /\ zeroed => n <= written
  BY <1>1, <1>2, StrLenEnds, StringBelowHighWater DEF PromptInv
<1>4. /\ written' = written /\ written \in Nat /\ zeroed' = zeroed
      /\ zeroed \in BOOLEAN /\ phase = "edit" /\ command' = command
  BY DEF PromptInv, TypeOK, Backspace, ghosts, Room, Editing
<1>5. CASE n < Capacity
  <2>1. /\ size' = size - 1 /\ cursor' = cursor - 1 /\ phase' = phase
        /\ buf' = Copied(RemoveAt(SubSeq(buf, 1, StrLen), cursor) \o <<NUL>>, buf)
    BY <1>2, <1>5 DEF Backspace
  <2>2. /\ buf' \in Seq(Bytes) /\ Len(buf') = Capacity
        /\ \A i \in 1 .. cursor - 1 : buf'[i] = buf[i]
        /\ \A i \in cursor .. n - 1 : buf'[i] = buf[i + 1]
        /\ buf'[n] = NUL
        /\ \A i \in n + 1 .. Capacity : buf'[i] = buf[i]
    <3>1. TypeOK /\ NoNul /\ cursor > 0 /\ StrLen < Capacity
      BY <1>1, <1>2, <1>5 DEF PromptInv
    <3> QED
      BY <1>2, <2>1, <3>1, BackspaceEffect
  <2>3. Capacity' = Capacity
    BY <2>2 DEF Capacity
  <2>4. TypeOK'
    <3>1. size' \in 0 .. Capacity' /\ cursor' \in 0 .. size'
      BY <1>1, <1>3, <1>5, <2>1, <2>3
    <3> QED
      BY <1>4, <2>1, <2>2, <2>3, <3>1 DEF PromptInv, TypeOK
  <2>5. NoNul' /\ CommandNoNul'
    <3>1. ASSUME NEW i \in 1 .. size - 1
          PROVE  buf'[i] # NUL
      <4>1. CASE i \in 1 .. cursor - 1
        <5>1. i \in 1 .. size
          BY <1>1
        <5> QED
          BY <2>2, <4>1, <5>1 DEF PromptInv, NoNul
      <4>2. CASE i \in cursor .. size - 1
        <5>1. i \in cursor .. n - 1 /\ i + 1 \in 1 .. size
          BY <1>1, <1>3, <4>2
        <5> QED
          BY <2>2, <5>1 DEF PromptInv, NoNul
      <4> QED
        BY <1>1, <4>1, <4>2
    <3> QED
      BY <1>4, <2>1, <3>1 DEF PromptInv, NoNul, CommandNoNul
  <2>6. HighWater'
    <3>1. ASSUME zeroed, NEW i \in 1 .. Capacity, i > written
          PROVE  buf'[i] = NUL
      <4>1. i \in n + 1 .. Capacity
        BY <1>3, <1>4, <3>1
      <4> QED
        BY <2>2, <3>1, <4>1 DEF PromptInv, HighWater
    <3> QED
      BY <1>4, <2>3, <3>1 DEF HighWater
  <2>7. LineIsTerminated' /\ StaysInBuffer'
    BY <1>4, <2>1 DEF LineIsTerminated, StaysInBuffer
  <2> QED
    BY <2>4, <2>5, <2>6, <2>7 DEF PromptInv
<1>6. CASE ~ (n < Capacity)
  <2>1. phase' = "overflow" /\ UNCHANGED <<buf, size, cursor>>
    BY <1>2, <1>6 DEF Backspace
  <2>2. TypeOK' /\ NoNul' /\ CommandNoNul' /\ HighWater'
    BY <1>4, <2>1 DEF PromptInv, TypeOK, NoNul, CommandNoNul, HighWater, Capacity, Phases
  <2>3. LineIsTerminated'
    BY <2>1 DEF LineIsTerminated
  <2>4. StaysInBuffer'
    <3>1. zeroed => written + 2 > Capacity
      BY <1>1, <1>3, <1>4, <1>6
    <3> QED
      BY <1>4, <2>1, <3>1 DEF StaysInBuffer, Capacity
  <2> QED
    BY <2>2, <2>3, <2>4 DEF PromptInv
<1> QED
  BY <1>5, <1>6

LEMMA RecallFromFileKeeps ==
  ASSUME PromptInv, NEW whole \in FromFile, RecallFromFile(whole),
         NEW line, line = Fetched(whole)
  PROVE  PromptInv'
<1>1. /\ buf' \in Seq(Bytes) /\ Len(buf') = Capacity
      /\ Len(line) \in Nat /\ Len(line) + 2 <= Capacity /\ line \in Seq(Letters)
      /\ \A i \in 1 .. Len(line) : buf'[i] = line[i]
      /\ \A i \in Len(line) + 1 .. Len(line) + 2 : buf'[i] = NUL
      /\ \A i \in Len(line) + 3 .. Capacity : buf'[i] = buf[i]
  <2>1. TypeOK /\ buf' = Copied(line \o <<NUL, NUL>>, buf)
    BY DEF PromptInv, RecallFromFile
  <2> QED
    BY <2>1, FileEffect, Zenon
<1>2. PICK n \in Nat : n = Len(line)
  BY <1>1
<1>3. size' = n /\ cursor' = n /\ Capacity' = Capacity /\ Capacity \in Nat
  BY <1>1, <1>2, Sizes DEF RecallFromFile, PromptInv, Capacity
<1>4. /\ written' = written + n + 1 /\ written \in Nat /\ zeroed' = zeroed
      /\ zeroed \in BOOLEAN /\ phase = "edit" /\ phase' = phase
      /\ command' = command
  <2>1. written' = written + (n + 1) /\ written \in Nat
    BY <1>2 DEF PromptInv, TypeOK, RecallFromFile, Puts
  <2> QED
    BY <2>1 DEF PromptInv, TypeOK, RecallFromFile, Room, Editing
<1>5. TypeOK'
  BY <1>1, <1>2, <1>3, <1>4 DEF PromptInv, TypeOK
<1>6. NoNul' /\ CommandNoNul'
  <2>1. ASSUME NEW i \in 1 .. n
        PROVE  buf'[i] # NUL
    <3>1. buf'[i] = line[i] /\ line[i] \in Letters
      BY <1>1, <1>2, ElementOfSeq
    <3> QED
      BY <3>1, PromptAssumption
  <2> QED
    BY <1>3, <1>4, <2>1 DEF PromptInv, NoNul, CommandNoNul
<1>7. HighWater'
  <2>1. ASSUME zeroed, NEW i \in 1 .. Capacity, i > written + n + 1
        PROVE  buf'[i] = NUL
    <3>1. i > written /\ i >= n + 2
      BY <1>4, <2>1
    <3>2. CASE i = n + 2
      <4>1. i \in Len(line) + 1 .. Len(line) + 2
        BY <1>2, <3>2
      <4> QED
        BY <1>1, <4>1
    <3>3. CASE i \in n + 3 .. Capacity
      BY <1>1, <1>2, <2>1, <3>1, <3>3 DEF PromptInv, HighWater
    <3> QED
      BY <3>1, <3>2, <3>3
  <2> QED
    BY <1>3, <1>4, <2>1 DEF HighWater
<1>8. LineIsTerminated' /\ StaysInBuffer'
  BY <1>4 DEF LineIsTerminated, StaysInBuffer
<1> QED
  BY <1>5, <1>6, <1>7, <1>8 DEF PromptInv

LEMMA RecallFromMemoryKeeps ==
  ASSUME PromptInv, RecallFromMemory
  PROVE  PromptInv'
<1>1. PICK b : b = Copied(Slot(command), buf)
  OBVIOUS
<1>2. PICK n \in Nat, m \in Nat, k \in Nat :
        n = Len(command) /\ m = MaxCommandLen /\ k = LengthOf(b)
  <2>1. b \in Seq(Bytes) /\ Len(b) \in Nat /\ Len(command) \in Nat
    BY <1>1, MemoryEffect, LenProperties DEF PromptInv
  <2>2. LengthOf(b) \in Nat
    BY <2>1, LengthEnds
  <2> QED
    BY <2>1, <2>2, Sizes DEF PromptInv
<1>3. /\ b \in Seq(Bytes) /\ Len(b) = Capacity
      /\ \A i \in 1 .. m : i > n => b[i] = NUL
      /\ \A i \in m + 1 .. Capacity : b[i] = buf[i]
  BY <1>1, <1>2, MemoryEffect DEF PromptInv
<1>4. /\ Capacity \in Nat /\ written \in Nat /\ zeroed \in BOOLEAN /\ phase = "edit"
      /\ zeroed' = zeroed /\ command' = command /\ command \in Seq(Bytes)
  BY Sizes DEF PromptInv, TypeOK, RecallFromMemory, Room, Editing
<1>5. PICK p \in Nat : p = (IF n <= m THEN n ELSE m) /\ written' = written + p
  <2>1. /\ Len(Cut(command, m)) \in Nat
        /\ Len(Cut(command, m)) = IF n <= m THEN n ELSE m
    BY <1>2, <1>4, CutBytes
  <2>2. written' = written + Len(Cut(command, m))
    BY <1>2 DEF RecallFromMemory, Puts
  <2> QED
    BY <2>1, <2>2
<1>6. k \in 0 .. Capacity /\ \A i \in 1 .. k : b[i] # NUL
  BY <1>2, <1>3, LengthEnds
<1>7. ASSUME zeroed, NEW i \in 1 .. Capacity, i > written + p
      PROVE  b[i] = NUL
  <2>1. CASE i <= m
    <3>1. i \in 1 .. m /\ i > n
      BY <1>4, <1>5, <1>7, <2>1
    <3> QED
      BY <1>3, <3>1
  <2>2. CASE ~ (i <= m)
    <3>1. i \in m + 1 .. Capacity /\ i > written
      BY <1>4, <1>5, <1>7, <2>2
    <3> QED
      BY <1>3, <1>7, <3>1 DEF PromptInv, HighWater
  <2> QED
    BY <2>1, <2>2
<1>8. CASE k < Capacity
  <2>1. buf' = b /\ size' = k /\ cursor' = k /\ phase' = phase
    BY <1>1, <1>2, <1>8 DEF RecallFromMemory
  <2>2. Capacity' = Capacity
    BY <1>3, <2>1 DEF Capacity
  <2>3. TypeOK'
    <3>1. size' \in 0 .. Capacity' /\ cursor' \in 0 .. size' /\ written' \in Nat
      BY <1>4, <1>5, <1>6, <2>1, <2>2
    <3> QED
      BY <1>3, <1>4, <2>1, <2>2, <3>1 DEF PromptInv, TypeOK
  <2>4. NoNul' /\ CommandNoNul'
    BY <1>4, <1>6, <2>1 DEF PromptInv, NoNul, CommandNoNul
  <2>5. HighWater'
    BY <1>4, <1>5, <1>7, <2>1, <2>2 DEF HighWater
  <2>6. LineIsTerminated' /\ StaysInBuffer'
    BY <1>4, <2>1 DEF LineIsTerminated, StaysInBuffer
  <2> QED
    BY <2>3, <2>4, <2>5, <2>6 DEF PromptInv
<1>9. CASE ~ (k < Capacity)
  <2>1. phase' = "overflow" /\ UNCHANGED <<buf, size, cursor>>
    BY <1>1, <1>2, <1>9 DEF RecallFromMemory
  <2>2. Capacity' = Capacity
    BY <2>1 DEF Capacity
  <2>3. TypeOK' /\ NoNul' /\ CommandNoNul'
    BY <1>4, <1>5, <2>1, <2>2 DEF PromptInv, TypeOK, NoNul, CommandNoNul, Phases
  <2>4. HighWater'
    <3>1. ASSUME zeroed, NEW i \in 1 .. Capacity, i > written + p
          PROVE  buf[i] = NUL
      <4>1. i > written
        BY <1>4, <3>1
      <4> QED
        BY <3>1, <4>1 DEF PromptInv, HighWater
    <3> QED
      BY <1>4, <1>5, <2>1, <2>2, <3>1 DEF HighWater
  <2>5. StaysInBuffer'
    <3>1. ASSUME zeroed, written + p < Capacity
          PROVE  FALSE
      <4>1. Capacity \in 1 .. Capacity /\ Capacity > written + p /\ Capacity \in 1 .. k
        BY <1>4, <1>5, <1>6, <1>9, <3>1
      <4> QED
        BY <1>6, <1>7, <3>1, <4>1
    <3> QED
      BY <1>4, <1>5, <2>1, <2>2, <3>1 DEF StaysInBuffer
  <2>6. LineIsTerminated'
    BY <2>1 DEF LineIsTerminated
  <2> QED
    BY <2>3, <2>4, <2>5, <2>6 DEF PromptInv
<1> QED
  BY <1>8, <1>9

\* The buffer that prompt() ends in: the one it has, or a larger one.
LEMMA EnterBuffer ==
  ASSUME PromptInv, Enter
  PROVE  \E m \in Nat : \E b \in Seq(Bytes) :
           /\ Len(b) = m /\ size + 1 <= m /\ m \in MaxCommandLen .. MaxCapacity
           /\ Finish(b)
           /\ zeroed' \in BOOLEAN /\ (zeroed' => zeroed)
           /\ zeroed' => \A i \in 1 .. m : i > written => b[i] = NUL
<1>1. /\ buf \in Seq(Bytes) /\ Len(buf) = Capacity /\ Capacity \in Nat /\ size \in Nat
      /\ Capacity \in MaxCommandLen .. MaxCapacity /\ Capacity > 0 /\ size <= Capacity
      /\ zeroed \in BOOLEAN /\ MaxCommandLen \in Nat \ {0} /\ MaxCapacity \in Nat
  BY Sizes, PromptAssumption DEF PromptInv, TypeOK
<1>2. CASE ~ (size + 1 > Capacity)
  <2>1. Finish(buf) /\ zeroed' = zeroed
    BY <1>2 DEF Enter
  <2>2. size + 1 <= Capacity
    BY <1>1, <1>2
  <2>3. zeroed => \A i \in 1 .. Capacity : i > written => buf[i] = NUL
    BY DEF PromptInv, HighWater
  <2> QED
    BY <1>1, <2>1, <2>2, <2>3
<1>3. CASE size + 1 > Capacity
  <2>1. PICK g \in Garbage(Capacity) :
          Finish(buf \o g) /\ zeroed' = (zeroed /\ g = Zeros(Capacity))
    BY <1>3 DEF Enter
  <2>2. PICK b : b = buf \o g
    OBVIOUS
  <2>3. PICK m \in Nat : m = 2 * Capacity
    BY <1>1
  <2>4. /\ b \in Seq(Bytes) /\ Len(b) = m
        /\ \A i \in 1 .. Capacity : b[i] = buf[i]
        /\ g = Zeros(Capacity) => \A i \in Capacity + 1 .. m : b[i] = NUL
    BY <2>2, <2>3, MoreGarbage DEF PromptInv
  <2>5. size + 1 <= m /\ m \in MaxCommandLen .. MaxCapacity
    BY <1>1, <1>3, <2>3 DEF Enter
  <2>6. zeroed' \in BOOLEAN /\ (zeroed' => zeroed)
    BY <1>1, <2>1
  <2>7. ASSUME zeroed', NEW i \in 1 .. m, i > written
        PROVE  b[i] = NUL
    <3>1. zeroed /\ g = Zeros(Capacity)
      BY <2>1, <2>7
    <3>2. CASE i \in 1 .. Capacity
      BY <2>4, <2>7, <3>1, <3>2 DEF PromptInv, HighWater
    <3>3. CASE i \in Capacity + 1 .. m
      BY <2>4, <3>1, <3>3
    <3> QED
      BY <1>1, <3>2, <3>3
  <2>8. Finish(b)
    BY <2>1, <2>2
  <2> QED
    BY <2>4, <2>5, <2>6, <2>7, <2>8
<1> QED
  BY <1>2, <1>3

LEMMA EnterKeeps ==
  ASSUME PromptInv, Enter
  PROVE  PromptInv'
<1>1. PICK m \in Nat : \E b \in Seq(Bytes) :
         /\ Len(b) = m /\ size + 1 <= m /\ m \in MaxCommandLen .. MaxCapacity
         /\ Finish(b)
         /\ zeroed' \in BOOLEAN /\ (zeroed' => zeroed)
         /\ zeroed' => \A i \in 1 .. m : i > written => b[i] = NUL
  BY EnterBuffer
<1>2. PICK b \in Seq(Bytes) :
         /\ Len(b) = m /\ size + 1 <= m /\ m \in MaxCommandLen .. MaxCapacity
         /\ Finish(b)
         /\ zeroed' \in BOOLEAN /\ (zeroed' => zeroed)
         /\ zeroed' => \A i \in 1 .. m : i > written => b[i] = NUL
  BY <1>1
<1>3. /\ buf' \in Seq(Bytes) /\ Len(buf') = m
      /\ \A i \in 1 .. size : buf'[i] = buf[i]
      /\ buf'[size + 1] = "\n"
      /\ size + 2 <= m => buf'[size + 2] = NUL
      /\ \A i \in size + 3 .. m : buf'[i] = b[i]
  <2>1. TypeOK /\ Len(b) = m /\ size + 1 <= m /\ Finish(b)
    BY <1>2 DEF PromptInv
  <2> QED
    BY <2>1, FinishEffect
<1>4. Capacity' = m
  BY <1>3 DEF Capacity
<1>5. /\ size' = size + 1 /\ cursor' = cursor /\ written' = written + 1
      /\ command' = command
      /\ phase' = IF size + 2 <= m THEN "returned" ELSE "sentinel"
  BY <1>2 DEF Finish, Puts
<1>6. /\ size \in Nat /\ cursor \in 0 .. size /\ written \in Nat
      /\ size + 1 <= m /\ command \in Seq(Bytes)
  BY <1>2, Sizes DEF PromptInv, TypeOK
<1>7. zeroed' => size <= written
  BY <1>2, SizeBelowHighWater
<1>8. TypeOK'
  <2>1. size' \in 0 .. Capacity' /\ cursor' \in 0 .. size' /\ written' \in Nat
    BY <1>4, <1>5, <1>6
  <2>2. phase' \in Phases
    BY <1>5 DEF Phases
  <2> QED
    BY <1>2, <1>3, <1>4, <1>5, <1>6, <2>1, <2>2 DEF TypeOK
<1>9. NoNul' /\ CommandNoNul'
  <2>1. ASSUME NEW i \in 1 .. size + 1
        PROVE  buf'[i] # NUL
    <3>1. CASE i \in 1 .. size
      BY <1>3, <3>1 DEF PromptInv, NoNul
    <3>2. CASE i = size + 1
      BY <1>3, <3>2 DEF NUL
    <3> QED
      BY <1>6, <3>1, <3>2
  <2>2. CommandNoNul'
    BY <1>5 DEF PromptInv, CommandNoNul
  <2> QED
    BY <1>5, <2>1, <2>2 DEF NoNul
<1>10. HighWater'
  <2>1. ASSUME zeroed', NEW i \in 1 .. m, i > written + 1
        PROVE  buf'[i] = NUL
    <3>1. i > written /\ i >= size + 2
      BY <1>6, <1>7, <2>1
    <3>2. CASE i = size + 2
      BY <1>3, <3>2
    <3>3. CASE i \in size + 3 .. m
      BY <1>2, <1>3, <2>1, <3>1, <3>3
    <3> QED
      BY <1>6, <3>1, <3>2, <3>3
  <2> QED
    BY <1>4, <1>5, <2>1 DEF HighWater
<1>11. LineIsTerminated'
  <2> SUFFICES ASSUME phase' = "returned"
               PROVE  StrLen' = size' /\ buf'[size'] = "\n"
    BY DEF LineIsTerminated
  <2>1. size + 2 <= m
    BY <1>5
  <2>2. \A i \in 1 .. size + 1 : buf'[i] # NUL
    BY <1>5, <1>9 DEF NoNul
  <2>3. PICK c \in Seq(Bytes), n \in Nat : c = buf' /\ n = size + 1
    BY <1>3, <1>6
  <2>4. n < Len(c) /\ (\A i \in 1 .. n : c[i] # NUL) /\ c[n + 1] = NUL
    BY <1>3, <1>6, <2>1, <2>2, <2>3
  <2>5. StrLen' = size + 1
    BY <2>3, <2>4, LengthIs DEF StrLen
  <2> QED
    BY <1>3, <1>5, <1>6, <2>5
<1>12. StaysInBuffer'
  <2>1. zeroed' /\ phase' = "sentinel" => written + 1 + 2 > m
    BY <1>5, <1>6, <1>7
  <2> QED
    BY <1>4, <1>5, <2>1 DEF StaysInBuffer
<1> QED
  BY <1>8, <1>9, <1>10, <1>11, <1>12 DEF PromptInv

LEMMA StepKeeps ==
  PromptInv /\ [Next]_vars => PromptInv'
<1> SUFFICES ASSUME PromptInv, [Next]_vars
             PROVE  PromptInv'
  OBVIOUS
<1>1. CASE PromptStart
  BY <1>1, PromptStartKeeps
<1>2. CASE Enlarge
  BY <1>2, EnlargeKeeps
<1>3. ASSUME NEW c \in Letters, TypeAtEnd(c)
      PROVE  PromptInv'
  BY <1>3, TypeAtEndKeeps
<1>4. ASSUME NEW c \in Letters, Insert(c)
      PROVE  PromptInv'
  BY <1>4, InsertKeeps
<1>5. CASE Backspace
  BY <1>5, BackspaceKeeps
<1>6. CASE MoveLeft \/ MoveRight
  BY <1>6, MoveKeeps
<1>7. ASSUME NEW line \in FromFile, RecallFromFile(line)
      PROVE  PromptInv'
  BY <1>7, RecallFromFileKeeps
<1>8. CASE RecallFromMemory
  BY <1>8, RecallFromMemoryKeeps
<1>9. CASE Enter
  BY <1>9, EnterKeeps
<1>10. CASE UNCHANGED vars
  BY <1>10 DEF PromptInv, TypeOK, NoNul, CommandNoNul, HighWater, LineIsTerminated,
               StaysInBuffer, StrLen, Capacity, vars, ghosts
<1> QED
  BY <1>1, <1>2, <1>3, <1>4, <1>5, <1>6, <1>7, <1>8, <1>9, <1>10 DEF Next

LEMMA PromptInvariant ==
  Spec => []PromptInv
BY Initially, StepKeeps, PTL DEF Spec

\* TypeOK: the cursor stays in the line and the line in the buffer, which
\* prompt() grows but never shrinks.
THEOREM Types ==
  Spec => []TypeOK
BY PromptInvariant, PTL DEF PromptInv

\* LineIsTerminated: what prompt() returns is, read as a string, the line with its
\* newline, although vstr_insert_c() and vstr_remove_idx() moved bytes behind it.
THEOREM Terminated ==
  Spec => []LineIsTerminated
BY PromptInvariant, PTL DEF PromptInv

\* StaysInBuffer: in a buffer that came as zeros the string functions reach beyond its
\* end only when as many bytes were put into it as it has, less two.
THEOREM InBuffer ==
  Spec => []StaysInBuffer
BY PromptInvariant, PTL DEF PromptInv

-----------------------------------------------------------------------------
(* The bytes behave as the text and cursor of LineEditor.                  *)

\* The next text is t, if the bytes are.
LEMMA NextText ==
  ASSUME TypeOK', NEW t \in Seq(Bytes), Len(t) = size',
         \A i \in 1 .. size' : buf'[i] = t[i]
  PROVE  Text' = t
<1>1. PICK n \in Nat, b \in Seq(Bytes) : n = size' /\ b = buf' /\ n <= Len(b)
  BY DEF TypeOK, Capacity
<1>2. PICK r : r = SubSeq(b, 1, n)
  OBVIOUS
<1>3. r \in Seq(Bytes) /\ Len(r) = n /\ \A i \in 1 .. n : r[i] = b[i]
  <2>1. 1 \in Nat \ {0} /\ 1 <= n + 1
    OBVIOUS
  <2>2. /\ SubSeq(b, 1, n) \in Seq(Bytes) /\ Len(SubSeq(b, 1, n)) = n + 1 - 1
        /\ \A i \in 1 .. n + 1 - 1 : SubSeq(b, 1, n)[i] = b[1 + i - 1]
    BY ONLY <1>1, <2>1, PartBytes, Zenon
  <2>3. /\ r \in Seq(Bytes) /\ Len(r) = n + 1 - 1
        /\ \A i \in 1 .. n + 1 - 1 : r[i] = b[1 + i - 1]
    BY ONLY <1>2, <2>2, Zenon
  <2> QED
    BY <2>3
<1>4. \A i \in 1 .. n : r[i] = t[i]
  BY <1>1, <1>3
<1>5. Len(t) = n
  BY <1>1
<1>6. r = t
  BY <1>3, <1>4, <1>5, SeqEqual
<1> QED
  BY <1>1, <1>2, <1>6 DEF Text

\* What the string functions do to the line is what the user sees.
LEMMA InsertedText ==
  ASSUME TypeOK, NEW c \in Bytes
  PROVE  InsertAt(Text, cursor + 1, c) = Editor!Before \o <<c>> \o Editor!After
<1>1. PICK k : k = cursor + 1
  OBVIOUS
<1>2. PICK j : j = k - 1
  OBVIOUS
<1>3. j = cursor
  BY <1>1, <1>2, Sizes
<1>4. PICK a, b : a = SubSeq(Text, 1, j) /\ b = SubSeq(Text, k, Len(Text))
  OBVIOUS
<1>5. PICK x : x = a \o <<c>>
  OBVIOUS
<1>6. InsertAt(Text, k, c) = x \o b
  BY <1>2, <1>4, <1>5 DEF InsertAt
<1>7. a = Editor!Before /\ b = Editor!After
  BY <1>1, <1>3, <1>4 DEF Editor!Before, Editor!After
<1> QED
  BY <1>1, <1>5, <1>6, <1>7

LEMMA RemovedText ==
  RemoveAt(Text, cursor) = SubSeq(Text, 1, cursor - 1) \o Editor!After
BY DEF RemoveAt, Editor!After

LEMMA TypeAtEndImplements ==
  ASSUME PromptInv, PromptInv', NEW c \in Letters, TypeAtEnd(c)
  PROVE  Editor!Type(c)
<1>1. /\ size \in Nat /\ cursor = size /\ size + 1 <= Capacity /\ Capacity \in Nat
      /\ buf \in Seq(Bytes) /\ Len(buf) = Capacity /\ c \in Bytes
      /\ size' = size + 1 /\ cursor' = cursor + 1 /\ phase = "edit" /\ phase' = phase
      /\ command' = command
      /\ buf' = [buf EXCEPT ![size + 1] = c]
  BY Sizes DEF PromptInv, TypeAtEnd, Room, Editing, Bytes
<1>2. PICK k : k = cursor + 1
  OBVIOUS
<1>3. PICK t : t = InsertAt(Text, k, c)
  OBVIOUS
<1>4. Text \in Seq(Bytes) /\ Len(Text) = size /\ \A i \in 1 .. size : Text[i] = buf[i]
  BY TextBytes DEF PromptInv
<1>5. k \in 1 .. Len(Text) + 1
  BY <1>1, <1>2, <1>4
<1>6. /\ t \in Seq(Bytes) /\ Len(t) = size + 1
      /\ \A i \in 1 .. k - 1 : t[i] = Text[i]
      /\ t[k] = c
  BY <1>1, <1>3, <1>4, <1>5, InsertBytes, ZenonT(40)
<1>7. ASSUME NEW i \in 1 .. size + 1
      PROVE  buf'[i] = t[i]
  <2>1. CASE i \in 1 .. size
    <3>1. i \in 1 .. k - 1 /\ i # size + 1 /\ i \in 1 .. Capacity
      BY <1>1, <1>2, <2>1
    <3> QED
      BY <1>1, <1>4, <1>6, <2>1, <3>1
  <2>2. CASE i = size + 1
    BY <1>1, <1>2, <1>6, <2>2
  <2> QED
    BY <1>1, <2>1, <2>2
<1>8. Text' = t
  BY <1>1, <1>6, <1>7, NextText DEF PromptInv
<1>9. Text' = Editor!Before \o <<c>> \o Editor!After
  BY <1>1, <1>2, <1>3, <1>8, InsertedText DEF PromptInv
<1> QED
  BY <1>1, <1>9 DEF Editor!Type

LEMMA InsertImplements ==
  ASSUME PromptInv, PromptInv', NEW c \in Letters, Insert(c)
  PROVE  Editor!Type(c) \/ UNCHANGED Editor!vars
<1>1. /\ size \in Nat /\ cursor \in Nat /\ cursor < size /\ Capacity \in Nat
      /\ c \in Bytes /\ phase = "edit" /\ command' = command
  BY Sizes DEF PromptInv, Insert, Room, Editing, Bytes
<1>2. PICK n \in Nat : n = StrLen /\ size <= n
  BY StrLenEnds, Sizes DEF PromptInv
<1>3. CASE n + 2 <= Capacity
  <2>1. /\ size' = size + 1 /\ cursor' = cursor + 1 /\ phase' = phase
        /\ buf' = Copied(InsertAt(SubSeq(buf, 1, StrLen), cursor + 1, c) \o <<NUL>>, buf)
    BY <1>2, <1>3 DEF Insert
  <2>2. /\ \A i \in 1 .. cursor : buf'[i] = buf[i]
        /\ buf'[cursor + 1] = c
        /\ \A i \in cursor + 2 .. n + 1 : buf'[i] = buf[i - 1]
    <3>1. TypeOK /\ NoNul /\ cursor # size /\ StrLen + 2 <= Capacity
      BY <1>1, <1>2, <1>3 DEF PromptInv
    <3> QED
      BY <1>1, <1>2, <2>1, <3>1, InsertEffect
  <2>3. PICK k : k = cursor + 1
    OBVIOUS
  <2>4. PICK t : t = InsertAt(Text, k, c)
    OBVIOUS
  <2>5. Text \in Seq(Bytes) /\ Len(Text) = size /\ \A i \in 1 .. size : Text[i] = buf[i]
    BY TextBytes DEF PromptInv
  <2>6. k \in 1 .. Len(Text) + 1
    BY <1>1, <2>3, <2>5
  <2>7. /\ t \in Seq(Bytes) /\ Len(t) = size + 1
        /\ \A i \in 1 .. k - 1 : t[i] = Text[i]
        /\ t[k] = c
        /\ \A i \in k + 1 .. size + 1 : t[i] = Text[i - 1]
    BY <1>1, <2>4, <2>5, <2>6, InsertBytes, ZenonT(40)
  <2>8. ASSUME NEW i \in 1 .. size + 1
        PROVE  buf'[i] = t[i]
    <3>1. CASE i \in 1 .. cursor
      <4>1. i \in 1 .. k - 1 /\ i \in 1 .. size
        BY <1>1, <2>3, <3>1
      <4> QED
        BY <2>2, <2>5, <2>7, <3>1, <4>1
    <3>2. CASE i = cursor + 1
      BY <2>2, <2>3, <2>7, <3>2
    <3>3. CASE i \in cursor + 2 .. size + 1
      <4>1. i \in k + 1 .. size + 1 /\ i \in cursor + 2 .. n + 1 /\ i - 1 \in 1 .. size
        BY <1>1, <1>2, <2>3, <3>3
      <4>2. t[i] = Text[i - 1] /\ Text[i - 1] = buf[i - 1]
        BY <2>5, <2>7, <4>1
      <4> QED
        BY <2>2, <4>1, <4>2
    <3> QED
      BY <1>1, <3>1, <3>2, <3>3
  <2>9. Text' = t
    BY <2>1, <2>7, <2>8, NextText DEF PromptInv
  <2>10. Text' = Editor!Before \o <<c>> \o Editor!After
    BY <1>1, <2>3, <2>4, <2>9, InsertedText DEF PromptInv
  <2> QED
    BY <1>1, <2>1, <2>10 DEF Editor!Type
<1>4. CASE ~ (n + 2 <= Capacity)
  BY <1>1, <1>2, <1>4 DEF Insert, Editor!vars, Text
<1> QED
  BY <1>3, <1>4

LEMMA BackspaceImplements ==
  ASSUME PromptInv, PromptInv', Backspace
  PROVE  Editor!Backspace \/ UNCHANGED Editor!vars
<1>1. /\ size \in Nat /\ cursor \in Nat /\ cursor <= size /\ cursor > 0
      /\ Capacity \in Nat /\ phase = "edit" /\ command' = command
  BY Sizes DEF PromptInv, Backspace, Room, Editing
<1>2. PICK n \in Nat : n = StrLen /\ size <= n
  BY StrLenEnds, Sizes DEF PromptInv
<1>3. CASE n < Capacity
  <2>1. /\ size' = size - 1 /\ cursor' = cursor - 1 /\ phase' = phase
        /\ buf' = Copied(RemoveAt(SubSeq(buf, 1, StrLen), cursor) \o <<NUL>>, buf)
    BY <1>2, <1>3 DEF Backspace
  <2>2. /\ \A i \in 1 .. cursor - 1 : buf'[i] = buf[i]
        /\ \A i \in cursor .. n - 1 : buf'[i] = buf[i + 1]
    <3>1. TypeOK /\ NoNul /\ cursor > 0 /\ StrLen < Capacity
      BY <1>1, <1>2, <1>3 DEF PromptInv
    <3> QED
      BY <1>2, <2>1, <3>1, BackspaceEffect
  <2>3. PICK t : t = RemoveAt(Text, cursor)
    OBVIOUS
  <2>4. Text \in Seq(Bytes) /\ Len(Text) = size /\ \A i \in 1 .. size : Text[i] = buf[i]
    BY TextBytes DEF PromptInv
  <2>5. cursor \in 1 .. Len(Text)
    BY <1>1, <2>4
  <2>6. /\ t \in Seq(Bytes) /\ Len(t) = size - 1
        /\ \A i \in 1 .. cursor - 1 : t[i] = Text[i]
        /\ \A i \in cursor .. size - 1 : t[i] = Text[i + 1]
    BY <2>3, <2>4, <2>5, RemoveBytes
  <2>7. ASSUME NEW i \in 1 .. size - 1
        PROVE  buf'[i] = t[i]
    <3>1. CASE i \in 1 .. cursor - 1
      <4>1. i \in 1 .. size
        BY <1>1
      <4> QED
        BY <2>2, <2>4, <2>6, <3>1, <4>1
    <3>2. CASE i \in cursor .. size - 1
      <4>1. i \in cursor .. n - 1 /\ i + 1 \in 1 .. size
        BY <1>1, <1>2, <3>2
      <4>2. t[i] = Text[i + 1] /\ Text[i + 1] = buf[i + 1]
        BY <2>4, <2>6, <3>2, <4>1
      <4> QED
        BY <2>2, <4>1, <4>2
    <3> QED
      BY <1>1, <3>1, <3>2
  <2>8. Text' = t
    BY <2>1, <2>6, <2>7, NextText DEF PromptInv
  <2> QED
    BY <1>1, <2>1, <2>3, <2>8, RemovedText DEF Editor!Backspace
<1>4. CASE ~ (n < Capacity)
  BY <1>1, <1>2, <1>4 DEF Backspace, Editor!vars, Text
<1> QED
  BY <1>3, <1>4

LEMMA RecallFromFileImplements ==
  ASSUME PromptInv, PromptInv', NEW whole \in FromFile, RecallFromFile(whole),
         NEW line, line = Fetched(whole)
  PROVE  Editor!Recall
<1>1. /\ phase = "edit" /\ phase' = phase /\ size' = Len(line) /\ cursor' = Len(line)
      /\ command' = command
      /\ buf' = Copied(line \o <<NUL, NUL>>, buf)
  BY DEF RecallFromFile, Room, Editing
<1>2. /\ line \in Seq(Letters)
      /\ \A i \in 1 .. Len(line) : buf'[i] = line[i]
  BY <1>1, FileEffect DEF PromptInv
<1>3. line \in Seq(Bytes)
  BY <1>2, SeqMonotonic DEF Bytes
<1>4. Text' = line
  BY <1>1, <1>2, <1>3, NextText DEF PromptInv
<1> QED
  BY <1>1, <1>4 DEF Editor!Recall

LEMMA RecallFromMemoryImplements ==
  ASSUME PromptInv, PromptInv', RecallFromMemory
  PROVE  Editor!RecallCommand \/ UNCHANGED Editor!vars
<1>1. PICK b : b = Copied(Slot(command), buf)
  OBVIOUS
<1>2. PICK n \in Nat, m \in Nat, k \in Nat :
        n = Len(command) /\ m = MaxCommandLen /\ k = LengthOf(b)
  <2>1. b \in Seq(Bytes) /\ Len(b) \in Nat /\ Len(command) \in Nat
    BY <1>1, MemoryEffect, LenProperties DEF PromptInv
  <2>2. LengthOf(b) \in Nat
    BY <2>1, LengthEnds
  <2> QED
    BY <2>1, <2>2, Sizes DEF PromptInv
<1>3. /\ b \in Seq(Bytes) /\ Len(b) = Capacity /\ Capacity \in Nat /\ m <= Capacity
      /\ \A i \in 1 .. m : i <= n => b[i] = command[i]
      /\ \A i \in 1 .. m : i > n => b[i] = NUL
  BY <1>1, <1>2, MemoryEffect, Sizes DEF PromptInv
<1>4. /\ command \in Seq(Bytes) /\ command # <<>> /\ command' = command /\ phase = "edit"
      /\ \A i \in 1 .. n : command[i] # NUL
  BY <1>2 DEF PromptInv, TypeOK, CommandNoNul, RecallFromMemory, Room, Editing
<1>5. CASE ~ (k < Capacity)
  <2>1. phase' = "overflow" /\ UNCHANGED <<buf, size, cursor>>
    BY <1>1, <1>2, <1>5 DEF RecallFromMemory
  <2> QED
    BY <1>4, <2>1 DEF Editor!vars, Text
<1>6. CASE k < Capacity
  <2>1. buf' = b /\ size' = k /\ cursor' = k /\ phase' = phase
    BY <1>1, <1>2, <1>6 DEF RecallFromMemory
  <2>2. k \in 0 .. Capacity
    BY <1>2, <1>3, LengthEnds
  <2>3. CASE n < m
    <3>1. k = n
      <4>1. /\ n < Len(b) /\ \A i \in 1 .. n : b[i] # NUL
            /\ b[n + 1] = NUL
        BY <1>2, <1>3, <1>4, <2>3
      <4> QED
        BY <1>2, <1>3, <4>1, LengthIs
    <3>2. \A i \in 1 .. size' : buf'[i] = command[i]
      BY <1>2, <1>3, <2>1, <2>3, <3>1
    <3>3. Text' = command
      BY <1>2, <1>4, <2>1, <3>1, <3>2, NextText DEF PromptInv
    <3> QED
      BY <1>2, <1>4, <2>1, <2>3, <3>1, <3>3 DEF Editor!RecallCommand
  <2>4. CASE ~ (n < m)
    <3>1. m <= k
      <4>1. m <= Len(b) /\ \A i \in 1 .. m : b[i] # NUL
        BY <1>2, <1>3, <1>4, <2>4
      <4> QED
        BY <1>2, <1>3, <4>1, LengthBeyond
    <3>2. PICK t : t = SubSeq(b, 1, k)
      OBVIOUS
    <3>3. t \in Seq(Bytes) /\ Len(t) = k /\ \A i \in 1 .. k : t[i] = b[i]
      BY <1>3, <2>2, <3>2, PartBytes
    <3>4. Text' = t
      BY <2>1, <3>3, NextText DEF PromptInv
    <3>5. SubSeq(t, 1, m) = SubSeq(command, 1, m)
      <4>1. PICK x, y : x = SubSeq(t, 1, m) /\ y = SubSeq(command, 1, m)
        OBVIOUS
      <4>2. x \in Seq(Bytes) /\ Len(x) = m /\ \A i \in 1 .. m : x[i] = t[i]
        BY <1>2, <2>2, <3>1, <3>3, <4>1, PartBytes
      <4>3. y \in Seq(Bytes) /\ Len(y) = m /\ \A i \in 1 .. m : y[i] = command[i]
        BY <1>2, <1>4, <2>4, <4>1, PartBytes
      <4>4. ASSUME NEW i \in 1 .. m
            PROVE  x[i] = y[i]
        <5>1. i \in 1 .. k /\ i <= n
          BY <1>2, <1>3, <2>2, <2>4, <3>1
        <5>2. b[i] = command[i]
          BY <1>3, <5>1
        <5> QED
          BY <3>3, <4>2, <4>3, <5>1, <5>2
      <4>5. x = y
        BY <4>2, <4>3, <4>4, SeqEqual
      <4> QED
        BY <4>1, <4>5
    <3> QED
      BY <1>2, <1>4, <2>1, <2>2, <2>4, <3>1, <3>3, <3>4, <3>5 DEF Editor!RecallCommand
  <2> QED
    BY <2>3, <2>4
<1> QED
  BY <1>5, <1>6

LEMMA EnterImplements ==
  ASSUME PromptInv, PromptInv', Enter
  PROVE  Editor!Enter
<1>1. PICK m \in Nat : \E b \in Seq(Bytes) :
         Len(b) = m /\ size + 1 <= m /\ Finish(b)
  BY EnterBuffer
<1>2. PICK b \in Seq(Bytes) : Len(b) = m /\ size + 1 <= m /\ Finish(b)
  BY <1>1
<1>3. /\ \A i \in 1 .. size : buf'[i] = buf[i]
      /\ buf'[size + 1] = "\n"
  BY <1>2, FinishEffect DEF PromptInv
<1>4. /\ size \in Nat /\ size' = size + 1 /\ cursor' = cursor /\ phase = "edit" /\ command' = command
      /\ phase' \in {"returned", "sentinel"}
  BY <1>2, Sizes DEF PromptInv, Finish, Enter, Editing
<1>5. Text \in Seq(Bytes) /\ Len(Text) = size /\ \A i \in 1 .. size : Text[i] = buf[i]
  BY TextBytes DEF PromptInv
<1>6. PICK t : t = Append(Text, "\n")
  OBVIOUS
<1>7. /\ t \in Seq(Bytes) /\ Len(t) = size + 1
      /\ \A i \in 1 .. size : t[i] = Text[i]
      /\ t[size + 1] = "\n"
  BY <1>5, <1>6, AppendProperties DEF Bytes
<1>8. \A i \in 1 .. size + 1 : buf'[i] = t[i]
  <2>1. \A i \in 1 .. size + 1 : i \in 1 .. size \/ i = size + 1
    BY <1>4
  <2> QED
    BY <1>3, <1>5, <1>7, <2>1
<1>9. Text' = t
  BY <1>4, <1>7, <1>8, NextText DEF PromptInv
<1> QED
  BY <1>4, <1>6, <1>9 DEF Editor!Enter

LEMMA PromptStartImplements ==
  ASSUME PromptInv, PromptInv', PromptStart
  PROVE  Editor!NewLine
<1>1. /\ phase = "returned" /\ phase' = "edit" /\ size' = 0 /\ cursor' = 0
      /\ command' \in {command, Text}
  BY DEF PromptStart
<1>2. <<>> \in Seq(Bytes) /\ Len(<<>>) = 0
  OBVIOUS
<1>3. \A i \in 1 .. size' : buf'[i] = <<>>[i]
  BY <1>1
<1>4. Text' = <<>>
  BY <1>1, <1>2, <1>3, NextText DEF PromptInv
<1> QED
  BY <1>1, <1>4 DEF Editor!NewLine

LEMMA MoveImplements ==
  ASSUME PromptInv, MoveLeft \/ MoveRight
  PROVE  Editor!Move
<1>1. /\ size \in Nat /\ cursor \in Nat /\ cursor <= size /\ Len(Text) = size
      /\ phase = "edit" /\ phase' = phase /\ buf' = buf /\ size' = size
      /\ command' = command
  BY Sizes, TextBytes DEF PromptInv, MoveLeft, MoveRight, Room, Editing
<1>2. cursor' \in {cursor - 1, cursor + 1} \cap (0 .. Len(Text))
  BY <1>1 DEF MoveLeft, MoveRight
<1>3. Text' = Text
  BY <1>1 DEF Text
<1> QED
  BY <1>1, <1>2, <1>3 DEF Editor!Move

LEMMA EnlargeImplements ==
  ASSUME PromptInv, PromptInv', Enlarge
  PROVE  UNCHANGED Editor!vars
<1>1. PICK g \in Garbage(Capacity) : buf' = buf \o g
  BY DEF Enlarge
<1>2. size' = size /\ cursor' = cursor /\ phase' = phase /\ command' = command
      /\ size <= Capacity /\ size \in Nat
  BY Sizes DEF PromptInv, Enlarge
<1>3. \A i \in 1 .. Capacity : buf'[i] = buf[i]
  BY <1>1, MoreGarbage DEF PromptInv
<1>4. Text \in Seq(Bytes) /\ Len(Text) = size /\ \A i \in 1 .. size : Text[i] = buf[i]
  BY TextBytes DEF PromptInv
<1>5. \A i \in 1 .. size' : buf'[i] = Text[i]
  <2>1. Capacity \in Nat
    BY Sizes DEF PromptInv
  <2> QED
    BY <1>2, <1>3, <1>4, <2>1
<1>6. Text' = Text
  BY <1>2, <1>4, <1>5, NextText DEF PromptInv
<1> QED
  BY <1>2, <1>6 DEF Editor!vars

LEMMA StepImplements ==
  PromptInv /\ PromptInv' /\ [Next]_vars => [Editor!Next]_(Editor!vars)
<1> SUFFICES ASSUME PromptInv, PromptInv', [Next]_vars
             PROVE  Editor!Next \/ UNCHANGED Editor!vars
  OBVIOUS
<1>1. CASE PromptStart
  BY <1>1, PromptStartImplements DEF Editor!Next
<1>2. CASE Enlarge
  BY <1>2, EnlargeImplements
<1>3. ASSUME NEW c \in Letters, TypeAtEnd(c)
      PROVE  Editor!Next
  BY <1>3, TypeAtEndImplements DEF Editor!Next
<1>4. ASSUME NEW c \in Letters, Insert(c)
      PROVE  Editor!Next \/ UNCHANGED Editor!vars
  BY <1>4, InsertImplements DEF Editor!Next
<1>5. CASE Backspace
  BY <1>5, BackspaceImplements DEF Editor!Next
<1>6. CASE MoveLeft \/ MoveRight
  BY <1>6, MoveImplements DEF Editor!Next
<1>7. ASSUME NEW line \in FromFile, RecallFromFile(line)
      PROVE  Editor!Next
  BY <1>7, RecallFromFileImplements DEF Editor!Next
<1>8. CASE RecallFromMemory
  BY <1>8, RecallFromMemoryImplements DEF Editor!Next
<1>9. CASE Enter
  BY <1>9, EnterImplements DEF Editor!Next
<1>10. CASE UNCHANGED vars
  BY <1>10 DEF vars, ghosts, Editor!vars, Text
<1> QED
  BY <1>1, <1>2, <1>3, <1>4, <1>5, <1>6, <1>7, <1>8, <1>9, <1>10 DEF Next

LEMMA InitImplements ==
  Init => Editor!Init
<1> SUFFICES ASSUME Init
             PROVE  Editor!Init
  OBVIOUS
<1>1. TypeOK
  BY Initially DEF PromptInv
<1>2. Text \in Seq(Bytes) /\ Len(Text) = 0
  BY <1>1, TextBytes DEF Init
<1>3. Text = <<>>
  BY <1>2, EmptySeq
<1> QED
  BY <1>3 DEF Init, Editor!Init

\* ImplementsEditor: whatever bytes the buffer holds beyond the line, the keys that
\* prompt() handles do to the line and the cursor what the user of an editor expects,
\* until a full buffer stops it.  A saved line that has filled its slot, without a 0
\* then, comes back with at least what the slot holds.
THEOREM Implements ==
  Spec => ImplementsEditor
BY InitImplements, StepImplements, PromptInvariant, PTL
   DEF Spec, ImplementsEditor, Editor!Spec

=============================================================================
