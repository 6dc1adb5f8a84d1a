---------------------------- MODULE ConfigProofs ----------------------------
(***************************************************************************)
(* Theorems about how the configuration arrives in Environment, for every  *)
(* file, every length of the buffer it is read into and every length the   *)
(* array of paths begins with.                                             *)
(***************************************************************************)
EXTENDS Environment, FiniteSetTheorems, FoldProofs, TLAPS

Chars == STRING

\* What env_malloc() has set.
StartInv ==
  /\ phase = "malloc" => table = <<>>
  /\ phase = "open" => UID \in DOMAIN table /\ DOMAIN table \subseteq {HOME, UID}

\* What is in the table are texts, and what was read into buf fits it; the
\* array of paths has room for one more.
TextInv ==
  /\ phase \in Phases /\ uid \in Uids /\ update \in BOOLEAN
  /\ IsFiniteSet(DOMAIN table)
  /\ \A key \in DOMAIN table : table[key] \in Seq(Chars)
  /\ config \in Seq(Chars) /\ input \in Seq(Chars) /\ left \in Seq(Chars)
FitInv ==
  /\ phase = "config" => \A key \in DOMAIN table :
                            key \notin {HOME, UID} => Len(table[key]) < MaxEnvLen
  /\ phase = "paths" => Len(left) < MaxEnvLen
  /\ paths \in Seq(Seq(Chars)) /\ \A i \in DOMAIN paths : Len(paths[i]) < MaxEnvLen
  /\ capacity \in Nat /\ Len(paths) < capacity
  /\ phase \in {"malloc", "open", "config"} => paths = <<>>

-----------------------------------------------------------------------------
(* The operators of the table.                                             *)

\* What ht_set() has set can be looked up, and nothing else has changed.
LEMMA PutGet ==
  \A t, key, value :
    /\ DOMAIN Put(t, key, value) = DOMAIN t \cup {key}
    /\ Put(t, key, value)[key] = value
    /\ \A k \in DOMAIN t : k # key => Put(t, key, value)[k] = t[k]
BY DEF Put

\* What ht_rm() has not removed can still be looked up.
LEMMA WithoutGet ==
  \A t, key :
    /\ DOMAIN Without(t, key) = DOMAIN t \ {key}
    /\ \A k \in DOMAIN t : k # key => Without(t, key)[k] = t[k]
BY DEF Without

-----------------------------------------------------------------------------
(* Texts.                                                                  *)

LEMMA OneChar ==
  ASSUME NEW S, NEW c \in S
  PROVE  <<c>> \in Seq(S)
OBVIOUS

\* A part of a text, character by character.
LEMMA PartOf ==
  ASSUME NEW s \in Seq(Chars), NEW m \in Nat \ {0}, NEW n \in Nat, m <= n + 1, n <= Len(s)
  PROVE  /\ SubSeq(s, m, n) \in Seq(Chars) /\ Len(SubSeq(s, m, n)) = n + 1 - m
         /\ \A i \in 1 .. n + 1 - m : SubSeq(s, m, n)[i] = s[m + i - 1]
<1>1. Len(s) \in Nat
  BY LenProperties
<1>2. \A i \in m .. n : s[i] \in Chars
  BY <1>1, ElementOfSeq
<1> QED
  BY <1>2, SubSeqProperties

\* A part of a part.
LEMMA PartOfPart ==
  ASSUME NEW s \in Seq(Chars), NEW k \in Nat, NEW l \in Nat, k <= l, l <= Len(s),
         NEW m \in Nat \ {0}, NEW n \in Nat, m <= n + 1, k + n <= l
  PROVE  SubSeq(SubSeq(s, k + 1, l), m, n) = SubSeq(s, k + m, k + n)
<1>1. Len(s) \in Nat
  BY LenProperties
<1>2. PICK r : r = SubSeq(s, k + 1, l)
  OBVIOUS
<1>3. r \in Seq(Chars) /\ Len(r) = l - k /\ \A i \in 1 .. l - k : r[i] = s[k + i]
  BY <1>1, <1>2, PartOf
<1>4. PICK a : a = SubSeq(r, m, n)
  OBVIOUS
<1>5. a \in Seq(Chars) /\ Len(a) = n + 1 - m /\ \A i \in 1 .. n + 1 - m : a[i] = r[m + i - 1]
  BY <1>1, <1>3, <1>4, PartOf
<1>6. PICK b : b = SubSeq(s, k + m, k + n)
  OBVIOUS
<1>7. b \in Seq(Chars) /\ Len(b) = n + 1 - m /\ \A i \in 1 .. n + 1 - m : b[i] = s[k + m + i - 1]
  <2>1. /\ k + m \in Nat \ {0} /\ k + n \in Nat /\ k + m <= k + n + 1 /\ k + n <= Len(s)
        /\ k + n + 1 - (k + m) = n + 1 - m
    BY <1>1
  <2> QED
    BY <1>6, <2>1, PartOf
<1>8. ASSUME NEW i \in 1 .. Len(a)
      PROVE  a[i] = b[i]
  <2>1. m + i - 1 \in 1 .. l - k /\ k + (m + i - 1) = k + m + i - 1
    BY <1>5
  <2> QED
    BY <1>3, <1>5, <1>7, <2>1
<1> QED
  BY <1>2, <1>4, <1>5, <1>6, <1>7, <1>8, SeqEqual

\* vstr_find_first_c() finds the first one.
LEMMA FindFirstIs ==
  ASSUME NEW t \in Seq(Chars), NEW c
  PROVE  /\ FindFirst(t, c) \in 0 .. Len(t)
         /\ FindFirst(t, c) = 0 => \A i \in 1 .. Len(t) : t[i] # c
         /\ FindFirst(t, c) # 0 => /\ t[FindFirst(t, c)] = c
                                   /\ \A i \in 1 .. FindFirst(t, c) - 1 : t[i] # c
<1> DEFINE found == {i \in 1 .. Len(t) : t[i] = c}
<1>1. Len(t) \in Nat
  BY LenProperties
<1>2. FindFirst(t, c) = IF found # {} THEN Min(found) ELSE 0
  BY DEF FindFirst, SelectInSeq
<1>3. found # {} => Min(found) \in found /\ \A k \in found : Min(found) <= k
  <2>1. found \in SUBSET Nat
    BY <1>1
  <2> HIDE DEF found
  <2> QED
    BY <2>1, FirstOne
<1>4. CASE found = {}
  BY <1>1, <1>2, <1>4
<1>5. CASE found # {}
  <2>1. PICK m : m = Min(found)
    OBVIOUS
  <2>2. m \in 1 .. Len(t) /\ t[m] = c
    BY <1>3, <1>5, <2>1
  <2>3. \A i \in 1 .. m - 1 : t[i] # c
    BY <1>1, <1>3, <1>5, <2>1, <2>2
  <2>4. FindFirst(t, c) = m
    BY <1>2, <1>5, <2>1
  <2> QED
    BY <1>1, <2>2, <2>3, <2>4
<1> QED
  BY <1>4, <1>5

-----------------------------------------------------------------------------
(* Lines.                                                                  *)

LEMMA LineIs ==
  ASSUME NEW t, NEW a \in DOMAIN t, NEW b \in DOMAIN t, a <= b, t[b] = "\n",
         a = 1 \/ t[a - 1] = "\n", \A i \in a .. b - 1 : t[i] # "\n"
  PROVE  <<a, b>> \in LinesOf(t)
BY DEF LinesOf

\* Two lines with a character in common are the same.
LEMMA OneLine ==
  ASSUME NEW t \in Seq(Chars), NEW l \in LinesOf(t), NEW m \in LinesOf(t),
         NEW i \in Nat, l[1] <= i, i <= l[2], m[1] <= i, i <= m[2]
  PROVE  l = m
<1>1. /\ Len(t) \in Nat /\ DOMAIN t = 1 .. Len(t)
  BY LenProperties
<1>2. /\ l = <<l[1], l[2]>> /\ m = <<m[1], m[2]>>
      /\ l[1] \in 1 .. Len(t) /\ l[2] \in 1 .. Len(t)
      /\ m[1] \in 1 .. Len(t) /\ m[2] \in 1 .. Len(t)
  BY <1>1 DEF LinesOf
<1>3. l[2] = m[2]
  <2>1. ~ (l[2] < m[2])
    BY <1>2 DEF LinesOf
  <2>2. ~ (m[2] < l[2])
    BY <1>2 DEF LinesOf
  <2> QED
    BY <1>2, <2>1, <2>2
<1>4. l[1] = m[1]
  <2>1. ~ (l[1] < m[1])
    BY <1>2, <1>3 DEF LinesOf
  <2>2. ~ (m[1] < l[1])
    BY <1>2, <1>3 DEF LinesOf
  <2> QED
    BY <1>2, <2>1, <2>2
<1> QED
  BY <1>2, <1>3, <1>4

\* Of a well-formed file fgets() returns the next line whole.
LEMMA PieceIsLine ==
  ASSUME NEW t \in Seq(Chars), WellFormed(t),
         NEW k \in Nat, k < Len(t), k = 0 \/ t[k] = "\n",
         NEW n, n = PieceLen(SubSeq(t, k + 1, Len(t)))
  PROVE  /\ n \in Nat \ {0} /\ n < MaxEnvLen /\ k + n <= Len(t) /\ t[k + n] = "\n"
         /\ \A i \in k + 1 .. k + n - 1 : t[i] # "\n"
         /\ <<k + 1, k + n>> \in LinesOf(t)
<1>1. PICK z \in Nat : z = Len(t) /\ DOMAIN t = 1 .. z
  BY LenProperties
<1>2. MaxEnvLen \in Nat \ {0, 1}
  BY ConfigAssumption
<1>3. PICK x \in Nat \ {0} : x = z - k
  <2>1. z - k \in Nat \ {0}
    BY <1>1
  <2> QED
    BY <2>1
<1>4. PICK r : r = SubSeq(t, k + 1, z)
  OBVIOUS
<1>5. r \in Seq(Chars) /\ Len(r) = x /\ \A i \in 1 .. x : r[i] = t[k + i]
  <2>1. k + 1 \in Nat \ {0} /\ k + 1 <= z + 1 /\ z <= Len(t)
    BY <1>1, <1>3
  <2>2. /\ r \in Seq(Chars) /\ Len(r) = z + 1 - (k + 1)
        /\ \A i \in 1 .. z + 1 - (k + 1) : r[i] = t[k + 1 + i - 1]
    BY <1>4, <2>1, PartOf
  <2>3. z + 1 - (k + 1) = x /\ \A i \in 1 .. x : k + 1 + i - 1 = k + i
    BY <1>3
  <2> QED
    BY <2>2, <2>3
<1> DEFINE newlines == {i \in 1 .. x : r[i] = "\n"}
<1>6. PICK m : m = Min(newlines)
  OBVIOUS
<1>7. m \in newlines /\ \A i \in newlines : m <= i
  <2>1. t[z] = "\n"
    <3>1. t # <<>>
      <4>1. z # 0
        BY <1>3
      <4> QED
        BY <1>1, <4>1, EmptySeq
    <3> QED
      BY <1>1, <3>1 DEF WellFormed
  <2>2. r[x] = "\n"
    BY <1>3, <1>5, <2>1
  <2>3. newlines \in SUBSET Nat /\ newlines # {}
    BY <2>2
  <2> HIDE DEF newlines
  <2> QED
    BY <1>6, <2>3, FirstOne
<1>8. m \in 1 .. x /\ r[m] = "\n"
  BY <1>7
<1>9. k + m \in 1 .. z /\ t[k + m] = "\n"
  BY <1>3, <1>5, <1>8
<1>10. \A i \in k + 1 .. k + m - 1 : t[i] # "\n"
  <2> TAKE i \in k + 1 .. k + m - 1
  <2>1. PICK j \in 1 .. x : j = i - k
    BY <1>8
  <2>2. j < m /\ k + j = i
    BY <1>8, <2>1
  <2>3. r[j] # "\n"
    BY <1>7, <1>8, <2>1, <2>2
  <2> QED
    BY <1>5, <2>1, <2>2, <2>3
<1>11. <<k + 1, k + m>> \in LinesOf(t)
  <2>1. PICK a \in DOMAIN t, b \in DOMAIN t : a = k + 1 /\ b = k + m
    BY <1>1, <1>3, <1>8
  <2>2. a <= b /\ (a = 1 \/ t[a - 1] = "\n")
    BY <1>8, <2>1
  <2>3. t[b] = "\n"
    BY <1>9, <2>1
  <2>4. \A i \in a .. b - 1 : t[i] # "\n"
    <3>1. a .. b - 1 = k + 1 .. k + m - 1
      BY <1>8, <2>1
    <3> QED
      BY <1>10, <3>1
  <2> QED
    BY <2>1, <2>2, <2>3, <2>4, LineIs
<1>12. m < MaxEnvLen
  <2>1. <<k + 1, k + m>>[2] - <<k + 1, k + m>>[1] + 1 < MaxEnvLen
    BY <1>11 DEF WellFormed
  <2> QED
    BY <1>2, <1>8, <2>1
<1>13. n = m
  <2>1. PICK full \in Nat : full = IF x < MaxEnvLen THEN x ELSE MaxEnvLen - 1
    BY <1>2
  <2>2. m \in 1 .. full /\ full <= x
    BY <1>2, <1>8, <1>12, <2>1
  <2> DEFINE ends == {i \in 1 .. full : r[i] = "\n"}
  <2>3. n = IF ends = {} THEN full ELSE Min(ends)
    BY <1>1, <1>4, <1>5, <2>1 DEF PieceLen
  <2>4. ends \in SUBSET Nat /\ m \in ends /\ ends \subseteq newlines
    BY <1>8, <2>2
  <2> HIDE DEF ends, newlines
  <2>5. n \in ends /\ \A i \in ends : n <= i
    BY <2>3, <2>4, FirstOne
  <2>6. n <= m /\ m <= n /\ n \in Nat
    BY <1>7, <2>4, <2>5
  <2> QED
    BY <1>8, <2>6
<1> QED
  BY <1>1, <1>8, <1>9, <1>10, <1>11, <1>12, <1>13

-----------------------------------------------------------------------------
(* Assignments.                                                            *)

\* A line l of t is no comment and has its first equals sign at e.
Assigns(t, l, e) ==
  /\ e \in l[1] .. l[2] /\ t[e] = "=" /\ t[l[1]] # "#"
  /\ \A i \in l[1] .. e - 1 : t[i] # "="

AssignmentOf(t, l, e) ==
  [key |-> SubSeq(t, l[1], e - 1), at |-> e, value |-> SubSeq(t, e + 1, l[2] - 1)]

\* The assignments that end before the character n.
Before(t, n) == {a \in Assignments(t) : a.at <= n}

LEMMA AssignmentsAre ==
  \A t, a : a \in Assignments(t) <=>
    \E l \in LinesOf(t), e \in DOMAIN t : Assigns(t, l, e) /\ a = AssignmentOf(t, l, e)
<1> TAKE t, a
<1>1. ASSUME NEW l \in LinesOf(t), NEW e \in DOMAIN t,
             Assigns(t, l, e), a = AssignmentOf(t, l, e)
      PROVE  a \in Assignments(t)
  <2> DEFINE x == <<l, e>>
  <2>1. x \in LinesOf(t) \X DOMAIN t /\ x[1] = l /\ x[2] = e
    OBVIOUS
  <2> HIDE DEF x
  <2> QED
    BY <1>1, <2>1 DEF Assigns, AssignmentOf, Assignments
<1>2. ASSUME a \in Assignments(t)
      PROVE  \E l \in LinesOf(t), e \in DOMAIN t :
               Assigns(t, l, e) /\ a = AssignmentOf(t, l, e)
  <2>1. PICK x \in LinesOf(t) \X DOMAIN t :
          Assigns(t, x[1], x[2]) /\ a = AssignmentOf(t, x[1], x[2])
    BY <1>2 DEF Assigns, AssignmentOf, Assignments
  <2>2. x[1] \in LinesOf(t) /\ x[2] \in DOMAIN t
    OBVIOUS
  <2> QED
    BY <2>1, <2>2
<1> QED
  BY <1>1, <1>2

\* A line is a pair of positions.
LEMMA LinePlaces ==
  ASSUME NEW t \in Seq(Chars), NEW l \in LinesOf(t)
  PROVE  /\ l[1] \in 1 .. Len(t) /\ l[2] \in 1 .. Len(t) /\ l[1] <= l[2]
         /\ t[l[2]] = "\n" /\ (l[1] = 1 \/ t[l[1] - 1] = "\n")
         /\ \A i \in l[1] .. l[2] - 1 : t[i] # "\n"
BY LenProperties DEF LinesOf

\* No two assignments have the same equals sign.
LEMMA OneAssignment ==
  ASSUME NEW t \in Seq(Chars), NEW a \in Assignments(t), NEW b \in Assignments(t),
         a.at = b.at
  PROVE  a = b
<1>1. PICK l \in LinesOf(t), e \in DOMAIN t : Assigns(t, l, e) /\ a = AssignmentOf(t, l, e)
  BY AssignmentsAre
<1>2. PICK m \in LinesOf(t), f \in DOMAIN t : Assigns(t, m, f) /\ b = AssignmentOf(t, m, f)
  BY AssignmentsAre
<1>3. e = f
  BY <1>1, <1>2 DEF AssignmentOf
<1>4. e \in Nat /\ l[1] <= e /\ e <= l[2] /\ m[1] <= e /\ e <= m[2]
  BY <1>1, <1>2, <1>3, LinePlaces DEF Assigns
<1>5. l = m
  BY <1>4, OneLine
<1> QED
  BY <1>1, <1>2, <1>3, <1>5

\* A line that is read adds nothing but its assignment to those before it.
LEMMA LineGrows ==
  ASSUME NEW t \in Seq(Chars), NEW k \in Nat, NEW j \in Nat, k < j,
         NEW l \in LinesOf(t), l[1] = k + 1, l[2] = j
  PROVE  /\ Before(t, k) \subseteq Before(t, j)
         /\ \A a \in Before(t, j) : a \notin Before(t, k) =>
              \E e \in DOMAIN t : Assigns(t, l, e) /\ a = AssignmentOf(t, l, e)
<1>1. Len(t) \in Nat /\ DOMAIN t = 1 .. Len(t)
  BY LenProperties
<1>2. ASSUME NEW a \in Before(t, j), a \notin Before(t, k)
      PROVE  \E e \in DOMAIN t : Assigns(t, l, e) /\ a = AssignmentOf(t, l, e)
  <2>1. PICK m \in LinesOf(t), e \in DOMAIN t : Assigns(t, m, e) /\ a = AssignmentOf(t, m, e)
    BY AssignmentsAre DEF Before
  <2>2. a.at = e
    BY <2>1 DEF AssignmentOf
  <2>3. e \in Nat /\ k < e /\ e <= j
    BY <1>1, <1>2, <2>2 DEF Before
  <2>4. m[1] <= e /\ e <= m[2]
    BY <2>1, <2>3, LinePlaces DEF Assigns
  <2>5. l = m
    BY <2>3, <2>4, OneLine
  <2> QED
    BY <2>1, <2>5
<1>3. Before(t, k) \subseteq Before(t, j)
  <2>1. \A a \in Assignments(t) : a.at \in Nat
    <3> TAKE a \in Assignments(t)
    <3>1. PICK m \in LinesOf(t), e \in DOMAIN t : a = AssignmentOf(t, m, e)
      BY AssignmentsAre
    <3> QED
      BY <1>1, <3>1 DEF AssignmentOf
  <2> QED
    BY <2>1 DEF Before
<1> QED
  BY <1>2, <1>3

LEMMA LineAdds ==
  ASSUME NEW t \in Seq(Chars), NEW k \in Nat, NEW j \in Nat, k < j,
         NEW l \in LinesOf(t), l[1] = k + 1, l[2] = j,
         NEW e \in DOMAIN t, Assigns(t, l, e)
  PROVE  Before(t, j) = Before(t, k) \cup {AssignmentOf(t, l, e)}
<1>1. Len(t) \in Nat /\ DOMAIN t = 1 .. Len(t)
  BY LenProperties
<1>2. AssignmentOf(t, l, e) \in Before(t, j)
  <2>1. AssignmentOf(t, l, e) \in Assignments(t)
    BY AssignmentsAre
  <2>2. AssignmentOf(t, l, e).at = e /\ e <= j
    BY <1>1 DEF Assigns, AssignmentOf
  <2> QED
    BY <2>1, <2>2 DEF Before
<1>3. \A f \in DOMAIN t : Assigns(t, l, f) => f = e
  BY <1>1 DEF Assigns
<1>4. /\ Before(t, k) \subseteq Before(t, j)
      /\ \A a \in Before(t, j) : a \notin Before(t, k) =>
           \E f \in DOMAIN t : Assigns(t, l, f) /\ a = AssignmentOf(t, l, f)
  BY LineGrows
<1> QED
  BY <1>2, <1>3, <1>4

LEMMA LineAddsNothing ==
  ASSUME NEW t \in Seq(Chars), NEW k \in Nat, NEW j \in Nat, k < j,
         NEW l \in LinesOf(t), l[1] = k + 1, l[2] = j,
         \A e \in DOMAIN t : ~ Assigns(t, l, e)
  PROVE  Before(t, j) = Before(t, k)
<1>1. /\ Before(t, k) \subseteq Before(t, j)
      /\ \A a \in Before(t, j) : a \notin Before(t, k) =>
           \E e \in DOMAIN t : Assigns(t, l, e) /\ a = AssignmentOf(t, l, e)
  BY LineGrows
<1> QED
  BY <1>1

\* What parse_config() takes from the line p is the assignment at e.
TakenAs(p, t, l, e) ==
  /\ Assigns(t, l, e) /\ ~ CutsBefore(p)
  /\ KeyOf(p) = AssignmentOf(t, l, e).key
  /\ ValueOf(p) = AssignmentOf(t, l, e).value

\* What parse_config() takes from a line is its assignment.
LEMMA PieceAssigns ==
  ASSUME NEW t \in Seq(Chars), NEW k \in Nat, NEW n \in Nat \ {0}, k + n <= Len(t),
         NEW l, l = <<k + 1, k + n>>, l \in LinesOf(t),
         NEW p, p = SubSeq(t, k + 1, k + n)
  PROVE  /\ IsSetting(p) => \E e \in DOMAIN t : TakenAs(p, t, l, e)
         /\ ~ IsSetting(p) => \A e \in DOMAIN t : ~ Assigns(t, l, e)
<1>1. PICK z \in Nat : z = Len(t) /\ DOMAIN t = 1 .. z
  BY LenProperties
<1>2. p \in Seq(Chars) /\ Len(p) = n /\ \A i \in 1 .. n : p[i] = t[k + i]
  <2>1. /\ p \in Seq(Chars) /\ Len(p) = k + n + 1 - (k + 1)
        /\ \A i \in 1 .. k + n + 1 - (k + 1) : p[i] = t[k + 1 + i - 1]
    BY PartOf
  <2>2. k + n + 1 - (k + 1) = n /\ \A i \in 1 .. n : k + 1 + i - 1 = k + i
    OBVIOUS
  <2> QED
    BY <2>1, <2>2
<1>3. l[1] = k + 1 /\ l[2] = k + n /\ t[k + n] = "\n"
  BY LinePlaces
<1>4. PICK q : q = FindFirst(p, "=")
  OBVIOUS
<1>5. /\ q \in 0 .. n
      /\ q = 0 => \A i \in 1 .. n : p[i] # "="
      /\ q # 0 => p[q] = "=" /\ \A i \in 1 .. q - 1 : p[i] # "="
  <2>1. PICK c : c = "="
    OBVIOUS
  <2>2. p \in Seq(Chars) /\ q = FindFirst(p, c)
    BY <1>2, <1>4, <2>1
  <2>3. /\ q \in 0 .. Len(p)
        /\ q = 0 => \A i \in 1 .. Len(p) : p[i] # c
        /\ q # 0 => p[q] = c /\ \A i \in 1 .. q - 1 : p[i] # c
    BY ONLY <2>2, FindFirstIs
  <2> QED
    BY <1>2, <2>1, <2>3
<1>6. p[1] = t[k + 1]
  BY <1>2
<1>7. ASSUME IsSetting(p)
      PROVE  \E e \in DOMAIN t : TakenAs(p, t, l, e)
  <2>1. q \in 1 .. n /\ t[k + 1] # "#"
    BY <1>4, <1>5, <1>6, <1>7 DEF IsSetting
  <2>2. PICK e \in 1 .. z : e = k + q
    BY <1>1, <2>1
  <2>3. t[e] = "="
    BY <1>2, <1>5, <2>1, <2>2
  <2>4. \A i \in k + 1 .. e - 1 : t[i] # "="
    <3> TAKE i \in k + 1 .. e - 1
    <3>1. PICK j \in 1 .. q - 1 : j = i - k
      BY <2>1, <2>2
    <3>2. j \in 1 .. n /\ k + j = i
      BY <2>1, <3>1
    <3>3. p[j] # "="
      <4>1. q # 0
        BY <2>1
      <4>2. \A h \in 1 .. q - 1 : p[h] # "="
        BY <1>5, <4>1
      <4> QED
        BY <4>2
    <3> QED
      BY <1>2, <3>2, <3>3
  <2>5. Assigns(t, l, e)
    <3>1. e \in l[1] .. l[2]
      BY <1>3, <2>1, <2>2
    <3> QED
      BY <1>3, <2>1, <2>3, <2>4, <3>1 DEF Assigns
  <2>6. q < n
    BY <1>3, <2>1, <2>2, <2>3
  <2>7. ~ CutsBefore(p)
    BY <1>2, <1>4, <2>1, <2>6 DEF CutsBefore
  <2>8. KeyOf(p) = SubSeq(t, k + 1, e - 1)
    <3>1. PICK j \in Nat : j = q - 1
      BY <2>1
    <3>2. SubSeq(p, 1, j) = SubSeq(t, k + 1, k + j)
      BY <2>1, <3>1, PartOfPart
    <3>3. k + j = e - 1
      BY <2>1, <2>2, <3>1
    <3> QED
      BY <1>4, <3>1, <3>2, <3>3 DEF KeyOf
  <2>9. ValueOf(p) = SubSeq(t, e + 1, k + n - 1)
    <3>1. PICK i \in Nat \ {0}, j \in Nat : i = q + 1 /\ j = n - 1
      BY <2>1
    <3>2. i <= j + 1 /\ k + j <= k + n /\ k <= k + n /\ k + n \in Nat
      BY <2>1, <2>6, <3>1
    <3>3. SubSeq(SubSeq(t, k + 1, k + n), i, j) = SubSeq(t, k + i, k + j)
      BY ONLY <3>2, PartOfPart, t \in Seq(Chars), k \in Nat, k + n <= Len(t),
              i \in Nat \ {0}, j \in Nat
    <3>4. k + i = e + 1 /\ k + j = k + n - 1
      BY <2>1, <2>2, <3>1
    <3> QED
      BY <1>2, <1>4, <3>1, <3>3, <3>4 DEF ValueOf
  <2>10. /\ AssignmentOf(t, l, e).key = SubSeq(t, k + 1, e - 1)
         /\ AssignmentOf(t, l, e).value = SubSeq(t, e + 1, k + n - 1)
    BY <1>3 DEF AssignmentOf
  <2>11. e \in DOMAIN t
    BY <1>1
  <2> QED
    BY <2>5, <2>7, <2>8, <2>9, <2>10, <2>11 DEF TakenAs
<1>8. ASSUME ~ IsSetting(p), NEW e \in DOMAIN t, Assigns(t, l, e)
      PROVE  FALSE
  <2>1. e \in k + 1 .. k + n /\ t[e] = "=" /\ t[k + 1] # "#"
    BY <1>3, <1>8 DEF Assigns
  <2>2. PICK j \in 1 .. n : j = e - k
    BY <2>1
  <2>3. p[j] = "="
    <3>1. p[j] = t[k + j]
      BY <1>2, <2>2
    <3>2. k + j = e
      BY <2>1, <2>2
    <3> QED
      BY ONLY <2>1, <3>1, <3>2
  <2>4. q = 0
    BY <1>4, <1>6, <1>8, <2>1 DEF IsSetting
  <2> QED
    BY <1>5, <2>2, <2>3, <2>4
<1> QED
  BY <1>7, <1>8

-----------------------------------------------------------------------------
(* The table while the file is read.                                       *)

\* The table tab holds what env_malloc() has set and, for every key assigned
\* before the character n, the last value.
Holds(t, tab, n) ==
  /\ DOMAIN tab = {HOME, UID} \cup {a.key : a \in Before(t, n)}
  /\ \A a \in Before(t, n) : \E b \in Before(t, n) :
       /\ b.key = a.key /\ tab[a.key] = b.value
       /\ \A c \in Before(t, n) : c.key = a.key => c.at <= b.at

\* An assignment further back than all the others.
LEMMA HoldsOneMore ==
  ASSUME NEW t, NEW tab, NEW k, NEW n, NEW r, Holds(t, tab, k),
         Before(t, n) = Before(t, k) \cup {r},
         \A a \in Before(t, k) : a.at <= r.at, r.at <= r.at
  PROVE  Holds(t, Put(tab, r.key, r.value), n)
<1> DEFINE new == Put(tab, r.key, r.value)
<1>1. /\ DOMAIN new = DOMAIN tab \cup {r.key}
      /\ new[r.key] = r.value
      /\ \A key \in DOMAIN tab : key # r.key => new[key] = tab[key]
  <2>1. PICK key, value : key = r.key /\ value = r.value
    OBVIOUS
  <2>2. DOMAIN Put(tab, key, value) = DOMAIN tab \cup {key}
    BY PutGet
  <2>3. Put(tab, key, value)[key] = value
    BY PutGet
  <2>4. \A h \in DOMAIN tab : h # key => Put(tab, key, value)[h] = tab[h]
    BY PutGet
  <2> QED
    BY <2>1, <2>2, <2>3, <2>4
<1> HIDE DEF new
<1>2. DOMAIN new = {HOME, UID} \cup {a.key : a \in Before(t, n)}
  BY <1>1 DEF Holds
<1>3. ASSUME NEW a \in Before(t, n)
      PROVE  \E b \in Before(t, n) :
               /\ b.key = a.key /\ new[a.key] = b.value
               /\ \A c \in Before(t, n) : c.key = a.key => c.at <= b.at
  <2>1. CASE a.key = r.key
    <3>1. r \in Before(t, n) /\ new[a.key] = r.value
      BY <1>1, <2>1
    <3> QED
      BY <2>1, <3>1
  <2>2. CASE a.key # r.key
    <3>1. a \in Before(t, k)
      BY <2>2
    <3>2. PICK b \in Before(t, k) :
            /\ b.key = a.key /\ tab[a.key] = b.value
            /\ \A c \in Before(t, k) : c.key = a.key => c.at <= b.at
      BY <3>1 DEF Holds
    <3>3. a.key \in DOMAIN tab
      BY <3>1 DEF Holds
    <3>4. new[a.key] = b.value
      BY <1>1, <2>2, <3>2, <3>3
    <3> QED
      BY <2>2, <3>2, <3>4
  <2> QED
    BY <2>1, <2>2
<1> QED
  BY <1>2, <1>3 DEF Holds, new

\* A piece is not empty and fits buf, whatever the file looks like.
LEMMA PieceFits ==
  ASSUME NEW t \in Seq(Chars), t # <<>>
  PROVE  /\ PieceLen(t) \in 1 .. Len(t) /\ PieceLen(t) < MaxEnvLen
<1>1. PICK x \in Nat \ {0} : x = Len(t)
  BY EmptySeq
<1>2. MaxEnvLen \in Nat \ {0, 1}
  BY ConfigAssumption
<1>3. PICK full \in Nat : full = IF x < MaxEnvLen THEN x ELSE MaxEnvLen - 1
  BY <1>2
<1>4. full \in 1 .. x /\ full < MaxEnvLen
  BY <1>2, <1>3
<1> DEFINE ends == {i \in 1 .. full : t[i] = "\n"}
<1>5. PieceLen(t) = IF ends = {} THEN full ELSE Min(ends)
  BY <1>1, <1>3 DEF PieceLen
<1>6. ends # {} => Min(ends) \in ends
  <2>1. ends \in SUBSET Nat
    OBVIOUS
  <2> HIDE DEF ends
  <2> QED
    BY <2>1, FirstOne
<1>7. PieceLen(t) \in 1 .. full
  BY <1>4, <1>5, <1>6
<1> QED
  BY <1>1, <1>2, <1>4, <1>7

\* What fgets() has read and what is left of the file.
LEMMA ReadSplits ==
  ASSUME TextInv, input # <<>>, NEW n, n = PieceLen(input)
  PROVE  /\ n \in 1 .. Len(input) /\ n < MaxEnvLen
         /\ Piece \in Seq(Chars) /\ Len(Piece) = n
         /\ SubSeq(input, n + 1, Len(input)) \in Seq(Chars)
         /\ Len(SubSeq(input, n + 1, Len(input))) = Len(input) - n
<1>1. input \in Seq(Chars)
  BY DEF TextInv
<1>2. PICK x \in Nat : x = Len(input)
  BY <1>1, LenProperties
<1>3. n \in 1 .. x /\ n < MaxEnvLen
  BY <1>1, <1>2, PieceFits
<1>4. Piece \in Seq(Chars) /\ Len(Piece) = n + 1 - 1
  <2>1. 1 <= n + 1 /\ n <= Len(input) /\ n \in Nat
    BY <1>2, <1>3
  <2> QED
    BY <1>1, <2>1, PartOf DEF Piece
<1>5. /\ SubSeq(input, n + 1, x) \in Seq(Chars)
      /\ Len(SubSeq(input, n + 1, x)) = x + 1 - (n + 1)
  <2>1. n + 1 \in Nat \ {0} /\ n + 1 <= x + 1 /\ x <= Len(input)
    BY <1>2, <1>3
  <2> QED
    BY <1>1, <2>1, PartOf
<1> QED
  BY <1>2, <1>3, <1>4, <1>5

\* A value is shorter than its line.
LEMMA ValueFits ==
  ASSUME NEW p \in Seq(Chars), IsSetting(p), p # <<>>
  PROVE  KeyOf(p) \in Seq(Chars) /\ ValueOf(p) \in Seq(Chars) /\ Len(ValueOf(p)) <= Len(p)
<1>1. PICK n \in Nat \ {0} : n = Len(p)
  BY EmptySeq
<1>2. PICK q \in 1 .. n : q = FindFirst(p, "=")
  <2>1. FindFirst(p, "=") \in 0 .. n
    BY <1>1, FindFirstIs
  <2> QED
    BY <2>1 DEF IsSetting
<1>3. KeyOf(p) \in Seq(Chars)
  <2>1. PICK j \in Nat : j = q - 1
    BY <1>2
  <2>2. 1 <= j + 1 /\ j <= Len(p)
    BY <1>1, <1>2, <2>1
  <2>3. SubSeq(p, 1, j) \in Seq(Chars)
    BY <2>2, PartOf
  <2> QED
    BY <1>2, <2>1, <2>3 DEF KeyOf
<1>4. ValueOf(p) = SubSeq(p, q + 1, n - 1)
  BY <1>1, <1>2 DEF ValueOf
<1>5. CASE q < n
  <2>1. PICK i \in Nat \ {0}, j \in Nat : i = q + 1 /\ j = n - 1
    BY <1>2
  <2>2. i <= j + 1 /\ j <= Len(p)
    BY <1>1, <1>5, <2>1
  <2>3. SubSeq(p, i, j) \in Seq(Chars) /\ Len(SubSeq(p, i, j)) = j + 1 - i
    BY <2>2, PartOf
  <2>4. j + 1 - i <= n
    BY <1>2, <2>1
  <2> QED
    BY <1>1, <1>3, <1>4, <2>1, <2>3, <2>4
<1>6. CASE ~ (q < n)
  <2>1. n - 1 < q + 1 /\ q + 1 \in Int /\ n - 1 \in Int
    BY <1>2, <1>6
  <2>2. ValueOf(p) = <<>>
    BY <1>4, <2>1, SubSeqEmpty
  <2> QED
    BY <1>1, <1>3, <2>2, EmptySeq
<1> QED
  BY <1>5, <1>6

\* The types of a table in which a text is set.
LEMMA PutTypes ==
  ASSUME NEW t, NEW key, NEW value \in Seq(Chars), IsFiniteSet(DOMAIN t),
         \A k \in DOMAIN t : t[k] \in Seq(Chars)
  PROVE  /\ IsFiniteSet(DOMAIN Put(t, key, value))
         /\ \A k \in DOMAIN Put(t, key, value) : Put(t, key, value)[k] \in Seq(Chars)
<1>1. DOMAIN Put(t, key, value) = DOMAIN t \cup {key}
  BY PutGet
<1>2. IsFiniteSet(DOMAIN t \cup {key})
  BY FS_AddElement
<1>3. Put(t, key, value)[key] = value
  BY PutGet
<1>4. \A k \in DOMAIN t : k # key => Put(t, key, value)[k] = t[k]
  BY PutGet
<1> QED
  BY <1>1, <1>2, <1>3, <1>4

\* strtok(): where the next token is.
LEMMA TokenIs ==
  ASSUME NEW t \in Seq(Chars), NEW a, a = TokenStart(t), NEW e, e = TokenEnd(t)
  PROVE  /\ a \in 0 .. Len(t)
         /\ a = 0 => \A i \in 1 .. Len(t) : t[i] = ":"
         /\ a # 0 => /\ \A i \in 1 .. a - 1 : t[i] = ":"
                     /\ e \in a + 1 .. Len(t) + 1
                     /\ e <= Len(t) => t[e] = ":"
                     /\ \A i \in a .. e - 1 : t[i] # ":"
<1>1. PICK x \in Nat : x = Len(t)
  BY LenProperties
<1> DEFINE found == {i \in 1 .. x : t[i] # ":"}
<1>2. a = IF found # {} THEN Min(found) ELSE 0
  BY <1>1 DEF TokenStart, SelectInSeq
<1>3. found # {} => Min(found) \in found /\ \A k \in found : Min(found) <= k
  <2>1. found \in SUBSET Nat
    OBVIOUS
  <2> HIDE DEF found
  <2> QED
    BY <2>1, FirstOne
<1>4. CASE found = {}
  <2>1. a = 0 /\ \A i \in 1 .. x : t[i] = ":"
    BY <1>2, <1>4
  <2> QED
    BY <1>1, <2>1
<1>5. CASE found # {}
  <2>1. a \in found /\ \A k \in found : a <= k
    BY <1>2, <1>3, <1>5
  <2>2. a \in 1 .. x /\ t[a] # ":"
    BY <2>1
  <2>3. \A i \in 1 .. a - 1 : t[i] = ":"
    <3> TAKE i \in 1 .. a - 1
    <3>1. i \in 1 .. x /\ ~ (a <= i)
      BY <2>2
    <3> QED
      BY <2>1, <3>1
  <2> DEFINE ends == {i \in a .. x : t[i] = ":"}
  <2>4. e = IF ends = {} THEN x + 1 ELSE Min(ends)
    BY <1>1 DEF TokenEnd
  <2>5. ends # {} => Min(ends) \in ends /\ \A k \in ends : Min(ends) <= k
    <3>1. ends \in SUBSET Nat
      BY <2>2
    <3> HIDE DEF ends
    <3> QED
      BY <3>1, FirstOne
  <2>6. CASE ends = {}
    <3>1. e = x + 1 /\ \A i \in a .. x : t[i] # ":"
      BY <2>4, <2>6
    <3>2. e \in a + 1 .. x + 1 /\ ~ (e <= x) /\ \A i \in a .. e - 1 : t[i] # ":"
      BY <2>2, <3>1
    <3> QED
      BY <1>1, <2>2, <2>3, <3>2
  <2>7. CASE ends # {}
    <3>1. e \in ends /\ \A k \in ends : e <= k
      BY <2>4, <2>5, <2>7
    <3>2. e \in a .. x /\ t[e] = ":"
      BY <3>1
    <3>3. e # a
      BY <2>2, <3>2
    <3>4. \A i \in a .. e - 1 : t[i] # ":"
      <4> TAKE i \in a .. e - 1
      <4>1. i \in a .. x /\ ~ (e <= i)
        BY <2>2, <3>2
      <4> QED
        BY <3>1, <4>1
    <3>5. e \in a + 1 .. x + 1
      BY <2>2, <3>2, <3>3
    <3> QED
      BY <1>1, <2>2, <2>3, <3>2, <3>4, <3>5
  <2> QED
    BY <2>6, <2>7
<1> QED
  BY <1>4, <1>5

-----------------------------------------------------------------------------
(* What the steps of the start keep.                                       *)

LEMMA Names == PATH # HOME /\ PATH # UID /\ HOME # UID
<1>1. PATH[1] = "PATH" /\ HOME[1] = "HOME" /\ UID[1] = "UID"
  BY DEF PATH, HOME, UID
<1>2. "PATH" # "HOME" /\ "PATH" # "UID" /\ "HOME" # "UID"
  OBVIOUS
<1> QED
  BY <1>1, <1>2

StartsInv == StartInv /\ TextInv /\ FitInv

LEMMA StartsInit == Init => StartsInv
<1> SUFFICES ASSUME Init PROVE StartsInv
  OBVIOUS
<1>1. table = <<>> /\ DOMAIN table = {} /\ phase = "malloc"
  BY DEF Init
<1>2. <<>> \in Seq(Chars) /\ <<>> \in Seq(Seq(Chars)) /\ Len(<<>>) = 0 /\ DOMAIN <<>> = {}
  OBVIOUS
<1>3. IsFiniteSet({})
  BY FS_EmptySet
<1>4. StartingPaths \in Nat \ {0, 1}
  BY ConfigAssumption
<1>5. TextInv
  BY <1>1, <1>2, <1>3 DEF Init, TextInv, Phases
<1>6. FitInv
  BY <1>1, <1>2, <1>4 DEF Init, FitInv
<1>7. StartInv
  BY <1>1 DEF StartInv
<1> QED
  BY <1>5, <1>6, <1>7 DEF StartsInv

LEMMA EnvMallocKeeps ==
  ASSUME StartsInv, EnvMalloc
  PROVE  StartsInv'
<1>1. PICK dir \in Passwd :
       \/ dir = NoEntry /\ phase' = "fault" /\ UNCHANGED <<table, update>>
       \/ /\ dir # NoEntry /\ phase' = "open" /\ update' = TRUE
          /\ table' = Put(IF dir = NoDir THEN table ELSE Put(table, HOME, dir), UID, <<uid>>)
  BY DEF EnvMalloc
<1>2. phase = "malloc" /\ uid' = uid /\ loading' = loading
  BY DEF EnvMalloc
<1>3. CASE dir = NoEntry /\ phase' = "fault" /\ UNCHANGED <<table, update>>
  <2>1. phase' \in Phases
    BY <1>3 DEF Phases
  <2> QED
    BY <1>2, <1>3, <2>1 DEF StartsInv, StartInv, TextInv, FitInv, loading
<1>4. CASE /\ dir # NoEntry /\ phase' = "open" /\ update' = TRUE
           /\ table' = Put(IF dir = NoDir THEN table ELSE Put(table, HOME, dir), UID, <<uid>>)
  <2>1. PICK t : t = IF dir = NoDir THEN table ELSE Put(table, HOME, dir)
    OBVIOUS
  <2>2. DOMAIN table = {} /\ IsFiniteSet(DOMAIN table)
    BY <1>2 DEF StartsInv, StartInv, TextInv
  <2>3. dir # NoDir => dir \in Seq(Chars)
    BY <1>4, ConfigAssumption DEF Chars
  <2>4. /\ IsFiniteSet(DOMAIN t) /\ DOMAIN t \subseteq {HOME}
        /\ \A k \in DOMAIN t : t[k] \in Seq(Chars)
    <3>1. CASE dir = NoDir
      BY <2>1, <2>2, <3>1
    <3>2. CASE dir # NoDir
      <4>1. t = Put(table, HOME, dir) /\ dir \in Seq(Chars)
        BY <2>1, <2>3, <3>2
      <4>2. \A k \in DOMAIN table : table[k] \in Seq(Chars)
        BY <2>2
      <4>3. IsFiniteSet(DOMAIN t) /\ \A k \in DOMAIN t : t[k] \in Seq(Chars)
        BY <2>2, <4>1, <4>2, PutTypes
      <4>4. DOMAIN t = DOMAIN table \cup {HOME}
        BY <4>1, PutGet
      <4> QED
        BY <2>2, <4>3, <4>4
    <3> QED
      BY <3>1, <3>2
  <2>5. <<uid>> \in Seq(Chars)
    <3>1. uid \in STRING
      BY ConfigAssumption DEF StartsInv, TextInv
    <3> QED
      BY <3>1, OneChar DEF Chars
  <2>6. table' = Put(t, UID, <<uid>>)
    BY <1>4, <2>1
  <2>7. IsFiniteSet(DOMAIN table') /\ \A k \in DOMAIN table' : table'[k] \in Seq(Chars)
    BY <2>4, <2>5, <2>6, PutTypes
  <2>8. DOMAIN table' = DOMAIN t \cup {UID}
    BY <2>6, PutGet
  <2>9. TextInv'
    BY <1>2, <1>4, <2>7 DEF StartsInv, TextInv, loading, Phases
  <2>10. StartInv'
    BY <1>4, <2>4, <2>8 DEF StartInv
  <2>11. FitInv'
    BY <1>2, <1>4 DEF StartsInv, FitInv, loading
  <2> QED
    BY <2>9, <2>10, <2>11 DEF StartsInv
<1> QED
  BY <1>1, <1>3, <1>4

LEMMA OpenConfigKeeps ==
  ASSUME StartsInv, OpenConfig
  PROVE  StartsInv'
<1>1. /\ phase = "open" /\ phase' \in {"config", "exited"}
      /\ UNCHANGED <<uid, table, update, left, paths, capacity>>
  BY DEF OpenConfig
<1>2. config' \in Seq(Chars) /\ input' \in Seq(Chars)
  BY ConfigAssumption DEF OpenConfig, StartsInv, TextInv, Chars
<1>3. TextInv'
  BY <1>1, <1>2 DEF StartsInv, TextInv, Phases
<1>4. FitInv'
  <2>1. \A key \in DOMAIN table : key \in {HOME, UID}
    BY <1>1 DEF StartsInv, StartInv
  <2> QED
    BY <1>1, <2>1 DEF StartsInv, FitInv
<1>5. StartInv'
  BY <1>1 DEF StartInv
<1> QED
  BY <1>3, <1>4, <1>5 DEF StartsInv

LEMMA ReadLineKeeps ==
  ASSUME StartsInv, ReadLine
  PROVE  StartsInv'
<1>1. /\ phase = "config" /\ input # <<>>
      /\ input' = SubSeq(input, Len(Piece) + 1, Len(input))
      /\ UNCHANGED <<uid, config, left, paths, capacity>>
  BY DEF ReadLine
<1>2. PICK n : n = PieceLen(input)
  OBVIOUS
<1>3. /\ n \in 1 .. Len(input) /\ n < MaxEnvLen
      /\ Piece \in Seq(Chars) /\ Len(Piece) = n
      /\ SubSeq(input, n + 1, Len(input)) \in Seq(Chars)
  BY <1>1, <1>2, ReadSplits DEF StartsInv
<1>4. input' \in Seq(Chars)
  BY <1>1, <1>3
<1>5. CASE UNCHANGED table /\ phase' \in {phase, "fault"} /\ update' = update
  <2>1. phase' \in Phases
    BY <1>1, <1>5 DEF Phases
  <2> QED
    BY <1>1, <1>4, <1>5, <2>1 DEF StartsInv, StartInv, TextInv, FitInv
<1>6. CASE /\ IsSetting(Piece) /\ phase' = phase /\ update' = TRUE
           /\ table' = Put(table, KeyOf(Piece), ValueOf(Piece))
  <2>1. PICK key, value : key = KeyOf(Piece) /\ value = ValueOf(Piece)
    OBVIOUS
  <2>2. Piece # <<>>
    <3>1. Len(Piece) # 0
      BY <1>3
    <3> QED
      BY <3>1, EmptySeq
  <2>3. value \in Seq(Chars) /\ Len(value) <= n
    BY <1>3, <1>6, <2>1, <2>2, ValueFits
  <2>4. table' = Put(table, key, value)
    BY <1>6, <2>1
  <2>5. IsFiniteSet(DOMAIN table') /\ \A k \in DOMAIN table' : table'[k] \in Seq(Chars)
    BY <2>3, <2>4, PutTypes DEF StartsInv, TextInv
  <2>6. Len(value) < MaxEnvLen
    <3>1. Len(value) \in Nat /\ n \in Nat /\ MaxEnvLen \in Nat
      BY <1>3, <2>3, LenProperties, ConfigAssumption
    <3> QED
      BY <1>3, <2>3, <3>1
  <2>7. ASSUME NEW k \in DOMAIN table', k \notin {HOME, UID}
        PROVE  Len(table'[k]) < MaxEnvLen
    <3>1. CASE k = key
      <4>1. table'[k] = value
        BY <2>4, <3>1, PutGet
      <4> QED
        BY <2>6, <4>1
    <3>2. CASE k # key
      <4>1. k \in DOMAIN table
        <5>1. DOMAIN table' = DOMAIN table \cup {key}
          BY <2>4, PutGet
        <5> QED
          BY <3>2, <5>1
      <4>2. table'[k] = table[k]
        BY <2>4, <3>2, <4>1, PutGet
      <4> QED
        BY <1>1, <2>7, <4>1, <4>2 DEF StartsInv, FitInv
    <3> QED
      BY <3>1, <3>2
  <2>8. TextInv'
    BY <1>1, <1>4, <1>6, <2>5 DEF StartsInv, TextInv
  <2>9. FitInv'
    BY <1>1, <1>6, <2>7 DEF StartsInv, FitInv
  <2>10. StartInv'
    BY <1>1, <1>6 DEF StartInv
  <2> QED
    BY <2>8, <2>9, <2>10 DEF StartsInv
<1> QED
  BY <1>5, <1>6 DEF ReadLine, EnvSet

LEMMA UnwrapPathsKeeps ==
  ASSUME StartsInv, UnwrapPaths
  PROVE  StartsInv'
<1>1. /\ phase = "config" /\ UNCHANGED <<uid, update, config, input, paths, capacity>>
  BY DEF UnwrapPaths
<1>2. CASE phase' = "loop" /\ UNCHANGED <<table, left>>
  <2>1. phase' \in Phases
    BY <1>2 DEF Phases
  <2> QED
    BY <1>1, <1>2, <2>1 DEF StartsInv, StartInv, TextInv, FitInv
<1>3. CASE /\ IsSet(PATH) /\ phase' = "paths" /\ left' = table[PATH]
           /\ LET value == table[PATH]
              IN  table' = IF TokenStart(value) = 0 THEN table
                           ELSE Put(table, PATH, SubSeq(value, 1, TokenEnd(value) - 1))
  <2>1. PICK value \in Seq(Chars) : value = table[PATH]
    BY <1>3 DEF IsSet, StartsInv, TextInv
  <2>2. Len(value) < MaxEnvLen
    BY <1>1, <1>3, <2>1, Names DEF IsSet, StartsInv, FitInv
  <2>3. IsFiniteSet(DOMAIN table') /\ \A k \in DOMAIN table' : table'[k] \in Seq(Chars)
    <3>1. CASE TokenStart(value) = 0
      <4>1. table' = table
        BY <1>3, <2>1, <3>1
      <4> QED
        BY <4>1 DEF StartsInv, TextInv
    <3>2. CASE TokenStart(value) # 0
      <4>1. PICK x \in Nat : x = Len(value)
        BY LenProperties
      <4>2. TokenStart(value) \in 0 .. x /\ TokenEnd(value) \in TokenStart(value) + 1 .. x + 1
        BY <3>2, <4>1, TokenIs
      <4>3. PICK e \in Nat : e = TokenEnd(value) - 1 /\ 1 <= e + 1 /\ e <= x
        BY <4>2
      <4>4. SubSeq(value, 1, e) \in Seq(Chars)
        BY <4>1, <4>3, PartOf
      <4>5. table' = Put(table, PATH, SubSeq(value, 1, e))
        BY <1>3, <2>1, <3>2, <4>3
      <4> QED
        BY <4>4, <4>5, PutTypes DEF StartsInv, TextInv
    <3> QED
      BY <3>1, <3>2
  <2>4. phase' \in Phases /\ left' \in Seq(Chars)
    BY <1>3, <2>1 DEF Phases
  <2>5. TextInv'
    BY <1>1, <2>3, <2>4 DEF StartsInv, TextInv
  <2>6. FitInv'
    BY <1>1, <1>3, <2>1, <2>2 DEF StartsInv, FitInv
  <2>7. StartInv'
    BY <1>3 DEF StartInv
  <2> QED
    BY <2>5, <2>6, <2>7 DEF StartsInv
<1> QED
  BY <1>2, <1>3 DEF UnwrapPaths

\* The parts of left that a turn of the loop takes apart.
LEMMA TokenSplits ==
  ASSUME NEW t \in Seq(Chars), NEW a, a = TokenStart(t), a # 0, NEW e, e = TokenEnd(t)
  PROVE  /\ SubSeq(t, a, e - 1) \in Seq(Chars) /\ Len(SubSeq(t, a, e - 1)) <= Len(t)
         /\ SubSeq(t, e + 1, Len(t)) \in Seq(Chars)
         /\ Len(SubSeq(t, e + 1, Len(t))) = IF e <= Len(t) THEN Len(t) - e ELSE 0
<1>1. PICK x \in Nat : x = Len(t)
  BY LenProperties
<1>2. a \in 1 .. x /\ e \in a + 1 .. x + 1
  <2>1. a \in 0 .. x
    BY <1>1, TokenIs
  <2>2. e \in a + 1 .. x + 1
    BY <1>1, TokenIs
  <2> QED
    BY <2>1, <2>2
<1>3. SubSeq(t, a, e - 1) \in Seq(Chars) /\ Len(SubSeq(t, a, e - 1)) <= x
  <2>1. PICK j \in Nat : j = e - 1
    BY <1>2
  <2>2. a \in Nat \ {0} /\ a <= j + 1 /\ j <= Len(t) /\ j + 1 - a <= x
    BY <1>1, <1>2, <2>1
  <2>3. SubSeq(t, a, j) \in Seq(Chars) /\ Len(SubSeq(t, a, j)) = j + 1 - a
    BY <2>2, PartOf
  <2> QED
    BY <2>1, <2>2, <2>3
<1>4. CASE e <= x
  <2>1. e + 1 \in Nat \ {0} /\ e + 1 <= x + 1 /\ x <= Len(t)
    BY <1>1, <1>2, <1>4
  <2>2. SubSeq(t, e + 1, x) \in Seq(Chars) /\ Len(SubSeq(t, e + 1, x)) = x + 1 - (e + 1)
    BY <2>1, PartOf
  <2>3. x + 1 - (e + 1) = x - e
    BY <1>2
  <2> QED
    BY <1>1, <1>3, <1>4, <2>2, <2>3
<1>5. CASE ~ (e <= x)
  <2>1. x < e + 1 /\ e + 1 \in Int /\ x \in Int
    BY <1>2, <1>5
  <2>2. SubSeq(t, e + 1, x) = <<>>
    BY <2>1, SubSeqEmpty
  <2>3. SubSeq(t, e + 1, x) \in Seq(Chars) /\ Len(SubSeq(t, e + 1, x)) = 0
    BY <2>2, EmptySeq
  <2> QED
    BY <1>1, <1>3, <1>5, <2>3
<1> QED
  BY <1>4, <1>5

LEMMA NextPathKeeps ==
  ASSUME StartsInv, NextPath
  PROVE  StartsInv'
<1>1. /\ phase = "paths" /\ TokenStart(left) # 0 /\ capacity' = Room
      /\ UNCHANGED <<phase, uid, table, update, config, input>>
  BY DEF NextPath
<1>2. PICK path, rest :
        /\ path = SubSeq(left, TokenStart(left), TokenEnd(left) - 1)
        /\ rest = SubSeq(left, TokenEnd(left) + 1, Len(left))
  OBVIOUS
<1>3. paths' = Append(paths, path) /\ left' = rest
  BY <1>2 DEF NextPath
<1>4. left \in Seq(Chars) /\ Len(left) < MaxEnvLen
  BY <1>1 DEF StartsInv, TextInv, FitInv
<1>5. /\ path \in Seq(Chars) /\ Len(path) <= Len(left) /\ rest \in Seq(Chars)
      /\ Len(rest) = IF TokenEnd(left) <= Len(left) THEN Len(left) - TokenEnd(left) ELSE 0
  BY <1>1, <1>2, <1>4, TokenSplits
<1>6. Len(path) < MaxEnvLen /\ Len(rest) < MaxEnvLen
  <2>1. PICK x \in Nat : x = Len(left) /\ x < MaxEnvLen /\ MaxEnvLen \in Nat
    BY <1>4, LenProperties, ConfigAssumption
  <2>2. PICK y \in Nat : y = Len(path) /\ y <= x
    BY <1>5, <2>1, LenProperties
  <2>3. TokenEnd(left) \in Nat
    <3>1. TokenStart(left) \in 0 .. x
      BY <1>4, <2>1, TokenIs
    <3>2. TokenEnd(left) \in TokenStart(left) + 1 .. x + 1
      BY <1>1, <1>4, <2>1, TokenIs
    <3> QED
      BY <3>1, <3>2
  <2>4. Len(rest) <= x /\ Len(rest) \in Nat
    BY <1>5, <2>1, <2>3, LenProperties
  <2> QED
    BY <2>1, <2>2, <2>4
<1>7. PICK n \in Nat : n = Len(paths)
  BY LenProperties DEF StartsInv, FitInv
<1>8. /\ paths' \in Seq(Seq(Chars)) /\ Len(paths') = n + 1
      /\ \A i \in 1 .. n : paths'[i] = paths[i]
      /\ paths'[n + 1] = path
  BY <1>3, <1>5, <1>7, AppendProperties DEF StartsInv, FitInv
<1>9. \A i \in DOMAIN paths' : Len(paths'[i]) < MaxEnvLen
  <2>1. DOMAIN paths' = 1 .. n + 1 /\ DOMAIN paths = 1 .. n
    BY <1>7, <1>8, LenProperties DEF StartsInv, FitInv
  <2> TAKE i \in DOMAIN paths'
  <2>2. CASE i = n + 1
    BY <1>6, <1>8, <2>2
  <2>3. CASE i # n + 1
    <3>1. i \in 1 .. n
      BY <2>1, <2>3
    <3> QED
      BY <1>8, <2>1, <3>1 DEF StartsInv, FitInv
  <2> QED
    BY <2>2, <2>3
<1>10. capacity' \in Nat /\ Len(paths') < capacity'
  <2>1. capacity \in Nat /\ n < capacity
    BY <1>7 DEF StartsInv, FitInv
  <2> QED
    BY <1>1, <1>7, <1>8, <2>1 DEF Room
<1>11. TextInv'
  BY <1>1, <1>3, <1>5 DEF StartsInv, TextInv
<1>12. FitInv'
  BY <1>1, <1>3, <1>6, <1>8, <1>9, <1>10 DEF FitInv
<1>13. StartInv'
  BY <1>1 DEF StartInv
<1> QED
  BY <1>11, <1>12, <1>13 DEF StartsInv

LEMMA PathsDoneKeeps ==
  ASSUME StartsInv, PathsDone
  PROVE  StartsInv'
<1>1. /\ phase' = "loop" /\ left' = <<>>
      /\ UNCHANGED <<uid, table, update, config, input, paths, capacity>>
  BY DEF PathsDone
<1>2. phase' \in Phases /\ left' \in Seq(Chars)
  BY <1>1, EmptySeq DEF Phases
<1> QED
  BY <1>1, <1>2 DEF StartsInv, StartInv, TextInv, FitInv

LEMMA LoadKeeps ==
  ASSUME StartsInv, Load
  PROVE  StartsInv'
BY EnvMallocKeeps, OpenConfigKeeps, ReadLineKeeps, UnwrapPathsKeeps, NextPathKeeps,
   PathsDoneKeeps DEF Load

-----------------------------------------------------------------------------
(* The file arrives.                                                       *)

\* The first k characters are read, which are whole lines, and the table is
\* what they say.
ReadTo(k) ==
  /\ k <= Len(config) /\ input = SubSeq(config, k + 1, Len(config))
  /\ k = 0 \/ config[k] = "\n"
  /\ Holds(config, table, k)
RowsInv == phase = "config" /\ WellFormed(config) => \E k \in Nat : ReadTo(k)

\* In the beginning of a text nothing is assigned.
LEMMA BeforeNothing ==
  ASSUME NEW t \in Seq(Chars)
  PROVE  Before(t, 0) = {}
<1>1. DOMAIN t = 1 .. Len(t) /\ Len(t) \in Nat
  BY LenProperties
<1>2. ASSUME NEW a \in Before(t, 0)
      PROVE  FALSE
  <2>1. PICK m \in LinesOf(t), e \in DOMAIN t : a = AssignmentOf(t, m, e)
    BY AssignmentsAre DEF Before
  <2>2. a.at = e /\ e >= 1
    BY <1>1, <2>1 DEF AssignmentOf
  <2> QED
    BY <1>1, <1>2, <2>2 DEF Before
<1> QED
  BY <1>2

LEMMA OpenConfigRows ==
  ASSUME StartsInv, OpenConfig
  PROVE  RowsInv'
<1> SUFFICES ASSUME phase' = "config"
             PROVE  ReadTo(0)'
  BY DEF RowsInv
<1>1. phase = "open" /\ HasConfigPath /\ config' = input' /\ config' \in Files /\ table' = table
  BY DEF OpenConfig
<1>2. config' \in Seq(Chars)
  BY <1>1, ConfigAssumption DEF Chars
<1>3. PICK f \in Seq(Chars) : f = config'
  BY <1>2
<1>4. SubSeq(f, 1, Len(f)) = f /\ Len(f) \in Nat
  BY SubSeqFull, LenProperties
<1>5. DOMAIN table = {HOME, UID}
  BY <1>1 DEF HasConfigPath, IsSet, StartsInv, StartInv
<1>6. Before(f, 0) = {}
  BY BeforeNothing
<1>7. Holds(f, table, 0)
  BY <1>5, <1>6 DEF Holds
<1> QED
  BY <1>1, <1>3, <1>4, <1>7 DEF ReadTo

LEMMA ReadLineRows ==
  ASSUME StartsInv, RowsInv, ReadLine
  PROVE  RowsInv'
<1> SUFFICES ASSUME phase' = "config", WellFormed(config)'
             PROVE  \E k \in Nat : ReadTo(k)'
  BY DEF RowsInv
<1>1. /\ phase = "config" /\ input # <<>> /\ config' = config
      /\ input' = SubSeq(input, Len(Piece) + 1, Len(input))
  BY DEF ReadLine
<1>2. PICK t \in Seq(Chars) : t = config
  BY DEF StartsInv, TextInv
<1>3. WellFormed(t)
  BY <1>1, <1>2 DEF WellFormed
<1>4. PICK k \in Nat : ReadTo(k)
  BY <1>1, <1>2, <1>3 DEF RowsInv
<1>5. PICK z \in Nat : z = Len(t)
  BY LenProperties
<1>6. k <= z /\ input = SubSeq(t, k + 1, z) /\ (k = 0 \/ t[k] = "\n") /\ Holds(t, table, k)
  BY <1>2, <1>4, <1>5 DEF ReadTo
<1>7. k < z
  <2>1. CASE k = z
    <3>1. z < k + 1 /\ k + 1 \in Int /\ z \in Int
      BY <2>1
    <3>2. input = <<>>
      BY <1>6, <3>1, SubSeqEmpty
    <3> QED
      BY <1>1, <3>2
  <2> QED
    BY <1>6, <2>1
<1>8. PICK n : n = PieceLen(input)
  OBVIOUS
<1>9. /\ n \in Nat \ {0} /\ k + n <= z /\ t[k + n] = "\n"
      /\ <<k + 1, k + n>> \in LinesOf(t)
  BY <1>3, <1>5, <1>6, <1>7, <1>8, PieceIsLine
<1>10. Piece = SubSeq(t, k + 1, k + n)
  <2>1. 1 <= n + 1 /\ k <= z /\ z <= Len(t) /\ n \in Nat
    BY <1>5, <1>7, <1>9
  <2>2. SubSeq(SubSeq(t, k + 1, z), 1, n) = SubSeq(t, k + 1, k + n)
    BY ONLY <1>9, <2>1, PartOfPart, t \in Seq(Chars), k \in Nat, z \in Nat
  <2> QED
    BY <1>6, <1>8, <2>2 DEF Piece
<1>11. input' = SubSeq(t, k + n + 1, z)
  <2>1. Len(Piece) = n
    BY <1>1, <1>8, ReadSplits DEF StartsInv
  <2>2. PICK x \in Nat : x = z - k
    <3>1. z - k \in Nat
      BY <1>7
    <3> QED
      BY <3>1
  <2>3. Len(input) = x
    <3>1. k + 1 \in Nat \ {0} /\ k + 1 <= z + 1 /\ z <= Len(t)
      BY <1>5, <1>7
    <3>2. Len(SubSeq(t, k + 1, z)) = z + 1 - (k + 1)
      BY <3>1, PartOf
    <3> QED
      BY <1>6, <2>2, <3>2
  <2>4. PICK m \in Nat \ {0} : m = n + 1
    BY <1>9
  <2>5. m <= x + 1 /\ k + x <= z /\ k <= z /\ z <= Len(t)
    BY <1>5, <1>7, <1>9, <2>2, <2>4
  <2>6. SubSeq(SubSeq(t, k + 1, z), m, x) = SubSeq(t, k + m, k + x)
    BY ONLY <2>5, PartOfPart, t \in Seq(Chars), k \in Nat, z \in Nat, m \in Nat \ {0}, x \in Nat
  <2>7. k + m = k + n + 1 /\ k + x = z
    BY <1>9, <2>2, <2>4
  <2> QED
    BY <1>1, <1>6, <2>1, <2>3, <2>4, <2>6, <2>7
<1>12. Holds(t, table', k + n)
  <2>1. PICK l \in LinesOf(t) : l = <<k + 1, k + n>>
    BY <1>9
  <2>2. l[1] = k + 1 /\ l[2] = k + n
    BY <2>1
  <2>3. CASE IsSetting(Piece)
    <3>1. PICK e \in DOMAIN t : TakenAs(Piece, t, l, e)
      <4>1. k + n <= Len(t) /\ n \in Nat \ {0}
        BY <1>5, <1>9
      <4>2. IsSetting(Piece) => \E e \in DOMAIN t : TakenAs(Piece, t, l, e)
        BY ONLY <1>10, <2>1, <4>1, PieceAssigns, t \in Seq(Chars), k \in Nat, l \in LinesOf(t)
      <4> QED
        BY <2>3, <4>2
    <3>2. PICK r : r = AssignmentOf(t, l, e)
      OBVIOUS
    <3>3. table' = Put(table, r.key, r.value)
      BY <1>1, <2>3, <3>1, <3>2 DEF ReadLine, EnvSet, TakenAs
    <3>4. Before(t, k + n) = Before(t, k) \cup {r}
      <4>1. Assigns(t, l, e) /\ n \in Nat \ {0}
        BY <1>9, <3>1 DEF TakenAs
      <4>2. Before(t, k + n) = Before(t, k) \cup {AssignmentOf(t, l, e)}
        <5>1. PICK j \in Nat : j = k + n /\ k < j
          BY <1>9
        <5>2. l[1] = k + 1 /\ l[2] = j
          BY <2>2, <5>1
        <5>3. Before(t, j) = Before(t, k) \cup {AssignmentOf(t, l, e)}
          BY ONLY <4>1, <5>1, <5>2, LineAdds, t \in Seq(Chars), k \in Nat,
                  l \in LinesOf(t), e \in DOMAIN t
        <5> QED
          BY <5>1, <5>3
      <4> QED
        BY <3>2, <4>2
    <3>5. r.at = e /\ e \in k + 1 .. k + n
      BY <2>2, <3>1, <3>2 DEF AssignmentOf, Assigns, TakenAs
    <3>6. \A a \in Before(t, k) : a.at <= r.at
      <4> TAKE a \in Before(t, k)
      <4>1. a.at <= k /\ a.at \in Nat
        <5>1. PICK m \in LinesOf(t), f \in DOMAIN t : a = AssignmentOf(t, m, f)
          BY AssignmentsAre DEF Before
        <5>2. a.at = f /\ f \in Nat
          BY <5>1, LenProperties DEF AssignmentOf
        <5> QED
          BY <5>2 DEF Before
      <4> QED
        BY <3>5, <4>1
    <3>7. r.at <= r.at
      BY <3>5
    <3>8. Holds(t, Put(table, r.key, r.value), k + n)
      BY <1>6, <3>4, <3>6, <3>7, HoldsOneMore
    <3> QED
      BY <3>3, <3>8
  <2>4. CASE ~ IsSetting(Piece)
    <3>1. \A e \in DOMAIN t : ~ Assigns(t, l, e)
      BY <1>5, <1>9, <1>10, <2>1, <2>4, PieceAssigns
    <3>2. Before(t, k + n) = Before(t, k)
      <4>1. PICK j \in Nat : j = k + n /\ k < j
        BY <1>9
      <4>2. l[1] = k + 1 /\ l[2] = j
        BY <2>2, <4>1
      <4>3. Before(t, j) = Before(t, k)
        BY ONLY <3>1, <4>1, <4>2, LineAddsNothing, t \in Seq(Chars), k \in Nat,
                l \in LinesOf(t)
      <4> QED
        BY <4>1, <4>3
    <3>3. table' = table
      BY <2>4 DEF ReadLine
    <3> QED
      BY <1>6, <3>2, <3>3 DEF Holds
  <2> QED
    BY <2>3, <2>4
<1>13. PICK j \in Nat : j = k + n
  BY <1>9
<1>14. ReadTo(j)'
  BY <1>1, <1>2, <1>5, <1>9, <1>11, <1>12, <1>13 DEF ReadTo
<1> QED
  BY <1>14

\* The last assignment of all is the one Assigned() finds.
LEMMA AssignedIs ==
  ASSUME NEW t \in Seq(Chars), NEW b \in Assignments(t),
         \A c \in Assignments(t) : c.key = b.key => c.at <= b.at
  PROVE  Assigned(t, b.key) = b.value
<1> DEFINE mine == {a \in Assignments(t) : a.key = b.key}
           last == CHOOSE a \in mine : \A c \in mine : c.at <= a.at
<1>1. b \in mine /\ \A c \in mine : c.at <= b.at
  OBVIOUS
<1>2. last \in mine /\ \A c \in mine : c.at <= last.at
  BY <1>1
<1>3. \A a \in Assignments(t) : a.at \in Nat
  <2> TAKE a \in Assignments(t)
  <2>1. PICK m \in LinesOf(t), e \in DOMAIN t : a = AssignmentOf(t, m, e)
    BY AssignmentsAre
  <2>2. a.at = e /\ e \in Nat
    BY <2>1, LenProperties DEF AssignmentOf
  <2> QED
    BY <2>2
<1>4. Assigned(t, b.key) = last.value
  BY DEF Assigned
<1> HIDE DEF last
<1>5. last \in Assignments(t) /\ last.at = b.at
  BY <1>1, <1>2, <1>3
<1>6. last = b
  BY <1>5, OneAssignment
<1> QED
  BY <1>4, <1>6

\* When the file is read, all of it is in the table.
LEMMA RowsArrive ==
  ASSUME TextInv, RowsInv
  PROVE  ConfigArrives
<1> SUFFICES ASSUME phase = "config", input = <<>>, WellFormed(config)
             PROVE  /\ DOMAIN table = {HOME, UID} \cup Keys(config)
                    /\ \A key \in Keys(config) : table[key] = Assigned(config, key)
  BY DEF ConfigArrives
<1>1. PICK t \in Seq(Chars) : t = config
  BY DEF TextInv
<1>2. PICK k \in Nat : ReadTo(k)
  BY DEF RowsInv
<1>3. PICK z \in Nat : z = Len(t) /\ DOMAIN t = 1 .. z
  BY LenProperties
<1>4. k <= z /\ input = SubSeq(t, k + 1, z) /\ Holds(t, table, k)
  BY <1>1, <1>2, <1>3 DEF ReadTo
<1>5. k = z
  <2>1. CASE k < z
    <3>1. k + 1 \in Nat \ {0} /\ k + 1 <= z + 1 /\ z <= Len(t)
      BY <1>3, <2>1
    <3>2. Len(SubSeq(t, k + 1, z)) = z + 1 - (k + 1)
      BY <3>1, PartOf
    <3>3. Len(input) = 0
      OBVIOUS
    <3> QED
      BY <1>4, <2>1, <3>2, <3>3
  <2> QED
    BY <1>4, <2>1
<1>6. Before(t, k) = Assignments(t)
  <2>1. \A a \in Assignments(t) : a.at <= k
    <3> TAKE a \in Assignments(t)
    <3>1. PICK m \in LinesOf(t), e \in DOMAIN t : a = AssignmentOf(t, m, e)
      BY AssignmentsAre
    <3>2. a.at = e
      BY <3>1 DEF AssignmentOf
    <3> QED
      BY <1>3, <1>5, <3>2
  <2> QED
    BY <2>1 DEF Before
<1>7. DOMAIN table = {HOME, UID} \cup Keys(t)
  BY <1>4, <1>6 DEF Holds, Keys
<1>8. ASSUME NEW key \in Keys(t)
      PROVE  table[key] = Assigned(t, key)
  <2>1. PICK a \in Assignments(t) : a.key = key
    BY DEF Keys
  <2>2. PICK b \in Assignments(t) :
          /\ b.key = a.key /\ table[a.key] = b.value
          /\ \A c \in Assignments(t) : c.key = a.key => c.at <= b.at
    BY <1>4, <1>6 DEF Holds
  <2>3. Assigned(t, b.key) = b.value
    BY <2>2, AssignedIs
  <2> QED
    BY <2>1, <2>2, <2>3
<1> QED
  BY <1>1, <1>7, <1>8

-----------------------------------------------------------------------------
(* The rest of the steps.                                                  *)

\* env_update_pwd() puts texts into the table.
LEMMA AfterPwdTypes ==
  ASSUME TextInv, NEW dir \in Seq(Chars)
  PROVE  /\ IsFiniteSet(DOMAIN AfterPwd(dir))
         /\ \A key \in DOMAIN AfterPwd(dir) : AfterPwd(dir)[key] \in Seq(Chars)
<1> DEFINE old == IF IsSet(PWD) THEN table[PWD] ELSE dir
           first == Put(table, OLDPWD, old)
<1>1. old \in Seq(Chars)
  BY DEF IsSet, TextInv
<1> HIDE DEF old
<1>2. IsFiniteSet(DOMAIN first) /\ \A key \in DOMAIN first : first[key] \in Seq(Chars)
  BY <1>1, PutTypes DEF TextInv
<1>3. AfterPwd(dir) = Put(first, PWD, dir)
  BY DEF AfterPwd, old
<1> HIDE DEF first
<1> QED
  BY <1>2, <1>3, PutTypes

\* Where the shell is, with what has been read.
EnvInv == cwd \in Dirs \cup {NoDir} /\ StartsInv

\* EnvUpdate moves to another prompt of the main loop or is lost.
LEMMA UpdatePs1Phase ==
  ASSUME NEW t, phase = "loop", UpdatePs1(t)
  PROVE  phase' \in {"loop", "fault"}
BY DEF UpdatePs1, Faults

LEMMA EnvUpdateKeeps ==
  ASSUME EnvInv, EnvUpdate
  PROVE  StartsInv'
<1>1. phase = "loop" /\ loading' = loading /\ uid' = uid
  BY DEF EnvUpdate
<1>2. phase' \in {"loop", "fault"}
  BY <1>1, UpdatePs1Phase DEF EnvUpdate
<1>3. CASE PwdFails
  <2>1. table' = table /\ update' = update
    BY <1>3 DEF EnvUpdate
  <2> QED
    BY <1>1, <1>2, <2>1 DEF EnvInv, StartsInv, StartInv, TextInv, FitInv, loading, Phases
<1>4. CASE ~ PwdFails
  <2>1. table' = AfterPwd(cwd) /\ update' = TRUE
    BY <1>4 DEF EnvUpdate
  <2>2. cwd \in Seq(Chars)
    BY <1>4, EnvironmentAssumption DEF EnvInv, PwdFails, Chars
  <2>3. IsFiniteSet(DOMAIN table') /\ \A key \in DOMAIN table' : table'[key] \in Seq(Chars)
    BY <2>1, <2>2, AfterPwdTypes DEF EnvInv, StartsInv
  <2> QED
    BY <1>1, <1>2, <2>1, <2>3 DEF EnvInv, StartsInv, StartInv, TextInv, FitInv, loading, Phases
<1> QED
  BY <1>3, <1>4

LEMMA EnvRmKeeps ==
  ASSUME StartsInv, NEW key, EnvRm(key)
  PROVE  StartsInv'
<1>1. phase = "loop" /\ phase' = "loop" /\ loading' = loading /\ uid' = uid /\ update' = TRUE
  BY DEF EnvRm
<1>2. table' = Without(table, key)
  BY DEF EnvRm
<1>3. /\ DOMAIN table' = DOMAIN table \ {key}
      /\ \A k \in DOMAIN table' : table'[k] = table[k]
  BY <1>2, WithoutGet
<1>4. IsFiniteSet(DOMAIN table')
  BY <1>3, FS_Subset DEF StartsInv, TextInv
<1> QED
  BY <1>1, <1>3, <1>4 DEF StartsInv, StartInv, TextInv, FitInv, loading

LEMMA EnvNext == EnvInv /\ [Next]_vars => EnvInv'
<1> SUFFICES ASSUME EnvInv, [Next]_vars PROVE EnvInv'
  OBVIOUS
<1>1. CASE Load /\ UNCHANGED <<cache, given, seen>>
  BY <1>1, LoadKeeps DEF EnvInv, seen
<1>2. CASE EnvUpdate
  BY <1>2, EnvUpdateKeeps DEF EnvInv, EnvUpdate
<1>3. CASE DirectoryMoves
  BY <1>3 DEF DirectoryMoves, EnvInv, StartsInv, StartInv, TextInv, FitInv, loading
<1>4. CASE EnvGen
  <2>1. /\ phase = "loop" /\ phase' \in {"loop", "fault"} /\ table' = table
        /\ seen' = seen /\ loading' = loading /\ uid' = uid
    BY <1>4 DEF EnvGen, EnvGenAnew, EnvGenCached
  <2>2. update' \in BOOLEAN
    BY <1>4 DEF EnvGen, EnvGenAnew, EnvGenCached, EnvInv, StartsInv, TextInv
  <2> QED
    BY <2>1, <2>2 DEF EnvInv, StartsInv, StartInv, TextInv, FitInv, loading, seen, Phases
<1>5. ASSUME NEW key \in Removable, EnvRm(key)
      PROVE  EnvInv'
  BY <1>5, EnvRmKeeps DEF EnvInv, EnvRm, seen
<1>6. CASE UNCHANGED vars
  BY <1>6 DEF vars, seen, loading, EnvInv, StartsInv, StartInv, TextInv, FitInv
<1> QED
  BY <1>1, <1>2, <1>3, <1>4, <1>5, <1>6 DEF Next

LEMMA EnvStarts == EnvInit => EnvInv /\ RowsInv
BY StartsInit DEF EnvInit, EnvInv, RowsInv, Init

LEMMA RowsNext == EnvInv /\ RowsInv /\ [Next]_vars => RowsInv'
<1> SUFFICES ASSUME EnvInv, RowsInv, [Next]_vars, phase' = "config" PROVE RowsInv'
  BY DEF RowsInv
<1>1. CASE Load
  <2>1. OpenConfig \/ ReadLine
    BY <1>1 DEF Load, EnvMalloc, UnwrapPaths, NextPath, PathsDone
  <2> QED
    BY <2>1, OpenConfigRows, ReadLineRows DEF EnvInv
<1>2. CASE phase = "loop" /\ phase' \in {"loop", "fault"}
  BY <1>2
<1>3. CASE UNCHANGED vars
  BY <1>3 DEF vars, loading, RowsInv, ReadTo
<1>4. EnvUpdate \/ DirectoryMoves \/ EnvGen \/ (\E key \in Removable : EnvRm(key)) =>
        phase = "loop" /\ phase' \in {"loop", "fault"}
  BY UpdatePs1Phase
     DEF EnvUpdate, DirectoryMoves, EnvGen, EnvGenAnew, EnvGenCached, EnvRm
<1> QED
  BY <1>1, <1>2, <1>3, <1>4 DEF Next

\* Once a well-formed ~/.valeryrc is read, every variable of it has in the table
\* the value that its last line assigns, and there is nothing else in it but HOME
\* and UID (parse_config()), for every file and every MAX_ENV_LEN.
THEOREM Arrives == Spec => []ConfigArrives
<1>1. EnvInv /\ RowsInv => ConfigArrives
  BY RowsArrive DEF EnvInv, StartsInv
<1> QED
  BY EnvStarts, EnvNext, RowsNext, <1>1, PTL DEF Spec

-----------------------------------------------------------------------------
(* PATH is taken apart.                                                    *)

\* The parts that end before the character n, and how manieth one is.
PartsTo(t, n) == {l \in Parts(t) : l[2] <= n}
Place(t, l) == Cardinality({m \in Parts(t) : m[1] <= l[1]})

\* A part is a pair of positions.
LEMMA PartPlaces ==
  ASSUME NEW t \in Seq(Chars), NEW l \in Parts(t)
  PROVE  /\ l = <<l[1], l[2]>>
         /\ l[1] \in 1 .. Len(t) /\ l[2] \in 1 .. Len(t) /\ l[1] <= l[2]
         /\ (l[1] = 1 \/ t[l[1] - 1] = ":") /\ (l[2] = Len(t) \/ t[l[2] + 1] = ":")
         /\ \A i \in l[1] .. l[2] : t[i] # ":"
BY LenProperties DEF Parts

\* Two parts with a character in common are the same.
LEMMA OnePart ==
  ASSUME NEW t \in Seq(Chars), NEW l \in Parts(t), NEW m \in Parts(t),
         NEW i \in Nat, l[1] <= i, i <= l[2], m[1] <= i, i <= m[2]
  PROVE  l = m
<1>1. PICK z \in Nat : z = Len(t)
  BY LenProperties
<1>2. /\ l = <<l[1], l[2]>> /\ l[1] \in 1 .. z /\ l[2] \in 1 .. z
      /\ (l[1] = 1 \/ t[l[1] - 1] = ":") /\ (l[2] = z \/ t[l[2] + 1] = ":")
      /\ \A h \in l[1] .. l[2] : t[h] # ":"
  BY <1>1, PartPlaces
<1>3. /\ m = <<m[1], m[2]>> /\ m[1] \in 1 .. z /\ m[2] \in 1 .. z
      /\ (m[1] = 1 \/ t[m[1] - 1] = ":") /\ (m[2] = z \/ t[m[2] + 1] = ":")
      /\ \A h \in m[1] .. m[2] : t[h] # ":"
  BY <1>1, PartPlaces
<1>4. l[2] = m[2]
  <2>1. ~ (l[2] < m[2])
    BY SMTT(30), <1>2, <1>3
  <2>2. ~ (m[2] < l[2])
    BY SMTT(30), <1>2, <1>3
  <2> QED
    BY <1>2, <1>3, <2>1, <2>2
<1>5. l[1] = m[1]
  <2>1. ~ (l[1] < m[1])
    BY SMTT(30), <1>2, <1>3
  <2>2. ~ (m[1] < l[1])
    BY SMTT(30), <1>2, <1>3
  <2> QED
    BY <1>2, <1>3, <2>1, <2>2
<1> QED
  BY <1>2, <1>3, <1>4, <1>5

LEMMA PartIs ==
  ASSUME NEW t, NEW a \in DOMAIN t, NEW b \in DOMAIN t, a <= b,
         a = 1 \/ t[a - 1] = ":", b = Len(t) \/ t[b + 1] = ":",
         \A i \in a .. b : t[i] # ":"
  PROVE  <<a, b>> \in Parts(t)
BY DEF Parts

LEMMA PartsFinite ==
  ASSUME NEW t \in Seq(Chars)
  PROVE  IsFiniteSet(Parts(t))
<1>1. DOMAIN t = 1 .. Len(t) /\ Len(t) \in Nat
  BY LenProperties
<1>2. IsFiniteSet(DOMAIN t)
  BY <1>1, FS_Interval
<1>3. IsFiniteSet((DOMAIN t) \X (DOMAIN t))
  BY <1>2, FS_Product
<1>4. Parts(t) \subseteq (DOMAIN t) \X (DOMAIN t)
  BY DEF Parts
<1> QED
  BY <1>3, <1>4, FS_Subset

\* Between the characters j and n of t is one part, from j + a up to j + e.
OneBetween(t, j, z, a, e, n) ==
  /\ a \in Nat \ {0} /\ e \in Nat /\ a < e /\ j + e <= z + 1
  /\ n \in Nat /\ n <= z /\ (t[n] = ":" \/ n = z)
  /\ <<j + a, j + e - 1>> \in Parts(t)
  /\ \A m \in Parts(t) : m[2] <= n => m[2] <= j \/ m = <<j + a, j + e - 1>>
  /\ \A m \in Parts(t) : m[1] <= j + a => m[2] <= n

\* strtok() returns the next part of a text of which j characters are done, and
\* n afterwards.
LEMMA TokenIsPart ==
  ASSUME NEW t \in Seq(Chars), NEW j \in Nat, NEW z \in Nat, z = Len(t), j <= z,
         j = 0 \/ t[j] = ":" \/ j = z,
         NEW r, r = SubSeq(t, j + 1, z),
         NEW a, a = TokenStart(r), a # 0, NEW e, e = TokenEnd(r),
         NEW n, n = IF j + e <= z THEN j + e ELSE z
  PROVE  OneBetween(t, j, z, a, e, n)
<1>1. PICK x \in Nat : x = z - j
  <2>1. z - j \in Nat
    OBVIOUS
  <2> QED
    BY <2>1
<1>2. r \in Seq(Chars) /\ Len(r) = x /\ \A i \in 1 .. x : r[i] = t[j + i]
  <2>1. j + 1 \in Nat \ {0} /\ j + 1 <= z + 1 /\ z <= Len(t)
    OBVIOUS
  <2>2. /\ r \in Seq(Chars) /\ Len(r) = z + 1 - (j + 1)
        /\ \A i \in 1 .. z + 1 - (j + 1) : r[i] = t[j + 1 + i - 1]
    BY <2>1, PartOf
  <2>3. z + 1 - (j + 1) = x /\ \A i \in 1 .. x : j + 1 + i - 1 = j + i
    BY <1>1
  <2> QED
    BY <2>2, <2>3
<1>3. /\ a \in 1 .. x /\ \A i \in 1 .. a - 1 : r[i] = ":"
      /\ e \in a + 1 .. x + 1 /\ (e <= x => r[e] = ":")
      /\ \A i \in a .. e - 1 : r[i] # ":"
  <2>1. r \in Seq(Chars) /\ Len(r) = x
    BY <1>2
  <2>2. /\ a \in 0 .. Len(r)
        /\ a # 0 => /\ \A i \in 1 .. a - 1 : r[i] = ":"
                    /\ e \in a + 1 .. Len(r) + 1
                    /\ e <= Len(r) => r[e] = ":"
                    /\ \A i \in a .. e - 1 : r[i] # ":"
    BY ONLY <2>1, TokenIs, a = TokenStart(r), e = TokenEnd(r)
  <2> QED
    BY SMTT(30), <2>1, <2>2
<1>4. a \in Nat \ {0} /\ e \in Nat /\ a < e /\ j + e <= z + 1 /\ n \in Nat /\ n <= z
  BY <1>1, <1>3
<1>5. \A i \in j + 1 .. j + a - 1 : t[i] = ":"
  <2> TAKE i \in j + 1 .. j + a - 1
  <2>1. PICK h \in 1 .. a - 1 : h = i - j
    BY <1>4
  <2>2. h \in 1 .. x /\ j + h = i
    BY <1>3, <2>1
  <2> QED
    BY <1>2, <1>3, <2>1, <2>2
<1>6. \A i \in j + a .. j + e - 1 : t[i] # ":"
  <2> TAKE i \in j + a .. j + e - 1
  <2>1. PICK h \in a .. e - 1 : h = i - j
    BY SMTT(30), <1>4
  <2>2. h \in 1 .. x /\ j + h = i
    BY <1>3, <2>1
  <2> QED
    BY SMTT(30), <1>2, <1>3, <2>1, <2>2
<1>7. t[j + e] = ":" \/ j + e = z + 1
  <2>1. e \in Nat /\ 1 <= e /\ e <= x + 1
    BY <1>3
  <2>2. CASE e <= x
    <3>1. e \in 1 .. x
      BY <2>1, <2>2
    <3>2. r[e] = ":"
      BY <1>3, <2>2
    <3>3. r[e] = t[j + e]
      BY <1>2, <3>1
    <3> QED
      BY <3>2, <3>3
  <2>3. CASE e = x + 1
    BY <1>1, <2>3
  <2> QED
    BY <2>1, <2>2, <2>3
<1>8. t[n] = ":" \/ n = z
  <2>1. CASE j + e <= z
    <3>1. n = j + e /\ j + e # z + 1
      BY <1>4, <2>1
    <3> QED
      BY <1>7, <3>1
  <2>2. CASE ~ (j + e <= z)
    BY <2>2
  <2> QED
    BY <2>1, <2>2
<1>9. PICK b \in 1 .. z, c \in 1 .. z : b = j + a /\ c = j + e - 1
  <2>1. j + a \in 1 .. z /\ j + e - 1 \in 1 .. z
    BY SMTT(30), <1>4
  <2> QED
    BY <2>1
<1>10. <<b, c>> \in Parts(t)
  <2>1. b \in DOMAIN t /\ c \in DOMAIN t /\ b <= c
    <3>1. b <= c
      BY SMTT(30), <1>4, <1>9
    <3>2. DOMAIN t = 1 .. z
      BY LenProperties
    <3> QED
      BY <1>9, <3>1, <3>2
  <2>2. b = 1 \/ t[b - 1] = ":"
    <3>1. CASE a = 1
      <4>1. j # z /\ b - 1 = j
        <5>1. b = j + 1
          BY <1>9, <3>1
        <5>2. b \in Nat /\ b <= z
          BY <1>9
        <5> QED
          BY <5>1, <5>2
      <4>2. j = 0 => b = 1
        BY <1>9, <3>1
      <4> QED
        BY <4>1, <4>2
    <3>2. CASE a # 1
      <4>1. a \in Nat /\ a # 0
        BY <1>4
      <4>2. 2 <= a
        BY ONLY <3>2, <4>1
      <4>3. j + a - 1 \in j + 1 .. j + a - 1
        BY ONLY <4>1, <4>2, j \in Nat
      <4>4. b = j + a
        BY <1>9
      <4> QED
        <5>1. PICK g : g = j + a - 1
          OBVIOUS
        <5>2. g \in j + 1 .. j + a - 1
          BY ONLY <4>3, <5>1
        <5>3. t[g] = ":"
          BY ONLY <1>5, <5>2
        <5>4. b - 1 = g
          BY ONLY <4>1, <4>4, <5>1, j \in Nat
        <5> QED
          BY ONLY <5>3, <5>4
    <3> QED
      BY <3>1, <3>2
  <2>3. c = Len(t) \/ t[c + 1] = ":"
    <3>1. c + 1 = j + e
      BY SMTT(30), <1>4, <1>9
    <3>2. j + e = z + 1 => c = z
      BY <1>9, <3>1
    <3> QED
      BY <1>7, <3>1, <3>2
  <2>4. \A i \in b .. c : t[i] # ":"
    BY <1>6, <1>9
  <2> QED
    BY <2>1, <2>2, <2>3, <2>4, PartIs
<1>11. PICK l \in Parts(t) : l = <<b, c>>
  BY <1>10
<1>12. l[1] = b /\ l[2] = c
  BY <1>11
<1>13. ASSUME NEW m \in Parts(t), m[2] <= n
       PROVE  m[2] <= j \/ m = l
  <2>1. /\ m[1] \in 1 .. z /\ m[2] \in 1 .. z /\ m[1] <= m[2]
        /\ \A i \in m[1] .. m[2] : t[i] # ":"
    BY PartPlaces
  <2>2. t[m[2]] # ":"
    BY <2>1
  <2>3. m[2] <= j \/ m[2] \in j + a .. j + e - 1
    <3>1. m[2] \notin j + 1 .. j + a - 1
      BY <1>5, <2>2
    <3>2. m[2] # j + e
      <4>1. m[2] # z + 1
        BY <2>1
      <4> QED
        BY <1>7, <2>2, <4>1
    <3>3. m[2] <= j + e
      <4>1. n <= j + e
        BY <1>4
      <4>2. m[2] \in Nat /\ j + e \in Nat /\ n \in Nat /\ m[2] <= n
        BY SMTT(30), <1>4, <1>13, <2>1
      <4> QED
        BY <4>1, <4>2
    <3>4. a \in Nat /\ e \in Nat /\ m[2] \in Nat
      BY <1>4, <2>1
    <3> QED
      BY ONLY <3>1, <3>2, <3>3, <3>4, j \in Nat
  <2>4. CASE m[2] \in j + a .. j + e - 1
    <3>1. b <= m[2] /\ m[2] <= c
      BY <1>9, <2>4
    <3>2. l = m
      BY <1>12, <2>1, <3>1, OnePart
    <3> QED
      BY <3>2
  <2> QED
    BY <2>3, <2>4
<1>14. ASSUME NEW m \in Parts(t), m[1] <= j + a
       PROVE  m[2] <= n
  <2>1. m[1] \in 1 .. z /\ m[2] \in 1 .. z /\ m[1] <= m[2]
    BY PartPlaces
  <2>2. CASE j + a <= m[2]
    <3>1. b \in Nat /\ b <= c /\ m[1] <= b /\ b <= m[2]
      BY SMTT(30), <1>4, <1>9, <1>14, <2>2
    <3>2. l = m
      BY <1>12, <3>1, OnePart
    <3>3. c <= n
      BY SMTT(30), <1>4, <1>9
    <3> QED
      BY <1>12, <3>2, <3>3
  <2>3. CASE m[2] < j + a
    <3>1. j + a <= n
      BY SMTT(30), <1>4, <1>9
    <3> QED
      BY SMTT(30), <1>4, <2>1, <2>3, <3>1
  <2> QED
    BY SMTT(30), <1>4, <2>1, <2>2, <2>3
<1> QED
  BY <1>4, <1>8, <1>9, <1>11, <1>13, <1>14 DEF OneBetween

\* The array holds the parts of a text in front of the character j.
Filled(t, j) ==
  /\ Len(paths) = Cardinality(PartsTo(t, j))
  /\ \A l \in PartsTo(t, j) :
       Place(t, l) \in 1 .. Len(paths) /\ paths[Place(t, l)] = SubSeq(t, l[1], l[2])
SplitTo(t, j) ==
  /\ j <= Len(t) /\ left = SubSeq(t, j + 1, Len(t))
  /\ j = 0 \/ t[j] = ":" \/ j = Len(t)
  /\ Filled(t, j)

\* PathsUnwrapped is about the main loop only.
PathsInv ==
  /\ phase = "paths" /\ WellFormed(config) =>
       /\ PATH \in Keys(config) /\ Assigned(config, PATH) \in Seq(Chars)
       /\ \E j \in Nat : SplitTo(Assigned(config, PATH), j)
  /\ PathsUnwrapped

LEMMA UnwrapPathsSplits ==
  ASSUME StartsInv, RowsInv, UnwrapPaths
  PROVE  PathsInv'
<1>1. /\ phase = "config" /\ input = <<>> /\ config' = config
      /\ paths' = paths /\ capacity' = capacity
  BY DEF UnwrapPaths
<1> SUFFICES ASSUME WellFormed(config)
             PROVE  PathsInv'
  BY <1>1 DEF PathsInv, PathsUnwrapped
<1>2. /\ DOMAIN table = {HOME, UID} \cup Keys(config)
      /\ \A key \in Keys(config) : table[key] = Assigned(config, key)
  BY <1>1, RowsArrive DEF StartsInv, ConfigArrives
<1>3. IsSet(PATH) <=> PATH \in Keys(config)
  BY <1>2, Names DEF IsSet
<1>4. CASE ~ IsSet(PATH)
  <2>1. phase' = "loop"
    BY <1>4 DEF UnwrapPaths
  <2> QED
    BY <1>1, <1>3, <1>4, <2>1 DEF PathsInv, PathsUnwrapped
<1>5. CASE IsSet(PATH)
  <2>1. phase' = "paths" /\ left' = table[PATH]
    BY <1>5 DEF UnwrapPaths
  <2>2. PICK v : v = Assigned(config, PATH)
    OBVIOUS
  <2>3. v \in Seq(Chars) /\ left' = v
    BY <1>2, <1>3, <1>5, <2>1, <2>2 DEF IsSet, StartsInv, TextInv
  <2>4. SubSeq(v, 1, Len(v)) = v /\ Len(v) \in Nat
    BY <2>3, SubSeqFull, LenProperties
  <2>5. PartsTo(v, 0) = {}
    <3>1. \A l \in Parts(v) : l[2] \in Nat /\ l[2] # 0
      BY <2>3, PartPlaces, LenProperties
    <3> QED
      BY <3>1 DEF PartsTo
  <2>6. Len(paths) = 0 /\ Cardinality({}) = 0
    BY <1>1, FS_EmptySet DEF StartsInv, FitInv
  <2>7. SplitTo(v, 0)'
    BY <1>1, <2>3, <2>4, <2>5, <2>6 DEF SplitTo, Filled
  <2>8. \E j \in Nat : SplitTo(v, j)'
    BY <2>7
  <2> QED
    BY <1>1, <1>3, <1>5, <2>1, <2>2, <2>3, <2>8 DEF PathsInv, PathsUnwrapped
<1> QED
  BY <1>4, <1>5

LEMMA PathsDoneSplits ==
  ASSUME StartsInv, PathsInv, PathsDone
  PROVE  PathsInv'
<1>1. /\ phase = "paths" /\ phase' = "loop" /\ TokenStart(left) = 0
      /\ UNCHANGED <<config, paths, capacity>>
  BY DEF PathsDone
<1> SUFFICES ASSUME WellFormed(config)
             PROVE  PathsUnwrapped'
  BY <1>1 DEF PathsInv, PathsUnwrapped
<1>2. PICK v \in Seq(Chars) : v = Assigned(config, PATH)
  BY <1>1 DEF PathsInv
<1>3. PICK j \in Nat : SplitTo(v, j)
  BY <1>1, <1>2 DEF PathsInv
<1>4. PICK z \in Nat : z = Len(v) /\ DOMAIN v = 1 .. z
  BY LenProperties
<1>5. j <= z /\ left = SubSeq(v, j + 1, z) /\ Filled(v, j)
  BY <1>3, <1>4 DEF SplitTo
<1>6. \A i \in j + 1 .. z : v[i] = ":"
  <2> TAKE i \in j + 1 .. z
  <2>1. j + 1 \in Nat \ {0} /\ j + 1 <= z + 1 /\ z <= Len(v)
    BY <1>4, <1>5
  <2>2. /\ left \in Seq(Chars) /\ Len(left) = z + 1 - (j + 1)
        /\ \A h \in 1 .. z + 1 - (j + 1) : left[h] = v[j + 1 + h - 1]
    BY <1>5, <2>1, PartOf
  <2>3. \A h \in 1 .. Len(left) : left[h] = ":"
    BY <1>1, <2>2, TokenIs
  <2>4. PICK h \in 1 .. z + 1 - (j + 1) : h = i - j
    OBVIOUS
  <2>5. j + 1 + h - 1 = i
    BY <2>4
  <2> QED
    BY <2>2, <2>3, <2>4, <2>5
<1>7. PartsTo(v, j) = Parts(v)
  <2>1. ASSUME NEW l \in Parts(v)
        PROVE  l[2] <= j
    <3>1. l[1] \in 1 .. z /\ l[2] \in 1 .. z /\ l[1] <= l[2] /\ v[l[2]] # ":"
      BY <1>4, PartPlaces
    <3>2. l[2] \notin j + 1 .. z
      BY <1>6, <3>1
    <3> QED
      BY <3>1, <3>2
  <2> QED
    BY <2>1 DEF PartsTo
<1>8. Len(paths) < capacity
  BY DEF StartsInv, FitInv
<1> QED
  BY <1>1, <1>2, <1>5, <1>7, <1>8 DEF PathsUnwrapped, Filled, Place

\* One more part in the array.
LEMMA FilledGrows ==
  ASSUME NEW t \in Seq(Chars), NEW j \in Nat, NEW n \in Nat, j <= n, Filled(t, j),
         paths \in Seq(Seq(Chars)),
         NEW l \in Parts(t), l[2] <= n, ~ (l[2] <= j),
         \A m \in Parts(t) : m[2] <= n => m[2] <= j \/ m = l,
         \A m \in Parts(t) : m[1] <= l[1] <=> m[2] <= n,
         SubSeq(t, l[1], l[2]) \in Seq(Chars),
         paths' = Append(paths, SubSeq(t, l[1], l[2]))
  PROVE  Filled(t, n)'
<1> DEFINE dir == SubSeq(t, l[1], l[2])
<1>0. dir \in Seq(Chars) /\ paths' = Append(paths, dir)
  OBVIOUS
<1> HIDE DEF dir
<1>1. PICK h \in Nat : h = Len(paths)
  BY LenProperties
<1>2. /\ Len(paths') = h + 1 /\ paths'[h + 1] = dir
      /\ \A i \in 1 .. h : paths'[i] = paths[i]
  BY ONLY <1>0, <1>1, AppendProperties, paths \in Seq(Seq(Chars))
<1>3. PartsTo(t, n) = PartsTo(t, j) \cup {l} /\ l \notin PartsTo(t, j)
  <2>1. \A m \in Parts(t) : m[2] \in Nat
    BY PartPlaces, LenProperties
  <2>2. \A m \in Parts(t) : m[2] <= j => m[2] <= n
    BY <2>1
  <2> QED
    BY <2>2 DEF PartsTo
<1>4. Cardinality(PartsTo(t, n)) = h + 1
  <2>1. IsFiniteSet(PartsTo(t, j))
    BY PartsFinite, FS_Subset DEF PartsTo
  <2>2. Cardinality(PartsTo(t, j) \cup {l}) = Cardinality(PartsTo(t, j)) + 1
    BY <1>3, <2>1, FS_AddElement
  <2> QED
    BY <1>1, <1>3, <2>2 DEF Filled
<1>5. Place(t, l) = h + 1
  <2>1. {m \in Parts(t) : m[1] <= l[1]} = PartsTo(t, n)
    BY DEF PartsTo
  <2> QED
    BY <1>4, <2>1 DEF Place
<1>6. ASSUME NEW m \in PartsTo(t, n)
      PROVE  /\ Place(t, m) \in 1 .. h + 1
             /\ paths'[Place(t, m)] = SubSeq(t, m[1], m[2])
  <2>1. CASE m = l
    <3>1. Place(t, m) = h + 1 /\ SubSeq(t, m[1], m[2]) = dir
      BY <1>5, <2>1 DEF dir
    <3>2. h + 1 \in 1 .. h + 1
      OBVIOUS
    <3> QED
      BY ONLY <1>2, <3>1, <3>2
  <2>2. CASE m # l
    <3>1. m \in PartsTo(t, j)
      BY <1>3, <2>2
    <3>2. Place(t, m) \in 1 .. h /\ paths[Place(t, m)] = SubSeq(t, m[1], m[2])
      BY <1>1, <3>1 DEF Filled
    <3>3. PICK i \in 1 .. h : i = Place(t, m)
      BY <3>2
    <3>4. paths'[i] = paths[i] /\ i \in 1 .. h + 1
      BY <1>2
    <3> QED
      BY <3>2, <3>3, <3>4
  <2> QED
    BY <2>1, <2>2
<1> QED
  BY <1>2, <1>4, <1>6 DEF Filled

LEMMA NextPathSplits ==
  ASSUME StartsInv, PathsInv, NextPath
  PROVE  PathsInv'
<1>1. /\ phase = "paths" /\ phase' = "paths" /\ TokenStart(left) # 0
      /\ paths' = Append(paths, SubSeq(left, TokenStart(left), TokenEnd(left) - 1))
      /\ left' = SubSeq(left, TokenEnd(left) + 1, Len(left))
      /\ config' = config
  BY DEF NextPath
<1> SUFFICES ASSUME WellFormed(config)
             PROVE  \E n \in Nat : SplitTo(Assigned(config, PATH), n)'
  BY <1>1 DEF PathsInv, PathsUnwrapped
<1>2. PICK v \in Seq(Chars) : v = Assigned(config, PATH)
  BY <1>1 DEF PathsInv
<1>3. PICK j \in Nat : SplitTo(v, j)
  BY <1>1, <1>2 DEF PathsInv
<1>4. PICK z \in Nat : z = Len(v)
  BY LenProperties
<1>5. /\ j <= z /\ left = SubSeq(v, j + 1, z) /\ Filled(v, j)
      /\ (j = 0 \/ v[j] = ":" \/ j = z)
  BY <1>3, <1>4 DEF SplitTo
<1>6. PICK a, e : a = TokenStart(left) /\ e = TokenEnd(left)
  OBVIOUS
<1>7. PICK n : n = IF j + e <= z THEN j + e ELSE z
  OBVIOUS
<1>8. /\ a \in Nat \ {0} /\ e \in Nat /\ a < e /\ j + e <= z + 1
      /\ n \in Nat /\ n <= z /\ (v[n] = ":" \/ n = z)
      /\ <<j + a, j + e - 1>> \in Parts(v)
      /\ \A m \in Parts(v) : m[2] <= n => m[2] <= j \/ m = <<j + a, j + e - 1>>
      /\ \A m \in Parts(v) : m[1] <= j + a => m[2] <= n
  <2>1. a # 0
    BY <1>1, <1>6
  <2>2. j = 0 \/ v[j] = ":" \/ j = z
    BY <1>5
  <2>3. left = SubSeq(v, j + 1, z) /\ j <= z
    BY <1>5
  <2>4. OneBetween(v, j, z, a, e, n)
    BY ONLY <1>4, <1>6, <1>7, <2>1, <2>2, <2>3, TokenIsPart, v \in Seq(Chars),
            j \in Nat, z \in Nat
  <2> QED
    BY <2>4 DEF OneBetween
<1>9. PICK l \in Parts(v) : l = <<j + a, j + e - 1>>
  BY <1>8
<1>10. l[1] = j + a /\ l[2] = j + e - 1
  BY <1>9
<1>11. a \in Nat /\ a # 0
  BY <1>8
<1>12. l[2] <= n /\ ~ (l[2] <= j) /\ j <= n
  <2>1. j + e - 1 <= n /\ ~ (j + e - 1 <= j) /\ j <= n
    BY ONLY <1>7, <1>8, <1>11, j \in Nat, z \in Nat
  <2> QED
    BY <1>10, <2>1
<1>13. \A m \in Parts(v) : m[1] <= l[1] <=> m[2] <= n
  <2> TAKE m \in Parts(v)
  <2>1. m[1] \in Nat /\ m[2] \in Nat /\ m[1] <= m[2]
    BY PartPlaces, LenProperties
  <2>2. m[1] <= l[1] => m[2] <= n
    BY <1>8, <1>10
  <2>3. CASE m[2] <= j
    <3>1. m[1] <= j + a
      BY ONLY <1>11, <2>1, <2>3, j \in Nat
    <3> QED
      BY <1>10, <2>2, <3>1
  <2>4. CASE m = l
    BY <1>10, <1>11, <1>12, <2>4
  <2>5. m[2] <= n => m[2] <= j \/ m = l
    BY <1>8, <1>9
  <2> QED
    BY <2>2, <2>3, <2>4, <2>5
<1>14. Len(left) = z - j
  <2>1. j + 1 \in Nat \ {0} /\ j + 1 <= z + 1 /\ z <= Len(v)
    BY <1>4, <1>5
  <2>2. Len(left) = z + 1 - (j + 1)
    BY <1>5, <2>1, PartOf
  <2> QED
    BY <1>5, <2>2
<1>15. SubSeq(left, a, e - 1) = SubSeq(v, l[1], l[2])
  <2>1. PICK d \in Nat : d = e - 1
    <3>1. e - 1 \in Nat
      BY ONLY <1>8, <1>11
    <3> QED
      BY <3>1
  <2>2. a <= d + 1 /\ j + d <= z /\ z <= Len(v) /\ j <= z /\ j + d = j + e - 1
    BY ONLY <1>4, <1>5, <1>8, <1>11, <2>1, j \in Nat, z \in Nat
  <2>3. a \in Nat \ {0}
    BY <1>11
  <2>4. SubSeq(SubSeq(v, j + 1, z), a, d) = SubSeq(v, j + a, j + d)
    BY ONLY <2>2, <2>3, PartOfPart, v \in Seq(Chars), j \in Nat, z \in Nat, d \in Nat
  <2> QED
    BY <1>5, <1>10, <2>1, <2>2, <2>4
<1>16. SubSeq(v, l[1], l[2]) \in Seq(Chars)
  <2>1. l[1] \in 1 .. z /\ l[2] \in 1 .. z /\ l[1] <= l[2]
    BY <1>4, PartPlaces
  <2>2. l[1] \in Nat \ {0} /\ l[2] \in Nat /\ l[1] <= l[2] + 1 /\ l[2] <= Len(v)
    BY <1>4, <2>1
  <2> QED
    BY <2>2, PartOf
<1>17. Filled(v, n)'
  <2>1. paths' = Append(paths, SubSeq(v, l[1], l[2]))
    BY <1>1, <1>6, <1>15
  <2>2. \A m \in Parts(v) : m[2] <= n => m[2] <= j \/ m = l
    BY <1>8, <1>9
  <2>3. n \in Nat /\ paths \in Seq(Seq(Chars))
    BY <1>8 DEF StartsInv, FitInv
  <2> QED
    BY <1>5, <1>12, <1>13, <1>16, <2>1, <2>2, <2>3, FilledGrows
<1>18. left' = SubSeq(v, n + 1, z)
  <2>1. PICK x \in Nat : x = z - j
    <3>1. z - j \in Nat
      BY <1>5
    <3> QED
      BY <3>1
  <2>2. left' = SubSeq(left, e + 1, x)
    BY <1>1, <1>6, <1>14, <2>1
  <2>3. CASE j + e <= z
    <3>1. n = j + e
      BY <1>7, <2>3
    <3>2. PICK d \in Nat \ {0} : d = e + 1
      BY <1>8
    <3>3. d <= x + 1 /\ j + x <= z /\ z <= Len(v) /\ j <= z /\ j + x = z /\ j + d = n + 1
      BY ONLY <1>4, <1>5, <1>8, <2>1, <2>3, <3>1, <3>2, j \in Nat, z \in Nat
    <3>4. SubSeq(SubSeq(v, j + 1, z), d, x) = SubSeq(v, j + d, j + x)
      BY ONLY <3>3, PartOfPart, v \in Seq(Chars), j \in Nat, z \in Nat,
              d \in Nat \ {0}, x \in Nat
    <3> QED
      BY <1>5, <2>2, <3>2, <3>3, <3>4
  <2>4. CASE ~ (j + e <= z)
    <3>1. n = z /\ x < e + 1 /\ z < n + 1
      BY ONLY <1>7, <1>8, <2>1, <2>4, j \in Nat, z \in Nat
    <3>2. e + 1 \in Int /\ x \in Int /\ n + 1 \in Int /\ z \in Int
      BY <1>8
    <3>3. SubSeq(left, e + 1, x) = <<>> /\ SubSeq(v, n + 1, z) = <<>>
      BY <3>1, <3>2, SubSeqEmpty
    <3> QED
      BY <2>2, <3>3
  <2> QED
    BY <2>3, <2>4
<1>19. SplitTo(v, n)'
  BY <1>4, <1>8, <1>17, <1>18 DEF SplitTo
<1> QED
  BY <1>1, <1>2, <1>8, <1>19

LEMMA PathsNext == EnvInv /\ RowsInv /\ PathsInv /\ [Next]_vars => PathsInv'
<1> SUFFICES ASSUME EnvInv, RowsInv, PathsInv, [Next]_vars PROVE PathsInv'
  OBVIOUS
<1>1. CASE UnwrapPaths
  BY <1>1, UnwrapPathsSplits DEF EnvInv
<1>2. CASE NextPath
  BY <1>2, NextPathSplits DEF EnvInv
<1>3. CASE PathsDone
  BY <1>3, PathsDoneSplits DEF EnvInv
<1>4. CASE EnvMalloc \/ OpenConfig \/ ReadLine
  <2>1. phase' \notin {"paths", "loop"}
    BY <1>4 DEF EnvMalloc, OpenConfig, ReadLine
  <2> QED
    BY <2>1 DEF PathsInv, PathsUnwrapped
<1>5. CASE phase = "loop" /\ phase' \in {"loop", "fault"} /\ loading' = loading
  BY <1>5 DEF PathsInv, PathsUnwrapped, loading
<1>6. CASE UNCHANGED vars
  <2>1. phase' = phase /\ loading' = loading
    BY <1>6 DEF vars
  <2> QED
    BY <2>1 DEF loading, PathsInv, PathsUnwrapped, SplitTo, Filled
<1>7. EnvUpdate \/ DirectoryMoves \/ EnvGen \/ (\E key \in Removable : EnvRm(key)) =>
        phase = "loop" /\ phase' \in {"loop", "fault"} /\ loading' = loading
  BY UpdatePs1Phase
     DEF EnvUpdate, DirectoryMoves, EnvGen, EnvGenAnew, EnvGenCached, EnvRm
<1> QED
  BY <1>1, <1>2, <1>3, <1>4, <1>5, <1>6, <1>7 DEF Next, Load

\* The directories of the configured PATH are all in env->paths, in order and
\* whole, and there is room for one more (unwrap_paths(), path_increase()), for
\* every file and every length the array begins with.
THEOREM Unwrapped == Spec => []PathsUnwrapped
<1>1. EnvInit => PathsInv
  BY DEF EnvInit, Init, PathsInv, PathsUnwrapped
<1>2. PathsInv => PathsUnwrapped
  BY DEF PathsInv
<1> QED
  BY EnvStarts, EnvNext, RowsNext, PathsNext, <1>1, <1>2, PTL DEF Spec
=============================================================================
