------------------------ MODULE SearchResults_proofs ------------------------
(***************************************************************************)
(* Theorems about SearchResults, for any index and any texts.  The rows    *)
(* displayed are those of the text because ids compare as the texts they   *)
(* are made from; the keys only need to know that they are rows.           *)
(***************************************************************************)
EXTENDS SearchResults, SequenceTheorems, WellFoundedInduction, TLAPS

-----------------------------------------------------------------------------
(* The first and the last of some rows *)

LEMMA LeastExists ==
  ASSUME NEW S \in SUBSET Nat, S # {}
  PROVE  \E x \in S : \A y \in S : x <= y
<1> DEFINE R == {ss \in Nat \X Nat : ss[1] < ss[2]}
<1>1. IsWellFoundedOn(R, Nat)
  BY NatLessThanWellFounded DEF OpToRel
<1> HIDE DEF R
<1>2. PICK x \in S : \A y \in S : <<y, x>> \notin R
  BY <1>1, WFMin
<1>3. \A y \in S : x <= y
  <2> TAKE y \in S
  <2> DEFINE pair == <<y, x>>
  <2>1. pair \in Nat \X Nat /\ pair[1] = y /\ pair[2] = x
    OBVIOUS
  <2>2. pair \notin R
    BY <1>2
  <2> HIDE DEF pair
  <2>3. ~(y < x)
    BY <2>1, <2>2 DEF R
  <2> QED
    BY <2>3
<1> QED
  BY <1>3

LEMMA LeastIs ==
  ASSUME NEW S \in SUBSET Nat, S # {}
  PROVE  Least(S) \in S /\ \A y \in S : Least(S) <= y
<1>1. \E x \in S : \A y \in S : x <= y
  BY LeastExists
<1> QED
  BY <1>1 DEF Least, Min

LEMMA GreatestIs ==
  ASSUME NEW n \in Nat, NEW S \in SUBSET (0 .. n), S # {}
  PROVE  Greatest(S) \in S /\ \A y \in S : Greatest(S) >= y
<1> DEFINE T == {n - x : x \in S}
<1>1. T \in SUBSET Nat /\ T # {}
  <2>1. \A x \in S : n - x \in Nat
    OBVIOUS
  <2> QED
    BY <2>1
<1>2. PICK t \in T : \A u \in T : t <= u
  BY <1>1, LeastExists
<1>3. PICK x \in S : t = n - x
  BY <1>2
<1>4. \A y \in S : x >= y
  BY <1>2, <1>3
<1>5. \E z \in S : \A y \in S : z >= y
  BY <1>4
<1> QED
  BY <1>5 DEF Greatest, Max

-----------------------------------------------------------------------------
(* Prefixes *)

LEMMA PrefixIs ==
  ASSUME NEW S, NEW s \in Seq(S), NEW t \in Seq(S)
  PROVE  IsPrefix(s, t) <=> Len(s) <= Len(t) /\ \A i \in 1 .. Len(s) : s[i] = t[i]
<1>1. Len(s) \in Nat /\ Len(t) \in Nat
  BY LenProperties
<1>2. SubSeq(s, 1, Len(s)) = s
  BY <1>1, SubSeqFull
<1>3. ASSUME Len(s) <= Len(t)
      PROVE  SubSeq(t, 1, Len(s)) = s <=> \A i \in 1 .. Len(s) : s[i] = t[i]
  <2> DEFINE u == SubSeq(t, 1, Len(s))
  <2>1. u \in Seq(S) /\ Len(u) = Len(s) /\ \A i \in 1 .. Len(s) : u[i] = t[i]
    <3>1. CASE s = <<>>
      BY <1>1, <3>1, EmptySeq, SubSeqEmpty
    <3>2. CASE s # <<>>
      <4>1. Len(s) # 0
        BY <1>1, <3>2, EmptySeq
      <4>2. 1 \in 1 .. Len(t) + 1 /\ Len(s) \in 0 .. Len(t)
        BY <1>1, <1>3, <4>1
      <4> QED
        BY <1>1, <1>3, <4>1, <4>2, SubSeqProperties
    <3> QED
      BY <3>1, <3>2
  <2> HIDE DEF u
  <2>2. u = s <=> \A i \in 1 .. Len(s) : s[i] = t[i]
    <3>1. ASSUME \A i \in 1 .. Len(s) : s[i] = t[i] PROVE u = s
      BY <1>1, <2>1, <3>1, SeqEqual
    <3>2. u = s => \A i \in 1 .. Len(s) : s[i] = t[i]
      BY <2>1
    <3> QED
      BY <3>1, <3>2
  <2> QED
    BY <2>2 DEF u
<1> QED
  BY <1>2, <1>3 DEF IsPrefix

\* What stands where in two sequences put together.
LEMMA Appended ==
  ASSUME NEW S, NEW p \in Seq(S), NEW a \in Seq(S)
  PROVE  /\ p \o a \in Seq(S) /\ Len(p \o a) = Len(p) + Len(a)
         /\ \A i \in 1 .. Len(p) : (p \o a)[i] = p[i]
         /\ \A i \in 1 .. Len(a) : (p \o a)[Len(p) + i] = a[i]
<1>1. Len(p) \in Nat /\ Len(a) \in Nat
  BY LenProperties
<1>2. /\ p \o a \in Seq(S) /\ Len(p \o a) = Len(p) + Len(a)
      /\ \A i \in 1 .. Len(p) + Len(a) : (p \o a)[i] = IF i <= Len(p) THEN p[i] ELSE a[i - Len(p)]
  BY ConcatProperties
<1>3. \A i \in 1 .. Len(p) : i \in 1 .. Len(p) + Len(a) /\ i <= Len(p)
  BY <1>1
<1>4. \A i \in 1 .. Len(a) :
         Len(p) + i \in 1 .. Len(p) + Len(a) /\ ~(Len(p) + i <= Len(p)) /\ Len(p) + i - Len(p) = i
  BY <1>1
<1>5. \A i \in 1 .. Len(p) : (p \o a)[i] = p[i]
  BY <1>2, <1>3
<1>6. \A i \in 1 .. Len(a) : (p \o a)[Len(p) + i] = a[i]
  BY <1>2, <1>4
<1> QED
  BY <1>2, <1>5, <1>6

-----------------------------------------------------------------------------
(* The id of a character *)

\* The characters of an id: those that stay, and those escapes are made of.
Letters == STRING
Marks == Letters \cup {"_"} \cup {HexDigit[i] : i \in 1 .. 16}

LEMMA HexDigits ==
  ASSUME NEW i \in 1 .. 16, NEW j \in 1 .. 16, HexDigit[i] = HexDigit[j]
  PROVE  i = j
<1>1. /\ HexDigit[1] = "0" /\ HexDigit[2] = "1" /\ HexDigit[3] = "2" /\ HexDigit[4] = "3"
      /\ HexDigit[5] = "4" /\ HexDigit[6] = "5" /\ HexDigit[7] = "6" /\ HexDigit[8] = "7"
      /\ HexDigit[9] = "8" /\ HexDigit[10] = "9" /\ HexDigit[11] = "a" /\ HexDigit[12] = "b"
      /\ HexDigit[13] = "c" /\ HexDigit[14] = "d" /\ HexDigit[15] = "e" /\ HexDigit[16] = "f"
  BY DEF HexDigit
<1> QED
  BY <1>1

LEMMA Halves ==
  ASSUME NEW e \in 0 .. 255
  PROVE  /\ (e \div 16) + 1 \in 1 .. 16 /\ (e % 16) + 1 \in 1 .. 16
         /\ e = 16 * (e \div 16) + (e % 16)
OBVIOUS

LEMMA PlainId ==
  ASSUME NEW c \in Letters, c \notin DOMAIN Escaped
  PROVE  CharId(c) \in Seq(Marks) /\ Len(CharId(c)) = 1 /\ CharId(c)[1] = c
<1>1. CharId(c) = <<c>>
  BY DEF CharId
<1>2. c \in Marks
  BY DEF Marks
<1>3. ASSUME NEW S, NEW d \in S
      PROVE  <<d>> \in Seq(S) /\ Len(<<d>>) = 1 /\ <<d>>[1] = d
  OBVIOUS
<1> QED
  BY <1>1, <1>2, <1>3

LEMMA EscapedId ==
  ASSUME NEW c \in DOMAIN Escaped
  PROVE  /\ CharId(c) \in Seq(Marks) /\ Len(CharId(c)) = 3 /\ CharId(c)[1] = "_"
         /\ CharId(c)[2] = HexDigit[(Escaped[c] \div 16) + 1]
         /\ CharId(c)[3] = HexDigit[(Escaped[c] % 16) + 1]
<1> DEFINE h == HexDigit[(Escaped[c] \div 16) + 1]
           l == HexDigit[(Escaped[c] % 16) + 1]
<1>1. Escaped[c] \in 0 .. 255
  BY EscapedAssumption
<1>2. (Escaped[c] \div 16) + 1 \in 1 .. 16 /\ (Escaped[c] % 16) + 1 \in 1 .. 16
  BY <1>1, Halves
<1>3. h \in Marks /\ l \in Marks /\ "_" \in Marks
  BY <1>2 DEF Marks
<1>4. CharId(c) = <<"_", h, l>>
  BY DEF CharId
<1>5. ASSUME NEW S, NEW d \in S, NEW e \in S, NEW f \in S
      PROVE  /\ <<d, e, f>> \in Seq(S) /\ Len(<<d, e, f>>) = 3
             /\ <<d, e, f>>[1] = d /\ <<d, e, f>>[2] = e /\ <<d, e, f>>[3] = f
  OBVIOUS
<1> HIDE DEF h, l
<1>6. CharId(c) \in Seq(Marks) /\ Len(CharId(c)) = 3 /\ CharId(c)[1] = "_" /\ CharId(c)[2] = h /\ CharId(c)[3] = l
  <2> DEFINE t == <<"_", h, l>>
  <2>1. t \in Seq(Marks) /\ Len(t) = 3 /\ t[1] = "_" /\ t[2] = h /\ t[3] = l
    BY <1>3, <1>5
  <2> HIDE DEF t
  <2> QED
    BY <1>4, <2>1 DEF t
<1> QED
  BY <1>6 DEF h, l

LEMMA CharIdTyped ==
  ASSUME NEW c \in Letters
  PROVE  CharId(c) \in Seq(Marks) /\ Len(CharId(c)) \in 1 .. 3
<1>1. CharId(c) \in Seq(Marks) /\ (Len(CharId(c)) = 1 \/ Len(CharId(c)) = 3)
  BY PlainId, EscapedId
<1> QED
  BY <1>1

\* Two ids of characters that agree as far as the shorter one goes are the same.
LEMMA CharIdsApart ==
  ASSUME NEW c \in Letters, NEW d \in Letters,
         \A i \in 1 .. 3 : i <= Len(CharId(c)) /\ i <= Len(CharId(d)) => CharId(c)[i] = CharId(d)[i]
  PROVE  c = d
<1>1. CharId(c)[1] = CharId(d)[1]
  <2>1. Len(CharId(c)) \in 1 .. 3 /\ Len(CharId(d)) \in 1 .. 3
    BY CharIdTyped
  <2> QED
    BY <2>1
<1>2. CASE c \notin DOMAIN Escaped /\ d \notin DOMAIN Escaped
  BY <1>1, <1>2, PlainId
<1>3. CASE c \in DOMAIN Escaped /\ d \in DOMAIN Escaped
  <2> DEFINE x == Escaped[c]
             y == Escaped[d]
  <2>1. x \in 0 .. 255 /\ y \in 0 .. 255
    BY <1>3, EscapedAssumption
  <2>2. /\ HexDigit[(x \div 16) + 1] = HexDigit[(y \div 16) + 1]
        /\ HexDigit[(x % 16) + 1] = HexDigit[(y % 16) + 1]
    <3>1. /\ Len(CharId(c)) = 3 /\ Len(CharId(d)) = 3
          /\ CharId(c)[2] = HexDigit[(x \div 16) + 1] /\ CharId(d)[2] = HexDigit[(y \div 16) + 1]
          /\ CharId(c)[3] = HexDigit[(x % 16) + 1] /\ CharId(d)[3] = HexDigit[(y % 16) + 1]
      BY <1>3, EscapedId
    <3> HIDE DEF x, y
    <3>2. CharId(c)[2] = CharId(d)[2] /\ CharId(c)[3] = CharId(d)[3]
      BY <3>1
    <3> QED
      BY <3>1, <3>2
  <2> HIDE DEF x, y
  <2>3. (x \div 16) + 1 = (y \div 16) + 1 /\ (x % 16) + 1 = (y % 16) + 1
    BY <2>1, <2>2, Halves, HexDigits
  <2>4. x = y
    <3>1. /\ x = 16 * (x \div 16) + (x % 16) /\ y = 16 * (y \div 16) + (y % 16)
          /\ x \div 16 \in Int /\ y \div 16 \in Int /\ x % 16 \in Int /\ y % 16 \in Int
      BY <2>1, Halves
    <3> QED
      BY <2>3, <3>1
  <2> QED
    BY <1>3, <2>4, EscapedAssumption DEF x, y
<1>4. CASE c \in DOMAIN Escaped /\ d \notin DOMAIN Escaped
  <2>1. CharId(c)[1] = "_" /\ CharId(d)[1] = d
    BY <1>4, PlainId, EscapedId
  <2> QED
    BY <1>1, <1>4, <2>1, EscapedAssumption
<1>5. CASE c \notin DOMAIN Escaped /\ d \in DOMAIN Escaped
  <2>1. CharId(c)[1] = c /\ CharId(d)[1] = "_"
    BY <1>5, PlainId, EscapedId
  <2>2. c = "_"
    BY <1>1, <2>1
  <2> QED
    BY <1>5, <2>2, EscapedAssumption
<1> QED
  BY <1>2, <1>3, <1>4, <1>5

-----------------------------------------------------------------------------
(* The id of a text *)

\* id is the table that the loop of convertToId goes through for a text.
IdTable(id, text) ==
  /\ id \in [0 .. Len(text) -> Seq(Marks)]
  /\ id[0] = <<>>
  /\ \A n \in 1 .. Len(text) : id[n] = id[n - 1] \o CharId(text[n])

\* What the definition says of the table, for the first m characters.
Unfolds(id, text, m) ==
  id = [n \in 0 .. m |-> IF n = 0 THEN <<>> ELSE id[n - 1] \o CharId(text[n])]

LEMMA TablesExist ==
  ASSUME NEW text \in Text
  PROVE  \A m \in 0 .. Len(text) : \E id : Unfolds(id, text, m)
<1> DEFINE Bad == {m \in 0 .. Len(text) : ~\E id : Unfolds(id, text, m)}
<1>1. Len(text) \in Nat
  BY LenProperties DEF Text
<1> SUFFICES ASSUME Bad # {} PROVE FALSE
  OBVIOUS
<1>2. Bad \in SUBSET Nat
  BY <1>1
<1>3. PICK m \in Bad : \A k \in Bad : m <= k
  BY <1>2, LeastExists
<1>4. m \in 0 .. Len(text) /\ ~\E id : Unfolds(id, text, m)
  OBVIOUS
<1>5. CASE m = 0
  <2> DEFINE id == [n \in 0 .. 0 |-> <<>>]
  <2>1. Unfolds(id, text, 0)
    BY DEF Unfolds
  <2> QED
    BY <1>4, <1>5, <2>1
<1>6. CASE m # 0
  <2>1. m - 1 \in 0 .. Len(text) /\ m - 1 \notin Bad /\ m \in Nat /\ m - 1 \in Nat
    BY <1>1, <1>2, <1>3, <1>4, <1>6
  <2>2. PICK id : Unfolds(id, text, m - 1)
    BY <2>1
  <2> DEFINE next == [n \in 0 .. m |-> IF n = m THEN id[m - 1] \o CharId(text[m]) ELSE id[n]]
  <2>3. \A n \in 0 .. (m - 1) : id[n] = IF n = 0 THEN <<>> ELSE id[n - 1] \o CharId(text[n])
    BY <2>2 DEF Unfolds
  <2>4. \A n \in 0 .. m : next[n] = IF n = 0 THEN <<>> ELSE next[n - 1] \o CharId(text[n])
    <3> TAKE n \in 0 .. m
    <3>1. CASE n = m
      BY <1>6, <2>1, <3>1
    <3>2. CASE n # m
      <4>1. n \in 0 .. (m - 1) /\ (n # 0 => n - 1 \in 0 .. m /\ n - 1 # m)
        BY <2>1, <3>2
      <4> QED
        BY <2>3, <3>2, <4>1
    <3> QED
      BY <3>1, <3>2
  <2>5. Unfolds(next, text, m)
    <3>1. next = [n \in 0 .. m |-> next[n]]
      OBVIOUS
    <3> HIDE DEF next
    <3> QED
      BY <2>4, <3>1 DEF Unfolds
  <2> QED
    BY <1>4, <2>5
<1> QED
  BY <1>5, <1>6

LEMMA IdTables ==
  ASSUME NEW text \in Text
  PROVE  \E id : IdTable(id, text) /\ ConvertToId(text) = id[Len(text)]
<1> DEFINE id == CHOOSE f : Unfolds(f, text, Len(text))
<1>1. Len(text) \in Nat /\ \A n \in 1 .. Len(text) : text[n] \in Letters
  BY LenProperties, ElementOfSeq DEF Text, Letters
<1>2. ConvertToId(text) = id[Len(text)]
  BY DEF ConvertToId, Unfolds
<1>3. Unfolds(id, text, Len(text))
  <2>1. \E f : Unfolds(f, text, Len(text))
    BY <1>1, TablesExist
  <2> QED
    BY <2>1
<1> HIDE DEF id
<1>4. /\ id = [n \in 0 .. Len(text) |-> id[n]]
      /\ \A n \in 0 .. Len(text) : id[n] = IF n = 0 THEN <<>> ELSE id[n - 1] \o CharId(text[n])
  BY <1>3 DEF Unfolds
<1>5. \A n \in 0 .. Len(text) : id[n] \in Seq(Marks)
  <2> DEFINE Bad == {n \in 0 .. Len(text) : id[n] \notin Seq(Marks)}
  <2> SUFFICES ASSUME Bad # {} PROVE FALSE
    OBVIOUS
  <2>1. Bad \in SUBSET Nat
    BY <1>1
  <2>2. PICK n \in Bad : \A k \in Bad : n <= k
    BY <2>1, LeastExists
  <2>3. n \in 0 .. Len(text) /\ id[n] \notin Seq(Marks)
    OBVIOUS
  <2>4. n # 0
    BY <1>1, <1>4, <2>3, EmptySeq
  <2>5. n - 1 \in 0 .. Len(text) /\ n \in 1 .. Len(text) /\ n - 1 \notin Bad
    BY <1>1, <2>2, <2>3, <2>4
  <2>6. id[n] = id[n - 1] \o CharId(text[n]) /\ id[n - 1] \in Seq(Marks)
    BY <1>4, <2>3, <2>4, <2>5
  <2>7. CharId(text[n]) \in Seq(Marks)
    BY <1>1, <2>5, CharIdTyped
  <2> QED
    BY <2>3, <2>6, <2>7, ConcatProperties
<1>6. id \in [0 .. Len(text) -> Seq(Marks)]
  BY <1>4, <1>5
<1>7. id[0] = <<>>
  BY <1>1, <1>4
<1>8. \A n \in 1 .. Len(text) : id[n] = id[n - 1] \o CharId(text[n])
  BY <1>1, <1>4
<1> QED
  BY <1>2, <1>6, <1>7, <1>8 DEF IdTable

LEMMA TableStep ==
  ASSUME NEW text, NEW id, IdTable(id, text), NEW n \in Nat, n + 1 \in 1 .. Len(text)
  PROVE  id[n + 1] = id[n] \o CharId(text[n + 1])
<1> DEFINE m == n + 1
<1>1. m \in 1 .. Len(text) /\ m - 1 = n
  OBVIOUS
<1> HIDE DEF m
<1>2. id[m] = id[m - 1] \o CharId(text[m])
  BY <1>1 DEF IdTable
<1>3. id[m] = id[n] \o CharId(text[m])
  BY <1>1, <1>2
<1> QED
  BY <1>3 DEF m

\* The id of a beginning of a text is a beginning of its id.
LEMMA TableGrows ==
  ASSUME NEW text \in Text, NEW id, IdTable(id, text), NEW m \in 0 .. Len(text)
  PROVE  \A n \in m .. Len(text) :
           Len(id[m]) <= Len(id[n]) /\ \A i \in 1 .. Len(id[m]) : id[n][i] = id[m][i]
<1> DEFINE Good(n) == Len(id[m]) <= Len(id[n]) /\ \A i \in 1 .. Len(id[m]) : id[n][i] = id[m][i]
           Bad == {n \in m .. Len(text) : ~Good(n)}
<1> SUFFICES ASSUME Bad # {} PROVE FALSE
  OBVIOUS
<1>1. Len(text) \in Nat /\ \A n \in 1 .. Len(text) : text[n] \in Letters
  BY LenProperties, ElementOfSeq DEF Text, Letters
<1>2. /\ \A n \in 0 .. Len(text) : id[n] \in Seq(Marks) /\ Len(id[n]) \in Nat
      /\ \A n \in 1 .. Len(text) : id[n] = id[n - 1] \o CharId(text[n])
  <2>1. \A n \in 0 .. Len(text) : id[n] \in Seq(Marks)
    BY DEF IdTable
  <2> QED
    BY <2>1, LenProperties DEF IdTable
<1>3. Bad \in SUBSET Nat
  BY <1>1
<1>4. PICK n \in Bad : \A k \in Bad : n <= k
  BY <1>3, LeastExists
<1>5. n \in m .. Len(text) /\ ~Good(n) /\ m \in Nat /\ n \in Nat
  BY <1>1
<1>6. Good(m)
  BY <1>1, <1>2
<1> HIDE DEF Good
<1>7. n # m
  BY <1>5, <1>6
<1>8. n - 1 \in m .. Len(text) /\ n \in 1 .. Len(text) /\ n - 1 \in 0 .. Len(text) /\ n - 1 \notin Bad
  BY <1>1, <1>4, <1>5, <1>7
<1>9. Good(n - 1)
  BY <1>8
<1>10. id[n - 1] \in Seq(Marks) /\ CharId(text[n]) \in Seq(Marks) /\ id[n] = id[n - 1] \o CharId(text[n])
  BY <1>1, <1>2, <1>8, CharIdTyped
<1> DEFINE p == id[n - 1]
           a == CharId(text[n])
<1>11. /\ Len(id[n]) = Len(p) + Len(a)
       /\ \A i \in 1 .. Len(p) : id[n][i] = p[i]
  <2>1. p \in Seq(Marks) /\ a \in Seq(Marks) /\ id[n] = p \o a
    BY <1>10
  <2> HIDE DEF p, a
  <2> QED
    BY <2>1, Appended
<1>12. Len(id[m]) \in Nat /\ Len(p) \in Nat /\ Len(a) \in Nat
  <2>1. m \in 0 .. Len(text)
    OBVIOUS
  <2>2. Len(id[m]) \in Nat
    BY <1>2, <2>1
  <2> QED
    BY <1>10, <2>2, LenProperties
<1>13. Len(id[m]) <= Len(p) /\ \A i \in 1 .. Len(id[m]) : p[i] = id[m][i]
  BY <1>9 DEF Good
<1> HIDE DEF p, a
<1>14. \A i \in 1 .. Len(id[m]) : i \in 1 .. Len(p)
  BY <1>12, <1>13
<1>15. Good(n)
  <2>1. Len(id[m]) <= Len(id[n])
    BY <1>11, <1>12, <1>13
  <2>2. \A i \in 1 .. Len(id[m]) : id[n][i] = id[m][i]
    BY <1>11, <1>13, <1>14
  <2> QED
    BY <2>1, <2>2 DEF Good
<1> QED
  BY <1>5, <1>15

\* Texts that begin alike have ids that begin alike.
LEMMA TablesAgree ==
  ASSUME NEW t \in Text, NEW u \in Text, NEW f, NEW g, IdTable(f, t), IdTable(g, u),
         NEW m \in Nat, m <= Len(t), m <= Len(u), \A i \in 1 .. m : t[i] = u[i]
  PROVE  f[m] = g[m]
<1> DEFINE Bad == {n \in 0 .. m : f[n] # g[n]}
<1> SUFFICES ASSUME Bad # {} PROVE FALSE
  OBVIOUS
<1>1. Bad \in SUBSET Nat
  OBVIOUS
<1>2. PICK n \in Bad : \A k \in Bad : n <= k
  BY <1>1, LeastExists
<1>3. n \in 0 .. m /\ f[n] # g[n]
  OBVIOUS
<1>4. f[0] = <<>> /\ g[0] = <<>>
  BY DEF IdTable
<1>5. n # 0
  BY <1>3, <1>4
<1>6. n - 1 \in 0 .. m /\ n \in 1 .. m /\ n - 1 \notin Bad
  BY <1>2, <1>3, <1>5
<1>7. f[n - 1] = g[n - 1] /\ t[n] = u[n]
  BY <1>6
<1>8. Len(t) \in Nat /\ Len(u) \in Nat
  BY LenProperties DEF Text
<1>9. n \in 1 .. Len(t) /\ n \in 1 .. Len(u)
  BY <1>6, <1>8
<1>10. f[n] = f[n - 1] \o CharId(t[n]) /\ g[n] = g[n - 1] \o CharId(u[n])
  BY <1>9 DEF IdTable
<1> QED
  BY <1>3, <1>7, <1>10

\* Comparing ids is comparing texts: no text is taken for another one, or for the
\* beginning of another one, by the characters its escapes are made of.
LEMMA IdsCompareAsTexts ==
  ASSUME NEW t \in Text, NEW u \in Text
  PROVE  IsPrefix(ConvertToId(t), ConvertToId(u)) <=> IsPrefix(t, u)
<1>1. PICK f : IdTable(f, t) /\ ConvertToId(t) = f[Len(t)]
  BY IdTables
<1>2. PICK g : IdTable(g, u) /\ ConvertToId(u) = g[Len(u)]
  BY IdTables
<1> DEFINE s == ConvertToId(t)
           w == ConvertToId(u)
<1>3. /\ Len(t) \in Nat /\ \A n \in 1 .. Len(t) : t[n] \in Letters
      /\ Len(u) \in Nat /\ \A n \in 1 .. Len(u) : u[n] \in Letters
  BY LenProperties, ElementOfSeq DEF Text, Letters
<1>4. /\ \A n \in 0 .. Len(t) : f[n] \in Seq(Marks)
      /\ \A n \in 0 .. Len(u) : g[n] \in Seq(Marks)
  BY <1>1, <1>2 DEF IdTable
<1>5. s \in Seq(Marks) /\ w \in Seq(Marks) /\ Len(s) \in Nat /\ Len(w) \in Nat
  <2>1. Len(t) \in 0 .. Len(t) /\ Len(u) \in 0 .. Len(u)
    BY <1>3
  <2> QED
    BY <1>1, <1>2, <1>4, <2>1, LenProperties
<1>6. /\ IsPrefix(s, w) <=> Len(s) <= Len(w) /\ \A i \in 1 .. Len(s) : s[i] = w[i]
      /\ IsPrefix(t, u) <=> Len(t) <= Len(u) /\ \A i \in 1 .. Len(t) : t[i] = u[i]
  <2>1. t \in Seq(Letters) /\ u \in Seq(Letters)
    BY DEF Text, Letters
  <2> QED
    BY <1>5, <2>1, PrefixIs
<1>7. ASSUME Len(t) <= Len(u), \A i \in 1 .. Len(t) : t[i] = u[i]
      PROVE  Len(s) <= Len(w) /\ \A i \in 1 .. Len(s) : s[i] = w[i]
  <2>1. s = g[Len(t)]
    BY <1>1, <1>2, <1>3, <1>7, TablesAgree
  <2>2. Len(t) \in 0 .. Len(u) /\ Len(u) \in Len(t) .. Len(u)
    BY <1>3, <1>7
  <2>3. Len(g[Len(t)]) <= Len(g[Len(u)]) /\ \A i \in 1 .. Len(g[Len(t)]) : g[Len(u)][i] = g[Len(t)][i]
    BY <1>2, <2>2, TableGrows
  <2> QED
    BY <1>2, <2>1, <2>3
<1>8. ASSUME Len(s) <= Len(w), \A i \in 1 .. Len(s) : s[i] = w[i]
      PROVE  Len(t) <= Len(u) /\ \A i \in 1 .. Len(t) : t[i] = u[i]
  <2> DEFINE Alike(n) == n <= Len(u) /\ \A i \in 1 .. n : t[i] = u[i]
             Bad == {n \in 0 .. Len(t) : ~Alike(n)}
  <2>1. Bad = {}
    <3> SUFFICES ASSUME Bad # {} PROVE FALSE
      OBVIOUS
    <3>1. Bad \in SUBSET Nat
      OBVIOUS
    <3>2. PICK k \in Bad : \A j \in Bad : k <= j
      BY <3>1, LeastExists
    <3>3. k \in 0 .. Len(t) /\ ~Alike(k)
      OBVIOUS
    <3>4. Alike(0)
      BY <1>3
    <3>5. k # 0
      BY <3>3, <3>4
    <3> DEFINE n == k - 1
    <3>6. n \in 0 .. Len(t) /\ n + 1 \in 1 .. Len(t) /\ n \notin Bad /\ k = n + 1 /\ n \in Nat
      BY <1>3, <3>2, <3>3, <3>5
    <3>7. Alike(n)
      BY <3>6
    <3> HIDE DEF n
    <3>8. n <= Len(u) /\ \A i \in 1 .. n : t[i] = u[i]
      BY <3>7
    <3>9. f[n] = g[n] /\ f[n] \in Seq(Marks) /\ Len(f[n]) \in Nat
      <4>1. n <= Len(t)
        BY <1>3, <3>6
      <4>2. f[n] = g[n]
        BY <1>1, <1>2, <3>6, <3>8, <4>1, TablesAgree
      <4> QED
        BY <1>4, <3>6, <4>2, LenProperties
    <3> DEFINE p == f[n]
               a == CharId(t[n + 1])
    <3>10. a \in Seq(Marks) /\ Len(a) \in 1 .. 3 /\ f[n + 1] = p \o a
      <4>1. n + 1 \in 1 .. Len(t)
        BY <3>6
      <4>2. f[n + 1] = f[n] \o CharId(t[n + 1])
        BY <1>1, <3>6, <4>1, TableStep
      <4>3. t[n + 1] \in Letters
        BY <1>3, <4>1
      <4> QED
        BY <4>1, <4>2, <4>3, CharIdTyped
    <3>11. Len(f[n + 1]) <= Len(s) /\ \A i \in 1 .. Len(f[n + 1]) : s[i] = f[n + 1][i]
      <4>1. n + 1 \in 0 .. Len(t) /\ Len(t) \in n + 1 .. Len(t)
        BY <1>3, <3>6
      <4> QED
        BY <1>1, <4>1, TableGrows
    <3> HIDE DEF p, a
    <3>12. /\ Len(p) + Len(a) <= Len(w) /\ Len(p) \in Nat
           /\ \A i \in 1 .. Len(a) : w[Len(p) + i] = a[i]
      <4>1. /\ p \in Seq(Marks) /\ Len(p) \in Nat
        BY <3>9 DEF p
      <4>2. /\ Len(f[n + 1]) = Len(p) + Len(a)
            /\ \A i \in 1 .. Len(a) : f[n + 1][Len(p) + i] = a[i]
        BY <3>10, <4>1, Appended
      <4>3. \A i \in 1 .. Len(a) : Len(p) + i \in 1 .. Len(f[n + 1]) /\ Len(p) + i \in 1 .. Len(s)
        BY <1>5, <3>10, <3>11, <4>1, <4>2
      <4> QED
        BY <1>5, <1>8, <3>10, <3>11, <4>1, <4>2, <4>3
    <3>13. n < Len(u)
      <4>1. n # Len(u)
        <5> SUFFICES ASSUME n = Len(u) PROVE FALSE
          OBVIOUS
        <5>1. w = p
          BY <1>2, <3>9 DEF p
        <5>2. Len(p) + Len(a) <= Len(p) /\ Len(p) \in Nat /\ Len(a) \in 1 .. 3
          BY <3>10, <3>12, <5>1
        <5>3. \A x \in Nat : \A y \in 1 .. 3 : ~(x + y <= x)
          OBVIOUS
        <5> QED
          BY <5>2, <5>3
      <4>2. n \in Nat /\ Len(u) \in Nat /\ n <= Len(u)
        BY <1>3, <3>6, <3>8
      <4> QED
        BY <4>1, <4>2
    <3> DEFINE b == CharId(u[n + 1])
    <3>14. b \in Seq(Marks) /\ Len(b) \in 1 .. 3 /\ g[n + 1] = p \o b
      <4>1. n + 1 \in 1 .. Len(u)
        BY <1>3, <3>6, <3>13
      <4>2. g[n + 1] = g[n] \o CharId(u[n + 1])
        BY <1>2, <3>6, <4>1, TableStep
      <4>3. u[n + 1] \in Letters
        BY <1>3, <4>1
      <4>4. g[n + 1] = p \o b
        BY <3>9, <4>1, <4>2 DEF p
      <4> QED
        BY <4>3, <4>4, CharIdTyped
    <3>15. Len(g[n + 1]) <= Len(w) /\ \A i \in 1 .. Len(g[n + 1]) : w[i] = g[n + 1][i]
      <4>1. n + 1 \in 0 .. Len(u) /\ Len(u) \in n + 1 .. Len(u)
        BY <1>3, <3>6, <3>13
      <4> QED
        BY <1>2, <4>1, TableGrows
    <3> HIDE DEF b
    <3>16. \A i \in 1 .. Len(b) : w[Len(p) + i] = b[i]
      <4>1. /\ p \in Seq(Marks) /\ Len(p) \in Nat
        BY <3>9 DEF p
      <4>2. /\ Len(g[n + 1]) = Len(p) + Len(b)
            /\ \A i \in 1 .. Len(b) : g[n + 1][Len(p) + i] = b[i]
        BY <3>14, <4>1, Appended
      <4>3. \A i \in 1 .. Len(b) : Len(p) + i \in 1 .. Len(g[n + 1])
        BY <3>14, <4>1, <4>2
      <4> QED
        BY <3>15, <4>2, <4>3
    <3>17. \A i \in 1 .. 3 : i <= Len(a) /\ i <= Len(b) => a[i] = b[i]
      <4> TAKE i \in 1 .. 3
      <4>1. i <= Len(a) => i \in 1 .. Len(a)
        BY <3>10
      <4>2. i <= Len(b) => i \in 1 .. Len(b)
        BY <3>14
      <4> QED
        BY <3>12, <3>16, <4>1, <4>2
    <3>18. t[n + 1] = u[n + 1]
      <4>1. t[n + 1] \in Letters /\ u[n + 1] \in Letters
        BY <1>3, <3>6, <3>13
      <4> QED
        BY <3>17, <4>1, CharIdsApart DEF a, b
    <3>19. Alike(k)
      BY <1>3, <3>6, <3>8, <3>13, <3>18
    <3> QED
      BY <3>3, <3>19
  <2>2. Alike(Len(t))
    BY <1>3, <2>1
  <2> QED
    BY <2>2
<1> QED
  BY <1>6, <1>7, <1>8

-----------------------------------------------------------------------------
(* The rows of a text *)

LEMMA LeadingStripped ==
  ASSUME NEW t \in Text, StripLeading(t) # <<>>
  PROVE  StripLeading(t) \in Text /\ StripLeading(t)[1] # Space
<1> DEFINE visible == {i \in DOMAIN t : t[i] # Space}
           m == Min(visible)
<1>1. Len(t) \in Nat /\ DOMAIN t = 1 .. Len(t)
  BY LenProperties DEF Text
<1>2. visible # {} /\ StripLeading(t) = SubSeq(t, m, Len(t))
  BY DEF StripLeading
<1>3. m \in visible
  <2>1. visible \in SUBSET Nat
    BY <1>1
  <2> HIDE DEF visible
  <2> QED
    BY <1>2, <2>1, LeastIs DEF Least
<1>4. m \in 1 .. Len(t) /\ t[m] # Space
  BY <1>1, <1>3
<1> HIDE DEF visible, m
<1>5. /\ SubSeq(t, m, Len(t)) \in Seq(STRING)
      /\ SubSeq(t, m, Len(t))[1] = t[m]
  <2>1. m \in 1 .. Len(t) + 1 /\ Len(t) \in m - 1 .. Len(t) /\ 1 \in 1 .. Len(t) - m + 1 /\ m + 1 - 1 = m
    BY <1>1, <1>4
  <2>2. /\ SubSeq(t, m, Len(t)) \in Seq(STRING)
        /\ \A i \in 1 .. Len(t) - m + 1 : SubSeq(t, m, Len(t))[i] = t[m + i - 1]
    BY <2>1, SubSeqProperties DEF Text
  <2>3. SubSeq(t, m, Len(t))[1] = t[m + 1 - 1]
    BY <2>1, <2>2
  <2> QED
    BY <2>1, <2>2, <2>3
<1> QED
  BY <1>2, <1>4, <1>5 DEF Text

LEMMA Trimmed ==
  ASSUME NEW x \in Text, x # <<>>, x[1] # Space
  PROVE  Trim(x) \in Text /\ Len(Trim(x)) >= 1 /\ Trim(x)[1] = x[1]
<1> DEFINE visible == {i \in DOMAIN x : x[i] # Space}
           m == Max(visible)
<1>1. Len(x) \in Nat /\ Len(x) # 0 /\ DOMAIN x = 1 .. Len(x)
  BY LenProperties, EmptySeq DEF Text
<1>2. 1 \in visible /\ visible \in SUBSET (0 .. Len(x)) /\ visible \in SUBSET (1 .. Len(x))
  BY <1>1
<1> HIDE DEF visible
<1>3. Min(visible) = 1
  <2>1. Min(visible) \in visible /\ Min(visible) <= 1
    <3>1. visible \in SUBSET Nat /\ visible # {}
      BY <1>2
    <3> QED
      BY <1>2, <3>1, LeastIs DEF Least
  <2>2. Min(visible) \in 1 .. Len(x)
    BY <1>2, <2>1
  <2> QED
    BY <1>1, <2>1, <2>2
<1>4. StripLeading(x) = x
  <2>1. StripLeading(x) = SubSeq(x, 1, Len(x))
    BY <1>2, <1>3 DEF StripLeading, visible
  <2> QED
    BY <2>1, SubSeqFull DEF Text
<1>5. m \in visible
  <2>1. visible # {}
    BY <1>2
  <2> QED
    BY <1>1, <1>2, <2>1, GreatestIs DEF Greatest
<1>6. Trim(x) = SubSeq(x, 1, m)
  BY <1>2, <1>4 DEF Trim, StripTrailing, visible
<1> HIDE DEF m
<1>7. m \in 1 .. Len(x)
  BY <1>2, <1>5
<1>8. /\ 1 \in 1 .. Len(x) + 1 /\ m \in 1 - 1 .. Len(x) /\ m - 1 + 1 = m
      /\ 1 \in 1 .. m - 1 + 1 /\ 1 + 1 - 1 = 1
  BY <1>1, <1>7
<1>9. /\ SubSeq(x, 1, m) \in Seq(STRING) /\ Len(SubSeq(x, 1, m)) = m - 1 + 1
      /\ \A i \in 1 .. m - 1 + 1 : SubSeq(x, 1, m)[i] = x[1 + i - 1]
  BY <1>8, SubSeqProperties DEF Text
<1>10. SubSeq(x, 1, m)[1] = x[1 + 1 - 1]
  BY <1>8, <1>9
<1> QED
  BY <1>6, <1>7, <1>8, <1>9, <1>10 DEF Text

\* A page with rows was asked for by a text, and is that of its first character.
LEMMA PageAsked ==
  ASSUME NEW a \in Addresses
  PROVE  /\ a.section \in Sections
         /\ a.page \in DOMAIN Pages(a.section)
         /\ Rows(a) = Pages(a.section)[a.page].rows
         /\ a.text # <<>> => /\ a.text \in Text /\ a.text[1] # Space
                             /\ Pages(a.section)[a.page].char = a.text[1]
<1>1. PICK s \in Sections, t \in Texts : a = AddressOf(s, StripLeading(t))
  BY DEF Addresses
<1> DEFINE text == StripLeading(t)
           p == CHOOSE q \in PageOf(s, text) : TRUE
<1>2. a.page # 0
  BY DEF Addresses
<1>3. PageOf(s, text) # {} /\ a.section = s /\ a.page = p /\ a.text = text
  BY <1>1, <1>2 DEF AddressOf, NoMatchesPage
<1>4. p \in PageOf(s, text)
  BY <1>3
<1>5. Pages(s) \in Seq([char : STRING, rows : Seq([name : Text, kids : Nat])]) /\ Pages(s) # <<>>
  BY IndexAssumption DEF Sections, Pages
<1> HIDE DEF p
<1>6. p \in DOMAIN Pages(s)
  BY <1>4, <1>5 DEF PageOf
<1>7. Rows(a) = Pages(s)[p].rows
  BY <1>2, <1>3 DEF Rows
<1>8. ASSUME text # <<>>
      PROVE  text \in Text /\ text[1] # Space /\ Pages(s)[p].char = text[1]
  <2>1. t \in Text
    BY TextsAssumption
  <2>2. text \in Text /\ text[1] # Space
    BY <1>8, <2>1, LeadingStripped
  <2> HIDE DEF text
  <2>3. Pages(s)[p].char = Head(text)
    BY <1>4, <1>8 DEF PageOf
  <2>4. Head(text) = text[1]
    BY <2>2, <1>8, HeadTailProperties DEF Text
  <2> QED
    BY <2>2, <2>3, <2>4
<1> HIDE DEF text
<1> QED
  BY <1>3, <1>6, <1>7, <1>8

LEMMA SectionRows ==
  ASSUME NEW s \in Sections, NEW p \in DOMAIN Pages(s)
  PROVE  /\ Pages(s)[p].rows \in Seq([name : Text, kids : Nat])
         /\ \A r \in DOMAIN Pages(s)[p].rows :
              /\ Pages(s)[p].rows[r].name \in Text
              /\ Len(Pages(s)[p].rows[r].name) >= 1
              /\ Pages(s)[p].rows[r].name[1] = Pages(s)[p].char
<1> DEFINE Row == [name : Text, kids : Nat]
           Page == [char : STRING, rows : Seq(Row)]
           rows == Pages(s)[p].rows
<1>1. Pages(s) \in Seq(Page) /\ p \in 1 .. Len(Pages(s))
  <2>1. Pages(s) \in Seq(Page)
    BY IndexAssumption DEF Sections, Pages
  <2> QED
    BY <2>1, LenProperties
<1>2. rows \in Seq(Row)
  <2>1. Pages(s)[p] \in Page
    <3> HIDE DEF Page
    <3> QED
      BY <1>1, ElementOfSeq
  <2> QED
    BY <2>1
<1>3. \A r \in DOMAIN rows : rows[r].name # <<>> /\ Head(rows[r].name) = Pages(s)[p].char
  BY IndexAssumption
<1> HIDE DEF rows
<1>4. ASSUME NEW r \in DOMAIN rows
      PROVE  /\ rows[r].name \in Text /\ Len(rows[r].name) >= 1
             /\ rows[r].name[1] = Pages(s)[p].char
  <2>1. r \in 1 .. Len(rows)
    BY <1>2, LenProperties
  <2>2. rows[r] \in Row
    <3> HIDE DEF Row
    <3> QED
      BY <1>2, <2>1, ElementOfSeq
  <2> DEFINE name == rows[r].name
  <2>3. name \in Text /\ name # <<>> /\ Head(name) = Pages(s)[p].char
    BY <1>3, <2>2
  <2> HIDE DEF name
  <2>4. Head(name) = name[1] /\ Len(name) \in Nat /\ Len(name) # 0
    BY <2>3, HeadTailProperties, LenProperties, EmptySeq DEF Text
  <2> QED
    BY <2>3, <2>4 DEF name
<1> QED
  BY <1>2, <1>4 DEF rows

LEMMA RowsOfText == TypeOK => SearchSound
<1> SUFFICES ASSUME TypeOK, address.text # <<>>,
                    NEW p \in DOMAIN Pages(address.section)
             PROVE  {r \in DOMAIN Pages(address.section)[p].rows :
                       IsPrefix(Trim(address.text), Pages(address.section)[p].rows[r].name)}
                      = IF p = address.page THEN Shown ELSE {}
  BY DEF SearchSound
<1> DEFINE s == address.section
           x == Trim(address.text)
           rows == Pages(s)[p].rows
<1>1. /\ s \in Sections
      /\ address.page \in DOMAIN Pages(s)
      /\ Rows(address) = Pages(s)[address.page].rows
      /\ address.text \in Text /\ address.text[1] # Space
      /\ Pages(s)[address.page].char = address.text[1]
  BY PageAsked DEF TypeOK
<1>2. x \in Text /\ Len(x) >= 1 /\ x[1] = address.text[1] /\ Len(x) \in Nat
  <2>1. x \in Text /\ Len(x) >= 1 /\ x[1] = address.text[1]
    BY <1>1, Trimmed
  <2> QED
    BY <2>1, LenProperties DEF Text
<1>3. \A r \in DOMAIN rows : rows[r].name \in Text /\ rows[r].name[1] = Pages(s)[p].char
  BY <1>1, SectionRows
<1> HIDE DEF x
<1>4. CASE p = address.page
  <2>1. \A r \in DOMAIN rows :
           IsPrefix(ConvertToId(x), ConvertToId(rows[r].name)) <=> IsPrefix(x, rows[r].name)
    BY <1>2, <1>3, IdsCompareAsTexts
  <2>2. Shown = {r \in DOMAIN rows : IsPrefix(ConvertToId(x), ConvertToId(rows[r].name))}
    BY <1>1, <1>4 DEF Shown, Displayed, x
  <2>3. Shown = {r \in DOMAIN rows : IsPrefix(x, rows[r].name)}
    BY <2>1, <2>2
  <2> QED
    BY <1>4, <2>3 DEF x
<1>5. CASE p # address.page
  <2>1. Pages(s)[p].char # x[1]
    <3> DEFINE q == address.page
    <3>1. q \in DOMAIN Pages(s) /\ p # q
      BY <1>1, <1>5
    <3>2. \A i, j \in DOMAIN Pages(s) : Pages(s)[i].char = Pages(s)[j].char => i = j
      BY <1>1, IndexAssumption
    <3> HIDE DEF q, s
    <3>3. p \in DOMAIN Pages(s)
      BY DEF s
    <3>4. Pages(s)[p].char # Pages(s)[q].char
      BY <3>1, <3>2, <3>3
    <3> QED
      BY <1>1, <1>2, <3>4 DEF q
  <2>2. ASSUME NEW r \in DOMAIN rows
        PROVE  ~IsPrefix(x, rows[r].name)
    <3> DEFINE name == rows[r].name
    <3>1. name \in Text /\ name[1] # x[1]
      BY <1>3, <2>1
    <3> HIDE DEF name
    <3>2. IsPrefix(x, name) => \A i \in 1 .. Len(x) : x[i] = name[i]
      BY <1>2, <3>1, PrefixIs DEF Text
    <3>3. 1 \in 1 .. Len(x)
      BY <1>2
    <3>4. ~IsPrefix(x, name)
      BY <3>1, <3>2, <3>3
    <3> QED
      BY <3>4 DEF name
  <2> QED
    BY <1>5, <2>2 DEF x
<1> QED
  BY <1>4, <1>5

-----------------------------------------------------------------------------
(* The rows and the links of a page *)

LEMMA RowsTyped ==
  ASSUME NEW a \in Addresses
  PROVE  Rows(a) \in Seq([name : Text, kids : Nat])
BY PageAsked, SectionRows

\* What the keys know of the rows.
LEMMA PageFacts ==
  ASSUME TypeOK
  PROVE  /\ \E n \in Nat : Shown \subseteq 1 .. n
         /\ \A r \in DOMAIN Rows(address) : r \in Nat \ {0} /\ Kids(r) \in Nat
         /\ Shown \subseteq DOMAIN Rows(address)
         /\ \A r \in unfolded : r \in DOMAIN Rows(address) /\ Kids(r) > 0
<1>1. Rows(address) \in Seq([name : Text, kids : Nat])
  BY RowsTyped DEF TypeOK
<1>2. DOMAIN Rows(address) = 1 .. Len(Rows(address)) /\ Len(Rows(address)) \in Nat
  BY <1>1
<1>3. \A r \in DOMAIN Rows(address) : Kids(r) \in Nat
  <2> TAKE r \in DOMAIN Rows(address)
  <2>1. Rows(address)[r] \in [name : Text, kids : Nat]
    BY <1>1, <1>2, ElementOfSeq
  <2> QED
    BY <2>1 DEF Kids
<1>4. Shown \subseteq DOMAIN Rows(address)
  BY DEF Shown, Displayed
<1> QED
  BY <1>2, <1>3, <1>4 DEF TypeOK

LEMMA NextRow ==
  ASSUME TypeOK, NEW r \in Nat
  PROVE  \/ NavNext(r) = 0 /\ \A x \in Shown : x < r
         \/ /\ NavNext(r) \in Shown /\ NavNext(r) >= r /\ NavNext(r) > 0
            /\ \A x \in Shown : x >= r => NavNext(r) <= x
<1> DEFINE S == {x \in Shown : x >= r}
<1>1. S \in SUBSET Nat /\ Shown \subseteq Nat \ {0}
  BY PageFacts
<1>2. CASE S = {}
  BY <1>1, <1>2 DEF NavNext, Least
<1>3. CASE S # {}
  <2>1. Least(S) \in S /\ \A y \in S : Least(S) <= y
    BY <1>1, <1>3, LeastIs
  <2>2. NavNext(r) = Least(S)
    BY DEF NavNext
  <2> QED
    BY <1>1, <2>1, <2>2
<1> QED
  BY <1>2, <1>3

LEMMA PreviousRow ==
  ASSUME TypeOK, NEW r \in Nat
  PROVE  \/ NavPrev(r) = 0 /\ \A x \in Shown : x > r
         \/ /\ NavPrev(r) \in Shown /\ NavPrev(r) <= r /\ NavPrev(r) > 0
            /\ \A x \in Shown : x <= r => NavPrev(r) >= x
<1> DEFINE S == {x \in Shown : x <= r}
<1>1. S \in SUBSET (0 .. r) /\ Shown \subseteq Nat \ {0}
  BY PageFacts
<1>2. CASE S = {}
  BY <1>1, <1>2 DEF NavPrev, Greatest
<1>3. CASE S # {}
  <2>1. Greatest(S) \in S /\ \A y \in S : Greatest(S) >= y
    BY <1>1, <1>3, GreatestIs
  <2>2. NavPrev(r) = Greatest(S)
    BY DEF NavPrev
  <2> QED
    BY <1>1, <2>1, <2>2
<1> QED
  BY <1>2, <1>3

\* The two kinds of links that can be seen.
RowLinks == {<<r>> : r \in Shown}
MatchLinks == UNION {{<<r, c>> : c \in 1 .. Kids(r)} : r \in Shown \cap unfolded}

LEMMA LinkKinds == VisibleLinks = RowLinks \cup MatchLinks
BY DEF VisibleLinks, Links, RowLinks, MatchLinks

LEMMA Seen ==
  ASSUME NEW f \in VisibleLinks
  PROVE  /\ f[1] \in Shown /\ f # Field
         /\ \/ Len(f) = 1 /\ f = <<f[1]>>
            \/ Len(f) = 2 /\ f = <<f[1], f[2]>> /\ f[1] \in unfolded /\ f[2] \in 1 .. Kids(f[1])
<1>1. CASE f \in RowLinks
  BY <1>1 DEF RowLinks, Field
<1>2. CASE f \in MatchLinks
  BY <1>2 DEF MatchLinks, Field
<1> QED
  BY <1>1, <1>2, LinkKinds

\* Seen, the other way round.
LEMMA Visible ==
  /\ \A r \in Shown : <<r>> \in VisibleLinks
  /\ \A r \in Shown \cap unfolded : \A c \in 1 .. Kids(r) : <<r, c>> \in VisibleLinks
BY LinkKinds DEF RowLinks, MatchLinks

-----------------------------------------------------------------------------
(* Where a key moves the focus *)

\* The next link on the page and the previous one.
NextLink(f) == IF Below(focus) = {} THEN f = focus ELSE f \in First(Below(focus))
PreviousLink(f) == IF Above(focus) = {} THEN f = Field ELSE f \in Final(Above(focus))

\* What makes a link the next one: nothing visible is in between.
LEMMA NextLinkIs ==
  ASSUME NEW f \in VisibleLinks, Before(focus, f),
         \A g \in VisibleLinks : Before(focus, g) => g = f \/ Before(f, g)
  PROVE  NextLink(f)
BY DEF NextLink, Below, First

LEMMA PreviousLinkIs ==
  ASSUME NEW f \in VisibleLinks, Before(f, focus),
         \A g \in VisibleLinks : Before(g, focus) => g = f \/ Before(g, f)
  PROVE  PreviousLink(f)
BY DEF PreviousLink, Above, Final

\* The matches of a row that is unfolded are on the page.
LEMMA UnfoldedRow ==
  ASSUME TypeOK, NEW r \in Shown \cap unfolded
  PROVE  /\ Kids(r) \in Nat \ {0}
         /\ \A c \in 1 .. Kids(r) : <<r, c>> \in VisibleLinks
BY PageFacts, Visible

\* The link of the next row displayed, from the last link of row r.
LEMMA NextRowLink ==
  ASSUME TypeOK, focus \in VisibleLinks, NEW r \in Shown, r = focus[1],
         \A g \in VisibleLinks : Before(focus, g) => g[1] > r
  PROVE  IF NavNext(r + 1) > 0 THEN <<NavNext(r + 1)>> \in VisibleLinks /\ NextLink(<<NavNext(r + 1)>>)
                               ELSE NextLink(focus)
<1> DEFINE n == NavNext(r + 1)
<1>1. r \in Nat /\ r + 1 \in Nat /\ Shown \subseteq Nat
  BY PageFacts
<1>2. \/ n = 0 /\ \A x \in Shown : x < r + 1
      \/ n \in Shown /\ n >= r + 1 /\ n > 0 /\ \A x \in Shown : x >= r + 1 => n <= x
  BY <1>1, NextRow
<1> HIDE DEF n
<1>3. CASE n = 0
  <2>1. \A x \in Shown : ~(x > r)
    BY <1>1, <1>2, <1>3
  <2>2. \A g \in VisibleLinks : ~Before(focus, g)
    BY <2>1, Seen
  <2>3. Below(focus) = {}
    BY <2>2 DEF Below
  <2> QED
    BY <1>3, <2>3 DEF NextLink, n
<1>4. CASE n # 0
  <2>1. n \in Shown /\ n > r /\ n > 0 /\ \A x \in Shown : x > r => n <= x
    <3>1. n \in Shown /\ n >= r + 1 /\ n > 0 /\ \A x \in Shown : x >= r + 1 => n <= x
      BY <1>2, <1>4
    <3>2. n > r /\ n \in Nat
      BY <1>1, <3>1
    <3>3. ASSUME NEW x \in Shown, x > r
          PROVE  n <= x
      <4>1. x \in Nat /\ x >= r + 1
        BY <1>1, <3>3
      <4> QED
        BY <3>1, <4>1
    <3> QED
      BY <3>1, <3>2, <3>3
  <2>2. <<n>> \in VisibleLinks /\ <<n>>[1] = n /\ Len(<<n>>) = 1
    BY <2>1, Visible
  <2>3. Before(focus, <<n>>)
    BY <2>1, <2>2 DEF Before
  <2>4. ASSUME NEW g \in VisibleLinks, Before(focus, g)
        PROVE  g = <<n>> \/ Before(<<n>>, g)
    <3>1. g[1] \in Shown /\ g[1] > r
      BY <2>4, Seen
    <3>2. n <= g[1] /\ g[1] \in Nat /\ n \in Nat
      BY <1>1, <2>1, <3>1
    <3> QED
      BY <2>2, <3>2, Seen DEF Before
  <2>5. NextLink(<<n>>)
    BY <2>2, <2>3, <2>4, NextLinkIs
  <2> QED
    BY <2>1, <2>2, <2>5 DEF n
<1> QED
  BY <1>3, <1>4

\* Down on the link of row r.
LEMMA DownRow ==
  ASSUME TypeOK, focus \in VisibleLinks, NEW r \in Shown, focus = <<r>>, Down(r)
  PROVE  focus' \in VisibleLinks /\ NextLink(focus')
<1>1. r \in Nat /\ Shown \subseteq Nat /\ focus[1] = r /\ Len(focus) = 1
  BY PageFacts
<1>2. CASE r \in unfolded
  <2>1. <<r, 1>> \in VisibleLinks
    BY <1>2, UnfoldedRow
  <2>2. focus' = <<r, 1>>
    BY <1>2, <2>1 DEF Down, FocusOn
  <2> DEFINE f == <<r, 1>>
  <2>3. f[1] = r /\ Len(f) = 2 /\ f[2] = 1
    OBVIOUS
  <2> HIDE DEF f
  <2>4. Before(focus, f)
    BY <1>1, <2>3 DEF Before
  <2>5. ASSUME NEW g \in VisibleLinks, Before(focus, g)
        PROVE  g = f \/ Before(f, g)
    <3>1. g[1] \in Nat
      BY <1>1, Seen
    <3>2. CASE Len(g) = 1
      BY <1>1, <2>3, <2>5, <3>1, <3>2 DEF Before
    <3>3. CASE Len(g) = 2
      <4>1. g = <<g[1], g[2]>> /\ g[2] \in 1 .. Kids(g[1])
        BY <3>3, Seen
      <4>2. g[1] > r \/ (g[1] = r /\ (g[2] = 1 \/ g[2] > 1))
        BY <1>1, <2>5, <3>1, <4>1 DEF Before
      <4> QED
        BY <1>1, <2>3, <3>1, <3>3, <4>1, <4>2 DEF Before, f
    <3> QED
      BY <3>2, <3>3, Seen
  <2>6. NextLink(f)
    BY <2>1, <2>4, <2>5, NextLinkIs DEF f
  <2> QED
    BY <2>1, <2>2, <2>6 DEF f
<1>3. CASE r \notin unfolded
  <2>1. ASSUME NEW g \in VisibleLinks, Before(focus, g)
        PROVE  g[1] > r
    BY <1>1, <1>3, <2>1, Seen DEF Before
  <2>2. CASE NavNext(r + 1) > 0
    <3>1. <<NavNext(r + 1)>> \in VisibleLinks /\ NextLink(<<NavNext(r + 1)>>)
      BY <1>1, <2>1, <2>2, NextRowLink
    <3> QED
      BY <1>3, <2>2, <3>1 DEF Down, FocusOn
  <2>3. CASE ~(NavNext(r + 1) > 0)
    BY <1>1, <1>3, <2>1, <2>3, NextRowLink DEF Down
  <2> QED
    BY <2>2, <2>3
<1> QED
  BY <1>2, <1>3

\* Down on the link of match c of row r.
LEMMA DownMatch ==
  ASSUME TypeOK, focus \in VisibleLinks, NEW r \in Shown, NEW c \in 1 .. Kids(r), focus = <<r, c>>,
         r \in unfolded, NavChildFocus(r, c, "down")
  PROVE  focus' \in VisibleLinks /\ NextLink(focus')
<1>1. /\ r \in Nat /\ Kids(r) \in Nat /\ c \in Nat /\ Shown \subseteq Nat
      /\ focus[1] = r /\ focus[2] = c /\ Len(focus) = 2
  BY PageFacts
<1>2. CASE c < Kids(r)
  <2> DEFINE f == <<r, c + 1>>
  <2>1. f \in VisibleLinks
    <3>1. c + 1 \in 1 .. Kids(r)
      BY <1>1, <1>2
    <3> QED
      BY <3>1, UnfoldedRow
  <2>2. focus' = f
    BY <1>2, <2>1 DEF NavChildFocus, FocusOn
  <2>3. f[1] = r /\ Len(f) = 2 /\ f[2] = c + 1
    OBVIOUS
  <2> HIDE DEF f
  <2>4. Before(focus, f)
    BY <1>1, <2>3 DEF Before
  <2>5. ASSUME NEW g \in VisibleLinks, Before(focus, g)
        PROVE  g = f \/ Before(f, g)
    <3>1. g[1] \in Nat
      BY <1>1, Seen
    <3>2. CASE Len(g) = 1
      BY <1>1, <2>3, <2>5, <3>1, <3>2 DEF Before
    <3>3. CASE Len(g) = 2
      <4>1. g = <<g[1], g[2]>> /\ g[2] \in 1 .. Kids(g[1])
        BY <3>3, Seen
      <4>2. g[1] > r \/ (g[1] = r /\ (g[2] = c + 1 \/ g[2] > c + 1))
        BY <1>1, <2>5, <3>1, <3>3, <4>1 DEF Before
      <4> QED
        BY <1>1, <2>3, <3>1, <3>3, <4>1, <4>2 DEF Before, f
    <3> QED
      BY <3>2, <3>3, Seen
  <2> QED
    BY <2>1, <2>2, <2>4, <2>5, NextLinkIs
<1>3. CASE ~(c < Kids(r))
  <2>1. c = Kids(r)
    BY <1>1, <1>3
  <2>2. ASSUME NEW g \in VisibleLinks, Before(focus, g)
        PROVE  g[1] > r
    <3>1. g[1] \in Nat /\ (Len(g) = 1 \/ Len(g) = 2)
      BY <1>1, Seen
    <3>2. g[1] = r /\ Len(g) = 2 => g[2] \in Nat /\ ~(c < g[2])
      BY <1>1, <2>1, Seen
    <3>3. r < g[1] \/ (r = g[1] /\ 2 < Len(g)) \/ (r = g[1] /\ Len(g) = 2 /\ c < g[2])
      BY <1>1, <2>2 DEF Before
    <3>4. CASE Len(g) = 1
      BY <3>1, <3>3, <3>4, <1>1
    <3>5. CASE Len(g) = 2
      BY <3>1, <3>2, <3>3, <3>5, <1>1
    <3> QED
      BY <3>1, <3>4, <3>5
  <2>3. CASE NavNext(r + 1) > 0
    <3>1. <<NavNext(r + 1)>> \in VisibleLinks /\ NextLink(<<NavNext(r + 1)>>)
      BY <1>1, <2>2, <2>3, NextRowLink
    <3> QED
      BY <1>3, <2>1, <2>3, <3>1 DEF NavChildFocus, FocusOn
  <2>4. CASE ~(NavNext(r + 1) > 0)
    <3>1. NextLink(focus)
      BY <1>1, <2>2, <2>4, NextRowLink
    <3> QED
      BY <1>3, <2>4, <3>1 DEF NavChildFocus
  <2> QED
    BY <2>3, <2>4
<1> QED
  BY <1>2, <1>3

\* The first link of the page: nothing is above it.
LEMMA FirstLink ==
  ASSUME \A g \in VisibleLinks : ~Before(g, focus)
  PROVE  PreviousLink(Field)
BY DEF PreviousLink, Above

\* Up on the link of row r, unless the matches are counted in the wrong row.
LEMMA UpRow ==
  ASSUME TypeOK, focus \in VisibleLinks, NEW r \in Shown, focus = <<r>>, Up(r)
  PROVE  /\ focus' = Field \/ focus' \in VisibleLinks
         /\ Skewed(r) \/ PreviousLink(focus')
<1> DEFINE a == NavPrev(r - 1)
<1>1. r \in Nat /\ r - 1 \in Nat /\ Shown \subseteq Nat /\ focus[1] = r /\ Len(focus) = 1
  BY PageFacts
<1>2. \/ a = 0 /\ \A x \in Shown : x > r - 1
      \/ a \in Shown /\ a <= r - 1 /\ a > 0 /\ \A x \in Shown : x <= r - 1 => a >= x
  BY <1>1, PreviousRow
<1>3. Skewed(r) <=> a # r - 1 /\ a \in unfolded
  BY DEF Skewed
<1>4. focus' = Field \/ focus' \in VisibleLinks
  BY DEF Up, FocusOn
<1>5. ASSUME NEW g \in VisibleLinks, Before(g, focus)
      PROVE  g[1] \in Shown /\ g[1] \in Nat /\ g[1] <= r - 1
  <2>1. g[1] \in Shown /\ g[1] \in Nat /\ (Len(g) = 1 \/ Len(g) = 2)
    BY <1>1, Seen
  <2> QED
    BY <1>1, <1>5, <2>1 DEF Before
<1>6. CASE a = 0
  <2>1. \A x \in Shown : ~(x <= r - 1)
    BY <1>1, <1>2, <1>6
  <2>2. \A g \in VisibleLinks : ~Before(g, focus)
    BY <1>5, <2>1
  <2> QED
    BY <1>4, <1>6, <2>2, FirstLink DEF Up
<1>7. CASE a # 0 /\ a \in unfolded /\ a = r - 1
  <2> DEFINE f == <<a, Kids(a)>>
  <2>1. a \in Shown \cap unfolded /\ a \in Nat
    BY <1>1, <1>2, <1>7
  <2>2. Kids(a) \in Nat \ {0} /\ f \in VisibleLinks
    <3>1. Kids(a) \in Nat \ {0} /\ \A c \in 1 .. Kids(a) : <<a, c>> \in VisibleLinks
      BY <2>1, UnfoldedRow
    <3> QED
      BY <3>1
  <2>3. focus' = f
    BY <1>7, <2>2 DEF Up, FocusOn
  <2>4. f[1] = a /\ Len(f) = 2 /\ f[2] = Kids(a)
    OBVIOUS
  <2> HIDE DEF f, a
  <2>5. Before(f, focus)
    BY <1>1, <1>7, <2>4 DEF Before
  <2>6. ASSUME NEW g \in VisibleLinks, Before(g, focus)
        PROVE  g = f \/ Before(g, f)
    <3>1. g[1] \in Nat /\ (g[1] < a \/ g[1] = a)
      BY <1>1, <1>5, <1>7, <2>6
    <3>2. CASE g[1] < a
      BY <2>4, <3>2 DEF Before
    <3>3. CASE g[1] = a
      <4>1. CASE Len(g) = 1
        BY <2>4, <3>3, <4>1 DEF Before
      <4>2. CASE Len(g) = 2
        <5>1. g = <<a, g[2]>> /\ g[2] \in 1 .. Kids(a)
          BY <3>3, <4>2, Seen
        <5>2. g[2] = Kids(a) \/ g[2] < Kids(a)
          BY <2>2, <5>1
        <5> QED
          BY <2>4, <3>3, <4>2, <5>1, <5>2 DEF Before, f
      <4> QED
        BY <4>1, <4>2, Seen
    <3> QED
      BY <3>1, <3>2, <3>3
  <2> QED
    BY <1>4, <2>2, <2>3, <2>5, <2>6, PreviousLinkIs
<1>8. CASE a # 0 /\ a \notin unfolded
  <2> DEFINE f == <<a>>
  <2>1. a \in Shown /\ a \in Nat /\ a < r /\ \A x \in Shown : x <= r - 1 => a >= x
    <3>1. a \in Shown /\ a <= r - 1 /\ \A x \in Shown : x <= r - 1 => a >= x
      BY <1>2, <1>8
    <3> HIDE DEF a
    <3>2. a \in Nat /\ a < r
      BY <1>1, <3>1
    <3> QED
      BY <3>1, <3>2
  <2>2. f \in VisibleLinks
    BY <2>1, Visible
  <2>3. focus' = f
    BY <1>8, <2>2 DEF Up, FocusOn
  <2>4. f[1] = a /\ Len(f) = 1
    OBVIOUS
  <2> HIDE DEF f, a
  <2>5. Before(f, focus)
    BY <1>1, <2>1, <2>4 DEF Before
  <2>6. ASSUME NEW g \in VisibleLinks, Before(g, focus)
        PROVE  g = f \/ Before(g, f)
    <3>1. g[1] \in Nat /\ (g[1] < a \/ g[1] = a)
      BY <1>5, <2>1, <2>6
    <3>2. CASE g[1] < a
      BY <2>4, <3>2 DEF Before
    <3>3. CASE g[1] = a
      BY <1>8, <3>3, Seen DEF f
    <3> QED
      BY <3>1, <3>2, <3>3
  <2> QED
    BY <1>4, <2>2, <2>3, <2>5, <2>6, PreviousLinkIs
<1> QED
  BY <1>3, <1>4, <1>6, <1>7, <1>8

\* Up on the link of match c of row r.
LEMMA UpMatch ==
  ASSUME TypeOK, focus \in VisibleLinks, NEW r \in Shown, NEW c \in 1 .. Kids(r), focus = <<r, c>>,
         r \in unfolded, NavChildFocus(r, c, "up")
  PROVE  focus' \in VisibleLinks /\ PreviousLink(focus')
<1>1. /\ r \in Nat /\ Kids(r) \in Nat /\ c \in Nat /\ Shown \subseteq Nat
      /\ focus[1] = r /\ focus[2] = c /\ Len(focus) = 2
  BY PageFacts
<1> DEFINE f == IF c > 1 THEN <<r, c - 1>> ELSE <<r>>
<1>2. f \in VisibleLinks
  <2>1. c > 1 => c - 1 \in 1 .. Kids(r)
    BY <1>1
  <2> QED
    BY <2>1, UnfoldedRow, Visible
<1>3. focus' = f
  BY <1>2 DEF NavChildFocus, FocusOn
<1>4. Before(f, focus)
  BY <1>1 DEF Before
<1>5. ASSUME NEW g \in VisibleLinks, Before(g, focus)
      PROVE  g = f \/ Before(g, f)
  <2>1. g[1] \in Nat
    BY <1>1, Seen
  <2>2. CASE g[1] < r
    BY <2>2 DEF Before
  <2>3. CASE g[1] = r /\ Len(g) = 1
    <3>1. g = <<r>>
      BY <2>3, Seen
    <3> QED
      BY <2>3, <3>1 DEF Before
  <2>4. CASE g[1] = r /\ Len(g) = 2
    <3>1. g = <<r, g[2]>> /\ g[2] \in 1 .. Kids(r)
      BY <2>4, Seen
    <3>2. g[2] < c
      BY <1>1, <1>5, <2>4 DEF Before
    <3>3. c > 1 /\ (g[2] = c - 1 \/ g[2] < c - 1)
      BY <1>1, <3>1, <3>2
    <3> QED
      BY <2>4, <3>1, <3>3 DEF Before
  <2> QED
    BY <1>1, <1>5, <2>1, <2>2, <2>3, <2>4, Seen DEF Before
<1> HIDE DEF f
<1> QED
  BY <1>2, <1>3, <1>4, <1>5, PreviousLinkIs

-----------------------------------------------------------------------------
(* The inductive invariant *)

IInv == TypeOK /\ FocusVisible

KeyTypes == {"keydown", "keypress", "keyup"}
Folding == unfolded \subseteq {r \in DOMAIN Rows(address) : Kids(r) > 0}
Repeating == lastKey \in (Keys \ {"enter"}) \cup {None} /\ repeatOn \in BOOLEAN

\* Every link that can be seen is a link.
LEMMA VisibleTyped == VisibleLinks \subseteq UNION {Links(r) : r \in DOMAIN Rows(address)}
<1>1. Shown \subseteq DOMAIN Rows(address)
  BY DEF Shown, Displayed
<1> QED
  BY <1>1 DEF VisibleLinks, Links

LEMMA FocusTyped ==
  (FocusVisible => focus \in {Field} \cup UNION {Links(r) : r \in DOMAIN Rows(address)})'
<1>1. FocusVisible => focus \in {Field} \cup UNION {Links(r) : r \in DOMAIN Rows(address)}
  BY VisibleTyped DEF FocusVisible
<1> QED
  BY <1>1, PTL

\* A page on which nothing is folded or unfolded shows the same links.
LEMMA SameLinks ==
  ASSUME UNCHANGED <<address, unfolded>>
  PROVE  VisibleLinks' = VisibleLinks
<1>1. Shown' = Shown /\ \A r : Kids(r)' = Kids(r)
  BY DEF Shown, Kids
<1> QED
  BY <1>1 DEF VisibleLinks, Links

\* The link of a row is there whether the row is unfolded or not.
LEMMA RowLinkStays ==
  ASSUME NEW r \in Shown, UNCHANGED address
  PROVE  <<r>> \in VisibleLinks'
<1>1. Shown' = Shown
  BY DEF Shown
<1> QED
  BY <1>1 DEF VisibleLinks

LEMMA FoldingKept ==
  ASSUME Folding, NEW r \in Shown, UNCHANGED address,
         Unfold(r) \/ Fold(r) \/ Toggle(r) \/ UNCHANGED unfolded
  PROVE  Folding'
<1>1. r \in DOMAIN Rows(address)
  BY DEF Shown, Displayed
<1>2. Rows(address)' = Rows(address) /\ \A x : Kids(x)' = Kids(x)
  BY DEF Kids
<1> QED
  BY <1>1, <1>2 DEF Folding, Unfold, Fold, Toggle

-----------------------------------------------------------------------------
(* Keys *)

LEMMA KeysRemembered ==
  ASSUME TypeOK, NEW k \in Keys \ {"enter"}, NEW type \in KeyTypes, ProcessKeys(type, k)
  PROVE  Repeating' /\ (Acts(type) => lastKey' \in Keys \ {"enter"})
<1>1. CASE type = "keydown"
  BY <1>1 DEF ProcessKeys, TypeOK, Repeating
<1>2. CASE type = "keypress"
  BY <1>2 DEF ProcessKeys, TypeOK, Repeating, Acts
<1>3. CASE type = "keyup"
  BY <1>3 DEF ProcessKeys, TypeOK, Repeating, Acts
<1> QED
  BY <1>1, <1>2, <1>3 DEF KeyTypes

LEMMA NavKeyStep ==
  ASSUME IInv, UNCHANGED address, NEW r \in Shown, focus = <<r>>,
         NEW k \in Keys \ {"enter"}, NavKey(r, k)
  PROVE  Folding' /\ FocusVisible'
<1>1. Folding /\ focus \in VisibleLinks
  BY Visible DEF IInv, TypeOK, Folding
<1>2. CASE k = "up"
  <2>1. Up(r) /\ UNCHANGED unfolded
    BY <1>2 DEF NavKey
  <2>2. focus' = Field \/ focus' \in VisibleLinks
    BY <1>1, <2>1, UpRow DEF IInv
  <2> QED
    BY <1>1, <2>1, <2>2, SameLinks, FoldingKept DEF FocusVisible
<1>3. CASE k = "down"
  <2>1. Down(r) /\ UNCHANGED unfolded
    BY <1>3 DEF NavKey
  <2>2. focus' \in VisibleLinks
    BY <1>1, <2>1, DownRow DEF IInv
  <2> QED
    BY <1>1, <2>1, <2>2, SameLinks, FoldingKept DEF FocusVisible
<1>4. CASE k = "right" \/ k = "left"
  <2>1. (Unfold(r) \/ Fold(r)) /\ UNCHANGED focus
    BY <1>4 DEF NavKey
  <2> QED
    BY <1>1, <2>1, RowLinkStays, FoldingKept DEF FocusVisible
<1>5. CASE k = "escape"
  <2>1. focus' = Field /\ UNCHANGED unfolded
    BY <1>5 DEF NavKey
  <2> QED
    BY <1>1, <2>1, FoldingKept DEF FocusVisible
<1> QED
  BY <1>2, <1>3, <1>4, <1>5 DEF Keys

LEMMA NavChildKeyStep ==
  ASSUME IInv, UNCHANGED address, NEW r \in Shown, NEW c \in 1 .. Kids(r), focus = <<r, c>>,
         focus \in VisibleLinks, NEW k \in Keys \ {"enter"}, NavChildKey(r, c, k)
  PROVE  Folding' /\ FocusVisible'
<1>1. NavChildFocus(r, c, k) /\ UNCHANGED unfolded
  BY DEF NavChildKey
<1>2. Folding'
  BY <1>1, FoldingKept DEF IInv, TypeOK, Folding
<1>3. r \in unfolded /\ TypeOK
  BY Seen DEF IInv
<1>4. focus' = Field \/ focus' \in VisibleLinks
  <2>1. CASE k = "up"
    BY <1>1, <1>3, <2>1, UpMatch
  <2>2. CASE k = "down"
    BY <1>1, <1>3, <2>2, DownMatch
  <2>3. CASE k = "right" \/ k = "left"
    BY <1>1, <2>3 DEF NavChildFocus
  <2>4. CASE k = "escape"
    BY <1>1, <2>4 DEF NavChildFocus
  <2> QED
    BY <2>1, <2>2, <2>3, <2>4 DEF Keys
<1> QED
  BY <1>1, <1>2, <1>4, SameLinks DEF FocusVisible

LEMMA HandleStep ==
  ASSUME IInv, UNCHANGED address, focus # Field, NEW k \in Keys, NEW type \in KeyTypes, Handle(type, k)
  PROVE  Folding' /\ FocusVisible' /\ Repeating'
<1>1. /\ focus \in VisibleLinks /\ focus[1] \in Shown
      /\ \/ Len(focus) = 1 /\ focus = <<focus[1]>>
         \/ /\ Len(focus) = 2 /\ focus = <<focus[1], focus[2]>>
            /\ focus[1] \in unfolded /\ focus[2] \in 1 .. Kids(focus[1])
  BY Seen DEF IInv, FocusVisible
<1>2. Folding /\ Repeating
  BY DEF IInv, TypeOK, Folding, Repeating
<1>3. ASSUME UNCHANGED <<focus, unfolded>>
      PROVE  Folding' /\ FocusVisible'
  BY <1>1, <1>2, <1>3, FoldingKept, SameLinks DEF FocusVisible
<1>4. CASE k = "enter"
  <2>1. UNCHANGED <<focus, lastKey, repeatOn>>
    BY <1>4 DEF Handle
  <2>2. CASE type = "keydown" /\ Len(focus) = 1
    <3>1. Toggle(focus[1])
      BY <1>4, <2>2 DEF Handle
    <3> QED
      BY <1>1, <1>2, <2>1, <2>2, <3>1, FoldingKept, RowLinkStays DEF FocusVisible, Repeating
  <2>3. CASE ~(type = "keydown" /\ Len(focus) = 1)
    <3>1. UNCHANGED unfolded
      BY <1>4, <2>3 DEF Handle
    <3> QED
      BY <1>2, <1>3, <2>1, <3>1 DEF Repeating
  <2> QED
    BY <2>2, <2>3
<1>5. CASE k # "enter"
  <2>1. ProcessKeys(type, k)
    BY <1>5 DEF Handle
  <2>2. Repeating' /\ (Acts(type) => lastKey' \in Keys \ {"enter"})
    BY <1>5, <2>1, KeysRemembered DEF IInv
  <2>3. CASE ~Acts(type)
    BY <1>3, <1>5, <2>2, <2>3 DEF Handle
  <2>4. CASE Acts(type) /\ Len(focus) = 1
    <3>1. NavKey(focus[1], lastKey')
      BY <1>5, <2>4 DEF Handle
    <3> QED
      BY <1>1, <2>2, <2>4, <3>1, NavKeyStep
  <2>5. CASE Acts(type) /\ Len(focus) # 1
    <3>1. NavChildKey(focus[1], focus[2], lastKey')
      BY <1>5, <2>5 DEF Handle
    <3> QED
      BY <1>1, <2>2, <2>5, <3>1, NavChildKeyStep
  <2> QED
    BY <2>3, <2>4, <2>5
<1> QED
  BY <1>4, <1>5

\* What a step of Up or Down is: the key acts on the link that has the focus.
LEMMA KeyMoves ==
  ASSUME [Next]_vars, NEW k \in {"up", "down"}, StepOf(k)
  PROVE  IF Len(focus) = 1 THEN NavKey(focus[1], k) ELSE NavChildKey(focus[1], focus[2], k)
<1>1. focus # Field /\ key' = k /\ lastKey' = k /\ (key = None \/ focus' # focus) /\ k # None /\ k # "enter"
  BY DEF StepOf, None
<1>2. ASSUME NEW type \in KeyTypes, Handle(type, k), Acts(type)
      PROVE  IF Len(focus) = 1 THEN NavKey(focus[1], k) ELSE NavChildKey(focus[1], focus[2], k)
  BY <1>1, <1>2 DEF Handle
<1>3. ASSUME NEW j \in Keys, Press(j)
      PROVE  IF Len(focus) = 1 THEN NavKey(focus[1], k) ELSE NavChildKey(focus[1], focus[2], k)
  <2>1. Handle("keydown", k) /\ Acts("keydown") /\ "keydown" \in KeyTypes
    BY <1>1, <1>3 DEF Press, Acts, KeyTypes
  <2> QED
    BY <1>2, <2>1
<1>4. CASE KeyPress
  <2>1. PICK type \in {"keydown", "keypress"} : Handle(type, k)
    BY <1>1, <1>4 DEF KeyPress
  <2>2. Acts(type)
    BY <1>1, <1>4, <2>1 DEF Handle, KeyPress
  <2> QED
    BY <1>2, <2>1, <2>2 DEF KeyTypes
<1>5. ~Release
  BY <1>1 DEF Release
<1>6. ~EnterList
  BY <1>1 DEF EnterList
<1>7. ASSUME NEW r, Click(r) PROVE FALSE
  BY <1>1, <1>7 DEF Click
<1>8. ASSUME NEW a, Load(a) PROVE FALSE
  BY <1>1, <1>8 DEF Load, Fresh
<1>9. CASE UNCHANGED vars
  BY <1>1, <1>9 DEF vars
<1> QED
  BY <1>3, <1>4, <1>5, <1>6, <1>7, <1>8, <1>9 DEF Next

-----------------------------------------------------------------------------
(* Invariance *)

LEMMA Typed ==
  ASSUME address' \in Addresses, Folding', FocusVisible', Repeating', key' \in Keys \cup {None}
  PROVE  IInv'
BY FocusTyped DEF IInv, TypeOK, Folding, Repeating

LEMMA InitInv == Init => IInv
<1> SUFFICES ASSUME Init PROVE IInv
  OBVIOUS
<1>1. FocusVisible /\ Folding /\ Repeating
  BY DEF Init, FocusVisible, Folding, Repeating
<1> QED
  BY <1>1 DEF Init, IInv, TypeOK, Folding, Repeating

LEMMA KeyStep ==
  ASSUME IInv, (\E k \in Keys : Press(k)) \/ KeyPress \/ Release
  PROVE  IInv'
<1>1. address \in Addresses /\ address' = address /\ key \in Keys \cup {None}
  BY DEF IInv, TypeOK, Press, KeyPress, Release
<1>2. ASSUME NEW k \in Keys, Press(k) PROVE IInv'
  <2>1. Handle("keydown", k) /\ focus # Field /\ key' = k
    BY <1>2 DEF Press
  <2>2. Folding' /\ FocusVisible' /\ Repeating'
    BY <1>1, <2>1, HandleStep DEF KeyTypes
  <2> QED
    BY <1>1, <2>1, <2>2, Typed
<1>3. CASE KeyPress
  <2>1. PICK type \in {"keydown", "keypress"} : Handle(type, key)
    BY <1>3 DEF KeyPress
  <2>2. focus # Field /\ key # None /\ key' = key
    BY <1>3 DEF KeyPress
  <2>3. Folding' /\ FocusVisible' /\ Repeating'
    BY <1>1, <2>1, <2>2, HandleStep DEF KeyTypes
  <2> QED
    BY <1>1, <2>2, <2>3, Typed
<1>4. CASE Release
  <2>1. key # None /\ key' = None
    BY <1>4 DEF Release
  <2>2. CASE focus = Field
    <3>1. UNCHANGED <<unfolded, focus, lastKey, repeatOn>>
      BY <1>4, <2>2 DEF Release
    <3>2. Folding' /\ FocusVisible' /\ Repeating'
      BY <1>1, <2>2, <3>1 DEF IInv, TypeOK, Folding, FocusVisible, Repeating, Kids
    <3> QED
      BY <1>1, <2>1, <3>2, Typed
  <2>3. CASE focus # Field
    <3>1. Handle("keyup", key)
      BY <1>4, <2>3 DEF Release
    <3>2. Folding' /\ FocusVisible' /\ Repeating'
      BY <1>1, <2>1, <2>3, <3>1, HandleStep DEF KeyTypes
    <3> QED
      BY <1>1, <2>1, <3>2, Typed
  <2> QED
    BY <2>2, <2>3
<1> QED
  BY <1>2, <1>3, <1>4

LEMMA EnterListStep == ASSUME IInv, EnterList PROVE IInv'
<1> DEFINE n == NavNext(1)
<1>1. /\ address' = address /\ unfolded' = unfolded /\ lastKey' = lastKey /\ repeatOn' = repeatOn /\ key' = key
      /\ focus = Field /\ n > 0 /\ FocusOn(<<n>>)
  BY DEF EnterList
<1>2. focus' = Field \/ focus' \in VisibleLinks
  BY <1>1 DEF FocusOn
<1>3. FocusVisible'
  BY <1>1, <1>2, SameLinks DEF FocusVisible
<1>4. Folding' /\ Repeating'
  BY <1>1 DEF IInv, TypeOK, Folding, Repeating, Kids
<1> QED
  BY <1>1, <1>3, <1>4, Typed DEF IInv, TypeOK

LEMMA ClickStep == ASSUME IInv, NEW r, Click(r) PROVE IInv'
<1>1. /\ address' = address /\ lastKey' = lastKey /\ repeatOn' = repeatOn /\ key' = key
      /\ <<r>> \in VisibleLinks /\ focus' = <<r>> /\ Toggle(r)
  BY DEF Click
<1>2. r \in Shown
  BY <1>1, Seen
<1>3. FocusVisible'
  BY <1>1, <1>2, RowLinkStays DEF FocusVisible
<1>4. Folding'
  BY <1>1, <1>2, FoldingKept DEF IInv, TypeOK, Folding
<1> QED
  BY <1>1, <1>3, <1>4, Typed DEF IInv, TypeOK, Repeating

LEMMA LoadStep == ASSUME IInv, NEW a \in Addresses, Load(a) PROVE IInv'
<1>1. /\ address' = a /\ unfolded' = {} /\ focus' = Field /\ lastKey' = None /\ repeatOn' = FALSE /\ key' = key
  BY DEF Load, Fresh
<1>2. FocusVisible' /\ Folding' /\ Repeating'
  BY <1>1 DEF FocusVisible, Folding, Repeating
<1>3. address' \in Addresses /\ key' \in Keys \cup {None}
  BY <1>1 DEF IInv, TypeOK
<1> QED
  BY <1>2, <1>3, Typed

LEMMA StutterStep == ASSUME IInv, UNCHANGED vars PROVE IInv'
<1>1. /\ address' = address /\ unfolded' = unfolded /\ focus' = focus
      /\ lastKey' = lastKey /\ repeatOn' = repeatOn /\ key' = key
  BY DEF vars
<1>2. FocusVisible'
  BY <1>1, SameLinks DEF IInv, FocusVisible
<1>3. Folding' /\ Repeating'
  BY <1>1 DEF IInv, TypeOK, Folding, Repeating, Kids
<1> QED
  BY <1>1, <1>2, <1>3, Typed DEF IInv, TypeOK

LEMMA Inductive == IInv /\ [Next]_vars => IInv'
BY KeyStep, EnterListStep, ClickStep, LoadStep, StutterStep DEF Next

-----------------------------------------------------------------------------
(* Theorems *)

\* The inductive invariant holds in every reachable state.
THEOREM Invariance == Spec => []IInv
  BY InitInv, Inductive, PTL DEF Spec

\* The members of the object are what TypeOK says: a key is only remembered if
\* it is one that ProcessKeys is given, and only rows with several matches are
\* unfolded.
THEOREM TypeCorrect == Spec => []TypeOK
<1>1. IInv => TypeOK
  BY DEF IInv
<1> QED
  BY <1>1, Invariance, PTL

\* The rows displayed are the names of the section that begin with the text, for
\* any index and any texts: the page of the text's first character has all of
\* them, and an escaped character is never taken for others.
THEOREM RowsSound == Spec => []SearchSound
<1>1. Spec => []TypeOK
  BY TypeCorrect
<1> QED
  BY <1>1, RowsOfText, PTL

\* Whatever is folded, filtered, clicked or typed, the focus is on a link that
\* can be seen, or in the field of the panel.
THEOREM FocusSeen == Spec => []FocusVisible
<1>1. IInv => FocusVisible
  BY DEF IInv
<1> QED
  BY <1>1, Invariance, PTL

\* Down finds the next visible link, whatever rows are filtered out or unfolded.
THEOREM DownFindsNext == Spec => DownIsNext
<1>1. ASSUME IInv, [Next]_vars, StepOf("down")
      PROVE  IF Below(focus) = {} THEN focus' = focus ELSE focus' \in First(Below(focus))
  <2>1. /\ focus \in VisibleLinks /\ focus[1] \in Shown
        /\ \/ Len(focus) = 1 /\ focus = <<focus[1]>>
           \/ /\ Len(focus) = 2 /\ focus = <<focus[1], focus[2]>>
              /\ focus[1] \in unfolded /\ focus[2] \in 1 .. Kids(focus[1])
    BY <1>1, Seen DEF IInv, FocusVisible, StepOf
  <2>2. CASE Len(focus) = 1
    <3>1. NavKey(focus[1], "down")
      BY <1>1, <2>2, KeyMoves
    <3>2. Down(focus[1])
      BY <3>1 DEF NavKey
    <3>3. NextLink(focus')
      BY <1>1, <2>1, <2>2, <3>2, DownRow DEF IInv
    <3> QED
      BY <3>3 DEF NextLink
  <2>3. CASE Len(focus) # 1
    <3>1. NavChildFocus(focus[1], focus[2], "down")
      BY <1>1, <2>3, KeyMoves DEF NavChildKey
    <3>2. NextLink(focus')
      BY <1>1, <2>1, <2>3, <3>1, DownMatch DEF IInv
    <3> QED
      BY <3>2 DEF NextLink
  <2> QED
    BY <2>2, <2>3
<1> QED
  BY <1>1, Invariance, PTL DEF Spec, DownIsNext

\* Up finds the previous visible link and leaves the list from the first, except
\* from a row whose neighbour on the page is not the row before it.
THEOREM UpFindsPrevious == Spec => UpIsPrevious
<1>1. ASSUME IInv, [Next]_vars, StepOf("up"), Len(focus) = 1 => ~Skewed(focus[1])
      PROVE  IF Above(focus) = {} THEN focus' = Field ELSE focus' \in Final(Above(focus))
  <2>1. /\ focus \in VisibleLinks /\ focus[1] \in Shown
        /\ \/ Len(focus) = 1 /\ focus = <<focus[1]>>
           \/ /\ Len(focus) = 2 /\ focus = <<focus[1], focus[2]>>
              /\ focus[1] \in unfolded /\ focus[2] \in 1 .. Kids(focus[1])
    BY <1>1, Seen DEF IInv, FocusVisible, StepOf
  <2>2. CASE Len(focus) = 1
    <3>1. NavKey(focus[1], "up")
      BY <1>1, <2>2, KeyMoves
    <3>2. Up(focus[1])
      BY <3>1 DEF NavKey
    <3>3. PreviousLink(focus')
      BY <1>1, <2>1, <2>2, <3>2, UpRow DEF IInv
    <3> QED
      BY <3>3 DEF PreviousLink
  <2>3. CASE Len(focus) # 1
    <3>1. NavChildFocus(focus[1], focus[2], "up")
      BY <1>1, <2>3, KeyMoves DEF NavChildKey
    <3>2. PreviousLink(focus')
      BY <1>1, <2>1, <2>3, <3>1, UpMatch DEF IInv
    <3> QED
      BY <3>2 DEF PreviousLink
  <2> QED
    BY <2>2, <2>3
<1> QED
  BY <1>1, Invariance, PTL DEF Spec, UpIsPrevious
=============================================================================
