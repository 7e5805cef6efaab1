----------------------------- MODULE PhoneFacts -----------------------------
(***************************************************************************)
(* What normalize_phone makes of any text, of whatever length and in       *)
(* whatever alphabet, for numbers of any length, and what the parser makes *)
(* of a number in a sheet.                                                 *)
(*                                                                         *)
(* Facts about a sequence are proved by induction over it (SeqInduction):  *)
(* a set that has the empty sequence and, with each of its sequences,      *)
(* those that are one element longer, has all of them.                     *)
(***************************************************************************)
EXTENDS ContactFiles, SumFacts, SequenceTheorems

(* A character is a string; that "0" is one, the provers do not know. *)
Chars == STRING \cup Digit \cup {"+"}

Texts == Seq(Chars)

-----------------------------------------------------------------------------
(* Induction over a text *)

LEMMA LastElement ==
    ASSUME NEW S, NEW n \in Nat, NEW text \in Seq(S), Len(text) = n + 1
    PROVE  \E t \in Seq(S), c \in S : text = Append(t, c) /\ Len(t) = n
<1> DEFINE t == SubSeq(text, 1, n)
           c == text[n + 1]
<1>1. t \in Seq(S) /\ c \in S /\ Len(t) = n
    OBVIOUS
<1>2. text = Append(t, c)
    OBVIOUS
<1> QED BY <1>1, <1>2

LEMMA SeqInduction ==
    ASSUME NEW S, NEW P, <<>> \in P,
           \A t \in Seq(S), c \in S : t \in P => Append(t, c) \in P
    PROVE  Seq(S) \subseteq P
<1> DEFINE N == {n \in Nat : \A t \in Seq(S) : Len(t) = n => t \in P}
<1>1. 0 \in N
    OBVIOUS
<1>2. ASSUME NEW n \in Nat, n \in N
      PROVE  n + 1 \in N
    <2>1. ASSUME NEW text \in Seq(S), Len(text) = n + 1
          PROVE  text \in P
        <3>1. PICK t \in Seq(S), c \in S : text = Append(t, c) /\ Len(t) = n
            BY <2>1, LastElement
        <3> QED BY <1>2, <3>1
    <2> QED BY <2>1
<1> HIDE DEF N
<1>3. Nat \subseteq N
    BY <1>1, <1>2, NatSetInduction
<1> QED BY <1>3 DEF N

LEMMA TextInduction ==
    ASSUME NEW P, <<>> \in P,
           \A t \in Texts, c \in Chars : t \in P => Append(t, c) \in P
    PROVE  Texts \subseteq P
BY SeqInduction DEF Texts

-----------------------------------------------------------------------------
(* What is kept of a text *)

LEMMA Appended ==
    ASSUME NEW S, NEW t \in Seq(S), NEW c \in S
    PROVE  /\ Append(t, c) \in Seq(S) /\ Len(t) \in Nat /\ Len(Append(t, c)) = Len(t) + 1
           /\ Append(t, c)[Len(t) + 1] = c
           /\ \A k \in 1..Len(t) : Append(t, c)[k] = t[k]
OBVIOUS

(* How far f has got with the first n characters *)
IsKept(f, text, chars, n) ==
    f = [k \in 0..n |-> IF k = 0 THEN <<>>
                        ELSE IF text[k] \in chars THEN Append(f[k - 1], text[k]) ELSE f[k - 1]]

LEMMA KeptExists ==
    ASSUME NEW text, NEW chars
    PROVE  \A n \in Nat : \E f : IsKept(f, text, chars, n)
<1> DEFINE N == {n \in Nat : \E f : IsKept(f, text, chars, n)}
<1>1. 0 \in N
    <2> DEFINE f == [k \in 0..0 |-> <<>>]
    <2>1. IsKept(f, text, chars, 0)
        BY DEF IsKept
    <2> QED BY <2>1
<1>2. ASSUME NEW n \in Nat, n \in N
      PROVE  n + 1 \in N
    <2>1. PICK f : IsKept(f, text, chars, n)
        BY <1>2
    <2> DEFINE last == IF text[n + 1] \in chars THEN Append(f[n], text[n + 1]) ELSE f[n]
               g == [k \in 0..(n + 1) |-> IF k = n + 1 THEN last ELSE f[k]]
    <2>2. ASSUME NEW k \in 0..(n + 1)
          PROVE  g[k] = IF k = 0 THEN <<>>
                        ELSE IF text[k] \in chars THEN Append(g[k - 1], text[k]) ELSE g[k - 1]
        <3>1. CASE k = n + 1
            <4>1. g[k] = last /\ k # 0 /\ k - 1 = n /\ g[n] = f[n]
                BY <3>1
            <4> HIDE DEF g
            <4> QED BY <3>1, <4>1
        <3>2. CASE k \in 0..n
            <4>1. f[k] = IF k = 0 THEN <<>>
                         ELSE IF text[k] \in chars THEN Append(f[k - 1], text[k]) ELSE f[k - 1]
                BY <2>1, <3>2 DEF IsKept
            <4>2. g[k] = f[k] /\ (k # 0 => g[k - 1] = f[k - 1])
                BY <3>2
            <4> HIDE DEF g
            <4> QED BY <4>1, <4>2
        <3> QED BY <3>1, <3>2
    <2>3. IsKept(g, text, chars, n + 1)
        <3>1. g = [k \in 0..(n + 1) |-> g[k]]
            OBVIOUS
        <3> HIDE DEF g
        <3>2. [k \in 0..(n + 1) |-> g[k]]
                = [k \in 0..(n + 1) |-> IF k = 0 THEN <<>>
                        ELSE IF text[k] \in chars THEN Append(g[k - 1], text[k]) ELSE g[k - 1]]
            BY <2>2
        <3> QED BY <3>1, <3>2 DEF IsKept
    <2> QED BY <2>3
<1> HIDE DEF N
<1>3. Nat \subseteq N
    BY <1>1, <1>2, NatSetInduction
<1> QED BY <1>3 DEF N

LEMMA KeptIs ==
    ASSUME NEW S, NEW text \in Seq(S), NEW chars
    PROVE  \E f : IsKept(f, text, chars, Len(text)) /\ Kept(text, chars) = f[Len(text)]
<1> DEFINE f == CHOOSE f : IsKept(f, text, chars, Len(text))
<1>1. Len(text) \in Nat
    OBVIOUS
<1>2. IsKept(f, text, chars, Len(text))
    BY <1>1, KeptExists
<1>3. Kept(text, chars) = f[Len(text)]
    BY DEF Kept, IsKept
<1> QED BY <1>2, <1>3

LEMMA KeptOfNothing ==
    ASSUME NEW chars
    PROVE  Kept(<<>>, chars) = <<>>
<1>1. PICK t : t = <<>>
    OBVIOUS
<1>2. t \in Texts /\ Len(t) = 0
    BY <1>1 DEF Texts
<1>3. PICK f : IsKept(f, t, chars, Len(t)) /\ Kept(t, chars) = f[Len(t)]
    BY <1>2, KeptIs DEF Texts
<1>4. f[0] = <<>>
    BY <1>2, <1>3 DEF IsKept
<1> QED BY <1>1, <1>2, <1>3, <1>4

LEMMA KeptAppendAny ==
    ASSUME NEW S, NEW text \in Seq(S), NEW c \in S, NEW chars
    PROVE  Kept(Append(text, c), chars)
            = IF c \in chars THEN Append(Kept(text, chars), c) ELSE Kept(text, chars)
<1> DEFINE n == Len(text)
<1>1. PICK longer : longer = Append(text, c)
    OBVIOUS
<1>2. /\ n \in Nat /\ longer \in Seq(S) /\ Len(longer) = n + 1 /\ longer[n + 1] = c
      /\ \A k \in 1..n : longer[k] = text[k]
    BY <1>1, Appended, Zenon
<1>3. PICK f : IsKept(f, text, chars, n) /\ Kept(text, chars) = f[n]
    BY KeptIs
<1>4. PICK g : IsKept(g, longer, chars, n + 1) /\ Kept(longer, chars) = g[n + 1]
    BY <1>2, KeptIs
<1> HIDE DEF n
<1>5. f[0] = <<>> /\ g[0] = <<>>
    BY <1>2, <1>3, <1>4 DEF IsKept
<1>6. ASSUME NEW k \in 1..n
      PROVE  /\ f[k] = IF text[k] \in chars THEN Append(f[k - 1], text[k]) ELSE f[k - 1]
             /\ g[k] = IF text[k] \in chars THEN Append(g[k - 1], text[k]) ELSE g[k - 1]
    <2>1. k \in 0..n /\ k \in 0..(n + 1) /\ k # 0
        BY <1>2
    <2>2. f[k] = IF text[k] \in chars THEN Append(f[k - 1], text[k]) ELSE f[k - 1]
        BY <1>3, <2>1 DEF IsKept
    <2>3. g[k] = IF longer[k] \in chars THEN Append(g[k - 1], longer[k]) ELSE g[k - 1]
        BY <1>4, <2>1 DEF IsKept
    <2> QED BY <1>2, <2>2, <2>3
<1> DEFINE N == {k \in Nat : k <= n => f[k] = g[k]}
<1>7. 0 \in N
    BY <1>5
<1>8. ASSUME NEW k \in Nat, k \in N
      PROVE  k + 1 \in N
    <2> SUFFICES ASSUME k + 1 <= n PROVE f[k + 1] = g[k + 1]
        OBVIOUS
    <2>1. k + 1 \in 1..n /\ (k + 1) - 1 = k /\ f[k] = g[k]
        BY <1>2, <1>8
    <2> QED BY <1>6, <2>1
<1> HIDE DEF N
<1>9. Nat \subseteq N
    BY <1>7, <1>8, NatSetInduction
<1>10. f[n] = g[n]
    BY <1>2, <1>9 DEF N
<1>11. g[n + 1] = IF c \in chars THEN Append(g[n], c) ELSE g[n]
    <2>1. n + 1 \in 0..(n + 1) /\ n + 1 # 0 /\ (n + 1) - 1 = n
        BY <1>2
    <2> QED BY <1>2, <1>4, <2>1 DEF IsKept
<1> QED BY <1>1, <1>3, <1>4, <1>10, <1>11

LEMMA KeptAppend ==
    ASSUME NEW text \in Texts, NEW c \in Chars, NEW chars
    PROVE  Kept(Append(text, c), chars)
            = IF c \in chars THEN Append(Kept(text, chars), c) ELSE Kept(text, chars)
BY KeptAppendAny DEF Texts

LEMMA Concatenated ==
    ASSUME NEW S, NEW s \in Seq(S), NEW t \in Seq(S), NEW c \in S
    PROVE  /\ s \o <<>> = s /\ <<>> \o s = s /\ s \o t \in Seq(S)
           /\ s \o Append(t, c) = Append(s \o t, c)
OBVIOUS

LEMMA KeptType ==
    ASSUME NEW S, NEW chars
    PROVE  \A t \in Seq(S) : Kept(t, chars) \in Seq(S \cap chars)
<1> DEFINE P == {t \in Seq(S) : Kept(t, chars) \in Seq(S \cap chars)}
<1>1. <<>> \in P
    <2>1. PICK T : T = S \cap chars
        OBVIOUS
    <2>2. <<>> \in Seq(S) /\ <<>> \in Seq(T)
        OBVIOUS
    <2> QED BY <2>1, <2>2, KeptOfNothing
<1>2. ASSUME NEW t \in Seq(S), NEW c \in S, t \in P
      PROVE  Append(t, c) \in P
    <2>1. Append(t, c) \in Seq(S)
        OBVIOUS
    <2>2. CASE c \in chars
        <3>1. c \in S \cap chars
            BY <2>2
        <3>2. Append(Kept(t, chars), c) \in Seq(S \cap chars)
            BY <1>2, <3>1, Appended, Zenon
        <3>3. Kept(Append(t, c), chars) = Append(Kept(t, chars), c)
            BY <2>2, KeptAppendAny
        <3> QED BY <2>1, <3>2, <3>3
    <2>3. CASE c \notin chars
        BY <1>2, <2>1, <2>3, KeptAppendAny
    <2> QED BY <2>2, <2>3
<1> HIDE DEF P
<1>3. Seq(S) \subseteq P
    BY <1>1, <1>2, SeqInduction
<1> QED BY <1>3 DEF P

LEMMA KeptIsText ==
    ASSUME NEW t \in Texts, NEW chars
    PROVE  /\ Kept(t, chars) \in Texts /\ Len(Kept(t, chars)) \in Nat
           /\ \A k \in DOMAIN Kept(t, chars) : Kept(t, chars)[k] \in chars
<1>1. PICK u : u = Kept(t, chars)
    OBVIOUS
<1>2. PICK S : S = Chars \cap chars
    OBVIOUS
<1>3. u \in Seq(S)
    BY <1>1, <1>2, KeptType DEF Texts
<1>4. S \subseteq Chars /\ S \subseteq chars
    BY <1>2
<1>5. Len(u) \in Nat /\ \A k \in DOMAIN u : u[k] \in S
    BY <1>3
<1>6. u \in Seq(Chars)
    BY <1>3, <1>4
<1> QED BY <1>1, <1>4, <1>5, <1>6 DEF Texts

LEMMA KeptConcat ==
    ASSUME NEW s \in Texts, NEW chars
    PROVE  \A t \in Texts : Kept(s \o t, chars) = Kept(s, chars) \o Kept(t, chars)
<1> DEFINE P == {t \in Texts : Kept(s \o t, chars) = Kept(s, chars) \o Kept(t, chars)}
<1>1. <<>> \in P
    <2>1. s \o <<>> = s /\ Kept(s, chars) \o <<>> = Kept(s, chars)
        BY KeptIsText DEF Texts
    <2>2. <<>> \in Texts
        BY DEF Texts
    <2> QED BY <2>1, <2>2, KeptOfNothing
<1>2. ASSUME NEW t \in Texts, NEW c \in Chars, t \in P
      PROVE  Append(t, c) \in P
    <2>1. /\ Append(t, c) \in Texts /\ s \o t \in Texts
          /\ s \o Append(t, c) = Append(s \o t, c)
        BY DEF Texts
    <2>2. PICK a \in Texts, b \in Texts : a = Kept(s, chars) /\ b = Kept(t, chars)
        BY KeptIsText
    <2>3. Kept(s \o t, chars) = a \o b
        BY <1>2, <2>2
    <2>4. a \o Append(b, c) = Append(a \o b, c)
        BY DEF Texts
    <2>5. Kept(s \o Append(t, c), chars) = IF c \in chars THEN Append(a \o b, c) ELSE a \o b
        <3>1. PICK v \in Texts : v = s \o t
            BY <2>1
        <3>2. Kept(Append(v, c), chars) = IF c \in chars THEN Append(Kept(v, chars), c) ELSE Kept(v, chars)
            BY KeptAppend
        <3> QED BY <2>1, <2>3, <3>1, <3>2
    <2>6. Kept(Append(t, c), chars) = IF c \in chars THEN Append(b, c) ELSE b
        BY <2>2, KeptAppend
    <2>7. Kept(s \o Append(t, c), chars) = a \o Kept(Append(t, c), chars)
        BY <2>4, <2>5, <2>6, Zenon
    <2> QED BY <2>1, <2>2, <2>7
<1> HIDE DEF P
<1>3. Texts \subseteq P
    BY <1>1, <1>2, TextInduction
<1> QED BY <1>3 DEF P

LEMMA KeptAll ==
    ASSUME NEW chars
    PROVE  \A t \in Texts : (\A k \in DOMAIN t : t[k] \in chars) => Kept(t, chars) = t
<1> DEFINE P == {t \in Texts : (\A k \in DOMAIN t : t[k] \in chars) => Kept(t, chars) = t}
<1>1. <<>> \in P
    BY KeptOfNothing DEF Texts
<1>2. ASSUME NEW t \in Texts, NEW c \in Chars, t \in P
      PROVE  Append(t, c) \in P
    <2>1. PICK u : u = Append(t, c)
        OBVIOUS
    <2>2. /\ u \in Texts /\ Len(t) \in Nat /\ Len(u) = Len(t) + 1 /\ u[Len(t) + 1] = c
          /\ \A k \in 1..Len(t) : u[k] = t[k]
        BY <2>1 DEF Texts
    <2>3. DOMAIN u = 1..(Len(t) + 1) /\ DOMAIN t = 1..Len(t)
        BY <2>2 DEF Texts
    <2>4. ASSUME \A k \in DOMAIN u : u[k] \in chars
          PROVE  Kept(u, chars) = u
        <3>1. c \in chars /\ \A k \in DOMAIN t : t[k] \in chars
            BY <2>2, <2>3, <2>4
        <3> QED BY <1>2, <2>1, <3>1, KeptAppend
    <2> QED BY <2>1, <2>2, <2>4
<1> HIDE DEF P
<1>3. Texts \subseteq P
    BY <1>1, <1>2, TextInduction
<1> QED BY <1>3 DEF P

(* A character that is kept is found in what is kept. *)
LEMMA KeptSomeAny ==
    ASSUME NEW S, NEW chars
    PROVE  \A t \in Seq(S) : \A k \in DOMAIN t :
                t[k] \in chars => \E j \in DOMAIN Kept(t, chars) : Kept(t, chars)[j] = t[k]
<1> DEFINE Found(t) == \A k \in DOMAIN t :
                t[k] \in chars => \E j \in DOMAIN Kept(t, chars) : Kept(t, chars)[j] = t[k]
           P == {t \in Seq(S) : Found(t)}
<1>1. <<>> \in P
    OBVIOUS
<1>2. ASSUME NEW t \in Seq(S), NEW c \in S, t \in P
      PROVE  Append(t, c) \in P
    <2>1. PICK u : u = Append(t, c)
        OBVIOUS
    <2>2. /\ u \in Seq(S) /\ Len(t) \in Nat /\ Len(u) = Len(t) + 1 /\ u[Len(t) + 1] = c
          /\ \A k \in 1..Len(t) : u[k] = t[k]
        BY <2>1
    <2>3. DOMAIN u = 1..(Len(t) + 1) /\ DOMAIN t = 1..Len(t)
        BY <2>2
    <2>4. PICK a \in Seq(S) : a = Kept(t, chars)
        <3>1. PICK T : T = S \cap chars
            OBVIOUS
        <3>2. T \subseteq S /\ Kept(t, chars) \in Seq(T)
            BY <3>1, KeptType
        <3> QED BY <3>2
    <2>5. PICK b : b = Kept(u, chars)
        OBVIOUS
    <2>6. b = IF c \in chars THEN Append(a, c) ELSE a
        BY <2>1, <2>4, <2>5, KeptAppendAny
    <2>7. /\ Len(a) \in Nat /\ DOMAIN a = 1..Len(a)
          /\ c \in chars => /\ DOMAIN b = 1..(Len(a) + 1) /\ b[Len(a) + 1] = c
                            /\ \A j \in 1..Len(a) : b[j] = a[j]
        <3>1. /\ Append(a, c) \in Seq(S) /\ Len(a) \in Nat
              /\ Len(Append(a, c)) = Len(a) + 1 /\ Append(a, c)[Len(a) + 1] = c
              /\ \A j \in 1..Len(a) : Append(a, c)[j] = a[j]
            OBVIOUS
        <3>2. c \in chars => b = Append(a, c)
            BY <2>6
        <3>3. DOMAIN a = 1..Len(a)
            OBVIOUS
        <3>4. c \in chars => b \in Seq(S) /\ Len(b) = Len(a) + 1
            BY <3>1, <3>2
        <3>5. c \in chars => DOMAIN b = 1..(Len(a) + 1)
            BY <3>4
        <3> QED BY <3>1, <3>2, <3>3, <3>5
    <2>8. ASSUME NEW k \in DOMAIN u, u[k] \in chars
          PROVE  \E j \in DOMAIN b : b[j] = u[k]
        <3>1. CASE k \in 1..Len(t)
            <4>1. PICK j \in DOMAIN a : a[j] = u[k]
                BY <1>2, <2>2, <2>3, <2>4, <2>8, <3>1
            <4>2. j \in DOMAIN b /\ b[j] = a[j]
                BY <2>6, <2>7
            <4> QED BY <4>1, <4>2
        <3>2. CASE k = Len(t) + 1
            BY <2>2, <2>7, <2>8, <3>2
        <3> QED BY <2>2, <2>3, <3>1, <3>2
    <2>9. Found(u)
        BY <2>5, <2>8
    <2> QED BY <2>1, <2>2, <2>9
<1> HIDE DEF P
<1>3. Seq(S) \subseteq P
    BY <1>1, <1>2, SeqInduction
<1> QED BY <1>3 DEF P

LEMMA KeptSome ==
    ASSUME NEW chars
    PROVE  \A t \in Texts : \A k \in DOMAIN t :
                t[k] \in chars => \E j \in DOMAIN Kept(t, chars) : Kept(t, chars)[j] = t[k]
BY KeptSomeAny DEF Texts

LEMMA KeptNone ==
    ASSUME NEW chars, NEW t \in Texts, \A k \in DOMAIN t : t[k] \notin chars
    PROVE  Kept(t, chars) = <<>>
<1> DEFINE P == {u \in Texts : (\A k \in DOMAIN u : u[k] \notin chars) => Kept(u, chars) = <<>>}
<1>1. <<>> \in P
    BY KeptOfNothing DEF Texts
<1>2. ASSUME NEW u \in Texts, NEW c \in Chars, u \in P
      PROVE  Append(u, c) \in P
    <2>1. PICK v : v = Append(u, c)
        OBVIOUS
    <2>2. /\ v \in Texts /\ Len(u) \in Nat /\ Len(v) = Len(u) + 1 /\ v[Len(u) + 1] = c
          /\ \A k \in 1..Len(u) : v[k] = u[k]
        BY <2>1 DEF Texts
    <2>3. DOMAIN v = 1..(Len(u) + 1) /\ DOMAIN u = 1..Len(u)
        BY <2>2 DEF Texts
    <2>4. ASSUME \A k \in DOMAIN v : v[k] \notin chars
          PROVE  Kept(v, chars) = <<>>
        <3>1. c \notin chars /\ \A k \in DOMAIN u : u[k] \notin chars
            BY <2>2, <2>3, <2>4
        <3> QED BY <1>2, <2>1, <3>1, KeptAppend
    <2> QED BY <2>1, <2>2, <2>4
<1> HIDE DEF P
<1>3. Texts \subseteq P
    BY <1>1, <1>2, TextInduction
<1> QED BY <1>3 DEF P

(* Taking out some characters and then more is taking them out at once.    *)
LEMMA KeptTwice ==
    ASSUME NEW wide, NEW narrow, narrow \subseteq wide
    PROVE  \A t \in Texts : Kept(Kept(t, wide), narrow) = Kept(t, narrow)
<1> DEFINE P == {t \in Texts : Kept(Kept(t, wide), narrow) = Kept(t, narrow)}
<1>1. <<>> \in P
    BY KeptOfNothing DEF Texts
<1>2. ASSUME NEW t \in Texts, NEW c \in Chars, t \in P
      PROVE  Append(t, c) \in P
    <2>1. PICK a \in Texts : a = Kept(t, wide)
        BY KeptIsText
    <2>2. Kept(a, narrow) = Kept(t, narrow)
        BY <1>2, <2>1
    <2>3. Append(t, c) \in Texts
        BY DEF Texts
    <2>4. CASE c \in wide
        <3>1. Kept(Append(t, c), wide) = Append(a, c)
            BY <2>1, <2>4, KeptAppend
        <3>2. /\ Kept(Append(a, c), narrow) = IF c \in narrow THEN Append(Kept(a, narrow), c)
                                                            ELSE Kept(a, narrow)
              /\ Kept(Append(t, c), narrow) = IF c \in narrow THEN Append(Kept(t, narrow), c)
                                                            ELSE Kept(t, narrow)
            BY KeptAppend
        <3> QED BY <2>2, <2>3, <3>1, <3>2
    <2>5. CASE c \notin wide
        <3>1. Kept(Append(t, c), wide) = a /\ Kept(Append(t, c), narrow) = Kept(t, narrow)
            BY <2>1, <2>5, KeptAppend
        <3> QED BY <2>2, <2>3, <3>1
    <2> QED BY <2>4, <2>5
<1> HIDE DEF P
<1>3. Texts \subseteq P
    BY <1>1, <1>2, TextInduction
<1> QED BY <1>3 DEF P

(* Only the characters of the text matter. *)
LEMMA KeptSame ==
    ASSUME NEW some, NEW others, NEW text \in Texts,
           \A k \in DOMAIN text : text[k] \in some <=> text[k] \in others
    PROVE  Kept(text, some) = Kept(text, others)
<1> DEFINE P == {u \in Texts : (\A k \in DOMAIN u : u[k] \in some <=> u[k] \in others)
                                    => Kept(u, some) = Kept(u, others)}
<1>1. <<>> \in P
    BY KeptOfNothing DEF Texts
<1>2. ASSUME NEW u \in Texts, NEW c \in Chars, u \in P
      PROVE  Append(u, c) \in P
    <2>1. PICK v : v = Append(u, c)
        OBVIOUS
    <2>2. /\ v \in Texts /\ Len(u) \in Nat /\ Len(v) = Len(u) + 1 /\ v[Len(u) + 1] = c
          /\ \A k \in 1..Len(u) : v[k] = u[k]
        BY <2>1 DEF Texts
    <2>3. DOMAIN v = 1..(Len(u) + 1) /\ DOMAIN u = 1..Len(u)
        BY <2>2 DEF Texts
    <2>4. ASSUME \A k \in DOMAIN v : v[k] \in some <=> v[k] \in others
          PROVE  Kept(v, some) = Kept(v, others)
        <3>1. c \in some <=> c \in others
            <4>1. Len(u) + 1 \in DOMAIN v
                BY <2>2, <2>3
            <4> QED BY <2>2, <2>4, <4>1
        <3>2. ASSUME NEW k \in DOMAIN u PROVE u[k] \in some <=> u[k] \in others
            <4>1. k \in 1..Len(u) /\ k \in DOMAIN v
                BY <2>2, <2>3
            <4> QED BY <2>2, <2>4, <4>1
        <3>3. Kept(u, some) = Kept(u, others)
            BY <1>2, <3>2, Zenon
        <3>4. /\ Kept(v, some) = IF c \in some THEN Append(Kept(u, some), c) ELSE Kept(u, some)
              /\ Kept(v, others) = IF c \in others THEN Append(Kept(u, others), c)
                                                   ELSE Kept(u, others)
            BY <2>1, KeptAppend
        <3> QED BY <3>1, <3>3, <3>4
    <2> QED BY <2>1, <2>2, <2>4
<1> HIDE DEF P
<1>3. Texts \subseteq P
    BY <1>1, <1>2, TextInduction
<1> QED BY <1>3 DEF P

LEMMA WithoutIs ==
    ASSUME NEW chars, NEW text \in Texts
    PROVE  Without(text, chars) = Kept(text, Chars \ chars)
<1>1. \A k \in DOMAIN text :
        text[k] \in {text[i] : i \in DOMAIN text} \ chars <=> text[k] \in Chars \ chars
    BY DEF Texts
<1> QED BY <1>1, KeptSame DEF Without

-----------------------------------------------------------------------------
(* Digits *)

LEMMA EnglishDigitsAre ==
    /\ EnglishDigits[1] = "0" /\ EnglishDigits[2] = "1" /\ EnglishDigits[3] = "2"
    /\ EnglishDigits[4] = "3" /\ EnglishDigits[5] = "4" /\ EnglishDigits[6] = "5"
    /\ EnglishDigits[7] = "6" /\ EnglishDigits[8] = "7" /\ EnglishDigits[9] = "8"
    /\ EnglishDigits[10] = "9"
BY DEF EnglishDigits

LEMMA DigitsAre ==
    /\ Digit = {"d9", "0", "1", "2", "3", "4", "5", "6", "7", "8", "9"}
    /\ Digit \subseteq Chars
<1>1. {EnglishDigits[d] : d \in 1..10} = {"0", "1", "2", "3", "4", "5", "6", "7", "8", "9"}
    <2>1. 1..10 = {1, 2, 3, 4, 5, 6, 7, 8, 9, 10}
        OBVIOUS
    <2>2. {EnglishDigits[d] : d \in {1, 2, 3, 4, 5, 6, 7, 8, 9, 10}}
            = {EnglishDigits[1], EnglishDigits[2], EnglishDigits[3], EnglishDigits[4],
               EnglishDigits[5], EnglishDigits[6], EnglishDigits[7], EnglishDigits[8],
               EnglishDigits[9], EnglishDigits[10]}
        OBVIOUS
    <2> QED BY <2>1, <2>2, EnglishDigitsAre
<1>2. Digit = {"d9", "0", "1", "2", "3", "4", "5", "6", "7", "8", "9"}
    BY <1>1 DEF Digit, OtherDigits
<1>3. Digit \subseteq Chars
    BY DEF Chars
<1> QED BY <1>2, <1>3

LEMMA EnglishCharacters ==
    ASSUME NEW d \in 1..10
    PROVE  EnglishDigits[d] \in Chars /\ EnglishDigits[d] \in Digit
<1>1. EnglishDigits[d] \in Digit
    BY DEF Digit
<1> QED BY <1>1, DigitsAre

LEMMA EnglishText ==
    ASSUME NEW text \in Texts
    PROVE  /\ to_english_digits(text) \in Texts
           /\ Len(to_english_digits(text)) = Len(text)
<1> DEFINE u == to_english_digits(text)
<1>1. DOMAIN u = 1..Len(text) /\ Len(text) \in Nat /\ DOMAIN text = 1..Len(text)
    BY DEF to_english_digits, Texts
<1>2. ASSUME NEW i \in 1..Len(text)
      PROVE  u[i] \in Chars
    <2>1. CASE \E d \in 1..10 : text[i] = PersianDigits[d]
        <3> DEFINE e == CHOOSE d \in 1..10 : text[i] = PersianDigits[d]
        <3>1. e \in 1..10
            BY <2>1
        <3>2. u[i] = EnglishDigits[e]
            BY <1>1, <2>1 DEF to_english_digits
        <3> HIDE DEF e, u
        <3> QED BY <3>1, <3>2, EnglishCharacters
    <2>2. CASE ~ \E d \in 1..10 : text[i] = PersianDigits[d]
        <3>1. u[i] = text[i]
            BY <1>1, <2>2 DEF to_english_digits
        <3> HIDE DEF u
        <3> QED BY <1>1, <3>1 DEF Texts
    <2> QED BY <2>1, <2>2
<1>3. u = [i \in 1..Len(text) |-> u[i]]
    BY <1>1 DEF to_english_digits
<1> HIDE DEF u
<1>4. u \in [1..Len(text) -> Chars]
    BY <1>2, <1>3
<1>5. u \in Seq(Chars) /\ Len(u) = Len(text)
    BY <1>1, <1>4
<1> QED BY <1>5 DEF u, Texts

(* A text in English digits is left as it is. *)
LEMMA EnglishAlready ==
    ASSUME NEW text \in Texts, \A i \in DOMAIN text : text[i] \in Digit \cup {"+"}
    PROVE  to_english_digits(text) = text
<1>1. \A d \in 1..10 : PersianDigits[d] \notin Digit \cup {"+"}
    <2>1. 1..10 = {1, 2, 3, 4, 5, 6, 7, 8, 9, 10}
        OBVIOUS
    <2> QED BY <2>1, DigitsAre DEF PersianDigits
<1>2. \A i \in DOMAIN text : ~ \E d \in 1..10 : text[i] = PersianDigits[d]
    BY <1>1
<1>3. to_english_digits(text) = [i \in DOMAIN text |-> text[i]]
    BY <1>2 DEF to_english_digits
<1>4. text = [i \in DOMAIN text |-> text[i]]
    BY DEF Texts
<1> QED BY <1>3, <1>4

-----------------------------------------------------------------------------
(* strip *)

LEMMA LeastOf ==
    ASSUME NEW S \in SUBSET Nat, S # {}
    PROVE  \E x \in S : \A y \in S : x <= y
<1>1. PICK x \in S : \A y \in S : <<y, x>> \notin OpToRel(<, Nat)
    <2>1. IsWellFoundedOn(OpToRel(<, Nat), Nat)
        BY NatLessThanWellFounded
    <2> QED BY <2>1, WFMin
<1>2. ASSUME NEW y \in S
      PROVE  x <= y
    <2>1. <<y, x>> \notin OpToRel(<, Nat) /\ y \in Nat /\ x \in Nat
        BY <1>1
    <2>2. y < x => <<y, x>> \in OpToRel(<, Nat)
        BY <2>1 DEF OpToRel
    <2>3. x \in Nat /\ y \in Nat /\ ~(y < x)
        BY <2>1, <2>2
    <2> QED BY <2>3
<1> QED BY <1>2

LEMMA EndsOf ==
    ASSUME NEW n \in Nat, NEW S \in SUBSET 1..n, S # {}
    PROVE  /\ SetsExt!Min(S) \in S /\ \A y \in S : SetsExt!Min(S) <= y
           /\ SetsExt!Max(S) \in S /\ \A y \in S : y <= SetsExt!Max(S)
<1>1. \E x \in S : \A y \in S : x <= y
    BY LeastOf
<1>2. \E x \in S : \A y \in S : x >= y
    <2> DEFINE T == {n - y : y \in S}
    <2>1. T \in SUBSET Nat /\ T # {}
        <3>1. ASSUME NEW y \in S PROVE n - y \in Nat
            <4>1. y \in 1..n
                OBVIOUS
            <4> QED BY <4>1
        <3> QED BY <3>1
    <2>2. PICK z \in T : \A y \in T : z <= y
        <3> HIDE DEF T
        <3> QED BY <2>1, LeastOf
    <2>3. PICK x \in S : z = n - x
        OBVIOUS
    <2>4. ASSUME NEW y \in S PROVE x >= y
        <3>1. n - x <= n - y
            BY <2>2, <2>3
        <3> QED BY <3>1
    <2> QED BY <2>4
<1>3. SetsExt!Min(S) = CHOOSE x \in S : \A y \in S : x <= y
    BY DEF SetsExt!Min
<1>4. SetsExt!Max(S) = CHOOSE x \in S : \A y \in S : x >= y
    BY DEF SetsExt!Max
<1>5. SetsExt!Min(S) \in S /\ \A y \in S : SetsExt!Min(S) <= y
    BY <1>1, <1>3
<1>6. SetsExt!Max(S) \in S /\ \A y \in S : SetsExt!Max(S) >= y
    BY <1>2, <1>4
<1>7. \A y \in S : y <= SetsExt!Max(S)
    BY <1>6
<1> QED BY <1>5, <1>6, <1>7

(* A part of a text, and a text put together of its parts *)
LEMMA PartOf ==
    ASSUME NEW text \in Texts, NEW i \in 1..(Len(text) + 1), NEW j \in (i - 1)..Len(text)
    PROVE  /\ SubSeq(text, i, j) \in Texts /\ Len(SubSeq(text, i, j)) = j - i + 1
           /\ \A k \in 1..(j - i + 1) : SubSeq(text, i, j)[k] = text[i + k - 1]
<1>1. Len(text) \in Nat /\ \A k \in 1..Len(text) : text[k] \in Chars
    BY DEF Texts
<1>2. \A k \in i..j : text[k] \in Chars
    BY <1>1
<1>3. i \in Int /\ j \in Int /\ j - i + 1 = IF i <= j THEN j - i + 1 ELSE 0
    BY <1>1
<1>4. /\ SubSeq(text, i, j) \in Seq(Chars)
      /\ Len(SubSeq(text, i, j)) = IF i <= j THEN j - i + 1 ELSE 0
      /\ \A k \in 1..(j - i + 1) : SubSeq(text, i, j)[k] = text[i + k - 1]
    BY <1>2, <1>3, SubSeqProperties
<1> QED BY <1>3, <1>4 DEF Texts

LEMMA PartsMeet ==
    ASSUME NEW text \in Texts, NEW i \in 1..(Len(text) + 1),
           NEW k \in (i - 1)..Len(text), NEW j \in k..Len(text)
    PROVE  SubSeq(text, i, j) = SubSeq(text, i, k) \o SubSeq(text, k + 1, j)
BY ConcatAdjacentSubSeq DEF Texts

LEMMA JoinedText ==
    ASSUME NEW s \in Texts, NEW t \in Texts
    PROVE  s \o t \in Texts
BY DEF Texts

LEMMA JoinedThrice ==
    ASSUME NEW s \in Texts, NEW t \in Texts, NEW u \in Texts
    PROVE  s \o t \o u = s \o (t \o u)
BY ConcatAssociative DEF Texts

LEMMA WholeText ==
    ASSUME NEW text \in Texts
    PROVE  SubSeq(text, 1, Len(text)) = text
BY SubSeqFull DEF Texts

IsBlank(t) == t \in Texts /\ \A i \in DOMAIN t : t[i] \in Whitespace

(* Only whitespace is taken from the ends. *)
LEMMA StripParts ==
    ASSUME NEW text \in Texts
    PROVE  /\ strip(text) \in Texts
           /\ \E a, b : IsBlank(a) /\ IsBlank(b) /\ text = a \o strip(text) \o b
<1> DEFINE ink == {i \in DOMAIN text : text[i] \notin Whitespace}
           n == Len(text)
<1>1. n \in Nat /\ DOMAIN text = 1..n /\ text \in Seq(Chars)
    BY DEF Texts
<1>2. CASE ink = {}
    <2>1. strip(text) = <<>> /\ <<>> \in Texts /\ IsBlank(<<>>)
        BY <1>2 DEF strip, Texts, IsBlank
    <2>2. IsBlank(text)
        BY <1>2 DEF IsBlank
    <2>3. text = text \o <<>> \o <<>>
        BY <1>1
    <2> QED BY <2>1, <2>2, <2>3
<1>3. CASE ink # {}
    <2>1. ink \in SUBSET 1..n
        BY <1>1
    <2>2. PICK x, y : x = SetsExt!Min(ink) /\ y = SetsExt!Max(ink)
        OBVIOUS
    <2>3. strip(text) = SubSeq(text, x, y)
        BY <1>3, <2>2 DEF strip
    <2>4. /\ x \in 1..n /\ y \in 1..n /\ x <= y
          /\ \A i \in 1..n : text[i] \notin Whitespace => x <= i /\ i <= y
        <3>1. /\ x \in ink /\ \A i \in ink : x <= i
              /\ y \in ink /\ \A i \in ink : i <= y
            <4> HIDE DEF ink
            <4> QED BY <1>1, <1>3, <2>1, <2>2, EndsOf
        <3> QED BY <1>1, <3>1
    <2> DEFINE a == SubSeq(text, 1, x - 1)
               b == SubSeq(text, y + 1, n)
    <2>5. /\ a \in Seq(Chars) /\ Len(a) = x - 1 /\ \A i \in 1..(x - 1) : a[i] = text[i]
          /\ b \in Seq(Chars) /\ Len(b) = n - y /\ \A i \in 1..(n - y) : b[i] = text[y + i]
          /\ strip(text) \in Seq(Chars)
        <3>1. PICK u, v, w : u = x - 1 /\ v = y + 1 /\ w = n
            OBVIOUS
        <3>2. a \in Texts /\ Len(a) = u - 1 + 1 /\ \A i \in 1..(u - 1 + 1) : a[i] = text[1 + i - 1]
            <4>1. 1 \in 1..(Len(text) + 1) /\ u \in (1 - 1)..Len(text)
                BY <1>1, <2>4, <3>1
            <4> QED BY <3>1, <4>1, PartOf
        <3>3. b \in Texts /\ Len(b) = w - v + 1 /\ \A i \in 1..(w - v + 1) : b[i] = text[v + i - 1]
            <4>1. v \in 1..(Len(text) + 1) /\ w \in (v - 1)..Len(text)
                BY <1>1, <2>4, <3>1
            <4> QED BY <3>1, <4>1, PartOf
        <3>4. SubSeq(text, x, y) \in Texts
            <4>1. x \in 1..(Len(text) + 1) /\ y \in (x - 1)..Len(text)
                BY <1>1, <2>4
            <4> QED BY <4>1, PartOf
        <3> HIDE DEF a, b, ink
        <3>5. Len(a) = x - 1 /\ \A i \in 1..(x - 1) : a[i] = text[i]
            <4>1. u - 1 + 1 = x - 1 /\ \A i \in 1..(x - 1) : 1 + i - 1 = i
                BY <2>4, <3>1
            <4> QED BY <3>2, <4>1
        <3>6. Len(b) = n - y /\ \A i \in 1..(n - y) : b[i] = text[y + i]
            <4>1. w - v + 1 = n - y /\ \A i \in 1..(n - y) : v + i - 1 = y + i
                BY <1>1, <2>4, <3>1
            <4> QED BY <3>3, <4>1
        <3> QED BY <2>3, <3>2, <3>3, <3>4, <3>5, <3>6 DEF Texts
    <2>6. text = a \o strip(text) \o b
        <3>1. text = SubSeq(text, 1, n)
            BY WholeText
        <3>2. SubSeq(text, 1, n) = SubSeq(text, 1, y) \o b
            <4>1. 1 \in 1..(Len(text) + 1) /\ y \in (1 - 1)..Len(text) /\ n \in y..Len(text)
                BY <1>1, <2>4
            <4> QED BY <4>1, PartsMeet
        <3>3. SubSeq(text, 1, y) = a \o SubSeq(text, (x - 1) + 1, y)
            <4>1. /\ 1 \in 1..(Len(text) + 1) /\ (x - 1) \in (1 - 1)..Len(text)
                  /\ y \in (x - 1)..Len(text)
                BY <1>1, <2>4
            <4> QED BY <4>1, PartsMeet
        <3>4. (x - 1) + 1 = x
            BY <2>4
        <3> HIDE DEF a, b, ink
        <3> QED BY <2>3, <3>1, <3>2, <3>3, <3>4
    <2> HIDE DEF a, b
    <2>7. IsBlank(a)
        <3>1. ASSUME NEW i \in DOMAIN a PROVE a[i] \in Whitespace
            <4>1. i \in 1..(x - 1)
                BY <2>5
            <4>2. i \in 1..n /\ ~(x <= i) /\ a[i] = text[i]
                BY <1>1, <2>4, <2>5, <4>1
            <4> QED BY <2>4, <4>2
        <3> QED BY <2>5, <3>1 DEF IsBlank, Texts
    <2>8. IsBlank(b)
        <3>1. ASSUME NEW i \in DOMAIN b PROVE b[i] \in Whitespace
            <4>1. i \in 1..(n - y)
                BY <1>1, <2>4, <2>5
            <4>2. y + i \in 1..n /\ ~(y + i <= y) /\ b[i] = text[y + i]
                BY <1>1, <2>4, <2>5, <4>1
            <4> QED BY <2>4, <4>2
        <3> QED BY <2>5, <3>1 DEF IsBlank, Texts
    <2> QED BY <2>5, <2>6, <2>7, <2>8 DEF Texts
<1> QED BY <1>2, <1>3

(* What is not whitespace stays. *)
LEMMA StripKeeps ==
    ASSUME NEW text \in Texts, NEW chars, chars \cap Whitespace = {}
    PROVE  Kept(strip(text), chars) = Kept(text, chars)
<1>1. PICK a, b : IsBlank(a) /\ IsBlank(b) /\ text = a \o strip(text) \o b
    BY StripParts
<1>2. PICK s \in Texts : s = strip(text)
    BY StripParts
<1>3. a \in Texts /\ b \in Texts
    BY <1>1 DEF IsBlank
<1>4. Kept(a, chars) = <<>>
    <2>1. \A i \in DOMAIN a : a[i] \notin chars
        BY <1>1 DEF IsBlank
    <2> QED BY <1>3, <2>1, KeptNone
<1>5. Kept(b, chars) = <<>>
    <2>1. \A i \in DOMAIN b : b[i] \notin chars
        BY <1>1 DEF IsBlank
    <2> QED BY <1>3, <2>1, KeptNone
<1>6. PICK k \in Texts : k = Kept(s, chars)
    BY KeptIsText
<1>7. PICK u \in Texts : u = a \o s
    BY <1>3, JoinedText
<1>8. Kept(u, chars) = <<>> \o k
    <2>1. \A t \in Texts : Kept(a \o t, chars) = Kept(a, chars) \o Kept(t, chars)
        BY <1>3, KeptConcat
    <2> QED BY <1>4, <1>6, <1>7, <2>1, Zenon
<1>9. Kept(u \o b, chars) = Kept(u, chars) \o <<>>
    <2>1. \A t \in Texts : Kept(u \o t, chars) = Kept(u, chars) \o Kept(t, chars)
        BY KeptConcat
    <2> QED BY <1>3, <1>5, <2>1, Zenon
<1>10. <<>> \o k = k /\ k \o <<>> = k
    BY DEF Texts
<1> QED BY <1>1, <1>2, <1>6, <1>7, <1>8, <1>9, <1>10

-----------------------------------------------------------------------------
(* A text and what it begins with *)

LEMMA Fronted ==
    ASSUME NEW p \in Texts, NEW t \in Texts, StartsWith(t, p)
    PROVE  /\ From(t, Len(p) + 1) \in Texts
           /\ t = p \o From(t, Len(p) + 1)
<1>1. Len(p) \in Nat /\ Len(t) \in Nat /\ Len(p) <= Len(t) /\ SubSeq(t, 1, Len(p)) = p
    BY DEF StartsWith, Texts
<1>2. PICK k : k = Len(p)
    OBVIOUS
<1>3. /\ 1 \in 1..(Len(t) + 1) /\ k \in (1 - 1)..Len(t) /\ Len(t) \in k..Len(t)
      /\ k + 1 \in 1..(Len(t) + 1) /\ Len(t) \in ((k + 1) - 1)..Len(t)
    BY <1>1, <1>2
<1>4. SubSeq(t, 1, Len(t)) = SubSeq(t, 1, k) \o SubSeq(t, k + 1, Len(t))
    BY <1>3, PartsMeet
<1>5. SubSeq(t, k + 1, Len(t)) \in Texts
    <2>1. PICK i : i = k + 1
        OBVIOUS
    <2>2. i \in 1..(Len(t) + 1) /\ Len(t) \in (i - 1)..Len(t)
        BY <1>3, <2>1
    <2>3. SubSeq(t, i, Len(t)) \in Texts
        BY <2>2, PartOf
    <2> QED BY <2>1, <2>3
<1> QED BY <1>1, <1>2, <1>4, <1>5, WholeText DEF From

LEMMA Joined ==
    ASSUME NEW p \in Texts, NEW t \in Texts
    PROVE  /\ p \o t \in Texts /\ Len(p \o t) = Len(p) + Len(t)
           /\ Len(p) \in Nat /\ Len(t) \in Nat
           /\ \A i \in 1..Len(p) : (p \o t)[i] = p[i]
           /\ \A i \in 1..Len(t) : (p \o t)[Len(p) + i] = t[i]
           /\ SubSeq(p \o t, 1, Len(p)) = p /\ From(p \o t, Len(p) + 1) = t
<1>1. PICK u, m, n : u = p \o t /\ m = Len(p) /\ n = Len(t)
    OBVIOUS
<1>2. m \in Nat /\ n \in Nat
    BY <1>1 DEF Texts
<1>3. /\ u \in Texts /\ Len(u) = m + n
      /\ \A i \in 1..(m + n) : u[i] = IF i <= m THEN p[i] ELSE t[i - m]
    BY <1>1, ConcatProperties DEF Texts
<1>4. \A i \in 1..m : u[i] = p[i]
    BY <1>2, <1>3
<1>5. ASSUME NEW i \in 1..n PROVE u[m + i] = t[i]
    <2>1. m + i \in 1..(m + n) /\ ~(m + i <= m) /\ (m + i) - m = i
        BY <1>2
    <2> QED BY <1>3, <2>1
<1>6. SubSeq(u, 1, m) = p
    <2>1. 1 \in 1..(Len(u) + 1) /\ m \in (1 - 1)..Len(u) /\ m - 1 + 1 = m
        BY <1>2, <1>3
    <2>2. /\ SubSeq(u, 1, m) \in Texts /\ Len(SubSeq(u, 1, m)) = m - 1 + 1
          /\ \A k \in 1..(m - 1 + 1) : SubSeq(u, 1, m)[k] = u[1 + k - 1]
        BY <1>3, <2>1, PartOf
    <2>3. \A k \in 1..m : 1 + k - 1 = k
        BY <1>2
    <2>4. Len(SubSeq(u, 1, m)) = Len(p) /\ \A k \in 1..Len(p) : SubSeq(u, 1, m)[k] = p[k]
        BY <1>1, <1>4, <2>1, <2>2, <2>3
    <2>5. PICK v \in Texts : v = SubSeq(u, 1, m)
        BY <2>2
    <2>6. p \in Seq(Chars) /\ v \in Seq(Chars) /\ Len(v) = Len(p)
          /\ \A k \in 1..Len(v) : v[k] = p[k]
        BY <2>4, <2>5 DEF Texts
    <2> QED BY <2>5, <2>6, SeqEqual
<1>7. SubSeq(u, m + 1, m + n) = t
    <2>1. PICK i, j : i = m + 1 /\ j = m + n
        OBVIOUS
    <2>2. i \in 1..(Len(u) + 1) /\ j \in (i - 1)..Len(u) /\ j - i + 1 = n
        BY <1>2, <1>3, <2>1
    <2>3. /\ SubSeq(u, i, j) \in Texts /\ Len(SubSeq(u, i, j)) = n
          /\ \A k \in 1..n : SubSeq(u, i, j)[k] = u[i + k - 1]
        BY <1>3, <2>2, PartOf
    <2>4. \A k \in 1..n : i + k - 1 = m + k
        BY <1>2, <2>1
    <2>5. PICK v \in Texts : v = SubSeq(u, i, j)
        BY <2>3
    <2>6. t \in Seq(Chars) /\ v \in Seq(Chars) /\ Len(v) = Len(t)
          /\ \A k \in 1..Len(v) : v[k] = t[k]
        BY <1>1, <1>5, <2>3, <2>4, <2>5 DEF Texts
    <2> QED BY <2>1, <2>5, <2>6, SeqEqual
<1> QED BY <1>1, <1>2, <1>3, <1>4, <1>5, <1>6, <1>7 DEF From

LEMMA JoinedAs ==
    ASSUME NEW p \in Texts, NEW t \in Texts, NEW u, u = p \o t
    PROVE  /\ u \in Texts /\ Len(u) = Len(p) + Len(t) /\ Len(p) \in Nat /\ Len(t) \in Nat
           /\ \A i \in 1..Len(p) : u[i] = p[i]
           /\ \A i \in 1..Len(t) : u[Len(p) + i] = t[i]
           /\ SubSeq(u, 1, Len(p)) = p /\ From(u, Len(p) + 1) = t
<1>1. /\ p \o t \in Texts /\ Len(p \o t) = Len(p) + Len(t)
      /\ Len(p) \in Nat /\ Len(t) \in Nat
      /\ \A i \in 1..Len(p) : (p \o t)[i] = p[i]
      /\ \A i \in 1..Len(t) : (p \o t)[Len(p) + i] = t[i]
      /\ SubSeq(p \o t, 1, Len(p)) = p /\ From(p \o t, Len(p) + 1) = t
    BY Joined
<1> QED BY <1>1, Zenon

(* The prefixes that normalize_phone looks for *)
LEMMA Literals ==
    /\ <<>> \in Texts /\ Len(<<>>) = 0
    /\ <<"0">> \in Texts /\ Len(<<"0">>) = 1 /\ <<"0">>[1] = "0"
    /\ <<"+">> \in Texts /\ Len(<<"+">>) = 1 /\ <<"+">>[1] = "+"
    /\ <<"0", "0">> \in Texts /\ Len(<<"0", "0">>) = 2 /\ <<"0", "0">>[1] = "0"
    /\ <<"0", "0">>[2] = "0"
    /\ <<"9", "8">> \in Texts /\ Len(<<"9", "8">>) = 2 /\ <<"9", "8">>[1] = "9"
    /\ <<"9", "8">>[2] = "8"
<1>1. "0" \in Chars /\ "9" \in Chars /\ "8" \in Chars /\ "+" \in Chars
    BY DigitsAre DEF Chars
<1> QED BY <1>1 DEF Texts

(* Whether a text begins with a zero, two zeros or the country's code can  *)
(* be told from its first two characters.                                  *)
LEMMA Beginnings ==
    ASSUME NEW t \in Texts
    PROVE  /\ StartsWith(t, <<"0">>) <=> Len(t) >= 1 /\ t[1] = "0"
           /\ StartsWith(t, <<"0", "0">>) <=> Len(t) >= 2 /\ t[1] = "0" /\ t[2] = "0"
           /\ StartsWith(t, <<"9", "8">>) <=> Len(t) >= 2 /\ t[1] = "9" /\ t[2] = "8"
<1>1. ASSUME NEW p \in Texts, StartsWith(t, p)
      PROVE  \A i \in 1..Len(p) : t[i] = p[i]
    <2>1. /\ From(t, Len(p) + 1) \in Texts
          /\ t = p \o From(t, Len(p) + 1)
        BY <1>1, Fronted
    <2>2. PICK f \in Texts : f = From(t, Len(p) + 1)
        BY <2>1
    <2> QED BY <2>1, <2>2, Joined
<1>2. ASSUME NEW p \in Texts, Len(p) <= Len(t), Len(p) >= 1, \A i \in 1..Len(p) : t[i] = p[i]
      PROVE  StartsWith(t, p)
    <2>1. PICK k : k = Len(p)
        OBVIOUS
    <2>2. k \in Nat /\ 1 \in 1..(Len(t) + 1) /\ k \in (1 - 1)..Len(t) /\ k - 1 + 1 = k
        BY <1>2, <2>1 DEF Texts
    <2>3. PICK v : v = SubSeq(t, 1, k)
        OBVIOUS
    <2>4. /\ v \in Texts /\ Len(v) = k - 1 + 1
          /\ \A i \in 1..(k - 1 + 1) : v[i] = t[1 + i - 1]
        BY <2>2, <2>3, PartOf
    <2>5. \A i \in 1..k : 1 + i - 1 = i
        BY <2>2
    <2>6. Len(v) = Len(p) /\ \A i \in 1..Len(v) : v[i] = p[i]
        BY <1>2, <2>1, <2>2, <2>4, <2>5
    <2>7. v = p
        BY <2>4, <2>6, SeqEqual DEF Texts
    <2> QED BY <1>2, <2>1, <2>3, <2>7 DEF StartsWith
<1>3. Len(t) \in Nat
    BY DEF Texts
<1>4. /\ StartsWith(t, <<"0">>) => Len(t) >= 1
      /\ StartsWith(t, <<"0", "0">>) => Len(t) >= 2
      /\ StartsWith(t, <<"9", "8">>) => Len(t) >= 2
    BY <1>3, Literals DEF StartsWith
<1>5. 1..1 = {1} /\ 1..2 = {1, 2}
    OBVIOUS
<1>6. StartsWith(t, <<"0">>) <=> Len(t) >= 1 /\ t[1] = "0"
    <2>1. PICK p : p = <<"0">>
        OBVIOUS
    <2>2. p \in Texts /\ Len(p) = 1 /\ p[1] = "0"
        BY <2>1, Literals
    <2>3. StartsWith(t, p) => Len(t) >= 1 /\ t[1] = "0"
        BY <1>1, <1>4, <1>5, <2>1, <2>2
    <2>4. ASSUME Len(t) >= 1 /\ t[1] = "0"
          PROVE  StartsWith(t, p)
        <3>1. Len(p) <= Len(t) /\ Len(p) >= 1 /\ \A i \in 1..Len(p) : t[i] = p[i]
            BY <1>3, <1>5, <2>2, <2>4
        <3> QED BY <1>2, <2>2, <3>1
    <2> QED BY <2>1, <2>3, <2>4
<1>7. StartsWith(t, <<"0", "0">>) <=> Len(t) >= 2 /\ t[1] = "0" /\ t[2] = "0"
    <2>1. PICK p : p = <<"0", "0">>
        OBVIOUS
    <2>2. p \in Texts /\ Len(p) = 2 /\ p[1] = "0" /\ p[2] = "0"
        BY <2>1, Literals
    <2>3. StartsWith(t, p) => Len(t) >= 2 /\ t[1] = "0" /\ t[2] = "0"
        BY <1>1, <1>4, <1>5, <2>1, <2>2
    <2>4. ASSUME Len(t) >= 2 /\ t[1] = "0" /\ t[2] = "0"
          PROVE  StartsWith(t, p)
        <3>1. Len(p) <= Len(t) /\ Len(p) >= 1 /\ \A i \in 1..Len(p) : t[i] = p[i]
            BY <1>3, <1>5, <2>2, <2>4
        <3> QED BY <1>2, <2>2, <3>1
    <2> QED BY <2>1, <2>3, <2>4
<1>8. StartsWith(t, <<"9", "8">>) <=> Len(t) >= 2 /\ t[1] = "9" /\ t[2] = "8"
    <2>1. PICK p : p = <<"9", "8">>
        OBVIOUS
    <2>2. p \in Texts /\ Len(p) = 2 /\ p[1] = "9" /\ p[2] = "8"
        BY <2>1, Literals
    <2>3. StartsWith(t, p) => Len(t) >= 2 /\ t[1] = "9" /\ t[2] = "8"
        BY <1>1, <1>4, <1>5, <2>1, <2>2
    <2>4. ASSUME Len(t) >= 2 /\ t[1] = "9" /\ t[2] = "8"
          PROVE  StartsWith(t, p)
        <3>1. Len(p) <= Len(t) /\ Len(p) >= 1 /\ \A i \in 1..Len(p) : t[i] = p[i]
            BY <1>3, <1>5, <2>2, <2>4
        <3> QED BY <1>2, <2>2, <3>1
    <2> QED BY <2>1, <2>3, <2>4
<1> QED BY <1>6, <1>7, <1>8
-----------------------------------------------------------------------------
(* The steps of normalize_phone *)

LEMMA StripCharacters ==
    ASSUME NEW t \in Texts, NEW i \in DOMAIN strip(t)
    PROVE  \E j \in DOMAIN t : t[j] = strip(t)[i]
<1>1. PICK a, b : IsBlank(a) /\ IsBlank(b) /\ t = a \o strip(t) \o b
    BY StripParts
<1>2. PICK s \in Texts : s = strip(t)
    BY StripParts
<1>3. a \in Texts /\ b \in Texts
    BY <1>1 DEF IsBlank
<1>4. PICK u \in Texts : u = a \o s
    BY <1>3, JoinedText
<1>5. t = u \o b
    BY <1>1, <1>2, <1>4
<1>6. Len(a) \in Nat /\ Len(s) \in Nat /\ Len(b) \in Nat /\ i \in 1..Len(s)
    BY <1>2, <1>3 DEF Texts
<1>7. Len(u) = Len(a) + Len(s) /\ u[Len(a) + i] = s[i]
    <2>1. Len(a \o s) = Len(a) + Len(s) /\ \A k \in 1..Len(s) : (a \o s)[Len(a) + k] = s[k]
        BY <1>3, Joined
    <2> QED BY <1>4, <1>6, <2>1
<1>8. Len(t) = Len(u) + Len(b) /\ \A k \in 1..Len(u) : t[k] = u[k]
    BY <1>3, <1>5, Joined
<1>9. DOMAIN t = 1..Len(t)
    BY DEF Texts
<1>10. Len(a) + i \in 1..Len(u) /\ Len(a) + i \in 1..Len(t)
    BY <1>6, <1>7, <1>8
<1> QED BY <1>2, <1>7, <1>8, <1>9, <1>10

(* What normalize_phone has of a text before it looks at a leading "00" *)
Seen(t) == Without(strip(to_english_digits(t)), Separators)

LEMMA SeenIs ==
    ASSUME NEW t \in Texts
    PROVE  /\ Seen(t) \in Texts
           /\ Seen(t) = Kept(strip(to_english_digits(t)), Chars \ Separators)
           /\ Kept(Seen(t), Digit) = Kept(to_english_digits(t), Digit)
<1>1. PICK e \in Texts : e = to_english_digits(t)
    BY EnglishText
<1>2. PICK s \in Texts : s = strip(e)
    BY StripParts
<1>3. Seen(t) = Kept(s, Chars \ Separators)
    BY <1>1, <1>2, WithoutIs DEF Seen
<1>4. Digit \subseteq Chars \ Separators /\ Digit \cap Whitespace = {}
    BY DigitsAre DEF Separators, Whitespace
<1>5. Kept(Kept(s, Chars \ Separators), Digit) = Kept(s, Digit)
    BY <1>4, KeptTwice
<1>6. Kept(s, Digit) = Kept(e, Digit)
    BY <1>2, <1>4, StripKeeps
<1> QED BY <1>1, <1>2, <1>3, <1>5, <1>6, KeptIsText

LEMMA DigitsOnly ==
    /\ Kept(<<"+">>, Digit) = <<>>
    /\ Kept(<<"0", "0">>, Digit) = <<"0", "0">>
    /\ Kept(<<"9", "8">>, Digit) = <<"9", "8">>
<1>1. "+" \notin Digit /\ "0" \in Digit /\ "9" \in Digit /\ "8" \in Digit
    BY DigitsAre
<1>2. Kept(<<"+">>, Digit) = <<>>
    <2>1. PICK p : p = <<"+">>
        OBVIOUS
    <2>2. p \in Texts /\ \A k \in DOMAIN p : p[k] \notin Digit
        BY <1>1, <2>1, Literals
    <2> QED BY <2>1, <2>2, KeptNone
<1>3. Kept(<<"0", "0">>, Digit) = <<"0", "0">>
    <2>1. PICK p : p = <<"0", "0">>
        OBVIOUS
    <2>2. p \in Texts /\ \A k \in DOMAIN p : p[k] \in Digit
        BY <1>1, <2>1, Literals
    <2> QED BY <2>1, <2>2, KeptAll
<1>4. Kept(<<"9", "8">>, Digit) = <<"9", "8">>
    <2>1. PICK p : p = <<"9", "8">>
        OBVIOUS
    <2>2. p \in Texts /\ \A k \in DOMAIN p : p[k] \in Digit
        BY <1>1, <2>1, Literals
    <2> QED BY <2>1, <2>2, KeptAll
<1> QED BY <1>2, <1>3, <1>4

(* The call abroad: only the digits of a leading "00" are lost. *)
LEMMA DialledIs ==
    ASSUME NEW t \in Texts
    PROVE  /\ Dialled(t) \in Texts
           /\ StartsWith(Seen(t), <<"0", "0">>) =>
                Kept(Seen(t), Digit) = <<"0", "0">> \o Kept(Dialled(t), Digit)
           /\ ~StartsWith(Seen(t), <<"0", "0">>) => Dialled(t) = Seen(t)
<1>1. PICK s \in Texts : s = Seen(t)
    BY SeenIs
<1>2. Dialled(t) = IF StartsWith(s, <<"0", "0">>) THEN <<"+">> \o From(s, 3) ELSE s
    BY <1>1 DEF Dialled, Seen
<1>3. CASE StartsWith(s, <<"0", "0">>)
    <2>1. PICK zeros \in Texts, plus \in Texts : zeros = <<"0", "0">> /\ plus = <<"+">>
        BY Literals
    <2>2. Len(zeros) + 1 = 3
        BY <2>1, Literals
    <2>3. PICK f \in Texts : f = From(s, 3) /\ s = zeros \o f
        BY <1>3, <2>1, <2>2, Fronted
    <2>4. PICK k \in Texts : k = Kept(f, Digit)
        BY KeptIsText
    <2>5. Kept(zeros \o f, Digit) = zeros \o k
        <3>1. \A u \in Texts : Kept(zeros \o u, Digit) = Kept(zeros, Digit) \o Kept(u, Digit)
            BY KeptConcat
        <3>2. Kept(zeros, Digit) = zeros
            BY <2>1, DigitsOnly
        <3> QED BY <2>4, <3>1, <3>2, Zenon
    <2>6. Kept(plus \o f, Digit) = <<>> \o k
        <3>1. \A u \in Texts : Kept(plus \o u, Digit) = Kept(plus, Digit) \o Kept(u, Digit)
            BY KeptConcat
        <3>2. Kept(plus, Digit) = <<>>
            BY <2>1, DigitsOnly
        <3> QED BY <2>4, <3>1, <3>2, Zenon
    <2>7. <<>> \o k = k /\ plus \o f \in Texts
        BY JoinedText DEF Texts
    <2>8. Dialled(t) = plus \o f
        BY <1>2, <1>3, <2>1, <2>3
    <2> QED BY <1>1, <1>3, <2>1, <2>3, <2>5, <2>6, <2>7, <2>8
<1>4. CASE ~StartsWith(s, <<"0", "0">>)
    BY <1>1, <1>2, <1>4
<1> QED BY <1>3, <1>4

(* The country's code or the leading zero *)
LEMMA NationalIs ==
    ASSUME NEW x \in Texts
    PROVE  /\ StartsWith(x, <<"9", "8">>) => National(x) = From(x, 3)
           /\ StartsWith(x, <<"0">>) => National(x) = From(x, 2)
           /\ ~StartsWith(x, <<"9", "8">>) /\ ~StartsWith(x, <<"0">>) => National(x) = x
<1>1. ~(StartsWith(x, <<"9", "8">>) /\ StartsWith(x, <<"0">>))
    BY Beginnings
<1> QED BY <1>1 DEF National

LEMMA NationalPart ==
    ASSUME NEW x \in Texts
    PROVE  /\ National(x) \in Texts
           /\ \E y \in Texts : y \in {<<>>, <<"0">>, <<"9", "8">>} /\ x = y \o National(x)
<1>1. CASE StartsWith(x, <<"9", "8">>)
    <2>1. PICK y \in Texts : y = <<"9", "8">>
        BY Literals
    <2>2. Len(y) + 1 = 3
        BY <2>1, Literals
    <2>3. From(x, 3) \in Texts /\ x = y \o From(x, 3)
        BY <1>1, <2>1, <2>2, Fronted
    <2> QED BY <1>1, <2>1, <2>3, NationalIs
<1>2. CASE StartsWith(x, <<"0">>)
    <2>1. PICK y \in Texts : y = <<"0">>
        BY Literals
    <2>2. Len(y) + 1 = 2
        BY <2>1, Literals
    <2>3. From(x, 2) \in Texts /\ x = y \o From(x, 2)
        BY <1>2, <2>1, <2>2, Fronted
    <2> QED BY <1>2, <2>1, <2>3, NationalIs
<1>3. CASE ~StartsWith(x, <<"9", "8">>) /\ ~StartsWith(x, <<"0">>)
    <2>1. <<>> \in Texts /\ x = <<>> \o x
        BY DEF Texts
    <2> QED BY <1>3, <2>1, NationalIs
<1> QED BY <1>1, <1>2, <1>3
LEMMA NationalAfterCode ==
    ASSUME NEW n \in Texts
    PROVE  National(<<"9", "8">> \o n) = n
<1>1. PICK code \in Texts : code = <<"9", "8">>
    BY Literals
<1>2. Len(code) + 1 = 3 /\ Len(code) = 2 /\ code[1] = "9" /\ code[2] = "8"
    BY <1>1, Literals
<1>3. PICK d : d = code \o n
    OBVIOUS
<1>4. /\ Len(code \o n) = Len(code) + Len(n) /\ Len(n) \in Nat /\ code \o n \in Texts
      /\ \A i \in 1..Len(code) : (code \o n)[i] = code[i]
      /\ From(code \o n, Len(code) + 1) = n
    BY Joined
<1>5. d \in Texts /\ Len(d) >= 2 /\ d[1] = "9" /\ d[2] = "8" /\ From(d, 3) = n
    BY <1>2, <1>3, <1>4
<1>6. National(d) = n
    BY <1>5, Beginnings, NationalIs
<1> QED BY <1>1, <1>3, <1>6

(* The number that is found in a text *)
Found(t) == National(Kept(Dialled(t), Digit))

LEMMA NormalizedIs ==
    ASSUME NEW t \in Texts
    PROVE  /\ Found(t) \in Texts
           /\ normalize_phone(t) # None => IsMobile(Found(t))
           /\ IsMobile(Found(t)) =>
                /\ normalize_phone(t) = <<"+">> \o (<<"9", "8">> \o Found(t))
                /\ normalize_phone(t) = <<"+">> \o <<"9", "8">> \o Found(t)
<1>1. PICK n \in Texts : n = Found(t)
    BY DialledIs, KeptIsText, NationalPart DEF Found
<1>2. normalize_phone(t) = IF IsMobile(n) THEN <<"+", "9", "8">> \o n ELSE None
    BY <1>1 DEF normalize_phone, Found
<1>3. PICK plus \in Texts, code \in Texts : plus = <<"+">> /\ code = <<"9", "8">>
    BY Literals
<1>4. <<"+", "9", "8">> = plus \o code
    <2>1. <<"+", "9", "8">> = <<"+">> \o <<"9", "8">>
        OBVIOUS
    <2> QED BY <1>3, <2>1
<1>5. plus \o code \o n = plus \o (code \o n)
    BY JoinedThrice
<1> QED BY <1>1, <1>2, <1>3, <1>4, <1>5

-----------------------------------------------------------------------------
(* Only the digits of a text decide which number is found. *)
LEMMA DigitsDecideText ==
    ASSUME NEW t \in Texts, NEW d \in Texts, d = Kept(to_english_digits(t), Digit),
           normalize_phone(t) # None
    PROVE  /\ Len(d) >= NationalLength
           /\ From(d, Len(d) - NationalLength + 1) = Found(t)
           /\ \E abroad \in {<<>>, <<"0", "0">>} :
                SubSeq(d, 1, Len(d) - NationalLength)
                    \in {abroad, abroad \o <<"0">>, abroad \o <<"9", "8">>}
<1>1. PICK x \in Texts : x = Kept(Dialled(t), Digit)
    BY DialledIs, KeptIsText
<1>2. PICK n \in Texts : n = Found(t) /\ n = National(x)
    BY <1>1, NormalizedIs DEF Found
<1>3. PICK y \in Texts : y \in {<<>>, <<"0">>, <<"9", "8">>} /\ x = y \o n
    BY <1>2, NationalPart
<1>4. PICK z \in Texts : z \in {<<>>, <<"0", "0">>} /\ d = z \o x
    <2>1. CASE StartsWith(Seen(t), <<"0", "0">>)
        BY <1>1, <2>1, DialledIs, SeenIs, Literals
    <2>2. CASE ~StartsWith(Seen(t), <<"0", "0">>)
        <3>1. d = x
            BY <1>1, <2>2, DialledIs, SeenIs
        <3>2. x = <<>> \o x /\ <<>> \in Texts
            BY DEF Texts
        <3> QED BY <3>1, <3>2
    <2> QED BY <2>1, <2>2
<1>5. PICK p \in Texts : p = z \o y
    BY JoinedText
<1>6. d = p \o n
    <2>1. (z \o y) \o n = z \o (y \o n)
        BY JoinedThrice, Zenon
    <2> QED BY <1>3, <1>4, <1>5, <2>1
<1>7. Len(n) = NationalLength
    BY <1>2, NormalizedIs DEF IsMobile
<1>8. /\ Len(d) = Len(p) + Len(n) /\ Len(p) \in Nat /\ Len(n) \in Nat
      /\ SubSeq(d, 1, Len(p)) = p /\ From(d, Len(p) + 1) = n
    BY <1>6, Joined
<1>9. Len(d) - NationalLength = Len(p) /\ Len(d) >= NationalLength
    BY <1>7, <1>8
<1>10. p \in {z, z \o <<"0">>, z \o <<"9", "8">>}
    <2>1. z \o <<>> = z
        BY DEF Texts
    <2> QED BY <1>3, <1>5, <2>1
<1> QED BY <1>2, <1>4, <1>8, <1>9, <1>10

-----------------------------------------------------------------------------
(* A normal form is its own. *)
LEMMA NormalIsStable ==
    ASSUME NEW n \in Texts, IsMobile(n), \A i \in DOMAIN n : n[i] \in Digit
    PROVE  normalize_phone(<<"+">> \o (<<"9", "8">> \o n)) = <<"+">> \o (<<"9", "8">> \o n)
<1>1. PICK plus \in Texts, code \in Texts : plus = <<"+">> /\ code = <<"9", "8">>
    BY Literals
<1>2. PICK d \in Texts, t \in Texts : d = code \o n /\ t = plus \o d
    BY JoinedText
<1> DEFINE Inky == Digit \cup {"+"}
<1>3. \A i \in DOMAIN n : n[i] \in Inky
    OBVIOUS
<1>4. \A i \in DOMAIN d : d[i] \in Digit
    <2>1. /\ Len(d) = 2 + Len(n) /\ Len(n) \in Nat
          /\ d[1] = "9" /\ d[2] = "8" /\ \A i \in 1..Len(n) : d[2 + i] = n[i]
        <3>1. Len(code) = 2 /\ code[1] = "9" /\ code[2] = "8"
            BY <1>1, Literals
        <3>2. /\ Len(code \o n) = Len(code) + Len(n) /\ Len(n) \in Nat
              /\ \A i \in 1..Len(code) : (code \o n)[i] = code[i]
              /\ \A i \in 1..Len(n) : (code \o n)[Len(code) + i] = n[i]
            BY Joined
        <3> QED BY <1>2, <3>1, <3>2
    <2>2. ASSUME NEW i \in DOMAIN d PROVE d[i] \in Digit
        <3>1. i \in 1..(2 + Len(n)) /\ DOMAIN n = 1..Len(n)
            BY <2>1 DEF Texts
        <3>2. CASE i > 2
            <4>1. i - 2 \in 1..Len(n) /\ 2 + (i - 2) = i
                BY <2>1, <3>1, <3>2
            <4> QED BY <2>1, <3>1, <4>1
        <3>3. CASE i <= 2
            <4>1. i = 1 \/ i = 2
                BY <3>1, <3>3
            <4> QED BY <2>1, <4>1, DigitsAre
        <3> QED BY <3>1, <3>2, <3>3
    <2> QED BY <2>2
<1>5. Len(t) >= 1 /\ t[1] = "+" /\ \A i \in DOMAIN t : t[i] \in Inky
    <2>1. /\ Len(t) = 1 + Len(d) /\ Len(d) \in Nat
          /\ t[1] = "+" /\ \A i \in 1..Len(d) : t[1 + i] = d[i]
        <3>1. Len(plus) = 1 /\ plus[1] = "+"
            BY <1>1, Literals
        <3>2. /\ Len(plus \o d) = Len(plus) + Len(d) /\ Len(d) \in Nat
              /\ \A i \in 1..Len(plus) : (plus \o d)[i] = plus[i]
              /\ \A i \in 1..Len(d) : (plus \o d)[Len(plus) + i] = d[i]
            BY Joined
        <3> QED BY <1>2, <3>1, <3>2
    <2>2. ASSUME NEW i \in DOMAIN t PROVE t[i] \in Inky
        <3>1. i \in 1..(1 + Len(d)) /\ DOMAIN d = 1..Len(d)
            BY <2>1 DEF Texts
        <3>2. CASE i > 1
            <4>1. i - 1 \in 1..Len(d) /\ 1 + (i - 1) = i
                BY <2>1, <3>1, <3>2
            <4>2. t[i] = d[i - 1] /\ d[i - 1] \in Digit
                BY <1>4, <2>1, <3>1, <4>1
            <4> QED BY <4>2
        <3>3. CASE i = 1
            BY <2>1, <3>3
        <3> QED BY <3>1, <3>2, <3>3
    <2> QED BY <2>1, <2>2
<1>6. to_english_digits(t) = t
    BY <1>5, EnglishAlready
<1>7. strip(t) = t
    <2>1. Inky \cap Whitespace = {}
        BY DigitsAre DEF Whitespace
    <2>2. PICK s \in Texts : s = strip(t)
        BY StripParts
    <2>3. \A i \in DOMAIN s : s[i] \in Inky
        BY <1>5, <2>2, StripCharacters
    <2> HIDE DEF Inky
    <2>4. Kept(s, Inky) = s /\ Kept(t, Inky) = t
        BY <1>5, <2>3, KeptAll
    <2>5. Kept(s, Inky) = Kept(t, Inky)
        BY <2>1, <2>2, StripKeeps
    <2> QED BY <2>2, <2>4, <2>5
<1>8. Seen(t) = t
    <2>1. \A i \in DOMAIN t : t[i] \in Chars \ Separators
        <3>1. Inky \subseteq Chars \ Separators
            BY DigitsAre DEF Separators, Chars
        <3> QED BY <1>5, <3>1
    <2> QED BY <1>6, <1>7, <2>1, SeenIs, KeptAll
<1>9. Dialled(t) = t
    <2>1. ~StartsWith(t, <<"0", "0">>)
        BY <1>5, Beginnings
    <2> QED BY <1>8, <2>1, DialledIs
<1>10. Kept(t, Digit) = d
    <2>1. \A u \in Texts : Kept(plus \o u, Digit) = Kept(plus, Digit) \o Kept(u, Digit)
        BY KeptConcat
    <2>2. Kept(plus, Digit) = <<>> /\ Kept(d, Digit) = d
        BY <1>1, <1>4, DigitsOnly, KeptAll
    <2>3. Kept(plus \o d, Digit) = <<>> \o d
        BY <2>1, <2>2, Zenon
    <2>4. <<>> \o d = d
        BY DEF Texts
    <2> QED BY <1>2, <2>3, <2>4
<1>11. National(d) = n
    BY <1>1, <1>2, NationalAfterCode
<1>12. Found(t) = n
    BY <1>9, <1>10, <1>11 DEF Found
<1> QED BY <1>1, <1>2, <1>12, NormalizedIs
-----------------------------------------------------------------------------
(* All usual spellings have one normal form. *)

(* Nothing but digits, a "+" and separators: there is nothing to strip     *)
(* that is not a separator.                                                *)
LEMMA NothingButSeparators ==
    ASSUME NEW t \in Texts,
           \A i \in DOMAIN Without(to_english_digits(t), Separators) :
                Without(to_english_digits(t), Separators)[i] \in Digit \cup {"+"}
    PROVE  Seen(t) = Without(to_english_digits(t), Separators)
<1>1. PICK e \in Texts : e = to_english_digits(t)
    BY EnglishText
<1>2. PICK s \in Texts : s = strip(e)
    BY StripParts
<1> DEFINE Inky == Digit \cup {"+"}
           Rest == Chars \ Separators
<1>3. PICK k \in Texts : k = Kept(e, Rest)
    BY KeptIsText
<1>4. Without(to_english_digits(t), Separators) = k
    BY <1>1, <1>3, WithoutIs
<1>5. \A i \in DOMAIN e : e[i] \in Rest => e[i] \in Inky
    <2>1. \A i \in DOMAIN k : k[i] \in Inky
        BY <1>4
    <2> HIDE DEF Inky, Rest
    <2>2. ASSUME NEW i \in DOMAIN e, e[i] \in Rest PROVE e[i] \in Inky
        <3>1. \E j \in DOMAIN k : k[j] = e[i]
            BY <1>3, <2>2, KeptSome
        <3> QED BY <2>1, <3>1
    <2> QED BY <2>2
<1>6. Inky \subseteq Rest /\ Inky \cap Whitespace = {}
    BY DigitsAre DEF Separators, Chars, Whitespace
<1> HIDE DEF Inky, Rest
<1>7. Kept(e, Rest) = Kept(e, Inky)
    <2>1. \A i \in DOMAIN e : e[i] \in Rest <=> e[i] \in Inky
        BY <1>5, <1>6
    <2> QED BY <2>1, KeptSame
<1>8. Kept(s, Rest) = Kept(s, Inky)
    <2>1. ASSUME NEW i \in DOMAIN s PROVE s[i] \in Rest <=> s[i] \in Inky
        <3>1. \E j \in DOMAIN e : e[j] = s[i]
            BY <1>2, StripCharacters
        <3> QED BY <1>5, <1>6, <3>1
    <2> QED BY <2>1, KeptSame
<1>9. Kept(s, Inky) = Kept(e, Inky)
    BY <1>2, <1>6, StripKeeps
<1>10. Seen(t) = Kept(s, Rest)
    BY <1>1, <1>2, SeenIs DEF Rest
<1> QED BY <1>3, <1>4, <1>7, <1>8, <1>9, <1>10

(* s, all that is not a separator, spells the number n after the prefix p. *)
Spells(s, d, p, n) ==
    /\ d = p \o n /\ Len(n) = NationalLength /\ n[1] = "9"
    /\ \/ s = d /\ p \in {<<>>, <<"0">>, <<"9", "8">>, <<"0", "0">> \o <<"9", "8">>}
       \/ s = <<"+">> \o d /\ p = <<"9", "8">>
    /\ p = <<>> => ~StartsWith(n, <<"9", "8">>)

LEMMA SpellingsMeetText ==
    ASSUME NEW t \in Texts,
           NEW d \in Texts, d = Kept(to_english_digits(t), Digit),
           NEW s \in Texts, s = Without(to_english_digits(t), Separators),
           NEW p \in Texts, NEW n \in Texts, Spells(s, d, p, n)
    PROVE  Found(t) = n
<1> USE DEF Spells
<1>1. NationalLength \in Nat /\ NationalLength >= 1 /\ IsMobile(n)
    BY PhoneNumberAssumption DEF IsMobile
<1>2. \A i \in DOMAIN d : d[i] \in Digit
    BY EnglishText, KeptIsText
<1>3. \A i \in DOMAIN s : s[i] \in Digit \cup {"+"}
    <2>1. CASE s = d
        BY <1>2, <2>1
    <2>2. CASE s = <<"+">> \o d
        <3>1. PICK plus \in Texts : plus = <<"+">>
            BY Literals
        <3>2. Len(plus) = 1 /\ plus[1] = "+"
            BY <3>1, Literals
        <3>3. /\ Len(plus \o d) = Len(plus) + Len(d) /\ Len(d) \in Nat
              /\ \A i \in 1..Len(plus) : (plus \o d)[i] = plus[i]
              /\ \A i \in 1..Len(d) : (plus \o d)[Len(plus) + i] = d[i]
            BY Joined
        <3>4. /\ Len(s) = 1 + Len(d) /\ s[1] = "+"
              /\ \A i \in 1..Len(d) : s[1 + i] = d[i]
            BY <2>2, <3>1, <3>2, <3>3
        <3>5. ASSUME NEW i \in DOMAIN s PROVE s[i] \in Digit \cup {"+"}
            <4>1. i \in 1..(1 + Len(d)) /\ DOMAIN d = 1..Len(d)
                BY <3>4 DEF Texts
            <4>2. CASE i > 1
                <5>1. i - 1 \in 1..Len(d) /\ 1 + (i - 1) = i
                    BY <3>3, <4>1, <4>2
                <5>2. s[i] = d[i - 1] /\ d[i - 1] \in Digit
                    BY <1>2, <3>4, <4>1, <5>1
                <5> QED BY <5>2
            <4>3. CASE i = 1
                BY <3>4, <4>3
            <4> QED BY <4>1, <4>2, <4>3
        <3> QED BY <3>5
    <2> QED BY <2>1, <2>2
<1>4. Seen(t) = s
    BY <1>3, NothingButSeparators
<1>5. Kept(s, Digit) = d
    BY <1>4, SeenIs
<1>6. /\ d \in Texts /\ Len(d) = Len(p) + Len(n) /\ Len(p) \in Nat /\ Len(n) \in Nat
      /\ \A i \in 1..Len(p) : d[i] = p[i]
      /\ \A i \in 1..Len(n) : d[Len(p) + i] = n[i]
      /\ SubSeq(d, 1, Len(p)) = p /\ From(d, Len(p) + 1) = n
    BY JoinedAs, Zenon
(* Where no call abroad is dialled with "00", the digits are left. *)
<1>7. ASSUME ~StartsWith(s, <<"0", "0">>)
      PROVE  Found(t) = National(d)
    BY <1>4, <1>5, <1>7, DialledIs DEF Found
<1>8. ASSUME p = <<"9", "8">>
      PROVE  Found(t) = n
    <2>1. Len(p) = 2 /\ p[1] = "9" /\ p[2] = "8"
        BY <1>8, Literals
    <2>2. Len(d) >= 2 /\ d[1] = "9" /\ d[2] = "8" /\ From(d, 3) = n
        BY <1>6, <2>1
    <2>3. s[1] # "0"
        <3>1. CASE s = d
            BY <2>2, <3>1
        <3>2. CASE s = <<"+">> \o d
            BY <3>2, Literals, Joined
        <3> QED BY <3>1, <3>2
    <2>4. ~StartsWith(s, <<"0", "0">>)
        BY <2>3, Beginnings
    <2>5. National(d) = n
        BY <2>2, Beginnings, NationalIs
    <2> QED BY <1>7, <2>4, <2>5
<1>9. ASSUME p = <<>>, s = d
      PROVE  Found(t) = n
    <2>1. d = n
        BY <1>9 DEF Texts
    <2>2. ~StartsWith(d, <<"0", "0">>) /\ ~StartsWith(d, <<"0">>)
        BY <2>1, Beginnings
    <2>3. National(d) = n
        BY <1>9, <2>1, <2>2, NationalIs
    <2> QED BY <1>7, <1>9, <2>2, <2>3
<1>10. ASSUME p = <<"0">>, s = d
       PROVE  Found(t) = n
    <2>1. Len(p) = 1 /\ p[1] = "0"
        BY <1>10, Literals
    <2>2. d[1] = "0" /\ d[2] = "9" /\ Len(d) >= 2 /\ From(d, 2) = n
        BY <1>1, <1>6, <2>1
    <2>3. ~StartsWith(d, <<"0", "0">>) /\ StartsWith(d, <<"0">>)
        <3>1. d[2] # "0" /\ d[1] = "0" /\ Len(d) >= 1
            BY <1>6, <2>2
        <3> QED BY <3>1, Beginnings
    <2>4. National(d) = n
        BY <2>2, <2>3, NationalIs
    <2> QED BY <1>7, <1>10, <2>3, <2>4
<1>11. ASSUME p = <<"0", "0">> \o <<"9", "8">>, s = d
       PROVE  Found(t) = n
    <2>1. PICK zeros \in Texts, code \in Texts : zeros = <<"0", "0">> /\ code = <<"9", "8">>
        BY Literals
    <2>2. PICK b \in Texts : b = code \o n
        BY JoinedText
    <2>3. d = zeros \o b
        <3>1. (zeros \o code) \o n = zeros \o (code \o n)
            BY JoinedThrice, Zenon
        <3> QED BY <1>11, <2>1, <2>2, <3>1
    <2>4. Len(zeros) = 2 /\ zeros[1] = "0" /\ zeros[2] = "0"
        BY <2>1, Literals
    <2>5. /\ Len(d) = Len(zeros) + Len(b) /\ Len(b) \in Nat
          /\ (\A i \in 1..Len(zeros) : d[i] = zeros[i]) /\ From(d, Len(zeros) + 1) = b
        BY <2>3, Joined
    <2>6. Len(d) >= 2 /\ d[1] = "0" /\ d[2] = "0" /\ From(d, 3) = b
        BY <2>4, <2>5
    <2>7. PICK x \in Texts : x = Kept(Dialled(t), Digit)
        BY DialledIs, KeptIsText
    <2>8. d = zeros \o x
        BY <1>4, <1>5, <1>11, <2>1, <2>6, <2>7, Beginnings, DialledIs
    <2>9. From(d, Len(zeros) + 1) = x
        BY <2>8, Joined
    <2>10. x = b
        BY <2>5, <2>9
    <2>11. National(b) = n
        BY <2>1, <2>2, NationalAfterCode
    <2> QED BY <2>7, <2>10, <2>11 DEF Found
<1> QED BY <1>8, <1>9, <1>10, <1>11
-----------------------------------------------------------------------------
(* The properties, of any text *)

LEMMA FoundDigits ==
    ASSUME NEW t \in Texts
    PROVE  \A i \in DOMAIN Found(t) : Found(t)[i] \in Digit
<1>1. PICK x \in Texts : x = Kept(Dialled(t), Digit)
    BY DialledIs, KeptIsText
<1>2. \A k \in DOMAIN x : x[k] \in Digit
    BY <1>1, DialledIs, KeptIsText
<1>3. PICK n \in Texts : n = Found(t) /\ n = National(x)
    BY <1>1, NormalizedIs DEF Found
<1>4. PICK y \in Texts : x = y \o n
    BY <1>3, NationalPart
<1>5. /\ Len(x) = Len(y) + Len(n) /\ Len(y) \in Nat /\ Len(n) \in Nat
      /\ \A i \in 1..Len(n) : x[Len(y) + i] = n[i]
    BY <1>4, Joined
<1>6. DOMAIN x = 1..Len(x) /\ DOMAIN n = 1..Len(n)
    BY DEF Texts
<1>7. ASSUME NEW i \in DOMAIN n PROVE n[i] \in Digit
    <2>1. Len(y) + i \in DOMAIN x /\ i \in 1..Len(n)
        BY <1>5, <1>6
    <2> QED BY <1>2, <1>5, <2>1
<1> QED BY <1>3, <1>7

LEMMA TextIsStable ==
    ASSUME NEW t \in Texts, normalize_phone(t) # None
    PROVE  normalize_phone(normalize_phone(t)) = normalize_phone(t)
<1>1. PICK n \in Texts : n = Found(t)
    BY NormalizedIs
<1>2. IsMobile(n) /\ normalize_phone(t) = <<"+">> \o (<<"9", "8">> \o n)
    BY <1>1, NormalizedIs
<1>3. \A i \in DOMAIN n : n[i] \in Digit
    BY <1>1, FoundDigits
<1> QED BY <1>2, <1>3, NormalIsStable
-----------------------------------------------------------------------------
(* A text that was stripped before *)

Inked(t, x, y) ==
    /\ x \in DOMAIN t /\ t[x] \notin Whitespace /\ y \in DOMAIN t /\ t[y] \notin Whitespace
    /\ \A i \in DOMAIN t : t[i] \notin Whitespace => (x <= i /\ i <= y)

LEMMA InkedBetween ==
    ASSUME NEW t \in Texts, ~IsBlank(t)
    PROVE  \E x, y \in DOMAIN t : x <= y /\ Inked(t, x, y)
<1> DEFINE ink == {i \in DOMAIN t : t[i] \notin Whitespace}
<1>1. Len(t) \in Nat /\ DOMAIN t = 1..Len(t)
    BY DEF Texts
<1>2. ink \in SUBSET 1..Len(t) /\ ink # {}
    BY <1>1 DEF IsBlank
<1>3. PICK x, y : x = SetsExt!Min(ink) /\ y = SetsExt!Max(ink)
    OBVIOUS
<1>4. /\ x \in ink /\ \A i \in ink : x <= i
      /\ y \in ink /\ \A i \in ink : i <= y
    <2> HIDE DEF ink
    <2> QED BY <1>1, <1>2, <1>3, EndsOf
<1>5. x <= y
    BY <1>4
<1>6. Inked(t, x, y)
    BY <1>4 DEF Inked
<1> QED BY <1>4, <1>5, <1>6

LEMMA StripIs ==
    ASSUME NEW t \in Texts
    PROVE  /\ IsBlank(t) => strip(t) = <<>>
           /\ \A x, y \in DOMAIN t : Inked(t, x, y) => strip(t) = SubSeq(t, x, y)
<1> DEFINE ink == {i \in DOMAIN t : t[i] \notin Whitespace}
<1>1. Len(t) \in Nat /\ DOMAIN t = 1..Len(t)
    BY DEF Texts
<1>2. strip(t) = IF ink = {} THEN <<>> ELSE SubSeq(t, SetsExt!Min(ink), SetsExt!Max(ink))
    BY DEF strip
<1>3. ASSUME IsBlank(t) PROVE strip(t) = <<>>
    BY <1>2, <1>3 DEF IsBlank
<1>4. ASSUME NEW x \in DOMAIN t, NEW y \in DOMAIN t, Inked(t, x, y)
      PROVE  strip(t) = SubSeq(t, x, y)
    <2>1. PICK u, v : u = SetsExt!Min(ink) /\ v = SetsExt!Max(ink)
        OBVIOUS
    <2>2. /\ ink \in SUBSET 1..Len(t) /\ x \in ink /\ y \in ink
          /\ \A i \in ink : x <= i /\ i <= y
        BY <1>1, <1>4 DEF Inked
    <2> HIDE DEF ink
    <2>3. /\ u \in ink /\ \A i \in ink : u <= i
          /\ v \in ink /\ \A i \in ink : i <= v
        BY <1>1, <2>1, <2>2, EndsOf
    <2>4. u = x
        <3>1. u \in Nat /\ x \in Nat /\ u <= x /\ x <= u
            BY <1>1, <2>2, <2>3
        <3> QED BY <3>1
    <2>5. v = y
        <3>1. v \in Nat /\ y \in Nat /\ v <= y /\ y <= v
            BY <1>1, <2>2, <2>3
        <3> QED BY <3>1
    <2> QED BY <1>2, <2>1, <2>2, <2>4, <2>5
<1> QED BY <1>3, <1>4

(* The part of a text between its ends, and that part's own ends *)
LEMMA StripTwice ==
    ASSUME NEW t \in Texts
    PROVE  strip(strip(t)) = strip(t)
<1>1. CASE IsBlank(t)
    <2>1. strip(t) = <<>>
        BY <1>1, StripIs
    <2>2. PICK u : u = <<>>
        OBVIOUS
    <2>3. u \in Texts /\ IsBlank(u)
        BY <2>2 DEF Texts, IsBlank
    <2> QED BY <2>1, <2>2, <2>3, StripIs
<1>2. CASE ~IsBlank(t)
    <2>1. PICK x, y \in DOMAIN t : x <= y /\ Inked(t, x, y)
        BY <1>2, InkedBetween
    <2>2. Len(t) \in Nat /\ DOMAIN t = 1..Len(t) /\ x \in Int /\ y \in Int
        BY <2>1 DEF Texts
    <2>3. PICK s : s = SubSeq(t, x, y)
        OBVIOUS
    <2>4. PICK n : n = y - x + 1
        OBVIOUS
    <2>5. x \in 1..(Len(t) + 1) /\ y \in (x - 1)..Len(t) /\ n \in Nat /\ n >= 1
        BY <2>1, <2>2, <2>4
    <2>6. s \in Texts /\ Len(s) = n /\ \A k \in 1..n : s[k] = t[x + k - 1]
        BY <2>3, <2>4, <2>5, PartOf
    <2>7. DOMAIN s = 1..n
        BY <2>6 DEF Texts
    <2>8. s[1] = t[x] /\ s[n] = t[y]
        <3>1. 1 \in 1..n /\ n \in 1..n /\ x + 1 - 1 = x /\ x + n - 1 = y
            BY <2>2, <2>4, <2>5
        <3> QED BY <2>6, <3>1
    <2>9. Inked(s, 1, n)
        <3>1. 1 \in 1..n /\ n \in 1..n /\ \A i \in 1..n : 1 <= i /\ i <= n
            BY <2>5
        <3> QED BY <2>1, <2>7, <2>8, <3>1 DEF Inked
    <2>10. strip(s) = SubSeq(s, 1, n)
        <3>1. 1 \in DOMAIN s /\ n \in DOMAIN s
            BY <2>5, <2>7
        <3> QED BY <2>6, <2>9, <3>1, StripIs
    <2>11. SubSeq(s, 1, n) = s
        BY <2>6, WholeText
    <2>12. strip(t) = s
        BY <2>1, <2>3, StripIs
    <2> QED BY <2>10, <2>11, <2>12
<1> QED BY <1>1, <1>2

(* What to_english_digits makes of a character *)
English(c) ==
    IF \E d \in 1..10 : c = PersianDigits[d]
    THEN EnglishDigits[CHOOSE d \in 1..10 : c = PersianDigits[d]]
    ELSE c

LEMMA EnglishIs ==
    ASSUME NEW t \in Texts
    PROVE  \A i \in DOMAIN t : to_english_digits(t)[i] = English(t[i])
BY DEF to_english_digits, English

LEMMA EnglishSpace ==
    ASSUME NEW c
    PROVE  English(c) \in Whitespace <=> c \in Whitespace
<1>1. CASE \E d \in 1..10 : c = PersianDigits[d]
    <2> DEFINE e == CHOOSE d \in 1..10 : c = PersianDigits[d]
    <2>1. e \in 1..10 /\ c = PersianDigits[e]
        BY <1>1
    <2>2. English(c) = EnglishDigits[e]
        BY <1>1 DEF English
    <2> HIDE DEF e
    <2>3. English(c) \in Digit
        BY <2>1, <2>2, EnglishCharacters
    <2>4. English(c) \notin Whitespace
        BY <2>3, DigitsAre DEF Whitespace
    <2>5. c \notin Whitespace
        <3>1. \A d \in 1..10 : PersianDigits[d] \notin Whitespace
            <4>1. 1..10 = {1, 2, 3, 4, 5, 6, 7, 8, 9, 10}
                OBVIOUS
            <4>2. /\ PersianDigits[1] = "p0" /\ PersianDigits[2] = "p1"
                  /\ PersianDigits[3] = "p2" /\ PersianDigits[4] = "p3"
                  /\ PersianDigits[5] = "p4" /\ PersianDigits[6] = "p5"
                  /\ PersianDigits[7] = "p6" /\ PersianDigits[8] = "p7"
                  /\ PersianDigits[9] = "p8" /\ PersianDigits[10] = "p9"
                BY DEF PersianDigits
            <4> QED BY <4>1, <4>2 DEF Whitespace
        <3> QED BY <2>1, <3>1
    <2> QED BY <2>4, <2>5
<1>2. CASE ~ \E d \in 1..10 : c = PersianDigits[d]
    BY <1>2 DEF English
<1> QED BY <1>1, <1>2

LEMMA EnglishPart ==
    ASSUME NEW t \in Texts, NEW x \in DOMAIN t, NEW y \in DOMAIN t, x <= y
    PROVE  to_english_digits(SubSeq(t, x, y)) = SubSeq(to_english_digits(t), x, y)
<1>1. PICK e \in Texts : e = to_english_digits(t) /\ Len(e) = Len(t)
    BY EnglishText
<1>2. /\ Len(t) \in Nat /\ DOMAIN t = 1..Len(t) /\ x \in Int /\ y \in Int
    BY DEF Texts
<1>3. x \in 1..(Len(t) + 1) /\ y \in (x - 1)..Len(t) /\ y - x + 1 \in Nat
    BY <1>2
<1>4. PICK s, u, n : s = SubSeq(t, x, y) /\ u = SubSeq(e, x, y) /\ n = y - x + 1
    OBVIOUS
<1>5. s \in Texts /\ Len(s) = n /\ \A k \in 1..n : s[k] = t[x + k - 1]
    BY <1>3, <1>4, PartOf
<1>6. u \in Texts /\ Len(u) = n /\ \A k \in 1..n : u[k] = e[x + k - 1]
    <2>1. x \in 1..(Len(e) + 1) /\ y \in (x - 1)..Len(e)
        BY <1>1, <1>3
    <2>2. /\ SubSeq(e, x, y) \in Texts /\ Len(SubSeq(e, x, y)) = y - x + 1
          /\ \A k \in 1..(y - x + 1) : SubSeq(e, x, y)[k] = e[x + k - 1]
        BY <2>1, PartOf
    <2> QED BY <1>4, <2>2
<1>7. PICK v \in Texts : v = to_english_digits(s) /\ Len(v) = n
    BY <1>5, EnglishText
<1>8. DOMAIN s = 1..n
    BY <1>5 DEF Texts
<1>9. ASSUME NEW k \in 1..n PROVE v[k] = u[k]
    <2>1. x + k - 1 \in DOMAIN t
        BY <1>2, <1>4
    <2>2. v[k] = English(s[k])
        BY <1>5, <1>7, <1>8, EnglishIs
    <2>3. e[x + k - 1] = English(t[x + k - 1])
        BY <1>1, <2>1, EnglishIs
    <2> QED BY <1>5, <1>6, <2>2, <2>3
<1>10. v = u
    BY <1>6, <1>7, <1>9, SeqEqual DEF Texts
<1> QED BY <1>1, <1>4, <1>7, <1>10

LEMMA StripEnglish ==
    ASSUME NEW t \in Texts
    PROVE  strip(to_english_digits(t)) = to_english_digits(strip(t))
<1>1. PICK e \in Texts : e = to_english_digits(t) /\ Len(e) = Len(t)
    BY EnglishText
<1>2. DOMAIN e = DOMAIN t
    BY <1>1 DEF Texts
<1>3. \A i \in DOMAIN t : e[i] \in Whitespace <=> t[i] \in Whitespace
    BY <1>1, EnglishIs, EnglishSpace
<1>4. CASE IsBlank(t)
    <2>1. IsBlank(e)
        BY <1>2, <1>3, <1>4 DEF IsBlank
    <2>2. strip(t) = <<>> /\ strip(e) = <<>>
        BY <1>4, <2>1, StripIs
    <2>3. to_english_digits(<<>>) = <<>>
        <3>1. PICK u : u = <<>>
            OBVIOUS
        <3>2. u \in Texts /\ Len(u) = 0
            BY <3>1 DEF Texts
        <3>3. to_english_digits(u) \in Seq(Chars) /\ Len(to_english_digits(u)) = 0
            BY <3>2, EnglishText DEF Texts
        <3>4. to_english_digits(u) = <<>>
            BY <3>3
        <3> QED BY <3>1, <3>4
    <2> QED BY <1>1, <2>2, <2>3
<1>5. CASE ~IsBlank(t)
    <2>1. PICK x, y \in DOMAIN t : x <= y /\ Inked(t, x, y)
        BY <1>5, InkedBetween
    <2>2. Inked(e, x, y)
        BY <1>2, <1>3, <2>1 DEF Inked
    <2>3. strip(t) = SubSeq(t, x, y) /\ strip(e) = SubSeq(e, x, y)
        BY <1>2, <2>1, <2>2, StripIs
    <2> QED BY <1>1, <2>1, <2>3, EnglishPart
<1> QED BY <1>4, <1>5

(* A stripped text is as good as the text. *)
LEMMA NormalizedStripped ==
    ASSUME NEW t \in Texts
    PROVE  normalize_phone(strip(t)) = normalize_phone(t)
<1>1. PICK s \in Texts : s = strip(t)
    BY StripParts
<1>2. strip(to_english_digits(s)) = to_english_digits(strip(s))
    BY StripEnglish
<1>3. strip(s) = s
    BY <1>1, StripTwice
<1>4. strip(to_english_digits(s)) = strip(to_english_digits(t))
    BY <1>1, <1>2, <1>3, StripEnglish
<1>5. Dialled(s) = Dialled(t)
    BY <1>4 DEF Dialled
<1> QED BY <1>1, <1>5 DEF normalize_phone

(* There is no number in a blank text, nor in the text None. *)
LEMMA NumbersHaveDigits ==
    ASSUME NEW t \in Texts, normalize_phone(t) # None
    PROVE  \E i \in DOMAIN t : English(t[i]) \in Digit
<1>1. PICK e \in Texts : e = to_english_digits(t) /\ Len(e) = Len(t)
    BY EnglishText
<1>2. DOMAIN e = DOMAIN t /\ \A i \in DOMAIN t : e[i] = English(t[i])
    BY <1>1, EnglishIs DEF Texts
<1>3. PICK d \in Texts : d = Kept(e, Digit)
    BY KeptIsText
<1>4. Len(d) >= NationalLength
    BY <1>1, <1>3, DigitsDecideText
<1>5. d # <<>>
    <2>1. NationalLength >= 1 /\ Len(<<>>) = 0 /\ NationalLength \in Nat
        BY PhoneNumberAssumption, Literals
    <2> QED BY <1>4, <2>1
<1>6. ~ \A i \in DOMAIN e : e[i] \notin Digit
    BY <1>3, <1>5, KeptNone
<1> QED BY <1>2, <1>6

-----------------------------------------------------------------------------
(* What a sheet is read as *)

LEMMA TheColumn ==
    ASSUME NEW headers \in Seq(Headers), NEW column \in Columns(headers, "phone"),
           \A i \in Columns(headers, "phone") : column <= i, Columns(headers, "name") # {}
    PROVE  _map_headers(headers)[2] = column
<1> DEFINE phones == Columns(headers, "phone")
<1>1. Len(headers) \in Nat /\ DOMAIN headers = 1..Len(headers)
    OBVIOUS
<1>2. phones \in SUBSET 1..Len(headers) /\ column \in phones /\ \A i \in phones : column <= i
    BY <1>1 DEF Columns
<1>3. _map_headers(headers)[2] = SetsExt!Min(phones)
    BY <1>2 DEF _map_headers
<1> HIDE DEF phones
<1>4. SetsExt!Min(phones) \in phones /\ \A i \in phones : SetsExt!Min(phones) <= i
    BY <1>1, <1>2, EndsOf
<1>5. PICK x : x = SetsExt!Min(phones)
    OBVIOUS
<1>6. x \in phones /\ x <= column /\ column <= x
    BY <1>2, <1>4, <1>5
<1>7. x \in Nat /\ column \in Nat
    BY <1>1, <1>2, <1>6
<1>8. x = column
    BY <1>6, <1>7
<1> QED BY <1>3, <1>5, <1>8

(* A cell with a number is a text that is not blank. *)
LEMMA NumberCell ==
    ASSUME NEW v \in Texts, normalize_phone(v) # None
    PROVE  v # Missing /\ strip(v) # <<>>
<1>1. PICK i \in DOMAIN v : English(v[i]) \in Digit
    BY NumbersHaveDigits
<1>2. v # Missing
    <2>1. ASSUME v = Missing PROVE FALSE
        <3>1. v[i] = "None"
            BY <2>1 DEF Missing
        <3>2. \A d \in 1..10 : PersianDigits[d] # "None"
            <4>1. 1..10 = {1, 2, 3, 4, 5, 6, 7, 8, 9, 10}
                OBVIOUS
            <4> QED BY <4>1 DEF PersianDigits
        <3>3. English(v[i]) = "None"
            BY <3>1, <3>2 DEF English
        <3> QED BY <1>1, <3>3, DigitsAre
    <2> QED BY <2>1
<1>3. strip(v) # <<>>
    <2>1. ASSUME strip(v) = <<>> PROVE FALSE
        <3>1. PICK u : u = <<>>
            OBVIOUS
        <3>2. u \in Texts /\ DOMAIN u = {} /\ normalize_phone(u) # None
            BY <2>1, <3>1, NormalizedStripped, Literals
        <3> QED BY <3>2, NumbersHaveDigits
    <2> QED BY <2>1
<1> QED BY <1>2, <1>3

(* A row that is kept is one of those that are read. *)
LEMMA KeptRow ==
    ASSUME NEW S, NEW t \in Seq(S), NEW chars, NEW k \in DOMAIN t, t[k] \in chars
    PROVE  \E j \in DOMAIN Kept(t, chars) : Kept(t, chars)[j] = t[k]
<1>1. \A u \in Seq(S) : \A i \in DOMAIN u :
        u[i] \in chars => \E j \in DOMAIN Kept(u, chars) : Kept(u, chars)[j] = u[i]
    BY ONLY KeptSomeAny
<1> QED BY <1>1

(* A number in the phone column is that of one of the rows the sheet is    *)
(* read as.                                                                *)
LEMMA NumberParsed ==
    ASSUME NEW s \in Sheet, Readable(s), NEW k \in DOMAIN s.rows,
           NEW column \in Columns(s.headers, "phone"),
           \A i \in Columns(s.headers, "phone") : column <= i, column \in DOMAIN s.rows[k],
           normalize_phone(s.rows[k][column]) # None
    PROVE  \E j \in DOMAIN parse_contacts_file(s) :
            normalize_phone(parse_contacts_file(s)[j].phone) = normalize_phone(s.rows[k][column])
<1>1. PICK headers, rows, values, v :
        headers = s.headers /\ rows = s.rows /\ values = s.rows[k] /\ v = s.rows[k][column]
    OBVIOUS
<1>2. /\ headers \in Seq(Headers) /\ rows \in Seq(Seq(Seq(STRING)))
      /\ values \in Seq(Seq(STRING)) /\ v \in Seq(STRING)
    <2>1. s.headers \in Seq(Headers) /\ s.rows \in Seq(Seq(Seq(STRING)))
        BY DEF Sheet
    <2>2. PICK T : T = Seq(STRING)
        OBVIOUS
    <2>3. PICK U : U = Seq(T)
        OBVIOUS
    <2>4. rows \in Seq(U) /\ values \in U
        BY <1>1, <2>1, <2>2, <2>3
    <2>5. v \in T
        BY <1>1, <2>3, <2>4
    <2> QED BY <1>1, <2>1, <2>2, <2>3, <2>4, <2>5
<1>3. v \in Texts
    BY <1>2 DEF Texts, Chars
<1>4. v # Missing /\ strip(v) # <<>>
    BY <1>1, <1>3, NumberCell
<1>5. ~Blank(values)
    BY <1>1, <1>4 DEF Blank
<1> DEFINE R == {rows[i] : i \in {i \in DOMAIN rows : ~Blank(rows[i])}}
<1>6. parse_contacts_file(s)
        = [j \in DOMAIN Kept(rows, R) |-> _row_to_parsed(Kept(rows, R)[j], headers)]
    BY <1>1 DEF parse_contacts_file
<1>7. rows[k] \in R /\ k \in DOMAIN rows /\ rows[k] = values
    BY <1>1, <1>5
<1> HIDE DEF R
<1>8. PICK j \in DOMAIN Kept(rows, R) : Kept(rows, R)[j] = values
    <2>1. PICK T, filled : T = Seq(Seq(STRING)) /\ filled = R
        OBVIOUS
    <2>2. rows \in Seq(T)
        BY <1>2, <2>1
    <2>3. \E j \in DOMAIN Kept(rows, filled) : Kept(rows, filled)[j] = rows[k]
        BY <1>7, <2>1, <2>2, KeptRow
    <2> QED BY <1>7, <2>1, <2>3
<1>9. _map_headers(headers)[2] = column
    <2>1. Columns(headers, "phone") # {}
        BY <1>1
    <2>2. Columns(headers, "name") # {}
        BY <1>1, <2>1 DEF Readable
    <2> QED BY <1>1, <1>2, <2>2, TheColumn
<1>10. _row_to_parsed(values, headers).phone = strip(v)
    <2>1. column <= Len(values) /\ values[column] = v
        BY <1>1, <1>2
    <2>2. _row_to_parsed(values, headers).phone = Cell(values, column)
        BY <1>9 DEF _row_to_parsed
    <2> QED BY <1>4, <2>1, <2>2 DEF Cell, Text
<1>11. j \in DOMAIN parse_contacts_file(s) /\ parse_contacts_file(s)[j].phone = strip(v)
    BY <1>6, <1>8, <1>10
<1>12. normalize_phone(strip(v)) = normalize_phone(v)
    BY <1>3, NormalizedStripped
<1> QED BY <1>1, <1>11, <1>12
=============================================================================
