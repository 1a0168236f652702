----------------------------- MODULE Web_proofs -----------------------------
(***************************************************************************)
(* Proofs about what the daemon passes on: the output of a terminal, the   *)
(* bytes of a streamed picture, the cookies and Locations of a proxied     *)
(* application, and the frames of a bridge.                                *)
(***************************************************************************)
EXTENDS Terminal, Relay, Proxy, Frames, SequenceTheorems, WellFoundedInduction, TLAPS

-----------------------------------------------------------------------------
(* Sequences of numbers: what is moved from the front of one to the back of *)
(* another is not moved in the line they make.                              *)

LEMMA CountNext ==
    ASSUME NEW n \in Nat
    PROVE  /\ Count(n) \in Seq(Nat)
           /\ Count(n + 1) = Append(Count(n), n + 1)
<1>1. Count(n) \in [1..n -> Nat] /\ Count(n + 1) \in [1..(n + 1) -> Nat]
  BY DEF Count
<1>2. \A m \in Nat : \A s \in [1..m -> Nat] : s \in Seq(Nat) /\ Len(s) = m
  OBVIOUS
<1>3. /\ Count(n) \in Seq(Nat) /\ Len(Count(n)) = n
      /\ Count(n + 1) \in Seq(Nat) /\ Len(Count(n + 1)) = n + 1
  BY <1>1, <1>2
<1> DEFINE longer == Append(Count(n), n + 1)
<1>4. /\ longer \in Seq(Nat) /\ Len(longer) = n + 1 /\ longer[n + 1] = n + 1
      /\ \A i \in 1..n : longer[i] = i
  BY <1>3, AppendProperties DEF Count
<1>5. \A i \in 1..(n + 1) : Count(n + 1)[i] = longer[i]
  BY <1>4 DEF Count
<1> HIDE DEF longer
<1>6. Count(n + 1) = longer
  BY <1>3, <1>4, <1>5, SeqEqual
<1> QED BY <1>3, <1>6 DEF longer

LEMMA CountNone == Count(0) = <<>>
<1>1. Count(0) \in [1..0 -> Nat]
  BY DEF Count
<1> QED BY <1>1

LEMMA AppendTyped ==
    ASSUME NEW s \in Seq(Nat), NEW x \in Nat
    PROVE  Append(s, x) \in Seq(Nat) /\ Append(s, x) # <<>>
  BY AppendProperties

LEMMA AppendAtEnd ==
    ASSUME NEW s \in Seq(Nat), NEW t \in Seq(Nat), NEW x \in Nat
    PROVE  s \o Append(t, x) = Append(s \o t, x)
<1>1. Append(t, x) = t \o <<x>> /\ <<x>> \in Seq(Nat) /\ s \o t \in Seq(Nat)
  BY AppendIsConcat, ConcatProperties
<1>2. Append(s \o t, x) = (s \o t) \o <<x>>
  BY <1>1, AppendIsConcat
<1> QED BY <1>1, <1>2, ConcatAssociative

LEMMA HeadAndTail ==
    ASSUME NEW t \in Seq(Nat), t # <<>>
    PROVE  /\ Head(t) \in Nat /\ Tail(t) \in Seq(Nat)
           /\ <<Head(t)>> \in Seq(Nat)
           /\ <<Head(t)>> \o Tail(t) = t
<1>1. Head(t) \in Nat /\ Tail(t) \in Seq(Nat) /\ Len(Tail(t)) = Len(t) - 1
      /\ \A i \in 1..Len(Tail(t)) : Tail(t)[i] = t[i + 1]
  BY HeadTailProperties
<1>2. Head(t) = t[1] /\ Len(t) \in Nat \ {0}
  BY EmptySeq
<1> DEFINE h == <<Head(t)>>
           rest == Tail(t)
<1>3. h \in Seq(Nat) /\ Len(h) = 1 /\ h[1] = t[1]
  BY <1>1, <1>2
<1> HIDE DEF h
<1>4. /\ h \o Tail(t) \in Seq(Nat) /\ Len(h \o Tail(t)) = Len(t)
      /\ \A i \in 1..Len(t) : (h \o Tail(t))[i] = IF i <= 1 THEN h[i] ELSE Tail(t)[i - 1]
  <2>1. rest \in Seq(Nat) /\ Len(h) + Len(rest) = Len(t)
    BY <1>1, <1>2, <1>3
  <2> HIDE DEF rest
  <2>2. /\ h \o rest \in Seq(Nat) /\ Len(h \o rest) = Len(h) + Len(rest)
        /\ \A i \in 1..(Len(h) + Len(rest)) :
              (h \o rest)[i] = IF i <= Len(h) THEN h[i] ELSE rest[i - Len(h)]
    BY <1>3, <2>1, ConcatProperties
  <2>3. /\ h \o rest \in Seq(Nat) /\ Len(h \o rest) = Len(t)
        /\ \A i \in 1..Len(t) : (h \o rest)[i] = IF i <= 1 THEN h[i] ELSE rest[i - 1]
    BY <1>3, <2>1, <2>2
  <2> QED BY <2>3 DEF rest
<1>5. \A i \in 1..Len(t) : (h \o Tail(t))[i] = t[i]
  BY <1>1, <1>2, <1>3, <1>4
<1>6. h \o Tail(t) = t
  BY <1>4, <1>5, SeqEqual
<1> QED BY <1>1, <1>3, <1>6 DEF h

LEMMA MoveOne ==
    ASSUME NEW s \in Seq(Nat), NEW t \in Seq(Nat), t # <<>>
    PROVE  /\ s \o t = (s \o <<Head(t)>>) \o Tail(t)
           /\ s \o t = Append(s, Head(t)) \o Tail(t)
           /\ Append(s, Head(t)) \in Seq(Nat)
<1>1. /\ Head(t) \in Nat /\ Tail(t) \in Seq(Nat) /\ <<Head(t)>> \in Seq(Nat)
      /\ <<Head(t)>> \o Tail(t) = t
  BY HeadAndTail
<1>2. s \o (<<Head(t)>> \o Tail(t)) = (s \o <<Head(t)>>) \o Tail(t)
  BY <1>1, ConcatAssociative
<1>3. Append(s, Head(t)) = s \o <<Head(t)>> /\ Append(s, Head(t)) \in Seq(Nat)
  BY <1>1, AppendIsConcat, AppendProperties
<1> QED BY <1>1, <1>2, <1>3

-----------------------------------------------------------------------------
(* FlattenSeq, which joins sequences into one, an element at a time.        *)

LEMMA SetInduction ==
  ASSUME NEW S, 0 \in S, \A n \in Nat : n \in S => n + 1 \in S
  PROVE  \A n \in Nat : n \in S
<1> SUFFICES ASSUME NEW k \in Nat, k \notin S PROVE FALSE
  OBVIOUS
<1> DEFINE T == {n \in Nat : n \notin S}
<1>1. T \subseteq Nat /\ T # {}
  OBVIOUS
<1> HIDE DEF T
<1>2. PICK m \in T : \A y \in T : ~(<<y, m>> \in OpToRel(<, Nat))
  BY <1>1, NatLessThanWellFounded, WFMin
<1>3. m \in Nat /\ m \notin S
  BY <1>1, <1>2 DEF T
<1>4. m # 0
  BY <1>3
<1>5. m - 1 \in Nat /\ m - 1 < m
  BY <1>3, <1>4
<1>6. m - 1 \in T
  BY <1>5, <1>3 DEF T
<1>7. <<m - 1, m>> \in OpToRel(<, Nat)
  BY <1>3, <1>5 DEF OpToRel
<1> QED BY <1>2, <1>6, <1>7

LEMMA Regroup ==
    \A r, s, t \in Seq(Nat) : (r \o s) \o t = r \o (s \o t)
  BY ConcatAssociative

Joins(f, s) ==
    f = [i \in 1..Len(s) |-> IF i = 1 THEN s[i] ELSE f[i - 1] \o s[i]]

LEMMA JoinedAt ==
    ASSUME NEW s \in Seq(Seq(Nat)), NEW f, Joins(f, s)
    PROVE  /\ s # <<>> => f[1] = s[1]
           /\ \A n \in Nat : n # 0 /\ n + 1 \in 1..Len(s) => f[n + 1] = f[n] \o s[n + 1]
<1>1. \A i \in 1..Len(s) : f[i] = IF i = 1 THEN s[i] ELSE f[i - 1] \o s[i]
  BY DEF Joins
<1>2. s # <<>> => 1 \in 1..Len(s)
  BY EmptySeq
<1>3. s # <<>> => f[1] = s[1]
  BY <1>1, <1>2
<1>4. ASSUME NEW n \in Nat, n # 0, n + 1 \in 1..Len(s)
      PROVE  f[n + 1] = f[n] \o s[n + 1]
  <2>1. n + 1 # 1 /\ (n + 1) - 1 = n
    BY <1>4
  <2>2. f[n + 1] = f[(n + 1) - 1] \o s[n + 1]
    BY <1>1, <1>4, <2>1
  <2> QED BY <2>1, <2>2
<1> QED BY <1>3, <1>4

LEMMA JoinedTyped ==
    ASSUME NEW s \in Seq(Seq(Nat)), NEW f, Joins(f, s)
    PROVE  \A i \in 1..Len(s) : f[i] \in Seq(Nat)
<1> DEFINE S == {n \in Nat : n \in 1..Len(s) => f[n] \in Seq(Nat)}
<1>1. 0 \in S
  BY LenProperties
<1>2. ASSUME NEW n \in Nat, n \in S PROVE n + 1 \in S
  <2> SUFFICES ASSUME n + 1 \in 1..Len(s) PROVE f[n + 1] \in Seq(Nat)
    OBVIOUS
  <2>1. s[n + 1] \in Seq(Nat) /\ Len(s) \in Nat
    BY ElementOfSeq, LenProperties
  <2>2. CASE n = 0
    <3>1. s # <<>> /\ n + 1 = 1
      BY <2>1, <2>2
    <3>2. f[1] = s[1]
      BY <3>1, JoinedAt
    <3> QED BY <2>1, <3>1, <3>2
  <2>3. CASE n # 0
    <3>1. f[n] \in Seq(Nat)
      BY <1>2, <2>1, <2>3
    <3>2. f[n + 1] = f[n] \o s[n + 1]
      BY <2>1, <2>3, JoinedAt
    <3> QED BY <2>1, <3>1, <3>2, ConcatProperties
  <2> QED BY <2>2, <2>3
<1> HIDE DEF S
<1>3. \A n \in Nat : n \in S
  BY <1>1, <1>2, SetInduction
<1>4. \A n \in 1..Len(s) : n \in Nat
  BY LenProperties
<1> QED BY <1>3, <1>4 DEF S

LEMMA JoinedExists ==
    ASSUME NEW s \in Seq(Seq(Nat))
    PROVE  \E f : Joins(f, s)
<1> DEFINE Upto(f, n) == f = [i \in 1..n |-> IF i = 1 THEN s[i] ELSE f[i - 1] \o s[i]]
<1> DEFINE S == {n \in Nat : \E f : Upto(f, n)}
<1>1. 0 \in S
  <2> DEFINE f == [i \in 1..0 |-> s[i]]
  <2>1. f = [i \in 1..0 |-> IF i = 1 THEN s[i] ELSE f[i - 1] \o s[i]]
    OBVIOUS
  <2> QED BY <2>1
<1>2. ASSUME NEW n \in Nat, n \in S PROVE n + 1 \in S
  <2>1. PICK f : Upto(f, n)
    BY <1>2
  <2> DEFINE g == [i \in 1..(n + 1) |->
                      IF i <= n THEN f[i] ELSE IF i = 1 THEN s[i] ELSE f[n] \o s[i]]
  <2> HIDE DEF Upto
  <2>2. \A i \in 1..n : f[i] = IF i = 1 THEN s[i] ELSE f[i - 1] \o s[i]
    BY <2>1 DEF Upto
  <2>3. \A i \in 1..(n + 1) : g[i] = IF i = 1 THEN s[i] ELSE g[i - 1] \o s[i]
    <3> SUFFICES ASSUME NEW i \in 1..(n + 1)
                 PROVE  g[i] = IF i = 1 THEN s[i] ELSE g[i - 1] \o s[i]
      OBVIOUS
    <3>1. CASE i = 1
      BY <3>1, <2>2
    <3>2. CASE i # 1 /\ i <= n
      <4>1. i - 1 \in 1..n /\ i \in 1..n
        BY <3>2
      <4>2. g[i - 1] = f[i - 1] /\ g[i] = f[i]
        BY <4>1
      <4> QED BY <3>2, <4>1, <4>2, <2>2
    <3>3. CASE i # 1 /\ ~(i <= n)
      <4>1. i = n + 1 /\ i - 1 = n /\ n \in 1..n
        BY <3>3
      <4>2. g[n] = f[n]
        BY <4>1
      <4>3. g[i] = f[n] \o s[i]
        BY <4>1, <3>3
      <4> QED BY <3>3, <4>1, <4>2, <4>3
    <3> QED BY <3>1, <3>2, <3>3
  <2>4. g = [i \in 1..(n + 1) |-> IF i = 1 THEN s[i] ELSE g[i - 1] \o s[i]]
    <3>1. g = [i \in 1..(n + 1) |-> g[i]]
      OBVIOUS
    <3> HIDE DEF g
    <3> QED BY <3>1, <2>3
  <2>5. Upto(g, n + 1)
    <3> HIDE DEF g
    <3> QED BY <2>4 DEF Upto
  <2> QED BY <2>5
<1> HIDE DEF S
<1>3. \A n \in Nat : n \in S
  BY <1>1, <1>2, SetInduction
<1>4. Len(s) \in Nat
  BY LenProperties
<1> QED BY <1>3, <1>4 DEF S, Joins

Begins(s, t) == Len(s) <= Len(t) /\ \A i \in 1..Len(s) : s[i] = t[i]

LEMMA JoinedAgree ==
    ASSUME NEW s \in Seq(Seq(Nat)), NEW t \in Seq(Seq(Nat)), NEW f, NEW g,
           Joins(f, s), Joins(g, t), Begins(s, t)
    PROVE  \A i \in 1..Len(s) : f[i] = g[i]
<1> USE DEF Begins
<1> DEFINE S == {n \in Nat : n \in 1..Len(s) => f[n] = g[n]}
<1>1. 0 \in S
  BY LenProperties
<1>2. ASSUME NEW n \in Nat, n \in S PROVE n + 1 \in S
  <2> SUFFICES ASSUME n + 1 \in 1..Len(s) PROVE f[n + 1] = g[n + 1]
    OBVIOUS
  <2>1. /\ n + 1 \in 1..Len(t) /\ s[n + 1] = t[n + 1] /\ s # <<>> /\ t # <<>>
        /\ Len(s) \in Nat
    BY LenProperties
  <2>2. CASE n = 0
    <3>1. f[1] = s[1] /\ g[1] = t[1]
      BY <2>1, JoinedAt
    <3> QED BY <2>1, <2>2, <3>1
  <2>3. CASE n # 0
    <3>1. f[n] = g[n]
      BY <1>2, <2>1, <2>3
    <3>2. f[n + 1] = f[n] \o s[n + 1] /\ g[n + 1] = g[n] \o t[n + 1]
      BY <2>1, <2>3, JoinedAt
    <3> QED BY <2>1, <3>1, <3>2
  <2> QED BY <2>2, <2>3
<1> HIDE DEF S
<1>3. \A n \in Nat : n \in S
  BY <1>1, <1>2, SetInduction
<1>4. \A n \in 1..Len(s) : n \in Nat
  BY LenProperties
<1> QED BY <1>3, <1>4 DEF S

LEMMA FlattenIs ==
    ASSUME NEW s \in Seq(Seq(Nat))
    PROVE  /\ s = <<>> => FlattenSeq(s) = <<>>
           /\ s # <<>> => \E f : Joins(f, s) /\ FlattenSeq(s) = f[Len(s)]
<1>1. Len(s) = 0 <=> s = <<>>
  BY EmptySeq
<1>2. CASE s = <<>>
  BY <1>1, <1>2 DEF FlattenSeq
<1>3. CASE s # <<>>
  <2> DEFINE F == CHOOSE f : f = [i \in 1..Len(s) |-> IF i = 1 THEN s[i] ELSE f[i - 1] \o s[i]]
  <2>1. FlattenSeq(s) = F[Len(s)]
    BY <1>1, <1>3 DEF FlattenSeq
  <2>2. \E f : f = [i \in 1..Len(s) |-> IF i = 1 THEN s[i] ELSE f[i - 1] \o s[i]]
    BY JoinedExists DEF Joins
  <2>3. F = [i \in 1..Len(s) |-> IF i = 1 THEN s[i] ELSE F[i - 1] \o s[i]]
    BY <2>2
  <2> HIDE DEF F
  <2>4. Joins(F, s)
    BY <2>3 DEF Joins
  <2> QED BY <1>3, <2>1, <2>4
<1> QED BY <1>2, <1>3

LEMMA FlattenTyped ==
    ASSUME NEW s \in Seq(Seq(Nat))
    PROVE  FlattenSeq(s) \in Seq(Nat)
<1>1. CASE s = <<>>
  BY <1>1, FlattenIs, EmptySeq
<1>2. CASE s # <<>>
  <2>1. Len(s) \in 1..Len(s)
    BY <1>2, EmptySeq
  <2>2. PICK f : Joins(f, s) /\ FlattenSeq(s) = f[Len(s)]
    BY <1>2, FlattenIs
  <2>3. f[Len(s)] \in Seq(Nat)
    BY <2>1, <2>2, JoinedTyped
  <2> QED BY <2>2, <2>3
<1> QED BY <1>1, <1>2

LEMMA FlattenAppend ==
    ASSUME NEW s \in Seq(Seq(Nat)), NEW e \in Seq(Nat)
    PROVE  FlattenSeq(Append(s, e)) = FlattenSeq(s) \o e
<1> DEFINE t == Append(s, e)
<1>1. /\ t \in Seq(Seq(Nat)) /\ t # <<>> /\ Len(t) = Len(s) + 1 /\ t[Len(s) + 1] = e
      /\ \A i \in 1..Len(s) : t[i] = s[i]
  BY AppendProperties
<1>2. Len(s) \in Nat
  BY LenProperties
<1> HIDE DEF t
<1>3. PICK g : Joins(g, t) /\ FlattenSeq(t) = g[Len(t)]
  BY <1>1, FlattenIs
<1>4. CASE s = <<>>
  <2>1. Len(s) = 0
    BY <1>4
  <2>2. g[1] = t[1]
    BY <1>1, <1>3, JoinedAt
  <2>3. FlattenSeq(t) = e
    BY <1>1, <1>3, <2>1, <2>2
  <2>4. FlattenSeq(s) = <<>> /\ <<>> \o e = e
    BY <1>4, FlattenIs, ConcatEmptySeq
  <2> QED BY <2>3, <2>4 DEF t
<1>5. CASE s # <<>>
  <2>1. PICK f : Joins(f, s) /\ FlattenSeq(s) = f[Len(s)]
    BY <1>5, FlattenIs
  <2>2. Len(s) \in 1..Len(s) /\ Len(s) + 1 > 1
    BY <1>5, EmptySeq
  <2>3. f[Len(s)] = g[Len(s)]
    <3>1. Begins(s, t)
      BY <1>1, <1>2 DEF Begins
    <3>2. \A i \in 1..Len(s) : f[i] = g[i]
      BY <1>1, <1>3, <2>1, <3>1, JoinedAgree
    <3> QED BY <2>2, <3>2
  <2>4. g[Len(s) + 1] = g[Len(s)] \o e
    <3>1. Len(s) + 1 \in 1..Len(t) /\ Len(s) \in Nat /\ Len(s) # 0
      BY <1>1, <1>2, <2>2
    <3>2. g[Len(s) + 1] = g[Len(s)] \o t[Len(s) + 1]
      BY <1>1, <1>3, <3>1, JoinedAt
    <3> QED BY <1>1, <3>2
  <2> QED BY <1>1, <1>3, <2>1, <2>3, <2>4 DEF t
<1> QED BY <1>4, <1>5

LEMMA FlattenTail ==
    ASSUME NEW s \in Seq(Seq(Nat)), s # <<>>
    PROVE  FlattenSeq(s) = Head(s) \o FlattenSeq(Tail(s))
<1> DEFINE t == Tail(s)
<1>1. /\ t \in Seq(Seq(Nat)) /\ Len(t) = Len(s) - 1 /\ Head(s) \in Seq(Nat)
      /\ \A i \in 1..Len(t) : t[i] = s[i + 1]
  BY HeadTailProperties
<1>2. Len(s) \in Nat \ {0} /\ Head(s) = s[1]
  BY EmptySeq
<1> HIDE DEF t
<1>3. PICK f : Joins(f, s) /\ FlattenSeq(s) = f[Len(s)]
  BY FlattenIs
<1>4. f[1] = s[1]
  BY <1>3, JoinedAt
<1>5. CASE t = <<>>
  <2>1. Len(t) = 0 /\ Len(s) = 1
    BY <1>1, <1>2, <1>5
  <2>2. FlattenSeq(t) = <<>> /\ Head(s) \o <<>> = Head(s)
    BY <1>1, <1>5, FlattenIs, ConcatEmptySeq
  <2> QED BY <1>2, <1>3, <1>4, <2>1, <2>2 DEF t
<1>6. CASE t # <<>>
  <2>1. PICK g : Joins(g, t) /\ FlattenSeq(t) = g[Len(t)]
    BY <1>1, <1>6, FlattenIs
  <2> DEFINE Shifted(n) == f[n + 1] = Head(s) \o g[n]
             S == {n \in Nat : n \in 1..Len(t) => Shifted(n)}
  <2> HIDE DEF Shifted
  <2>2. 0 \in S
    BY <1>1, <1>2
  <2>3. ASSUME NEW n \in Nat, n \in S PROVE n + 1 \in S
    <3> SUFFICES ASSUME n + 1 \in 1..Len(t) PROVE Shifted(n + 1)
      OBVIOUS
    <3>1. /\ n + 1 \in Nat /\ n + 1 # 0 /\ (n + 1) + 1 \in 1..Len(s)
          /\ t[n + 1] = s[(n + 1) + 1] /\ t[n + 1] \in Seq(Nat) /\ Len(t) \in Nat
      BY <1>1, <1>2, ElementOfSeq
    <3>2. f[(n + 1) + 1] = f[n + 1] \o t[n + 1]
      <4>1. f[(n + 1) + 1] = f[n + 1] \o s[(n + 1) + 1]
        BY <1>3, <3>1, JoinedAt
      <4> QED BY <3>1, <4>1
    <3>3. CASE n = 0
      <4>1. g[1] = t[1]
        BY <1>1, <1>6, <2>1, JoinedAt
      <4>2. n + 1 = 1
        BY <3>3
      <4>3. f[(n + 1) + 1] = Head(s) \o g[n + 1]
        BY <1>1, <1>2, <1>4, <3>2, <4>1, <4>2, Zenon
      <4> QED BY <4>3 DEF Shifted
    <3>4. CASE n # 0
      <4>1. n \in 1..Len(t)
        BY <3>1, <3>4
      <4>2. f[n + 1] = Head(s) \o g[n]
        BY <2>3, <4>1 DEF Shifted
      <4>3. g[n + 1] = g[n] \o t[n + 1]
        BY <1>1, <2>1, <3>4, JoinedAt
      <4>4. g[n] \in Seq(Nat)
        BY <1>1, <2>1, <4>1, JoinedTyped
      <4>5. (Head(s) \o g[n]) \o t[n + 1] = Head(s) \o (g[n] \o t[n + 1])
        BY <1>1, <3>1, <4>4, Regroup
      <4>6. f[(n + 1) + 1] = Head(s) \o g[n + 1]
        BY <3>2, <4>2, <4>3, <4>5
      <4> QED BY <4>6 DEF Shifted
    <3> QED BY <3>3, <3>4
  <2> HIDE DEF S
  <2>4. \A n \in Nat : n \in S
    BY <2>2, <2>3, SetInduction
  <2>5. Len(t) \in Nat /\ Len(t) \in 1..Len(t) /\ Len(t) + 1 = Len(s)
    BY <1>1, <1>2, <1>6, EmptySeq
  <2>6. f[Len(s)] = Head(s) \o g[Len(t)]
    BY <2>4, <2>5 DEF S, Shifted
  <2> QED BY <1>3, <2>1, <2>6 DEF t
<1> QED BY <1>5, <1>6

-----------------------------------------------------------------------------
(* Terminal: types.                                                         *)

LEMMA ChunkTyped ==
    /\ Reading \in [at : {"reading", "sending", "ended"}, chunk : Nat]
    /\ Finished \in [at : {"reading", "sending", "ended"}, chunk : Nat]
    /\ Reading.at = "reading" /\ Finished.at = "ended"
  BY DEF Reading, Finished, Nothing

(* A handler that writes has a message to write. *)
HasMessage == handler = "writing" => inbox # <<>>

TerminalTypes == TerminalTypeOK /\ HasMessage

LEMMA TerminalTypesInit == TerminalInit => TerminalTypes
<1>1. <<>> \in Seq(Nat)
  OBVIOUS
<1> SUFFICES ASSUME TerminalInit PROVE TerminalTypes
  OBVIOUS
<1>2. reader \in [at : {"reading", "sending", "ended"}, chunk : Nat]
  BY ChunkTyped DEF TerminalInit
<1>3. background \in BOOLEAN /\ farewell \in BOOLEAN
  BY DEF TerminalInit
<1> QED BY <1>1, <1>2, <1>3 DEF TerminalInit, TerminalTypes, TerminalTypeOK, HasMessage

LEMMA TerminalTypesStep ==
    TerminalTypes /\ [TerminalNext]_terminalVars => TerminalTypes'
<1> SUFFICES ASSUME TerminalTypes, [TerminalNext]_terminalVars PROVE TerminalTypes'
  OBVIOUS
<1> USE DEF TerminalTypes, TerminalTypeOK, HasMessage, browserVars, shellVars, readVars
<1>1. CASE UNCHANGED terminalVars
  BY <1>1 DEF terminalVars
<1>2. CASE OpenTerminal
  BY <1>2, ChunkTyped DEF OpenTerminal
<1>3. CASE Type
  <2>1. Append(inbox, typed + 1) \in Seq(Nat) /\ Append(inbox, typed + 1) # <<>>
    <3>1. inbox \in Seq(Nat) /\ typed + 1 \in Nat
      OBVIOUS
    <3> QED BY <3>1, AppendTyped
  <2> QED BY <1>3, <2>1 DEF Type
<1>4. CASE LeaveTerminal
  <2>1. PICK n \in (IF handler = "writing" THEN 1 ELSE 0)..Len(inbox) :
          inbox' = SubSeq(inbox, 1, n)
    BY <1>4 DEF LeaveTerminal
  <2>2. n \in Nat /\ \A i \in 1..n : inbox[i] \in Nat
    BY <2>1
  <2>3. inbox' \in Seq(Nat) /\ Len(inbox') = IF 1 <= n THEN n ELSE 0
    BY <2>1, <2>2, SubSeqProperties
  <2>4. handler = "writing" => inbox' # <<>>
    <3>1. handler = "writing" => Len(inbox') >= 1
      BY <2>1, <2>2, <2>3
    <3> QED BY <3>1
  <2> QED BY <1>4, <2>3, <2>4 DEF LeaveTerminal
<1>5. CASE AnswerFarewell \/ Take \/ SeeGone \/ KillShell
  BY <1>5 DEF AnswerFarewell, Take, SeeGone, KillShell
<1>6. CASE Write
  BY <1>6 DEF Write
<1>7. CASE AbortPump \/ ForwardFails
  <2>1. <<>> \in Seq(Nat)
    OBVIOUS
  <2> QED BY <1>7, <2>1 DEF AbortPump, ForwardFails
<1>11. CASE EndReader
  BY <1>11, ChunkTyped DEF EndReader
<1>12. CASE Farewell
  BY <1>12 DEF Farewell
<1>8. CASE ReadChunk
  BY <1>8 DEF ReadChunk
<1>9. CASE SendChunk
  <2>1. Append(queue, reader.chunk) \in Seq(Nat)
    BY AppendProperties
  <2> QED BY <1>9, <2>1, ChunkTyped DEF SendChunk
<1>13. CASE ForwardChunk
  <2>1. queue # <<>>
    BY <1>13 DEF ForwardChunk
  <2>2. Append(screen, Head(queue)) \in Seq(Nat) /\ Tail(queue) \in Seq(Nat)
    BY <2>1, HeadAndTail, AppendProperties
  <2> QED BY <1>13, <2>2 DEF ForwardChunk
<1>10. CASE ShellReads
  BY <1>10 DEF ShellReads
<1>14. CASE ShellPrints
  <2>1. Append(output, printed + 1) \in Seq(Nat)
    BY AppendProperties
  <2> QED BY <1>14, <2>1 DEF ShellPrints
<1>15. CASE ShellExits
  BY <1>15 DEF ShellExits
<1>16. CASE JobStarts \/ JobEnds
  BY <1>16 DEF JobStarts, JobEnds
<1> QED
  BY <1>1, <1>2, <1>3, <1>4, <1>5, <1>6, <1>7, <1>8, <1>9, <1>10, <1>11, <1>12, <1>13,
     <1>14, <1>15, <1>16
  DEF TerminalNext, HandlerStep, ReaderStep, PumpStep

-----------------------------------------------------------------------------
(* Terminal: the way of the output.  The line from the shell to the screen  *)
(* is cut by whatever ends the pump; a pump that says goodbye has found the *)
(* reader ended and its queue empty, and the reader ended because the pty   *)
(* had: nobody is left to print, and nobody comes back.                     *)

Line == screen \o queue \o InHand \o output

NotYetOpen ==
    window = "unopened" =>
        /\ handler = "none" /\ pump = "none" /\ shell = "none" /\ ~background
        /\ screen = <<>> /\ queue = <<>> /\ output = <<>> /\ printed = 0

Drained == pump = "running" /\ reader.at = "ended" => output = <<>> /\ ~Held

SaidFarewell == farewell => pump = "ended" /\ window # "unopened" /\ ~Held

OutputInv == NotYetOpen /\ Drained /\ SaidFarewell /\ OutputKept

LEMMA OutputInvInit == TerminalInit => OutputInv
  BY DEF TerminalInit, OutputInv, NotYetOpen, Drained, SaidFarewell, OutputKept,
         NothingLost, LastWords

(* Who ended is not started again. *)
LEMMA EndsStay ==
    ASSUME TerminalTypes, OutputInv, TerminalNext
    PROVE  NotYetOpen' /\ Drained' /\ SaidFarewell'
<1> USE DEF TerminalTypes, TerminalTypeOK, OutputInv, NotYetOpen, Drained, SaidFarewell, Held,
            browserVars, shellVars, readVars
<1>1. CASE OpenTerminal
  BY <1>1, ChunkTyped DEF OpenTerminal
<1>2. CASE Type \/ LeaveTerminal \/ AnswerFarewell \/ Take \/ Write \/ SeeGone \/ ShellReads
  BY <1>2 DEF Type, LeaveTerminal, AnswerFarewell, Take, Write, SeeGone, ShellReads
<1>3. CASE KillShell
  BY <1>3 DEF KillShell
<1>4. CASE AbortPump
  BY <1>4 DEF AbortPump
<1>5. CASE ReadChunk
  BY <1>5 DEF ReadChunk
<1>10. CASE SendChunk
  BY <1>10, ChunkTyped DEF SendChunk
<1>6. CASE EndReader
  BY <1>6, ChunkTyped DEF EndReader
<1>7. CASE ForwardChunk
  BY <1>7 DEF ForwardChunk
<1>11. CASE ForwardFails
  BY <1>11 DEF ForwardFails
<1>12. CASE Farewell
  BY <1>12 DEF Farewell
<1>8. CASE ShellPrints
  BY <1>8 DEF ShellPrints
<1>9. CASE ShellExits \/ JobStarts \/ JobEnds
  BY <1>9 DEF ShellExits, JobStarts, JobEnds
<1> QED
  BY <1>1, <1>2, <1>3, <1>4, <1>5, <1>6, <1>7, <1>8, <1>9, <1>10, <1>11, <1>12
  DEF TerminalNext, HandlerStep, ReaderStep, PumpStep

LEMMA LineTyped ==
    ASSUME TerminalTypeOK
    PROVE  /\ InHand \in Seq(Nat)
           /\ screen \o queue \in Seq(Nat) /\ screen \o queue \o InHand \in Seq(Nat)
<1>1. InHand \in Seq(Nat)
  BY DEF InHand, TerminalTypeOK
<1> QED BY <1>1, ConcatProperties DEF TerminalTypeOK

(* The steps that move a chunk leave the line as it was, and printing makes  *)
(* it longer.                                                                *)
LEMMA LineKept ==
    ASSUME TerminalTypes, OutputInv, TerminalNext, pump = "running", pump' = "running"
    PROVE  Line' = Count(printed')
<1> USE DEF TerminalTypes, TerminalTypeOK, browserVars, shellVars, readVars
<1>1. /\ InHand \in Seq(Nat)
      /\ screen \o queue \in Seq(Nat) /\ screen \o queue \o InHand \in Seq(Nat)
      /\ screen \in Seq(Nat) /\ queue \in Seq(Nat) /\ output \in Seq(Nat)
      /\ printed \in Nat
  BY LineTyped
<1>2. Line = Count(printed)
  BY DEF OutputInv, OutputKept, NothingLost, Line
<1>3. CASE UNCHANGED <<screen, queue, reader, output, printed>>
  <2>1. InHand' = InHand
    BY <1>3 DEF InHand
  <2> QED BY <1>2, <1>3, <2>1 DEF Line
<1>4. CASE ShellPrints
  <2>1. /\ printed' = printed + 1 /\ output' = Append(output, printed + 1)
        /\ UNCHANGED <<screen, queue, reader>>
    BY <1>4 DEF ShellPrints
  <2>2. InHand' = InHand
    BY <2>1 DEF InHand
  <2>3. Line' = Append(Line, printed + 1)
    <3> DEFINE before == screen \o queue \o InHand
    <3>1. before' = before /\ printed + 1 \in Nat /\ before \in Seq(Nat)
      BY <1>1, <2>1, <2>2
    <3>2. Line = before \o output /\ Line' = before' \o output'
      BY DEF Line
    <3> HIDE DEF before
    <3>3. before \o Append(output, printed + 1) = Append(before \o output, printed + 1)
      BY <1>1, <3>1, AppendAtEnd
    <3> QED BY <2>1, <3>1, <3>2, <3>3
  <2> QED BY <1>1, <1>2, <2>1, <2>3, CountNext
<1>5. CASE ReadChunk
  <2>1. /\ InHand = <<>> /\ InHand' = <<Head(output)>>
        /\ output # <<>> /\ output' = Tail(output)
        /\ UNCHANGED <<screen, queue, printed>>
    BY <1>5 DEF ReadChunk, InHand
  <2>2. screen \o queue \o InHand = screen \o queue
    BY <1>1, <2>1, ConcatEmptySeq
  <2>3. (screen \o queue) \o output = (screen \o queue \o <<Head(output)>>) \o Tail(output)
    BY <1>1, <2>1, MoveOne
  <2> QED BY <1>2, <2>1, <2>2, <2>3 DEF Line
<1>6. CASE SendChunk
  <2>1. /\ InHand = <<reader.chunk>> /\ InHand' = <<>> /\ reader.chunk \in Nat
        /\ queue' = Append(queue, reader.chunk)
        /\ UNCHANGED <<screen, output, printed>>
    BY <1>6, ChunkTyped DEF SendChunk, InHand
  <2>2. /\ screen \o Append(queue, reader.chunk) = Append(screen \o queue, reader.chunk)
        /\ Append(screen \o queue, reader.chunk) = screen \o queue \o <<reader.chunk>>
        /\ Append(screen \o queue, reader.chunk) \in Seq(Nat)
    <3> DEFINE ahead == screen \o queue
    <3>1. screen \o Append(queue, reader.chunk) = Append(ahead, reader.chunk)
      BY <1>1, <2>1, AppendAtEnd
    <3>2. ahead \in Seq(Nat)
      BY <1>1
    <3> HIDE DEF ahead
    <3>3. /\ Append(ahead, reader.chunk) = ahead \o <<reader.chunk>>
          /\ Append(ahead, reader.chunk) \in Seq(Nat)
      BY <2>1, <3>2, AppendIsConcat, AppendProperties
    <3> QED BY <3>1, <3>3 DEF ahead
  <2>3. Append(screen \o queue, reader.chunk) \o <<>> = Append(screen \o queue, reader.chunk)
    BY <2>2, ConcatEmptySeq
  <2> QED BY <1>2, <2>1, <2>2, <2>3 DEF Line
<1>7. CASE ForwardChunk
  <2>1. /\ screen' = Append(screen, Head(queue)) /\ queue # <<>> /\ queue' = Tail(queue)
        /\ UNCHANGED <<reader, output, printed>>
    BY <1>7 DEF ForwardChunk
  <2>2. InHand' = InHand
    BY <2>1 DEF InHand
  <2>3. screen' \o queue' = screen \o queue
    BY <1>1, <2>1, MoveOne
  <2> QED BY <1>2, <2>1, <2>2, <2>3 DEF Line
<1>8. CASE EndReader
  <2>1. /\ InHand = <<>> /\ InHand' = <<>>
        /\ UNCHANGED <<screen, queue, output, printed>>
    BY <1>8, ChunkTyped DEF EndReader, InHand
  <2> QED BY <1>2, <2>1 DEF Line
<1>9. CASE OpenTerminal \/ AbortPump \/ ForwardFails \/ Farewell
  BY <1>9 DEF OutputInv, NotYetOpen, OpenTerminal, AbortPump, ForwardFails, Farewell
<1>10. CASE Type \/ LeaveTerminal \/ AnswerFarewell \/ Take \/ Write \/ SeeGone \/ KillShell
            \/ ShellReads \/ ShellExits \/ JobStarts \/ JobEnds
  BY <1>3, <1>10 DEF Type, LeaveTerminal, AnswerFarewell, Take, Write, SeeGone, KillShell,
                     ShellReads, ShellExits, JobStarts, JobEnds
<1> QED
  BY <1>4, <1>5, <1>6, <1>7, <1>8, <1>9, <1>10
  DEF TerminalNext, HandlerStep, ReaderStep, PumpStep

LEMMA LineBegins ==
    ASSUME TerminalTypes, OutputInv, OpenTerminal
    PROVE  Line' = Count(printed')
<1>1. /\ screen' = <<>> /\ queue' = <<>> /\ output' = <<>> /\ printed' = 0
      /\ reader' = Reading
  BY DEF OpenTerminal, OutputInv, NotYetOpen
<1>2. InHand' = <<>>
  BY <1>1, ChunkTyped DEF InHand
<1> QED BY <1>1, <1>2, CountNone DEF Line

(* Where the pump says goodbye the line is the screen, and then it stays.    *)
LEMMA LastWordsKept ==
    ASSUME TerminalTypes, OutputInv, TerminalNext
    PROVE  LastWords'
<1> USE DEF browserVars, shellVars, readVars
<1>1. CASE Farewell
  <2>1. /\ pump = "running" /\ queue = <<>> /\ reader.at = "ended"
        /\ screen' = screen /\ printed' = printed
    BY <1>1 DEF Farewell
  <2>2. output = <<>> /\ InHand = <<>>
    BY <2>1 DEF OutputInv, Drained, InHand
  <2>3. Line = screen
    BY <2>1, <2>2, ConcatEmptySeq DEF Line, TerminalTypes, TerminalTypeOK
  <2>4. Line = Count(printed)
    BY <2>1 DEF OutputInv, OutputKept, NothingLost, Line
  <2> QED BY <2>1, <2>3, <2>4 DEF LastWords, Count
<1>2. CASE ~Farewell
  <2>1. farewell' = farewell
    BY <1>2
    DEF TerminalNext, HandlerStep, ReaderStep, PumpStep,
        OpenTerminal, Type, LeaveTerminal, AnswerFarewell, Take, Write, SeeGone, KillShell,
        AbortPump, ShellReads, ShellPrints, ShellExits, JobStarts, JobEnds,
        ReadChunk, SendChunk, EndReader, ForwardChunk, ForwardFails
  <2>2. CASE ~farewell
    BY <2>1, <2>2 DEF LastWords
  <2>3. CASE farewell
    <3>1. pump = "ended" /\ ~Held /\ screen = Count(printed)
      BY <2>3 DEF OutputInv, SaidFarewell, OutputKept, LastWords
    <3>2. screen' = screen /\ printed' = printed
      BY <1>2, <2>3, <3>1
      DEF TerminalNext, HandlerStep, ReaderStep, PumpStep,
          OpenTerminal, Type, LeaveTerminal, AnswerFarewell, Take, Write, SeeGone, KillShell,
          AbortPump, ShellReads, ShellPrints, ShellExits, JobStarts, JobEnds,
          ReadChunk, SendChunk, EndReader, ForwardChunk, ForwardFails
    <3> QED BY <3>1, <3>2 DEF LastWords, Count
  <2> QED BY <2>2, <2>3
<1> QED BY <1>1, <1>2

LEMMA OutputInvStep ==
    TerminalTypes /\ OutputInv /\ [TerminalNext]_terminalVars => OutputInv'
<1> SUFFICES ASSUME TerminalTypes, OutputInv, [TerminalNext]_terminalVars PROVE OutputInv'
  OBVIOUS
<1>1. CASE UNCHANGED terminalVars
  BY <1>1
  DEF terminalVars, browserVars, shellVars, readVars, OutputInv, NotYetOpen, Drained,
      SaidFarewell, OutputKept, NothingLost, LastWords, InHand, Held, Count
<1>2. CASE TerminalNext
  <2>1. NotYetOpen' /\ Drained' /\ SaidFarewell' /\ LastWords'
    BY <1>2, EndsStay, LastWordsKept
  <2>2. pump' = "running" => pump = "running" \/ OpenTerminal
    BY <1>2
    DEF TerminalNext, HandlerStep, ReaderStep, PumpStep, browserVars, shellVars, readVars,
        Type, LeaveTerminal, AnswerFarewell, Take, Write, SeeGone, KillShell, AbortPump,
        ShellReads, ShellPrints, ShellExits, JobStarts, JobEnds,
        ReadChunk, SendChunk, EndReader, ForwardChunk, ForwardFails, Farewell
  <2>3. pump' = "running" => Line' = Count(printed')
    BY <1>2, <2>2, LineKept, LineBegins
  <2>4. NothingLost'
    BY <2>3 DEF NothingLost, Line, Count
  <2> QED BY <2>1, <2>4 DEF OutputInv, OutputKept
<1> QED BY <1>1, <1>2

(* Every reachable state of a terminal has the types the code gives it, for  *)
(* queues of any length.                                                     *)
THEOREM TerminalHasTypes == TerminalSpec => []TerminalTypeOK
<1>1. TerminalTypes => TerminalTypeOK
  BY DEF TerminalTypes
<1> QED BY <1>1, TerminalTypesInit, TerminalTypesStep, PTL DEF TerminalSpec

(* What a shell prints reaches the browser once, in order and whole, however *)
(* much it prints and however small the queue between (pty.rs).              *)
THEOREM OutputAlwaysKept == TerminalSpec => []OutputKept
<1>1. TerminalInit => TerminalTypes /\ OutputInv
  BY TerminalTypesInit, OutputInvInit
<1>2. TerminalTypes /\ OutputInv /\ [TerminalNext]_terminalVars =>
        (TerminalTypes /\ OutputInv)'
  BY TerminalTypesStep, OutputInvStep
<1>3. OutputInv => OutputKept
  BY DEF OutputInv
<1> QED BY <1>1, <1>2, <1>3, PTL DEF TerminalSpec

-----------------------------------------------------------------------------
(* Relay: types.                                                            *)

Messages == {Ping, Text} \cup {Binary(b) : b \in Nat}

LEMMA MessageTyped ==
    /\ Ping \in Messages /\ Text \in Messages /\ Ping # Text
    /\ Ping.kind # "binary" /\ Text.kind # "binary"
    /\ \A b \in Nat : /\ Binary(b) \in Messages
                      /\ Binary(b).kind = "binary" /\ Binary(b).byte = b
    /\ \A m \in Messages : m.kind = "binary" <=> m # Ping /\ m # Text
    /\ \A m \in Messages : m.byte \in Nat
    /\ Messages \subseteq [kind : {"ping", "text", "binary"}, byte : Nat]
<1>1. /\ Ping \in Messages /\ Text \in Messages /\ Ping # Text
      /\ Ping.kind = "ping" /\ Text.kind = "text" /\ Ping.byte = 0 /\ Text.byte = 0
  BY DEF Messages, Ping, Text
<1>2. \A b \in Nat : Binary(b) \in Messages
  BY DEF Messages
<1>3. \A b \in Nat : Binary(b).kind = "binary" /\ Binary(b).byte = b
  BY DEF Binary
<1>4. ASSUME NEW m \in Messages
      PROVE  /\ m.kind = "binary" <=> m # Ping /\ m # Text
             /\ m.byte \in Nat
             /\ m \in [kind : {"ping", "text", "binary"}, byte : Nat]
  <2>1. CASE m = Ping \/ m = Text
    BY <1>1, <2>1 DEF Ping, Text
  <2>2. CASE \E b \in Nat : m = Binary(b)
    <3>1. PICK b \in Nat : m = Binary(b)
      BY <2>2
    <3>2. m.kind = "binary" /\ m.byte = b
      BY <1>3, <3>1
    <3>3. m \in [kind : {"ping", "text", "binary"}, byte : Nat]
      BY <3>1 DEF Binary
    <3> QED BY <1>1, <3>2, <3>3
  <2> QED BY <2>1, <2>2 DEF Messages
<1> QED BY <1>1, <1>2, <1>3, <1>4

(* A task that writes has one of the browser's bytes in hand. *)
HasByte == toApp = "writing" => upward # <<>> /\ upward[1].kind = "binary"

(* Until the socket is open nothing is relayed. *)
NotOpened ==
    viewer \in {"unopened", "refused"} =>
        /\ toApp = "none" /\ toBrowser = "none"
        /\ upward = <<>> /\ keyed = <<>> /\ obeyed = <<>> /\ sent = 0
        /\ seen = <<>> /\ downward = <<>> /\ frame = <<>> /\ picture = <<>> /\ drawn = 0

(* A frame is in hand only while it is sent. *)
NoFrame == toBrowser = "reading" => frame = <<>>

RelayTypes == RelayTypeOK /\ upward \in Seq(Messages) /\ HasByte /\ NotOpened /\ NoFrame

LEMMA RelayTypesInit == RelayInit => RelayTypes
<1> SUFFICES ASSUME RelayInit PROVE RelayTypes
  OBVIOUS
<1>1. /\ upward \in Seq(Messages) /\ downward \in Seq(Seq(Nat))
      /\ seen \in Seq(Nat) /\ frame \in Seq(Nat)
      /\ keyed \in Seq(Nat) /\ obeyed \in Seq(Nat) /\ picture \in Seq(Nat)
  BY EmptySeq DEF RelayInit
<1>2. upward \in Seq([kind : {"ping", "text", "binary"}, byte : Nat])
  BY <1>1, MessageTyped, SeqMonotonic
<1> QED BY <1>1, <1>2 DEF RelayInit, RelayTypes, RelayTypeOK, HasByte, NotOpened, NoFrame

LEMMA Moved ==
    ASSUME NEW S, NEW s \in Seq(S)
    PROVE  /\ \A x \in S : Append(s, x) \in Seq(S)
           /\ s # <<>> => Head(s) \in S /\ Tail(s) \in Seq(S) /\ Head(s) = s[1]
<1>1. \A x \in S : Append(s, x) \in Seq(S)
  BY AppendProperties
<1>2. s # <<>> => Head(s) \in S /\ Tail(s) \in Seq(S)
  BY HeadTailProperties
<1> QED BY <1>1, <1>2

LEMMA Cut ==
    ASSUME NEW S, NEW s \in Seq(S), NEW n \in 1..Len(s)
    PROVE  /\ SubSeq(s, 1, n) \in Seq(S)
           /\ SubSeq(s, n + 1, Len(s)) \in Seq(S)
           /\ s = SubSeq(s, 1, n) \o SubSeq(s, n + 1, Len(s))
<1>1. Len(s) \in Nat /\ \A i \in 1..Len(s) : s[i] \in S
  BY LenProperties, ElementOfSeq
<1>2. SubSeq(s, 1, n) \in Seq(S)
  <2>1. \A i \in 1..n : s[i] \in S
    BY <1>1
  <2> QED BY <1>1, <2>1, SubSeqProperties
<1>3. SubSeq(s, n + 1, Len(s)) \in Seq(S)
  <2>1. \A i \in (n + 1)..Len(s) : s[i] \in S
    BY <1>1
  <2> QED BY <1>1, <2>1, SubSeqProperties
<1>4. SubSeq(s, 1, n) \o SubSeq(s, n + 1, Len(s)) = SubSeq(s, 1, Len(s))
  <2>1. 1 \in 1..(Len(s) + 1) /\ n \in (1 - 1)..Len(s) /\ Len(s) \in n..Len(s)
    BY <1>1
  <2> QED BY <2>1, ConcatAdjacentSubSeq
<1> QED BY <1>2, <1>3, <1>4, SubSeqFull

LEMMA MessagesStep ==
    ASSUME RelayTypes, [RelayNext]_relayVars
    PROVE  upward' \in Seq(Messages)
<1>1. upward \in Seq(Messages)
  BY DEF RelayTypes
<1>2. CASE Send
  <2>1. CASE sent < Bytes /\ sent' = sent + 1 /\ upward' = Append(upward, Binary(sent'))
    <3>1. sent' \in Nat
      BY <2>1 DEF RelayTypes, RelayTypeOK
    <3>2. Binary(sent') \in Messages
      BY <3>1, MessageTyped
    <3> QED BY <1>1, <2>1, <3>2, Moved
  <2>2. CASE UNCHANGED sent /\ \E m \in {Ping, Text} : upward' = Append(upward, m)
    BY <1>1, <2>2, MessageTyped, Moved
  <2> QED BY <1>2, <2>1, <2>2 DEF Send
<1>3. CASE TakeMessage \/ WriteOn
  <2>1. upward # <<>>
    BY <1>3 DEF TakeMessage, WriteOn, RelayTypes, HasByte
  <2>2. upward' = upward \/ upward' = Tail(upward)
    BY <1>3 DEF TakeMessage, WriteOn
  <2> QED BY <1>1, <2>1, <2>2, Moved
<1>4. CASE ~Send /\ ~TakeMessage /\ ~WriteOn
  BY <1>1, <1>4
  DEF RelayNext, relayVars, ToApp, ToBrowser, OpenRelay, See, LeaveRelay, SeeViewerGone,
      ReadPicture, SeeServerGone, SendOn, SayGoodbye, Select, Obey, Draw, ServerGoes
<1> QED BY <1>2, <1>3, <1>4

LEMMA RelayTypesStep == RelayTypes /\ [RelayNext]_relayVars => RelayTypes'
<1> SUFFICES ASSUME RelayTypes, [RelayNext]_relayVars PROVE RelayTypes'
  OBVIOUS
<1>1. /\ upward' \in Seq(Messages)
      /\ upward' \in Seq([kind : {"ping", "text", "binary"}, byte : Nat])
  BY MessagesStep, MessageTyped, SeqMonotonic
<1> USE DEF viewerVars, taskVars, serverVars
<1>2. /\ seen' \in Seq(Nat) /\ downward' \in Seq(Seq(Nat))
      /\ frame' \in Seq(Nat) /\ picture' \in Seq(Nat)
  <2>0. /\ seen \in Seq(Nat) /\ downward \in Seq(Seq(Nat)) /\ drawn \in Nat
        /\ frame \in Seq(Nat) /\ picture \in Seq(Nat) /\ <<>> \in Seq(Nat)
    BY EmptySeq DEF RelayTypes, RelayTypeOK
  <2>1. CASE See
    <3>1. Head(downward) \in Seq(Nat) /\ Tail(downward) \in Seq(Seq(Nat))
      BY <2>0, <2>1, Moved DEF See
    <3>2. seen \o Head(downward) \in Seq(Nat)
      BY <2>0, <3>1, ConcatProperties
    <3> QED BY <2>0, <2>1, <3>1, <3>2 DEF See
  <2>2. CASE ReadPicture
    BY <2>0, <2>2, Cut DEF ReadPicture
  <2>3. CASE SendOn
    <3>1. Append(downward, frame) \in Seq(Seq(Nat))
      BY <2>0, Moved
    <3> QED BY <2>0, <2>3, <3>1 DEF SendOn
  <2>4. CASE Select
    BY <2>0, <2>4 DEF Select
  <2>5. CASE Draw
    <3>1. drawn' \in Nat
      BY <2>0, <2>5 DEF Draw
    <3>2. Append(picture, drawn') \in Seq(Nat)
      BY <2>0, <3>1, Moved
    <3> QED BY <2>0, <2>5, <3>2 DEF Draw
  <2>6. CASE ~See /\ ~ReadPicture /\ ~SendOn /\ ~Select /\ ~Draw
    BY <2>0, <2>6
    DEF RelayNext, relayVars, ToApp, ToBrowser, OpenRelay, Send, LeaveRelay, TakeMessage,
        SeeViewerGone, WriteOn, SeeServerGone, SayGoodbye, Obey, ServerGoes
  <2> QED BY <2>1, <2>2, <2>3, <2>4, <2>5, <2>6
<1>3. keyed' \in Seq(Nat) /\ obeyed' \in Seq(Nat)
  <2>0. keyed \in Seq(Nat) /\ obeyed \in Seq(Nat) /\ upward \in Seq(Messages)
    BY DEF RelayTypes, RelayTypeOK
  <2>1. CASE WriteOn
    <3>1. Head(upward) \in Messages
      BY <2>0, <2>1, Moved DEF WriteOn, RelayTypes, HasByte
    <3>2. Head(upward).byte \in Nat
      BY <3>1, MessageTyped
    <3>3. Append(keyed, Head(upward).byte) \in Seq(Nat)
      BY <2>0, <3>2, Moved
    <3> QED BY <2>0, <2>1, <3>3 DEF WriteOn
  <2>2. CASE Obey
    BY <2>0, <2>2, Moved DEF Obey
  <2>3. CASE ~WriteOn /\ ~Obey
    BY <2>0, <2>3
    DEF RelayNext, relayVars, ToApp, ToBrowser, OpenRelay, Send, See, LeaveRelay, TakeMessage,
        SeeViewerGone, ReadPicture, SeeServerGone, SendOn, SayGoodbye, Select, Draw, ServerGoes
  <2> QED BY <2>1, <2>2, <2>3
<1>4. HasByte'
  <2>1. CASE Send
    <3>0. upward \in Seq(Messages) /\ sent \in Nat
      BY DEF RelayTypes, RelayTypeOK
    <3>1. \E m \in Messages : upward' = Append(upward, m)
      BY <2>1, <3>0, MessageTyped DEF Send
    <3>2. upward # <<>> => upward'[1] = upward[1] /\ upward' # <<>>
      BY <3>0, <3>1, AppendProperties, EmptySeq
    <3> QED BY <2>1, <3>2 DEF Send, RelayTypes, HasByte
  <2>2. CASE TakeMessage
    <3>1. upward # <<>> /\ upward[1] \in Messages /\ Head(upward) = upward[1]
      BY <2>2, Moved DEF TakeMessage, RelayTypes
    <3> QED BY <2>2, <3>1, MessageTyped DEF TakeMessage, HasByte
  <2>3. CASE ~Send /\ ~TakeMessage
    BY <2>3
    DEF RelayTypes, HasByte, RelayNext, relayVars, ToApp, ToBrowser, OpenRelay, See, LeaveRelay,
        SeeViewerGone, WriteOn, ReadPicture, SeeServerGone, SendOn, SayGoodbye, Select, Obey,
        Draw, ServerGoes
  <2> QED BY <2>1, <2>2, <2>3
<1>5. NotOpened' /\ NoFrame'
  BY DEF RelayTypes, NotOpened, NoFrame, RelayNext, relayVars, ToApp, ToBrowser, OpenRelay,
         Send, See, LeaveRelay, TakeMessage, SeeViewerGone, WriteOn, ReadPicture,
         SeeServerGone, SendOn, SayGoodbye, Select, Obey, Draw, ServerGoes
<1>6. sent' \in Nat /\ drawn' \in Nat
  <2>1. CASE Send \/ Draw
    BY <2>1 DEF RelayTypes, RelayTypeOK, Send, Draw
  <2>2. CASE ~Send /\ ~Draw
    BY <2>2
    DEF RelayTypes, RelayTypeOK, RelayNext, relayVars, ToApp, ToBrowser, OpenRelay,
        See, LeaveRelay, TakeMessage, SeeViewerGone, WriteOn, ReadPicture,
        SeeServerGone, SendOn, SayGoodbye, Select, Obey, ServerGoes
  <2> QED BY <2>1, <2>2
<1>7. /\ viewer' \in {"unopened", "refused", "open", "left"}
      /\ toApp' \in {"none", "reading", "writing", "ended", "dropped"}
      /\ toBrowser' \in {"none", "reading", "sending", "closing", "ended", "dropped"}
      /\ server' \in {"serving", "gone"}
  BY DEF RelayTypes, RelayTypeOK, RelayNext, relayVars, ToApp, ToBrowser, OpenRelay,
         Send, See, LeaveRelay, TakeMessage, SeeViewerGone, WriteOn, ReadPicture,
         SeeServerGone, SendOn, SayGoodbye, Select, Obey, Draw, ServerGoes
<1>8. goodbye' \in BOOLEAN
  BY DEF RelayTypes, RelayTypeOK, RelayNext, relayVars, ToApp, ToBrowser, OpenRelay,
         Send, See, LeaveRelay, TakeMessage, SeeViewerGone, WriteOn, ReadPicture,
         SeeServerGone, SendOn, SayGoodbye, Select, Obey, Draw, ServerGoes
<1> QED BY <1>1, <1>2, <1>3, <1>4, <1>5, <1>6, <1>7, <1>8 DEF RelayTypes, RelayTypeOK

-----------------------------------------------------------------------------
(* Relay: the keys.                                                         *)

(* The bytes among the messages u are a + 1, ..., b, in that order. *)
Carries(u, a, b) ==
    /\ \A i, j \in DOMAIN u :
          i < j /\ u[i].kind = "binary" /\ u[j].kind = "binary" => u[i].byte < u[j].byte
    /\ \A i \in DOMAIN u : u[i].kind = "binary" => u[i].byte \in (a + 1)..b
    /\ \A v \in (a + 1)..b : \E i \in DOMAIN u : u[i].kind = "binary" /\ u[i].byte = v

LEMMA CarriesNone ==
    ASSUME NEW a \in Nat
    PROVE  Carries(<<>>, a, a)
  BY DEF Carries

LEMMA CarriesMore ==
    ASSUME NEW u \in Seq(Messages), NEW a \in Nat, NEW b \in Nat, a <= b, Carries(u, a, b)
    PROVE  /\ Carries(Append(u, Binary(b + 1)), a, b + 1)
           /\ \A m \in {Ping, Text} : Carries(Append(u, m), a, b)
<1>1. ASSUME NEW m \in Messages
      PROVE  /\ DOMAIN Append(u, m) = 1..(Len(u) + 1) /\ DOMAIN u = 1..Len(u) /\ Len(u) \in Nat
             /\ Append(u, m)[Len(u) + 1] = m
             /\ \A i \in 1..Len(u) : Append(u, m)[i] = u[i]
  <2>1. /\ Append(u, m) \in Seq(Messages) /\ Len(Append(u, m)) = Len(u) + 1
        /\ Append(u, m)[Len(u) + 1] = m
        /\ \A i \in 1..Len(u) : Append(u, m)[i] = u[i]
    BY AppendProperties
  <2> QED BY <2>1, LenProperties
<1>2. Carries(Append(u, Binary(b + 1)), a, b + 1)
  <2> DEFINE m == Binary(b + 1)
             w == Append(u, m)
  <2>1. m \in Messages /\ m.kind = "binary" /\ m.byte = b + 1
    BY MessageTyped
  <2>2. /\ DOMAIN w = 1..(Len(u) + 1) /\ DOMAIN u = 1..Len(u) /\ Len(u) \in Nat
        /\ w[Len(u) + 1] = m
        /\ \A i \in 1..Len(u) : w[i] = u[i]
    BY <1>1, <2>1
  <2> HIDE DEF m, w
  <2>3. \A i \in DOMAIN u : u[i].byte \in Nat
    BY ElementOfSeq, LenProperties, MessageTyped
  <2>4. ASSUME NEW i \in DOMAIN w, NEW j \in DOMAIN w,
               i < j, w[i].kind = "binary", w[j].kind = "binary"
        PROVE  w[i].byte < w[j].byte
    <3>1. i \in DOMAIN u /\ w[i] = u[i] /\ u[i].byte \in (a + 1)..b
      BY <2>2, <2>4 DEF Carries
    <3>2. CASE j \in DOMAIN u
      BY <2>2, <2>4, <3>1, <3>2 DEF Carries
    <3>3. CASE j = Len(u) + 1
      BY <2>1, <2>2, <3>1, <3>3
    <3> QED BY <2>2, <3>2, <3>3
  <2>5. ASSUME NEW i \in DOMAIN w, w[i].kind = "binary"
        PROVE  w[i].byte \in (a + 1)..(b + 1)
    <3>1. CASE i \in DOMAIN u
      BY <2>2, <2>3, <2>5, <3>1 DEF Carries
    <3>2. CASE i = Len(u) + 1
      BY <2>1, <2>2, <3>2
    <3> QED BY <2>2, <3>1, <3>2
  <2>6. ASSUME NEW v \in (a + 1)..(b + 1)
        PROVE  \E i \in DOMAIN w : w[i].kind = "binary" /\ w[i].byte = v
    <3>1. CASE v = b + 1
      BY <2>1, <2>2, <3>1
    <3>2. CASE v \in (a + 1)..b
      BY <2>2, <3>2 DEF Carries
    <3> QED BY <3>1, <3>2
  <2>7. Carries(w, a, b + 1)
    BY <2>4, <2>5, <2>6 DEF Carries
  <2> QED BY <2>7 DEF m, w
<1>3. ASSUME NEW m \in {Ping, Text} PROVE Carries(Append(u, m), a, b)
  <2> DEFINE w == Append(u, m)
  <2>1. m \in Messages /\ m.kind # "binary"
    BY MessageTyped
  <2>2. /\ DOMAIN w = 1..(Len(u) + 1) /\ DOMAIN u = 1..Len(u) /\ Len(u) \in Nat
        /\ w[Len(u) + 1] = m
        /\ \A i \in 1..Len(u) : w[i] = u[i]
    BY <1>1, <2>1
  <2> HIDE DEF w
  <2>3. Carries(w, a, b)
    BY <2>1, <2>2 DEF Carries
  <2> QED BY <2>3 DEF w
<1> QED BY <1>2, <1>3

LEMMA CarriesLess ==
    ASSUME NEW u \in Seq(Messages), u # <<>>, NEW a \in Nat, NEW b \in Nat, Carries(u, a, b)
    PROVE  /\ u[1].kind # "binary" => Carries(Tail(u), a, b)
           /\ u[1].kind = "binary" =>
                u[1].byte = a + 1 /\ a + 1 <= b /\ Carries(Tail(u), a + 1, b)
<1> DEFINE w == Tail(u)
<1>1. /\ DOMAIN w = 1..(Len(u) - 1) /\ DOMAIN u = 1..Len(u) /\ Len(u) \in Nat \ {0}
      /\ \A i \in 1..(Len(u) - 1) : w[i] = u[i + 1]
  <2>1. /\ w \in Seq(Messages) /\ Len(w) = Len(u) - 1 /\ Len(u) \in Nat \ {0}
        /\ \A i \in 1..Len(w) : w[i] = u[i + 1]
    BY HeadTailProperties, EmptySeq
  <2> HIDE DEF w
  <2> QED BY <2>1, LenProperties
<1> HIDE DEF w
<1>2. \A i \in DOMAIN u : u[i].byte \in Nat
  BY ElementOfSeq, LenProperties, MessageTyped
<1>5. ASSUME NEW i \in DOMAIN w, NEW j \in DOMAIN w,
             i < j, w[i].kind = "binary", w[j].kind = "binary"
      PROVE  w[i].byte < w[j].byte
  <2>1. /\ i + 1 \in DOMAIN u /\ j + 1 \in DOMAIN u /\ i + 1 < j + 1
        /\ w[i] = u[i + 1] /\ w[j] = u[j + 1]
    BY <1>1, <1>5
  <2> QED BY <1>5, <2>1 DEF Carries
<1>3. CASE u[1].kind # "binary"
  <2>1. Carries(w, a, b)
    <3>2. \A i \in DOMAIN w : w[i].kind = "binary" => w[i].byte \in (a + 1)..b
      BY <1>1 DEF Carries
    <3>3. \A v \in (a + 1)..b : \E i \in DOMAIN w : w[i].kind = "binary" /\ w[i].byte = v
      <4> SUFFICES ASSUME NEW v \in (a + 1)..b
                   PROVE  \E i \in DOMAIN w : w[i].kind = "binary" /\ w[i].byte = v
        OBVIOUS
      <4>1. PICK i \in DOMAIN u : u[i].kind = "binary" /\ u[i].byte = v
        BY DEF Carries
      <4>2. i - 1 \in DOMAIN w /\ w[i - 1] = u[i]
        BY <1>1, <1>3, <4>1
      <4> QED BY <4>1, <4>2
    <3> QED BY <1>5, <3>2, <3>3 DEF Carries
  <2> QED BY <1>3, <2>1 DEF w
<1>4. CASE u[1].kind = "binary"
  <2>1. 1 \in DOMAIN u /\ u[1].byte \in (a + 1)..b
    BY <1>1, <1>4 DEF Carries
  <2>2. u[1].byte = a + 1 /\ a + 1 <= b
    <3>1. PICK j \in DOMAIN u : u[j].kind = "binary" /\ u[j].byte = a + 1
      BY <2>1 DEF Carries
    <3>2. CASE j = 1
      BY <2>1, <3>1, <3>2
    <3>3. CASE j # 1
      <4>1. 1 < j
        BY <1>1, <3>3
      <4>2. u[1].byte < a + 1
        BY <1>4, <2>1, <3>1, <4>1 DEF Carries
      <4> QED BY <2>1, <4>2
    <3> QED BY <3>2, <3>3
  <2>3. Carries(w, a + 1, b)
    <3>2. ASSUME NEW i \in DOMAIN w, w[i].kind = "binary" PROVE w[i].byte \in ((a + 1) + 1)..b
      <4>1. i + 1 \in DOMAIN u /\ 1 < i + 1 /\ w[i] = u[i + 1]
        BY <1>1
      <4>2. u[i + 1].byte \in (a + 1)..b
        BY <3>2, <4>1 DEF Carries
      <4>3. u[1].byte < u[i + 1].byte
        BY <1>4, <2>1, <3>2, <4>1 DEF Carries
      <4> QED BY <2>2, <4>1, <4>2, <4>3
    <3>3. ASSUME NEW v \in ((a + 1) + 1)..b
          PROVE  \E i \in DOMAIN w : w[i].kind = "binary" /\ w[i].byte = v
      <4>1. PICK i \in DOMAIN u : u[i].kind = "binary" /\ u[i].byte = v
        <5>1. v \in (a + 1)..b
          OBVIOUS
        <5> QED BY <5>1 DEF Carries
      <4>2. i # 1
        BY <2>2, <4>1
      <4>3. i - 1 \in DOMAIN w /\ w[i - 1] = u[i]
        BY <1>1, <4>1, <4>2
      <4> QED BY <4>1, <4>3
    <3> QED BY <1>5, <3>2, <3>3 DEF Carries
  <2> QED BY <1>4, <2>2, <2>3 DEF w
<1> QED BY <1>3, <1>4

LEMMA UpToNext ==
    ASSUME NEW n \in Nat
    PROVE  /\ UpTo(n) \in Seq(Nat) /\ UpTo(0) = <<>>
           /\ UpTo(n + 1) = Append(UpTo(n), n + 1)
<1>1. \A m \in Nat : UpTo(m) = Count(m)
  BY DEF UpTo, Count
<1>2. UpTo(n) = Count(n) /\ UpTo(n + 1) = Count(n + 1) /\ UpTo(0) = Count(0)
  BY <1>1
<1> QED BY <1>2, CountNext, CountNone

(* What the server has been handed of the browser's bytes. *)
Handed == Len(obeyed) + Len(keyed)

(* The rest of them is on its way, as long as the task that passes it on *)
(* runs.                                                                 *)
KeysComing ==
    toApp \in {"none", "reading", "writing"} => Handed <= sent /\ Carries(upward, Handed, sent)

LEMMA HandedTyped ==
    ASSUME RelayTypes
    PROVE  /\ Handed \in Nat /\ obeyed \o keyed \in Seq(Nat)
           /\ Handed = Len(obeyed \o keyed)
<1>1. obeyed \in Seq(Nat) /\ keyed \in Seq(Nat)
  BY DEF RelayTypes, RelayTypeOK
<1> QED BY <1>1, LenProperties, ConcatProperties DEF Handed

(* A write hands over the byte whose turn it is. *)
LEMMA WriteIsNext ==
    ASSUME RelayTypes, KeysComing, WriteOn, toApp' = "reading"
    PROVE  /\ keyed' = Append(keyed, Handed + 1) /\ obeyed' = obeyed
           /\ Handed' = Handed + 1
           /\ Handed + 1 <= sent /\ Carries(Tail(upward), Handed + 1, sent)
<1>1. /\ Handed \in Nat /\ sent \in Nat /\ upward \in Seq(Messages)
      /\ keyed \in Seq(Nat) /\ obeyed \in Seq(Nat)
  BY HandedTyped DEF RelayTypes, RelayTypeOK
<1>2. upward # <<>> /\ upward[1].kind = "binary" /\ Carries(upward, Handed, sent)
  BY DEF RelayTypes, HasByte, KeysComing, WriteOn
<1>3. /\ upward[1].byte = Handed + 1 /\ Handed + 1 <= sent
      /\ Carries(Tail(upward), Handed + 1, sent)
  BY <1>1, <1>2, CarriesLess
<1>4. Head(upward) = upward[1]
  BY <1>1, <1>2, Moved
<1>5. keyed' = Append(keyed, Head(upward).byte) /\ obeyed' = obeyed
  BY DEF WriteOn, serverVars
<1>6. keyed' = Append(keyed, Handed + 1)
  BY <1>3, <1>4, <1>5
<1>7. Len(keyed') = Len(keyed) + 1 /\ Len(keyed) \in Nat /\ Len(obeyed) \in Nat
  BY <1>1, <1>6, AppendProperties, LenProperties
<1>8. Handed' = Handed + 1
  BY <1>5, <1>7 DEF Handed
<1> QED BY <1>3, <1>5, <1>6, <1>8

LEMMA ObeyKeeps ==
    ASSUME RelayTypes, Obey
    PROVE  obeyed' \o keyed' = obeyed \o keyed /\ Handed' = Handed
<1>1. obeyed \in Seq(Nat) /\ keyed \in Seq(Nat) /\ keyed # <<>>
  BY DEF RelayTypes, RelayTypeOK, Obey
<1>2. obeyed' = Append(obeyed, Head(keyed)) /\ keyed' = Tail(keyed)
  BY DEF Obey
<1>3. /\ obeyed \o keyed = obeyed' \o keyed'
      /\ Head(keyed) \in Nat
  BY <1>1, <1>2, MoveOne, Moved
<1>4. Len(obeyed') = Len(obeyed) + 1 /\ Len(obeyed) \in Nat
  BY <1>1, <1>2, <1>3, AppendProperties, LenProperties
<1>5. Len(keyed') = Len(keyed) - 1 /\ Len(keyed) \in Nat
  BY <1>1, <1>2, HeadTailProperties, LenProperties
<1> QED BY <1>3, <1>4, <1>5 DEF Handed

LEMMA KeysComingStep ==
    RelayTypes /\ KeysComing /\ [RelayNext]_relayVars => KeysComing'
<1> SUFFICES ASSUME RelayTypes, KeysComing, [RelayNext]_relayVars,
                    toApp' \in {"none", "reading", "writing"}
             PROVE  Handed' <= sent' /\ Carries(upward', Handed', sent')
  BY DEF KeysComing
<1> USE DEF viewerVars, taskVars, serverVars
<1>1. upward \in Seq(Messages) /\ sent \in Nat /\ Handed \in Nat
  BY HandedTyped DEF RelayTypes, RelayTypeOK
<1>2. CASE Send
  <2>1. Handed' = Handed /\ Handed <= sent /\ Carries(upward, Handed, sent)
    BY <1>2 DEF Send, KeysComing, Handed
  <2>2. CASE sent' = sent + 1 /\ upward' = Append(upward, Binary(sent'))
    <3>1. upward' = Append(upward, Binary(sent + 1))
      BY <2>2
    <3> QED BY <1>1, <2>1, <2>2, <3>1, CarriesMore
  <2>3. CASE UNCHANGED sent /\ \E m \in {Ping, Text} : upward' = Append(upward, m)
    BY <1>1, <2>1, <2>3, CarriesMore
  <2> QED BY <1>2, <2>2, <2>3 DEF Send
<1>3. CASE TakeMessage
  <2>1. /\ Handed' = Handed /\ sent' = sent
        /\ Handed <= sent /\ Carries(upward, Handed, sent)
        /\ upward # <<>> /\ Head(upward) = upward[1]
    BY <1>1, <1>3, Moved DEF TakeMessage, KeysComing, Handed
  <2>2. upward' = upward \/ (Head(upward) = Ping /\ upward' = Tail(upward))
    BY <1>3 DEF TakeMessage
  <2>3. CASE upward' = upward
    BY <2>1, <2>3
  <2>4. CASE Head(upward) = Ping /\ upward' = Tail(upward)
    <3>1. upward[1].kind # "binary"
      BY <2>1, <2>4, MessageTyped
    <3>2. Carries(Tail(upward), Handed, sent)
      BY <1>1, <2>1, <3>1, CarriesLess
    <3> QED BY <2>1, <2>4, <3>2
  <2> QED BY <2>2, <2>3, <2>4
<1>4. CASE WriteOn
  <2>1. toApp' = "reading" /\ upward' = Tail(upward) /\ sent' = sent
    BY <1>4 DEF WriteOn
  <2> QED BY <1>4, <2>1, WriteIsNext
<1>5. CASE Obey
  <2>1. Handed' = Handed /\ upward' = upward /\ sent' = sent /\ toApp' = toApp
    BY <1>5, ObeyKeeps DEF Obey
  <2> QED BY <2>1 DEF KeysComing
<1>6. CASE ~Send /\ ~TakeMessage /\ ~WriteOn /\ ~Obey
  <2>1. /\ upward' = upward /\ sent' = sent /\ keyed' = keyed /\ obeyed' = obeyed
        /\ toApp \in {"none", "reading", "writing"}
    BY <1>6
    DEF RelayTypes, NotOpened, RelayNext, relayVars, ToApp, ToBrowser, OpenRelay, See, LeaveRelay,
        SeeViewerGone, ReadPicture, SeeServerGone, SendOn, SayGoodbye, Select, Draw, ServerGoes
  <2>2. Handed' = Handed
    BY <2>1 DEF Handed
  <2> QED BY <2>1, <2>2 DEF KeysComing
<1> QED BY <1>2, <1>3, <1>4, <1>5, <1>6

LEMMA KeysInOrderStep ==
    RelayTypes /\ KeysComing /\ KeysInOrder /\ [RelayNext]_relayVars => KeysInOrder'
<1> SUFFICES ASSUME RelayTypes, KeysComing, KeysInOrder, [RelayNext]_relayVars
             PROVE  obeyed' \o keyed' = UpTo(Len(obeyed' \o keyed'))
  BY DEF KeysInOrder
<1>1. /\ obeyed \in Seq(Nat) /\ keyed \in Seq(Nat) /\ Handed \in Nat
      /\ obeyed \o keyed \in Seq(Nat) /\ Len(obeyed \o keyed) = Handed
      /\ obeyed \o keyed = UpTo(Handed)
  BY HandedTyped DEF RelayTypes, RelayTypeOK, KeysInOrder
<1>2. CASE WriteOn /\ toApp' = "reading"
  <2>1. keyed' = Append(keyed, Handed + 1) /\ obeyed' = obeyed
    BY <1>2, WriteIsNext
  <2>2. obeyed' \o keyed' = Append(obeyed \o keyed, Handed + 1)
    BY <1>1, <2>1, AppendAtEnd
  <2>3. obeyed' \o keyed' = UpTo(Handed + 1)
    BY <1>1, <2>2, UpToNext
  <2>4. Len(obeyed' \o keyed') = Handed + 1
    BY <1>1, <2>2, AppendProperties
  <2> QED BY <2>3, <2>4
<1>3. CASE Obey
  BY <1>1, <1>3, ObeyKeeps
<1>4. CASE ~Obey /\ ~(WriteOn /\ toApp' = "reading")
  <2>1. obeyed' = obeyed /\ keyed' = keyed
    BY <1>4
    DEF RelayNext, relayVars, viewerVars, taskVars, serverVars, ToApp, ToBrowser, OpenRelay, Send,
        See, LeaveRelay, TakeMessage, SeeViewerGone, WriteOn, ReadPicture, SeeServerGone, SendOn,
        SayGoodbye, Select, Draw, ServerGoes
  <2> QED BY <1>1, <2>1
<1> QED BY <1>2, <1>3, <1>4

-----------------------------------------------------------------------------
(* Relay: the picture.                                                      *)

LEMMA PictureInOrderStep ==
    RelayTypes /\ PictureInOrder /\ [RelayNext]_relayVars => PictureInOrder'
<1> SUFFICES ASSUME RelayTypes, PictureInOrder, [RelayNext]_relayVars,
                    toBrowser' \in {"reading", "sending"}
             PROVE  seen' \o FlattenSeq(downward') \o frame' \o picture' = UpTo(drawn')
  BY DEF PictureInOrder
<1> USE DEF viewerVars, taskVars, serverVars
<1> DEFINE flat == FlattenSeq(downward)
           shown == seen \o flat
<1>1. /\ seen \in Seq(Nat) /\ downward \in Seq(Seq(Nat)) /\ frame \in Seq(Nat)
      /\ picture \in Seq(Nat) /\ drawn \in Nat
  BY DEF RelayTypes, RelayTypeOK
<1>2. flat \in Seq(Nat)
  BY <1>1, FlattenTyped
<1>3. shown \in Seq(Nat) /\ shown \o frame \in Seq(Nat) /\ shown \o frame \o picture \in Seq(Nat)
  <2> HIDE DEF flat
  <2>1. shown \in Seq(Nat)
    BY <1>1, <1>2, ConcatProperties
  <2> HIDE DEF shown
  <2>2. shown \o frame \in Seq(Nat)
    BY <1>1, <2>1, ConcatProperties
  <2> QED BY <1>1, <2>1, <2>2, ConcatProperties
<1>4. CASE OpenRelay
  <2>1. /\ seen' = <<>> /\ downward' = <<>> /\ frame' = <<>> /\ picture' = <<>> /\ drawn' = 0
    BY <1>4 DEF OpenRelay, RelayTypes, NotOpened
  <2>2. FlattenSeq(downward') = <<>> /\ UpTo(drawn') = <<>>
    BY <2>1, FlattenIs, UpToNext, EmptySeq
  <2> QED BY <2>1, <2>2, ConcatEmptySeq, EmptySeq
<1>5. ASSUME ~OpenRelay PROVE toBrowser \in {"reading", "sending"}
  BY <1>5
  DEF RelayNext, relayVars, ToApp, ToBrowser, Send,
      See, LeaveRelay, TakeMessage, SeeViewerGone, WriteOn, ReadPicture, SeeServerGone, SendOn,
      SayGoodbye, Select, Obey, Draw, ServerGoes
<1>6. ASSUME ~OpenRelay PROVE shown \o frame \o picture = UpTo(drawn)
  BY <1>5, <1>6 DEF PictureInOrder
<1>7. CASE See
  <2>1. /\ downward # <<>> /\ seen' = seen \o Head(downward) /\ downward' = Tail(downward)
        /\ frame' = frame /\ picture' = picture /\ drawn' = drawn /\ ~OpenRelay
    BY <1>7 DEF See, OpenRelay
  <2>2. Head(downward) \in Seq(Nat) /\ Tail(downward) \in Seq(Seq(Nat))
    BY <1>1, <2>1, Moved
  <2>3. flat = Head(downward) \o FlattenSeq(Tail(downward)) /\ FlattenSeq(Tail(downward)) \in Seq(Nat)
    BY <1>1, <2>1, <2>2, FlattenTail, FlattenTyped
  <2>4. seen' \o FlattenSeq(downward') = seen \o (Head(downward) \o FlattenSeq(Tail(downward)))
    BY <1>1, <2>1, <2>2, <2>3, Regroup
  <2>5. seen' \o FlattenSeq(downward') = shown
    BY <2>3, <2>4
  <2> QED BY <1>6, <2>1, <2>5
<1>8. CASE ReadPicture
  <2>1. PICK n \in 1..Len(picture) :
              /\ frame' = SubSeq(picture, 1, n)
              /\ picture' = SubSeq(picture, n + 1, Len(picture))
    BY <1>8 DEF ReadPicture
  <2>2. /\ seen' = seen /\ downward' = downward /\ drawn' = drawn /\ ~OpenRelay /\ frame = <<>>
    BY <1>8 DEF ReadPicture, OpenRelay, RelayTypes, NoFrame
  <2>3. frame' \in Seq(Nat) /\ picture' \in Seq(Nat) /\ picture = frame' \o picture'
    BY <1>1, <2>1, Cut
  <2>4. shown \o frame = shown
    BY <1>3, <2>2, ConcatEmptySeq
  <2> HIDE DEF shown
  <2>5. (shown \o frame') \o picture' = shown \o picture
    BY <1>3, <2>3, Regroup
  <2> QED BY <1>6, <2>2, <2>4, <2>5 DEF shown
<1>9. CASE SendOn
  <2>1. /\ downward' = Append(downward, frame) /\ frame' = <<>> /\ seen' = seen
        /\ picture' = picture /\ drawn' = drawn /\ ~OpenRelay
    BY <1>9 DEF SendOn, OpenRelay
  <2>2. FlattenSeq(downward') = flat \o frame
    BY <1>1, <2>1, FlattenAppend
  <2>3. seen' \o FlattenSeq(downward') = shown \o frame
    <3> HIDE DEF flat
    <3>1. (seen \o flat) \o frame = seen \o (flat \o frame)
      BY <1>1, <1>2, Regroup
    <3> QED BY <2>1, <2>2, <3>1
  <2>4. (shown \o frame) \o frame' = shown \o frame
    BY <1>3, <2>1, ConcatEmptySeq
  <2> QED BY <1>6, <2>1, <2>3, <2>4
<1>10. CASE Draw
  <2>1. /\ picture' = Append(picture, drawn + 1) /\ drawn' = drawn + 1
        /\ seen' = seen /\ downward' = downward /\ frame' = frame
        /\ ~OpenRelay
    BY <1>1, <1>10 DEF Draw, OpenRelay
  <2> HIDE DEF shown
  <2>2. (shown \o frame) \o picture' = Append((shown \o frame) \o picture, drawn + 1)
    BY <1>1, <1>3, <2>1, AppendAtEnd
  <2>3. (shown \o frame) \o picture' = UpTo(drawn + 1)
    BY <1>1, <1>6, <2>1, <2>2, UpToNext
  <2> QED BY <2>1, <2>3 DEF shown
<1>11. CASE ~OpenRelay /\ ~See /\ ~ReadPicture /\ ~SendOn /\ ~Draw
  <2>1. /\ seen' = seen /\ downward' = downward /\ frame' = frame /\ picture' = picture
        /\ drawn' = drawn
    BY <1>11
    DEF RelayNext, relayVars, ToApp, ToBrowser, Send, LeaveRelay, TakeMessage, SeeViewerGone,
        WriteOn, SeeServerGone, SayGoodbye, Select, Obey, ServerGoes
  <2> QED BY <1>6, <1>11, <2>1
<1> QED BY <1>4, <1>7, <1>8, <1>9, <1>10, <1>11

(* Every reachable state of a relay has the types the code gives it, for     *)
(* sockets of any size.                                                      *)
THEOREM RelayHasTypes == RelaySpec => []RelayTypeOK
<1>1. RelayTypes => RelayTypeOK
  BY DEF RelayTypes
<1> QED BY <1>1, RelayTypesInit, RelayTypesStep, PTL DEF RelaySpec

(* The relay is transparent in both directions, however many bytes either end *)
(* sends, however little a socket holds and however the picture is cut into   *)
(* reads and frames (rfb.rs).                                                 *)
THEOREM RelayAlwaysInOrder == RelaySpec => []InOrder
<1> DEFINE Inv == RelayTypes /\ KeysComing /\ InOrder
<1>1. RelayInit => Inv
  <2> SUFFICES ASSUME RelayInit PROVE KeysComing /\ KeysInOrder /\ PictureInOrder
    BY RelayTypesInit DEF InOrder
  <2>1. obeyed = <<>> /\ keyed = <<>> /\ sent = 0 /\ upward = <<>> /\ toBrowser = "none"
    BY DEF RelayInit
  <2>2. Len(<<>>) = 0 /\ <<>> \o <<>> = <<>> /\ UpTo(0) = <<>>
    BY EmptySeq, ConcatEmptySeq, UpToNext
  <2>3. Handed = 0
    BY <2>1, <2>2 DEF Handed
  <2> QED BY <2>1, <2>2, <2>3, CarriesNone DEF KeysComing, KeysInOrder, PictureInOrder
<1>2. Inv /\ [RelayNext]_relayVars => Inv'
  BY RelayTypesStep, KeysComingStep, KeysInOrderStep, PictureInOrderStep DEF InOrder
<1>3. Inv => InOrder
  OBVIOUS
<1> QED BY <1>1, <1>2, <1>3, PTL DEF RelaySpec

-----------------------------------------------------------------------------
(* Proxy: types.  A request that is under way is for an application, and     *)
(* only applications with an origin are shown at one.                       *)

Pcs == {"none", "asked", "forward", "relayed", "answered"}

OnItsWay == visit.pc # "none" => framed # Elsewhere

AtItsOrigin == framed.door = "origin" => framed.app \in OwnOrigin

TypeInv == ProxyTypeOK /\ OnItsWay /\ AtItsOrigin

LEMMA Addresses ==
    /\ \A a \in App, d \in Door :
          /\ At(a, d) \in [app : App, door : Door]
          /\ At(a, d) # Elsewhere
          /\ At(a, d).app = a /\ At(a, d).door = d
    /\ Elsewhere.door = "elsewhere"
    /\ \A f \in [app : App, door : Door] : f # Elsewhere
  BY DEF At, Elsewhere, Door

LEMMA NoVisitTyped ==
    /\ NoVisit \in [pc : Pcs, cookies : SUBSET Cookie, redirected : BOOLEAN]
    /\ NoVisit.pc = "none"
  BY DEF NoVisit, Pcs

(* A browser that is sent somewhere asks there, or has left.               *)
LEMMA GoToTyped ==
    ASSUME NEW f \in [app : App, door : Door] \cup {Elsewhere}, NEW b \in BOOLEAN,
           f.door = "origin" => f.app \in OwnOrigin,
           GoTo(f, b)
    PROVE  /\ framed' \in [app : App, door : Door] \cup {Elsewhere}
           /\ visit' \in [pc : Pcs, cookies : SUBSET Cookie, redirected : BOOLEAN]
           /\ visit'.pc \in {"none", "asked"}
           /\ OnItsWay' /\ AtItsOrigin'
  BY NoVisitTyped DEF GoTo, OnItsWay, AtItsOrigin, Pcs

(* What a jar holds after C was stored in it.                              *)
LEMMA Stored ==
    ASSUME NEW C \in SUBSET Cookie, jar \subseteq Cookie, Store(C)
    PROVE  /\ jar' \subseteq jar \cup C /\ jar' \subseteq Cookie
           /\ C \subseteq jar'
           /\ \A d \in jar : (\A c \in C : c.name # d.name) => d \in jar'
  BY DEF Store

LEMMA RewrittenTyped ==
    ASSUME NEW c \in Cookie, framed \in [app : App, door : Door]
    PROVE  /\ RewrittenCookie(c) \subseteq Cookie
           /\ \A d \in RewrittenCookie(c) :
                 /\ d.name # WebDesk
                 /\ d.by = c.by
                 /\ d.path = IF framed.door = "origin" THEN Root ELSE framed.app
<1>1. CASE c.name = WebDesk
  BY <1>1 DEF RewrittenCookie
<1>2. CASE c.name # WebDesk
  <2>1. Prefix(framed) \in Path
    BY DEF Prefix, Path
  <2>2. [c EXCEPT !.path = Prefix(framed)] \in Cookie
    BY <2>1 DEF Cookie
  <2> QED
    BY <1>2, <2>2 DEF RewrittenCookie, Prefix, Cookie
<1> QED
  BY <1>1, <1>2

LEMMA TypeInit == ProxyInit => TypeInv
<1> SUFFICES ASSUME ProxyInit PROVE TypeInv
  OBVIOUS
<1>1. ProxyTypeOK
  BY NoVisitTyped DEF ProxyInit, ProxyTypeOK, Pcs
<1>2. OnItsWay /\ AtItsOrigin
  BY NoVisitTyped, Addresses DEF ProxyInit, OnItsWay, AtItsOrigin
<1> QED
  BY <1>1, <1>2 DEF TypeInv

LEMMA TypeStep == TypeInv /\ [ProxyNext]_proxyVars => TypeInv'
<1> SUFFICES ASSUME TypeInv, [ProxyNext]_proxyVars PROVE TypeInv'
  OBVIOUS
<1> USE DEF TypeInv
<1>1. CASE SignIn
  <2>1. SessionCookie \in Cookie
    BY DEF SessionCookie, Cookie, Path
  <2>2. jar' \subseteq Cookie
    BY <1>1, <2>1, Stored DEF SignIn, ProxyTypeOK
  <2> QED
    BY <1>1, <2>2 DEF SignIn, ProxyTypeOK, OnItsWay, AtItsOrigin
<1>2. CASE SignOut
  BY <1>2 DEF SignOut, ProxyTypeOK, OnItsWay, AtItsOrigin
<1>3. CASE Manage
  BY <1>3 DEF Manage, ProxyTypeOK, OnItsWay, AtItsOrigin
<1>4. CASE Visit
  <2>1. PICK a \in App, d \in Door :
           (d = "origin" => a \in OwnOrigin) /\ GoTo(At(a, d), FALSE)
    BY <1>4 DEF Visit
  <2>2. At(a, d).door = "origin" => At(a, d).app \in OwnOrigin
    BY <2>1, Addresses
  <2> QED
    BY <1>4, <2>1, <2>2, Addresses, GoToTyped DEF Visit, ProxyTypeOK, Pcs
<1>5. CASE Handle
  <2>1. framed \in [app : App, door : Door] /\ visit.redirected \in BOOLEAN
    BY <1>5 DEF Handle, ProxyTypeOK, OnItsWay
  <2>2. CASE Answered /\ UNCHANGED framed
    BY <1>5, <2>1, <2>2 DEF Handle, Answered, ProxyTypeOK, OnItsWay, AtItsOrigin
  <2>3. CASE GoTo(At(framed.app, "prefix"), visit.redirected)
    <3>1. At(framed.app, "prefix") \in [app : App, door : Door]
          /\ At(framed.app, "prefix").door = "prefix"
      BY <2>1, Addresses DEF Door
    <3> QED
      BY <1>5, <2>1, <2>3, <3>1, GoToTyped DEF Handle, ProxyTypeOK, Pcs
  <2>4. CASE SentToOrigin(framed) /\ GoTo(At(framed.app, "origin"), visit.redirected)
    <3>1. At(framed.app, "origin") \in [app : App, door : Door]
          /\ At(framed.app, "origin").app \in OwnOrigin
      BY <2>1, <2>4, Addresses DEF Door, SentToOrigin
    <3> QED
      BY <1>5, <2>1, <2>4, <3>1, GoToTyped DEF Handle, ProxyTypeOK, Pcs
  <2>5. CASE /\ visit' = [visit EXCEPT !.pc = "forward",
                                       !.cookies = ForwardedCookies(CookiesFor(framed))]
             /\ UNCHANGED framed
    <3>1. ForwardedCookies(CookiesFor(framed)) \subseteq Cookie
      BY DEF ForwardedCookies, CookiesFor, ProxyTypeOK
    <3> QED
      BY <1>5, <2>1, <2>5, <3>1 DEF Handle, ProxyTypeOK, OnItsWay, AtItsOrigin
  <2> QED
    BY <1>5, <2>2, <2>3, <2>4, <2>5 DEF Handle
<1>6. CASE Forward
  <2>1. framed.app \in App /\ visit.cookies \subseteq Cookie
    BY <1>6 DEF Forward, ProxyTypeOK, OnItsWay
  <2>2. {c.by : c \in visit.cookies} \subseteq App \cup {WebDesk}
    BY <2>1 DEF Cookie
  <2>3. received' \in [App -> SUBSET (App \cup {WebDesk})]
    BY <1>6, <2>2 DEF Forward, ProxyTypeOK
  <2> QED
    BY <1>6, <2>3 DEF Forward, Answered, ProxyTypeOK, OnItsWay, AtItsOrigin
<1>7. CASE Relay
  <2>1. framed \in [app : App, door : Door]
    BY <1>7 DEF Relay, ProxyTypeOK, OnItsWay
  <2>2. jar' \subseteq Cookie
    BY <1>7, <2>1, RewrittenTyped, Stored DEF Relay, ProxyTypeOK
  <2>3. CASE Answered /\ UNCHANGED framed
    BY <1>7, <2>1, <2>2, <2>3 DEF Relay, Answered, ProxyTypeOK, OnItsWay, AtItsOrigin
  <2>4. ASSUME NEW l, GoTo(RewrittenLocation(l), TRUE) PROVE TypeInv'
    <3>1. /\ RewrittenLocation(l) \in [app : App, door : Door] \cup {Elsewhere}
          /\ RewrittenLocation(l).door = "origin" => RewrittenLocation(l).app \in OwnOrigin
      BY <2>1, Addresses DEF RewrittenLocation, AtItsOrigin
    <3> QED
      BY <1>7, <2>2, <2>4, <3>1, GoToTyped DEF Relay, ProxyTypeOK, Pcs
  <2> QED
    BY <1>7, <2>3, <2>4 DEF Relay
<1>8. CASE Show
  BY <1>8, NoVisitTyped DEF Show, ProxyTypeOK, OnItsWay, AtItsOrigin, Pcs
<1>9. CASE UNCHANGED proxyVars
  BY <1>9 DEF proxyVars, ProxyTypeOK, OnItsWay, AtItsOrigin
<1> QED
  BY <1>1, <1>2, <1>3, <1>4, <1>5, <1>6, <1>7, <1>8, <1>9 DEF ProxyNext, Serve

\* Every reachable state has its types, and a request is always for an
\* application, at a port of its own only if it has one.
THEOREM ProxyTypes == ProxySpec => []ProxyTypeOK
<1>1. TypeInv => ProxyTypeOK
  BY DEF TypeInv
<1> QED
  BY <1>1, TypeInit, TypeStep, PTL DEF ProxySpec
-----------------------------------------------------------------------------
(* Proxy: who is sent what.  A cookie in the jar that is not the session's  *)
(* is for the application that set it, or was set at the root of a port;    *)
(* and that is what a request carries once the session's name has been      *)
(* taken out.                                                               *)

OwnPath(c) == IF c.path = Root THEN c.by \in OwnOrigin ELSE c.by = c.path

JarIsOwn == \A c \in jar : c.name # WebDesk => OwnPath(c)

CarriesOwn ==
    visit.pc = "forward" =>
        \A c \in visit.cookies : c.by \in {framed.app} \cup OwnOrigin

OwnInv == JarIsOwn /\ CarriesOwn /\ OwnCookies

(* A cookie an application sets is its own, wherever it asked for it.      *)
LEMMA RewrittenIsOwn ==
    ASSUME NEW c \in Cookie, c.by = framed.app, AtItsOrigin,
           framed \in [app : App, door : Door]
    PROVE  \A d \in RewrittenCookie(c) : OwnPath(d)
<1>1. framed.app # Root
  BY ProxyAssumption
<1> QED
  BY <1>1, RewrittenTyped DEF OwnPath, AtItsOrigin

(* What the browser has for a door is its application's or the root's.     *)
LEMMA ForwardedIsOwn ==
    ASSUME JarIsOwn, framed.app \in App
    PROVE  \A c \in ForwardedCookies(CookiesFor(framed)) :
              c.by \in {framed.app} \cup OwnOrigin
<1> SUFFICES ASSUME NEW c \in jar, c.name # WebDesk,
                    c.path = Root \/ c.path = framed.app
             PROVE  c.by \in {framed.app} \cup OwnOrigin
  BY DEF ForwardedCookies, CookiesFor
<1>1. OwnPath(c)
  BY DEF JarIsOwn
<1> QED
  BY <1>1 DEF OwnPath

LEMMA OwnInit == ProxyInit => OwnInv
  BY NoVisitTyped DEF ProxyInit, OwnInv, JarIsOwn, CarriesOwn, OwnCookies

(* A browser that is sent somewhere carries nothing yet.                   *)
LEMMA GoToCarriesOwn ==
    ASSUME NEW f, NEW b, GoTo(f, b)
    PROVE  CarriesOwn'
  BY NoVisitTyped DEF GoTo, CarriesOwn

LEMMA OwnStep == TypeInv /\ OwnInv /\ [ProxyNext]_proxyVars => OwnInv'
<1> SUFFICES ASSUME TypeInv, OwnInv, [ProxyNext]_proxyVars PROVE OwnInv'
  OBVIOUS
<1> USE DEF OwnInv
<1>1. CASE SignIn
  <2>1. JarIsOwn'
    BY <1>1 DEF SignIn, Store, JarIsOwn, SessionCookie, OwnPath
  <2> QED
    BY <1>1, <2>1 DEF SignIn, CarriesOwn, OwnCookies
<1>2. CASE SignOut \/ Manage
  BY <1>2 DEF SignOut, Manage, JarIsOwn, OwnPath, CarriesOwn, OwnCookies
<1>3. CASE Visit
  BY <1>3, GoToCarriesOwn DEF Visit, JarIsOwn, OwnPath, OwnCookies
<1>4. CASE Handle
  <2>1. JarIsOwn' /\ OwnCookies'
    BY <1>4 DEF Handle, JarIsOwn, OwnPath, OwnCookies
  <2>2. framed.app \in App
    BY <1>4 DEF Handle, TypeInv, ProxyTypeOK, OnItsWay
  <2>3. CASE Answered
    BY <2>1, <2>3 DEF Answered, CarriesOwn, TypeInv, ProxyTypeOK
  <2>4. CASE /\ visit' = [visit EXCEPT !.pc = "forward",
                                       !.cookies = ForwardedCookies(CookiesFor(framed))]
             /\ UNCHANGED framed
    <3>1. visit'.cookies = ForwardedCookies(CookiesFor(framed))
      BY <2>4 DEF TypeInv, ProxyTypeOK
    <3> QED
      BY <2>1, <2>2, <2>4, <3>1, ForwardedIsOwn DEF CarriesOwn
  <2> QED
    BY <1>4, <2>1, <2>3, <2>4, GoToCarriesOwn DEF Handle
<1>5. CASE Forward
  <2>1. framed.app \in App
    BY <1>5 DEF Forward, TypeInv, ProxyTypeOK, OnItsWay
  <2>2. OwnCookies'
    BY <1>5, <2>1 DEF Forward, OwnCookies, CarriesOwn, TypeInv, ProxyTypeOK
  <2> QED
    BY <1>5, <2>2 DEF Forward, Answered, JarIsOwn, OwnPath, CarriesOwn, TypeInv, ProxyTypeOK
<1>6. CASE Relay
  <2>1. framed \in [app : App, door : Door]
    BY <1>6 DEF Relay, TypeInv, ProxyTypeOK, OnItsWay
  <2>2. JarIsOwn'
    <3>1. CASE UNCHANGED jar
      BY <3>1 DEF JarIsOwn, OwnPath
    <3>2. ASSUME NEW c \in Cookie, c.by = framed.app, Store(RewrittenCookie(c))
          PROVE  JarIsOwn'
      <4>1. \A d \in RewrittenCookie(c) : OwnPath(d)
        BY <2>1, <3>2, RewrittenIsOwn DEF TypeInv
      <4>2. jar' \subseteq jar \cup RewrittenCookie(c)
        BY <2>1, <3>2, RewrittenTyped, Stored DEF TypeInv, ProxyTypeOK
      <4> QED
        BY <4>1, <4>2 DEF JarIsOwn, OwnPath
    <3> QED
      BY <1>6, <3>1, <3>2 DEF Relay
  <2>3. CarriesOwn'
    BY <1>6, GoToCarriesOwn DEF Relay, Answered, CarriesOwn, TypeInv, ProxyTypeOK
  <2> QED
    BY <1>6, <2>2, <2>3 DEF Relay, OwnCookies
<1>7. CASE Show
  BY <1>7, NoVisitTyped DEF Show, JarIsOwn, OwnPath, CarriesOwn, OwnCookies
<1>8. CASE UNCHANGED proxyVars
  BY <1>8 DEF proxyVars, JarIsOwn, OwnPath, CarriesOwn, OwnCookies
<1> QED
  BY <1>1, <1>2, <1>3, <1>4, <1>5, <1>6, <1>7, <1>8 DEF ProxyNext, Serve

\* No application is ever sent a cookie of another one that lives under a
\* prefix, nor the session's: whatever names and paths applications ask for,
\* wherever they redirect to, and however the browser moves between them.
THEOREM CookiesAreOwn == ProxySpec => []OwnCookies
<1>1. OwnInv => OwnCookies
  BY DEF OwnInv
<1> QED
  BY <1>1, TypeInit, TypeStep, OwnInit, OwnStep, PTL DEF ProxySpec

-----------------------------------------------------------------------------
\* Nothing an application answers takes the session's cookie out of the
\* browser that is signed in.
THEOREM SessionAlwaysKept == ProxySpec => []SessionKept
<1>1. ProxyInit => SessionKept
  BY DEF ProxyInit, SessionKept
<1>2. TypeInv /\ SessionKept /\ [ProxyNext]_proxyVars => SessionKept'
  <2> SUFFICES ASSUME TypeInv, SessionKept, [ProxyNext]_proxyVars, session'
               PROVE  SessionCookie \in jar'
    BY DEF SessionKept
  <2>1. CASE SignIn
    BY <2>1 DEF SignIn, Store
  <2>2. CASE Relay
    <3>1. framed \in [app : App, door : Door] /\ SessionCookie \in jar
      BY <2>2 DEF Relay, TypeInv, ProxyTypeOK, OnItsWay, SessionKept
    <3>2. ASSUME NEW c \in Cookie, Store(RewrittenCookie(c))
          PROVE  SessionCookie \in jar'
      <4>1. \A d \in RewrittenCookie(c) : d.name # SessionCookie.name
        BY <3>1, RewrittenTyped DEF SessionCookie
      <4> QED
        BY <3>1, <3>2, <4>1, RewrittenTyped, Stored DEF TypeInv, ProxyTypeOK
    <3> QED
      BY <2>2, <3>1, <3>2 DEF Relay
  <2>3. CASE SignOut
    BY <2>3 DEF SignOut
  <2>4. CASE Manage \/ Visit \/ Handle \/ Forward \/ Show
    BY <2>4 DEF Manage, Visit, Handle, Forward, Show, SessionKept
  <2>5. CASE UNCHANGED proxyVars
    BY <2>5 DEF proxyVars, SessionKept
  <2> QED
    BY <2>1, <2>2, <2>3, <2>4, <2>5 DEF ProxyNext, Serve
<1> QED
  BY <1>1, <1>2, TypeInit, TypeStep, PTL DEF ProxySpec

-----------------------------------------------------------------------------
(* Frames: the number a text of digits is.                                  *)

Counts(v, s) == v = [i \in 0..Len(s) |-> IF i = 0 THEN 0 ELSE 2 * v[i - 1] + s[i]]

LEMMA CountsNone ==
    /\ Counts([i \in 0..0 |-> 0], <<>>)
    /\ \A v : Counts(v, <<>>) => v[0] = 0
  BY DEF Counts

LEMMA CountsAt ==
    ASSUME NEW s \in Seq(Nat), NEW v, Counts(v, s)
    PROVE  /\ v[0] = 0
           /\ \A n \in Nat : n + 1 \in 1..Len(s) => v[n + 1] = 2 * v[n] + s[n + 1]
<1>1. Len(s) \in Nat
  BY LenProperties
<1>2. \A i \in 0..Len(s) : v[i] = IF i = 0 THEN 0 ELSE 2 * v[i - 1] + s[i]
  BY DEF Counts
<1>3. v[0] = 0
  BY <1>1, <1>2
<1>4. ASSUME NEW n \in Nat, n + 1 \in 1..Len(s)
      PROVE  v[n + 1] = 2 * v[n] + s[n + 1]
  <2>1. n + 1 \in 0..Len(s) /\ n + 1 # 0 /\ (n + 1) - 1 = n
    BY <1>1, <1>4
  <2>2. v[n + 1] = 2 * v[(n + 1) - 1] + s[n + 1]
    BY <1>2, <2>1
  <2> QED BY <2>1, <2>2
<1> QED BY <1>3, <1>4

LEMMA CountsTyped ==
    ASSUME NEW s \in Seq(Nat), NEW v, Counts(v, s)
    PROVE  \A n \in 0..Len(s) : v[n] \in Nat
<1> DEFINE S == {n \in Nat : n \in 0..Len(s) => v[n] \in Nat}
<1>1. 0 \in S
  BY CountsAt
<1>2. ASSUME NEW n \in Nat, n \in S PROVE n + 1 \in S
  <2> SUFFICES ASSUME n + 1 \in 0..Len(s) PROVE v[n + 1] \in Nat
    OBVIOUS
  <2>1. Len(s) \in Nat /\ n + 1 \in 1..Len(s) /\ n \in 0..Len(s)
    BY LenProperties
  <2>2. v[n] \in Nat /\ s[n + 1] \in Nat
    BY <1>2, <2>1, ElementOfSeq
  <2>3. v[n + 1] = 2 * v[n] + s[n + 1]
    BY <2>1, CountsAt
  <2> QED BY <2>2, <2>3
<1> HIDE DEF S
<1>3. \A n \in Nat : n \in S
  BY <1>1, <1>2, SetInduction
<1>4. \A n \in 0..Len(s) : n \in Nat
  BY LenProperties
<1> QED BY <1>3, <1>4 DEF S

LEMMA CountsAgree ==
    ASSUME NEW s \in Seq(Nat), NEW t \in Seq(Nat), NEW v, NEW w,
           Counts(v, s), Counts(w, t), Begins(s, t)
    PROVE  \A n \in 0..Len(s) : v[n] = w[n]
<1> DEFINE S == {n \in Nat : n \in 0..Len(s) => v[n] = w[n]}
<1>1. 0 \in S
  BY CountsAt
<1>2. ASSUME NEW n \in Nat, n \in S PROVE n + 1 \in S
  <2> SUFFICES ASSUME n + 1 \in 0..Len(s) PROVE v[n + 1] = w[n + 1]
    OBVIOUS
  <2>1. /\ Len(s) \in Nat /\ n + 1 \in 1..Len(s) /\ n \in 0..Len(s)
        /\ Len(t) \in Nat /\ n + 1 \in 1..Len(t) /\ s[n + 1] = t[n + 1]
    BY LenProperties DEF Begins
  <2>2. v[n] = w[n]
    BY <1>2, <2>1
  <2>3. v[n + 1] = 2 * v[n] + s[n + 1] /\ w[n + 1] = 2 * w[n] + t[n + 1]
    BY <2>1, CountsAt
  <2> QED BY <2>1, <2>2, <2>3
<1> HIDE DEF S
<1>3. \A n \in Nat : n \in S
  BY <1>1, <1>2, SetInduction
<1>4. \A n \in 0..Len(s) : n \in Nat
  BY LenProperties
<1> QED BY <1>3, <1>4 DEF S

LEMMA CountsMore ==
    ASSUME NEW s \in Seq(Nat), NEW d \in Nat, NEW v, Counts(v, s)
    PROVE  \E w : Counts(w, Append(s, d))
<1> DEFINE t == Append(s, d)
           w == [i \in 0..Len(t) |-> IF i <= Len(s) THEN v[i] ELSE 2 * v[Len(s)] + d]
<1>1. /\ t \in Seq(Nat) /\ Len(t) = Len(s) + 1 /\ t[Len(s) + 1] = d
      /\ \A i \in 1..Len(s) : t[i] = s[i]
  BY AppendProperties
<1>2. Len(s) \in Nat
  BY LenProperties
<1> HIDE DEF t
<1>3. \A i \in 0..Len(s) : v[i] = IF i = 0 THEN 0 ELSE 2 * v[i - 1] + s[i]
  BY DEF Counts
<1>4. \A i \in 0..Len(t) : w[i] = IF i = 0 THEN 0 ELSE 2 * w[i - 1] + t[i]
  <2> SUFFICES ASSUME NEW i \in 0..Len(t)
               PROVE  w[i] = IF i = 0 THEN 0 ELSE 2 * w[i - 1] + t[i]
    OBVIOUS
  <2>1. CASE i = 0
    BY <1>1, <1>2, <1>3, <2>1
  <2>2. CASE i # 0 /\ i <= Len(s)
    <3>1. i \in 0..Len(s) /\ i - 1 \in 0..Len(t) /\ i - 1 <= Len(s) /\ i \in 1..Len(s)
      BY <1>1, <1>2, <2>2
    <3>2. w[i] = v[i] /\ w[i - 1] = v[i - 1] /\ t[i] = s[i]
      BY <1>1, <3>1
    <3> QED BY <1>3, <2>2, <3>1, <3>2
  <2>3. CASE ~(i <= Len(s))
    <3>1. i = Len(s) + 1 /\ i - 1 = Len(s) /\ Len(s) \in 0..Len(t) /\ i # 0
      BY <1>1, <1>2, <2>3
    <3>2. w[i] = 2 * v[Len(s)] + d
      BY <2>3
    <3>3. w[Len(s)] = v[Len(s)]
      BY <1>2, <3>1
    <3> QED BY <1>1, <3>1, <3>2, <3>3
  <2> QED BY <2>1, <2>2, <2>3, <1>1, <1>2
<1>5. w = [i \in 0..Len(t) |-> IF i = 0 THEN 0 ELSE 2 * w[i - 1] + t[i]]
  <2>1. w = [i \in 0..Len(t) |-> w[i]]
    OBVIOUS
  <2> HIDE DEF w
  <2> QED BY <2>1, <1>4
<1> HIDE DEF w
<1>6. Counts(w, t)
  BY <1>5 DEF Counts
<1> QED BY <1>6 DEF t

LEMMA CountsExist == \A s \in Seq(Nat) : \E v : Counts(v, s)
<1> DEFINE S == {n \in Nat : \A s \in Seq(Nat) : Len(s) = n => \E v : Counts(v, s)}
<1>1. 0 \in S
  <2> SUFFICES ASSUME NEW s \in Seq(Nat), Len(s) = 0 PROVE \E v : Counts(v, s)
    OBVIOUS
  <2>1. s = <<>>
    BY EmptySeq
  <2> QED BY <2>1, CountsNone
<1>2. ASSUME NEW n \in Nat, n \in S PROVE n + 1 \in S
  <2> SUFFICES ASSUME NEW s \in Seq(Nat), Len(s) = n + 1 PROVE \E v : Counts(v, s)
    OBVIOUS
  <2>1. s # <<>>
    BY EmptySeq
  <2>2. PICK r \in Seq(Nat), d \in Nat : s = Append(r, d)
    BY <2>1, SequenceEmptyOrAppend
  <2>3. Len(r) \in Nat /\ Len(s) = Len(r) + 1
    BY <2>2, AppendProperties, LenProperties
  <2>4. Len(r) = n
    BY <2>3
  <2>5. PICK v : Counts(v, r)
    BY <1>2, <2>4
  <2> QED BY <2>2, <2>5, CountsMore
<1> HIDE DEF S
<1>3. \A n \in Nat : n \in S
  BY <1>1, <1>2, SetInduction
<1>4. \A s \in Seq(Nat) : Len(s) \in Nat
  BY LenProperties
<1> QED BY <1>3, <1>4 DEF S

LEMMA NumberIs ==
    ASSUME NEW s \in Seq(Nat)
    PROVE  \E v : Counts(v, s) /\ NumberOf(s) = v[Len(s)]
<1> DEFINE V == CHOOSE v : v = [i \in 0..Len(s) |-> IF i = 0 THEN 0 ELSE 2 * v[i - 1] + s[i]]
<1>1. NumberOf(s) = V[Len(s)]
  BY DEF NumberOf
<1>2. \E v : v = [i \in 0..Len(s) |-> IF i = 0 THEN 0 ELSE 2 * v[i - 1] + s[i]]
  BY CountsExist DEF Counts
<1>3. V = [i \in 0..Len(s) |-> IF i = 0 THEN 0 ELSE 2 * V[i - 1] + s[i]]
  BY <1>2
<1> HIDE DEF V
<1>4. Counts(V, s)
  BY <1>3 DEF Counts
<1> QED BY <1>1, <1>4

LEMMA NumberOfNone == NumberOf(<<>>) = 0
<1>1. <<>> \in Seq(Nat) /\ Len(<<>>) = 0
  BY EmptySeq
<1> QED BY <1>1, NumberIs, CountsNone

LEMMA NumberOfMore ==
    ASSUME NEW s \in Seq(Nat), NEW d \in Nat
    PROVE  NumberOf(Append(s, d)) = 2 * NumberOf(s) + d
<1> DEFINE t == Append(s, d)
<1>1. /\ t \in Seq(Nat) /\ Len(t) = Len(s) + 1 /\ t[Len(s) + 1] = d
      /\ \A i \in 1..Len(s) : t[i] = s[i]
  BY AppendProperties
<1>2. Len(s) \in Nat
  BY LenProperties
<1> HIDE DEF t
<1>3. PICK v : Counts(v, s) /\ NumberOf(s) = v[Len(s)]
  BY NumberIs
<1>4. PICK w : Counts(w, t) /\ NumberOf(t) = w[Len(t)]
  BY <1>1, NumberIs
<1>5. Begins(s, t)
  BY <1>1, <1>2 DEF Begins
<1>6. v[Len(s)] = w[Len(s)]
  <2>1. \A n \in 0..Len(s) : v[n] = w[n]
    BY <1>1, <1>3, <1>4, <1>5, CountsAgree
  <2> QED BY <1>2, <2>1
<1>7. w[Len(s) + 1] = 2 * w[Len(s)] + t[Len(s) + 1]
  <2>1. Len(s) + 1 \in 1..Len(t)
    BY <1>1, <1>2
  <2> QED BY <1>1, <1>2, <1>4, <2>1, CountsAt
<1> QED BY <1>1, <1>3, <1>4, <1>6, <1>7 DEF t

-----------------------------------------------------------------------------
(* Frames: the digits of a number are a text, and it is the number's.       *)

DigitsUpto(g, k) ==
    g = [n \in 0..k |-> IF n < 2 THEN <<n>> ELSE Append(g[n \div 2], n % 2)]

LEMMA Halved ==
    \A n \in Nat : /\ n \div 2 \in 0..n /\ n % 2 \in {0, 1}
                   /\ n = 2 * (n \div 2) + (n % 2)
                   /\ n >= 2 => n \div 2 < n /\ n \div 2 > 0
  OBVIOUS

LEMMA DigitsUptoExist == \A k \in Nat : \E g : DigitsUpto(g, k)
<1> DEFINE S == {k \in Nat : \E g : DigitsUpto(g, k)}
<1>1. 0 \in S
  <2> DEFINE g == [n \in 0..0 |-> <<n>>]
  <2>1. \A n \in 0..0 : n < 2
    OBVIOUS
  <2>2. g = [n \in 0..0 |-> IF n < 2 THEN <<n>> ELSE Append(g[n \div 2], n % 2)]
    BY <2>1
  <2> QED BY <2>2 DEF DigitsUpto
<1>2. ASSUME NEW k \in Nat, k \in S PROVE k + 1 \in S
  <2>1. PICK g : DigitsUpto(g, k)
    BY <1>2
  <2> DEFINE h == [n \in 0..(k + 1) |->
                      IF n <= k THEN g[n]
                      ELSE IF n < 2 THEN <<n>> ELSE Append(g[n \div 2], n % 2)]
  <2>2. \A n \in 0..k : g[n] = IF n < 2 THEN <<n>> ELSE Append(g[n \div 2], n % 2)
    BY <2>1 DEF DigitsUpto
  <2>3. \A n \in 0..(k + 1) : h[n] = IF n < 2 THEN <<n>> ELSE Append(h[n \div 2], n % 2)
    <3> SUFFICES ASSUME NEW n \in 0..(k + 1)
                 PROVE  h[n] = IF n < 2 THEN <<n>> ELSE Append(h[n \div 2], n % 2)
      OBVIOUS
    <3>1. CASE n < 2
      <4>1. n <= k => n \in 0..k
        OBVIOUS
      <4> QED BY <2>2, <3>1, <4>1
    <3>2. CASE ~(n < 2)
      <4> DEFINE q == n \div 2
                 r == n % 2
      <4>1. q \in 0..k /\ q \in 0..(k + 1) /\ q <= k
        BY <3>2, Halved
      <4> HIDE DEF q, r
      <4>2. h[q] = g[q]
        BY <4>1
      <4>3. h[n] = Append(g[q], r)
        <5>1. CASE n <= k
          <6>1. n \in 0..k
            BY <5>1
          <6>2. g[n] = Append(g[q], r)
            BY <2>2, <3>2, <6>1 DEF q, r
          <6> QED BY <5>1, <6>2
        <5>2. CASE ~(n <= k)
          BY <3>2, <5>2 DEF q, r
        <5> QED BY <5>1, <5>2
      <4>4. h[n] = Append(h[q], r)
        BY <4>2, <4>3, Zenon
      <4> HIDE DEF h
      <4> QED BY <3>2, <4>4 DEF q, r
    <3> QED BY <3>1, <3>2
  <2>4. h = [n \in 0..(k + 1) |-> IF n < 2 THEN <<n>> ELSE Append(h[n \div 2], n % 2)]
    <3>1. h = [n \in 0..(k + 1) |-> h[n]]
      OBVIOUS
    <3> HIDE DEF h
    <3> QED BY <3>1, <2>3
  <2> HIDE DEF h
  <2>5. DigitsUpto(h, k + 1)
    BY <2>4 DEF DigitsUpto
  <2> QED BY <2>5
<1> HIDE DEF S
<1>3. \A k \in Nat : k \in S
  BY <1>1, <1>2, SetInduction
<1> QED BY <1>3 DEF S

LEMMA DigitsUptoAgree ==
    ASSUME NEW j \in Nat, NEW k \in Nat, NEW g, NEW h,
           DigitsUpto(g, j), DigitsUpto(h, k)
    PROVE  \A n \in Nat : n <= j /\ n <= k => g[n] = h[n]
<1> DEFINE S == {m \in Nat : \A n \in 0..m : n <= j /\ n <= k => g[n] = h[n]}
<1>1. /\ \A n \in 0..j : g[n] = IF n < 2 THEN <<n>> ELSE Append(g[n \div 2], n % 2)
      /\ \A n \in 0..k : h[n] = IF n < 2 THEN <<n>> ELSE Append(h[n \div 2], n % 2)
  BY DEF DigitsUpto
<1>0. \A n \in Nat : n < 2 /\ n <= j /\ n <= k => g[n] = <<n>> /\ h[n] = <<n>>
  <2> SUFFICES ASSUME NEW n \in Nat, n < 2, n <= j, n <= k
               PROVE  g[n] = <<n>> /\ h[n] = <<n>>
    OBVIOUS
  <2>1. n \in 0..j /\ n \in 0..k
    OBVIOUS
  <2> QED BY <1>1, <2>1, Zenon
<1>2. 0 \in S
  BY <1>0
<1>3. ASSUME NEW m \in Nat, m \in S PROVE m + 1 \in S
  <2> SUFFICES ASSUME NEW n \in 0..(m + 1), n <= j, n <= k PROVE g[n] = h[n]
    OBVIOUS
  <2>1. n \in 0..j /\ n \in 0..k
    OBVIOUS
  <2>2. CASE n < 2
    BY <1>0, <2>1, <2>2
  <2>3. CASE ~(n < 2)
    <3> DEFINE q == n \div 2
               r == n % 2
    <3>1. q \in 0..m /\ q <= j /\ q <= k
      BY <2>3, Halved
    <3> HIDE DEF q, r
    <3>2. g[q] = h[q]
      BY <1>3, <3>1
    <3>3. g[n] = Append(g[q], r) /\ h[n] = Append(h[q], r)
      BY <1>1, <2>1, <2>3 DEF q, r
    <3> QED BY <3>2, <3>3, Zenon
  <2> QED BY <2>2, <2>3
<1> HIDE DEF S
<1>4. \A m \in Nat : m \in S
  BY <1>2, <1>3, SetInduction
<1> QED BY <1>4 DEF S

LEMMA DigitsAt ==
    \A n \in Nat : Digits[n] = IF n < 2 THEN <<n>> ELSE Append(Digits[n \div 2], n % 2)
<1> DEFINE Of(k) == CHOOSE g : DigitsUpto(g, k)
           all == [n \in Nat |-> Of(n)[n]]
<1>1. \A k \in Nat : DigitsUpto(Of(k), k)
  BY DigitsUptoExist
<1> HIDE DEF Of
<1>2. \A n \in Nat : all[n] = IF n < 2 THEN <<n>> ELSE Append(all[n \div 2], n % 2)
  <2> SUFFICES ASSUME NEW n \in Nat
               PROVE  all[n] = IF n < 2 THEN <<n>> ELSE Append(all[n \div 2], n % 2)
    OBVIOUS
  <2> DEFINE q == n \div 2
             r == n % 2
             of == Of(n)
  <2>1. q \in Nat /\ q <= n /\ q <= q /\ r \in Nat
    BY Halved
  <2>2. of[n] = IF n < 2 THEN <<n>> ELSE Append(of[q], r)
    <3>1. of = [i \in 0..n |-> IF i < 2 THEN <<i>> ELSE Append(of[i \div 2], i % 2)]
      BY <1>1 DEF DigitsUpto
    <3> HIDE DEF of
    <3>2. n \in 0..n
      OBVIOUS
    <3> QED BY <3>1, <3>2
  <2> HIDE DEF q, r
  <2>3. of[q] = Of(q)[q]
    BY <1>1, <2>1, DigitsUptoAgree
  <2>4. all[n] = of[n] /\ all[q] = Of(q)[q]
    BY <2>1
  <2> HIDE DEF all, of
  <2>5. all[n] = IF n < 2 THEN <<n>> ELSE Append(all[q], r)
    BY <2>2, <2>3, <2>4, Zenon
  <2> QED BY <2>5 DEF q, r
<1>3. all = [n \in Nat |-> IF n < 2 THEN <<n>> ELSE Append(all[n \div 2], n % 2)]
  <2>1. all = [n \in Nat |-> all[n]]
    OBVIOUS
  <2> HIDE DEF all
  <2> QED BY <2>1, <1>2
<1> HIDE DEF all
<1>4. \E g : g = [n \in Nat |-> IF n < 2 THEN <<n>> ELSE Append(g[n \div 2], n % 2)]
  BY <1>3
<1>5. Digits = [n \in Nat |-> IF n < 2 THEN <<n>> ELSE Append(Digits[n \div 2], n % 2)]
  <2> DEFINE D == CHOOSE g : g = [n \in Nat |-> IF n < 2 THEN <<n>>
                                                ELSE Append(g[n \div 2], n % 2)]
  <2>1. D = [n \in Nat |-> IF n < 2 THEN <<n>> ELSE Append(D[n \div 2], n % 2)]
    BY <1>4
  <2>2. Digits = D
    BY DEF Digits
  <2> HIDE DEF D
  <2> QED BY <2>1, <2>2
<1> QED BY <1>5

\* What to_string writes, parse reads: digits, at least one, of that number.
LEMMA DigitsRead ==
    \A n \in Nat : /\ Digits[n] \in Seq(Digit) /\ Digits[n] # <<>>
                   /\ NumberOf(Digits[n]) = n
<1> DEFINE Right(n) == /\ Digits[n] \in Seq(Digit) /\ Digits[n] # <<>>
                       /\ NumberOf(Digits[n]) = n
           S == {m \in Nat : \A n \in 0..m : Right(n)}
<1>1. ASSUME NEW n \in Nat, n < 2 PROVE Right(n)
  <2>1. Digits[n] = <<n>>
    BY <1>1, DigitsAt, Zenon
  <2>5. n \in Digit
    BY <1>1 DEF Digit
  <2>2. Digits[n] = Append(<<>>, n) /\ <<>> \in Seq(Nat)
    BY <2>1
  <2>3. NumberOf(Digits[n]) = 2 * 0 + n
    BY <2>2, NumberOfMore, NumberOfNone
  <2>4. Digits[n] \in Seq(Digit) /\ Digits[n] # <<>>
    BY <2>1, <2>5
  <2> QED BY <2>3, <2>4
<1>2. 0 \in S
  BY <1>1
<1>3. ASSUME NEW m \in Nat, m \in S PROVE m + 1 \in S
  <2> SUFFICES ASSUME NEW n \in 0..(m + 1) PROVE Right(n)
    OBVIOUS
  <2>1. CASE n < 2
    BY <1>1, <2>1
  <2>2. CASE ~(n < 2)
    <3> DEFINE q == n \div 2
               r == n % 2
    <3>1. q \in 0..m /\ q \in Nat /\ r \in Digit /\ r \in Nat /\ n = 2 * q + r
      BY <2>2, Halved DEF Digit
    <3>2. Digits[n] = Append(Digits[q], r)
      <4>1. n \in Nat
        OBVIOUS
      <4> QED BY <2>2, <4>1, DigitsAt, Zenon
    <3> HIDE DEF q, r
    <3>3. Right(q)
      BY <1>3, <3>1
    <3>4. Digits[q] \in Seq(Nat)
      BY <3>3, SeqMonotonic DEF Digit
    <3>5. NumberOf(Digits[n]) = 2 * q + r
      BY <3>1, <3>2, <3>3, <3>4, NumberOfMore
    <3>6. Digits[n] \in Seq(Digit) /\ Digits[n] # <<>>
      BY <3>1, <3>2, <3>3, AppendProperties
    <3> QED BY <3>1, <3>5, <3>6
  <2> QED BY <2>1, <2>2
<1> HIDE DEF S
<1>4. \A m \in Nat : m \in S
  BY <1>2, <1>3, SetInduction
<1> QED BY <1>4 DEF S

-----------------------------------------------------------------------------
(* Frames: how a frame lies in the stream.                                  *)

LEMMA WrittenTyped ==
    ASSUME NEW f \in Written
    PROVE  /\ f = [channel |-> f.channel, data |-> f.data]
           /\ f.channel \in Seq(Byte) /\ Len(f.channel) \in 0..1
           /\ \A i \in 1..Len(f.channel) : f.channel[i] # Newline
           /\ f.data \in Seq(Byte) /\ Len(f.data) \in 0..MaxData
<1>1. /\ f = [channel |-> f.channel, data |-> f.data]
      /\ f.channel \in {<<>>, <<Letter>>} /\ f.data \in Data
  BY DEF Written
<1>2. Newline \in Byte /\ Letter \in Byte /\ 1 \in Byte /\ Letter # Newline
  BY DEF Byte, Digit, Newline, Letter
<1>3. /\ f.channel \in Seq(Byte) /\ Len(f.channel) \in 0..1
      /\ \A i \in 1..Len(f.channel) : f.channel[i] # Newline
  <2>1. CASE f.channel = <<>>
    BY <2>1
  <2>2. CASE f.channel = <<Letter>>
    BY <2>2, <1>2
  <2> QED BY <1>1, <2>1, <2>2
<1>4. PICK m \in 0..MaxData : f.data \in [1..m -> {1, Newline}]
  BY <1>1 DEF Data, BoundedSeq, SeqOf
<1>5. m \in Nat /\ {1, Newline} \subseteq Byte
  BY <1>2, FramesAssumption
<1>6. f.data \in Seq(Byte) /\ Len(f.data) = m
  <2>1. f.data \in [1..m -> Byte]
    BY <1>4, <1>5
  <2> QED BY <1>5, <2>1
<1> QED BY <1>1, <1>3, <1>6

LEMMA ByteFacts ==
    Byte \subseteq Nat /\ Digit \subseteq Byte /\ <<Newline>> \in Seq(Byte)
<1>1. Newline \in Byte
  BY DEF Byte
<1> QED BY <1>1 DEF Byte, Digit, Newline, Letter

LEMMA LengthFits ==
    ASSUME NEW f \in Written
    PROVE  /\ PayloadLength(f) = Len(f.channel) + 1 + Len(f.data)
           /\ PayloadLength(f) \in Nat \ {0} /\ PayloadLength(f) <= MaxFrame
           /\ Digits[PayloadLength(f)] \in Seq(Digit)
           /\ Len(Digits[PayloadLength(f)]) \in Nat \ {0}
           /\ Len(Digits[PayloadLength(f)]) < MaxLine
           /\ NumberOf(Digits[PayloadLength(f)]) = PayloadLength(f)
<1>1. PayloadLength(f) = Len(f.channel) + 1 + Len(f.data)
  BY DEF PayloadLength
<1>2. PayloadLength(f) \in 1..(MaxData + 2)
  <2> DEFINE c == Len(f.channel)
             d == Len(f.data)
  <2>1. c \in 0..1 /\ d \in 0..MaxData
    BY WrittenTyped
  <2> HIDE DEF c, d
  <2>2. c + 1 + d \in 1..(MaxData + 2)
    BY <2>1, FramesAssumption
  <2> QED BY <1>1, <2>2 DEF c, d
<1>3. PayloadLength(f) \in Nat \ {0} /\ PayloadLength(f) <= MaxFrame
  BY <1>2, FramesAssumption
<1>4. /\ Digits[PayloadLength(f)] \in Seq(Digit) /\ Digits[PayloadLength(f)] # <<>>
      /\ NumberOf(Digits[PayloadLength(f)]) = PayloadLength(f)
  BY <1>3, DigitsRead
<1>5. Len(Digits[PayloadLength(f)]) \in Nat \ {0}
  BY <1>4, EmptySeq
<1>6. Len(Digits[PayloadLength(f)]) < MaxLine
  BY <1>2, FramesAssumption
<1> QED BY <1>1, <1>3, <1>4, <1>5, <1>6

\* Digits, a newline, the channel, a newline, the data.
TextLength(f) == Len(Digits[PayloadLength(f)])
ChannelLength(f) == Len(f.channel)

\* The m bytes of s and behind them the n of t.
Behind(r, s, t, m, n) ==
    /\ r \in Seq(Byte) /\ Len(r) = m + n
    /\ \A i \in 1..m : r[i] = s[i]
    /\ \A i \in 1..n : r[m + i] = t[i]

LEMMA Placed ==
    \A s, t \in Seq(Byte) : \A m, n \in Nat :
        Len(s) = m /\ Len(t) = n => Behind(s \o t, s, t, m, n)
<1> SUFFICES ASSUME NEW s \in Seq(Byte), NEW t \in Seq(Byte),
                    NEW m \in Nat, NEW n \in Nat, Len(s) = m, Len(t) = n
             PROVE  Behind(s \o t, s, t, m, n)
  OBVIOUS
<1> DEFINE both == s \o t
<1>1. /\ both \in Seq(Byte) /\ Len(both) = Len(s) + Len(t)
      /\ \A i \in 1..(Len(s) + Len(t)) : both[i] = IF i <= Len(s) THEN s[i] ELSE t[i - Len(s)]
  BY ConcatProperties
<1> HIDE DEF both
<1>2. \A i \in 1..(m + n) : both[i] = IF i <= m THEN s[i] ELSE t[i - m]
  BY <1>1, Zenon
<1>3. both \in Seq(Byte) /\ Len(both) = m + n
  BY <1>1, Zenon
<1>4. \A i \in 1..m : both[i] = s[i]
  BY <1>2
<1>5. ASSUME NEW i \in 1..n PROVE both[m + i] = t[i]
  <2>1. m + i \in 1..(m + n) /\ ~(m + i <= m) /\ (m + i) - m = i
    OBVIOUS
  <2>2. both[m + i] = t[(m + i) - m]
    BY <1>2, <2>1, Zenon
  <2> QED BY <2>1, <2>2
<1> QED BY <1>3, <1>4, <1>5 DEF both, Behind

LEMMA Layout ==
    ASSUME NEW f \in Written
    PROVE  /\ TextLength(f) \in Nat \ {0} /\ ChannelLength(f) \in Nat
           /\ Encode(f) \in Seq(Byte)
           /\ Len(Encode(f)) = TextLength(f) + 1 + PayloadLength(f)
           /\ \A i \in 1..TextLength(f) : Encode(f)[i] = Digits[PayloadLength(f)][i]
           /\ Encode(f)[TextLength(f) + 1] = Newline
           /\ \A i \in 1..ChannelLength(f) : Encode(f)[TextLength(f) + 1 + i] = f.channel[i]
           /\ Encode(f)[TextLength(f) + ChannelLength(f) + 2] = Newline
           /\ \A i \in 1..Len(f.data) :
                 Encode(f)[TextLength(f) + ChannelLength(f) + 2 + i] = f.data[i]
<1> DEFINE text == Digits[PayloadLength(f)]
           l == TextLength(f)
           c == ChannelLength(f)
           d == Len(f.data)
           nl == <<Newline>>
           s1 == text \o nl
           s2 == s1 \o f.channel
           s3 == s2 \o nl
           s4 == s3 \o f.data
<1>1. nl \in Seq(Byte) /\ Len(nl) = 1 /\ nl[1] = Newline
  BY ByteFacts
<1>2. f.channel \in Seq(Byte) /\ f.data \in Seq(Byte) /\ text \in Seq(Byte)
  BY WrittenTyped, LengthFits, ByteFacts, SeqMonotonic
<1>3. l = Len(text) /\ c = Len(f.channel) /\ PayloadLength(f) = c + 1 + d
  BY LengthFits DEF TextLength, ChannelLength
<1>4. l \in Nat \ {0} /\ c \in Nat /\ d \in Nat
  BY <1>2, LengthFits, LenProperties DEF TextLength, ChannelLength
<1>5. Encode(f) = s4
  BY DEF Encode
<1> HIDE DEF text, l, c, d, nl
<1>6. /\ s1 \in Seq(Byte) /\ Len(s1) = l + 1
      /\ \A i \in 1..l : s1[i] = text[i]
      /\ s1[l + 1] = Newline
  <2>1. l \in Nat /\ 1 \in Nat
    BY <1>4
  <2>2. Behind(s1, text, nl, l, 1)
    BY <1>1, <1>2, <1>3, <2>1, Placed, Zenon
  <2> HIDE DEF s1
  <2> QED BY <1>1, <2>2 DEF Behind
<1> HIDE DEF s1
<1>7. /\ s2 \in Seq(Byte) /\ Len(s2) = l + 1 + c
      /\ \A i \in 1..(l + 1) : s2[i] = s1[i]
      /\ \A i \in 1..c : s2[l + 1 + i] = f.channel[i]
  <2>1. l + 1 \in Nat
    BY <1>4
  <2>2. Behind(s2, s1, f.channel, l + 1, c)
    BY <1>2, <1>3, <1>4, <1>6, <2>1, Placed, Zenon
  <2> HIDE DEF s2
  <2> QED BY <2>2 DEF Behind
<1> HIDE DEF s2
<1>8. /\ s3 \in Seq(Byte) /\ Len(s3) = l + 1 + c + 1
      /\ \A i \in 1..(l + 1 + c) : s3[i] = s2[i]
      /\ s3[l + 1 + c + 1] = Newline
  <2>1. l + 1 + c \in Nat /\ 1 \in Nat
    BY <1>4
  <2>2. Behind(s3, s2, nl, l + 1 + c, 1)
    BY <1>1, <1>7, <2>1, Placed, Zenon
  <2> HIDE DEF s3
  <2> QED BY <1>1, <2>2 DEF Behind
<1> HIDE DEF s3
<1>9. l + 1 + c + 1 = l + c + 2 /\ l + c + 2 \in Nat
  BY <1>4
<1>10. /\ s4 \in Seq(Byte) /\ Len(s4) = l + c + 2 + d
       /\ \A i \in 1..(l + c + 2) : s4[i] = s3[i]
       /\ \A i \in 1..d : s4[l + c + 2 + i] = f.data[i]
  <2>1. d = Len(f.data) /\ Len(s3) = l + c + 2
    BY <1>8, <1>9 DEF d
  <2>2. Behind(s4, s3, f.data, l + c + 2, d)
    BY <1>2, <1>4, <1>8, <1>9, <2>1, Placed, Zenon
  <2> HIDE DEF s4
  <2> QED BY <2>2 DEF Behind
<1> HIDE DEF s4
<1>11. Len(s4) = l + 1 + PayloadLength(f)
  <2>1. l + c + 2 + d = l + 1 + (c + 1 + d)
    BY <1>4
  <2> QED BY <1>3, <1>10, <2>1
<1>12. \A i \in 1..(l + 1) : s4[i] = s1[i]
  <2> SUFFICES ASSUME NEW i \in 1..(l + 1) PROVE s4[i] = s1[i]
    OBVIOUS
  <2>1. i \in 1..(l + 1 + c) /\ i \in 1..(l + c + 2)
    BY <1>4
  <2> QED BY <1>7, <1>8, <1>10, <2>1
<1>13. \A i \in 1..l : s4[i] = text[i]
  <2> SUFFICES ASSUME NEW i \in 1..l PROVE s4[i] = text[i]
    OBVIOUS
  <2>1. i \in 1..(l + 1)
    BY <1>4
  <2> QED BY <1>6, <1>12, <2>1
<1>14. s4[l + 1] = Newline /\ s4[l + c + 2] = Newline
  <2>1. l + 1 \in 1..(l + 1) /\ l + c + 2 \in 1..(l + c + 2)
    BY <1>4
  <2> QED BY <1>6, <1>8, <1>9, <1>10, <1>12, <2>1
<1>15. \A i \in 1..c : s4[l + 1 + i] = f.channel[i]
  <2> SUFFICES ASSUME NEW i \in 1..c PROVE s4[l + 1 + i] = f.channel[i]
    OBVIOUS
  <2>1. l + 1 + i \in 1..(l + 1 + c) /\ l + 1 + i \in 1..(l + c + 2)
    BY <1>4
  <2> QED BY <1>7, <1>8, <1>10, <2>1
<1> QED BY <1>4, <1>5, <1>10, <1>11, <1>13, <1>14, <1>15 DEF d, l, c, text

-----------------------------------------------------------------------------
(* Frames: the stream of several.                                           *)

LEMMA EncodeTyped ==
    ASSUME NEW f \in Written
    PROVE  /\ Encode(f) \in Seq(Byte) /\ Encode(f) \in Seq(Nat)
           /\ Encode(f) # <<>> /\ Len(Encode(f)) \in Nat \ {0}
<1>1. TextLength(f) \in Nat /\ PayloadLength(f) \in Nat
  BY Layout, LengthFits
<1>2. /\ Encode(f) \in Seq(Byte)
      /\ Len(Encode(f)) = TextLength(f) + 1 + PayloadLength(f)
  BY Layout
<1>3. Len(Encode(f)) \in Nat \ {0}
  BY <1>1, <1>2
<1>4. Encode(f) # <<>>
  BY <1>3
<1>5. Encode(f) \in Seq(Nat)
  BY <1>2, ByteFacts, SeqMonotonic
<1> QED BY <1>2, <1>3, <1>4, <1>5

Encoded(s) == [i \in 1..Len(s) |-> Encode(s[i])]

LEMMA EncodedTyped ==
    ASSUME NEW s \in Seq(Written)
    PROVE  Encoded(s) \in Seq(Seq(Nat)) /\ Len(Encoded(s)) = Len(s)
<1>1. Len(s) \in Nat
  BY LenProperties
<1>2. \A i \in 1..Len(s) : Encode(s[i]) \in Seq(Nat)
  <2> SUFFICES ASSUME NEW i \in 1..Len(s) PROVE Encode(s[i]) \in Seq(Nat)
    OBVIOUS
  <2>1. s[i] \in Written
    BY ElementOfSeq
  <2> QED BY <2>1, EncodeTyped
<1>3. Encoded(s) \in [1..Len(s) -> Seq(Nat)]
  BY <1>2 DEF Encoded
<1>4. \A m \in Nat : \A u \in [1..m -> Seq(Nat)] : u \in Seq(Seq(Nat)) /\ Len(u) = m
  OBVIOUS
<1> QED BY <1>1, <1>3, <1>4

LEMMA StreamIs ==
    /\ \A s : Stream(s) = FlattenSeq(Encoded(s))
    /\ \A s \in Seq(Written) : Stream(s) \in Seq(Nat)
    /\ Stream(<<>>) = <<>>
<1>1. \A s : Stream(s) = FlattenSeq(Encoded(s))
  BY DEF Stream, Encoded
<1>2. \A s \in Seq(Written) : Stream(s) \in Seq(Nat)
  BY <1>1, EncodedTyped, FlattenTyped
<1>3. Encoded(<<>>) = <<>>
  BY DEF Encoded
<1>4. Encoded(<<>>) \in Seq(Seq(Nat))
  BY <1>3, EmptySeq
<1> QED BY <1>1, <1>2, <1>3, <1>4, FlattenIs

LEMMA StreamMore ==
    ASSUME NEW s \in Seq(Written), NEW f \in Written
    PROVE  Stream(Append(s, f)) = Stream(s) \o Encode(f)
<1> DEFINE t == Append(s, f)
           e == Append(Encoded(s), Encode(f))
<1>1. /\ t \in Seq(Written) /\ Len(t) = Len(s) + 1 /\ t[Len(s) + 1] = f
      /\ \A i \in 1..Len(s) : t[i] = s[i]
  BY AppendProperties
<1>2. /\ Len(s) \in Nat /\ Encode(f) \in Seq(Nat)
      /\ Encoded(s) \in Seq(Seq(Nat)) /\ Len(Encoded(s)) = Len(s)
  BY LenProperties, EncodeTyped, EncodedTyped
<1>3. /\ e \in Seq(Seq(Nat)) /\ Len(e) = Len(s) + 1 /\ e[Len(s) + 1] = Encode(f)
      /\ \A i \in 1..Len(s) : e[i] = Encoded(s)[i]
  <2>1. /\ e \in Seq(Seq(Nat)) /\ Len(e) = Len(Encoded(s)) + 1
        /\ e[Len(Encoded(s)) + 1] = Encode(f)
        /\ \A i \in 1..Len(Encoded(s)) : e[i] = Encoded(s)[i]
    BY <1>2, AppendProperties
  <2> QED BY <1>2, <2>1
<1> HIDE DEF t, e
<1>4. Encoded(t) \in Seq(Seq(Nat)) /\ Len(Encoded(t)) = Len(t)
  BY <1>1, EncodedTyped
<1>5. \A i \in 1..(Len(s) + 1) : Encoded(t)[i] = e[i]
  <2> SUFFICES ASSUME NEW i \in 1..(Len(s) + 1) PROVE Encoded(t)[i] = e[i]
    OBVIOUS
  <2>1. Encoded(t)[i] = Encode(t[i])
    BY <1>1 DEF Encoded
  <2>2. CASE i = Len(s) + 1
    BY <1>1, <1>3, <2>1, <2>2
  <2>3. CASE i # Len(s) + 1
    <3>1. i \in 1..Len(s)
      BY <1>2, <2>3
    <3>2. Encoded(s)[i] = Encode(s[i])
      BY <3>1 DEF Encoded
    <3> QED BY <1>1, <1>3, <2>1, <3>1, <3>2
  <2> QED BY <2>2, <2>3
<1>6. Encoded(t) = e
  BY <1>1, <1>3, <1>4, <1>5, SeqEqual
<1>7. FlattenSeq(e) = FlattenSeq(Encoded(s)) \o Encode(f)
  BY <1>2, FlattenAppend DEF e
<1> QED BY <1>6, <1>7, StreamIs DEF t

LEMMA StreamFirst ==
    ASSUME NEW s \in Seq(Written), s # <<>>
    PROVE  Stream(s) = Encode(Head(s)) \o Stream(Tail(s))
<1> DEFINE t == Tail(s)
           e == Encoded(s)
<1>1. /\ t \in Seq(Written) /\ Len(t) = Len(s) - 1
      /\ \A i \in 1..Len(t) : t[i] = s[i + 1]
  BY HeadTailProperties
<1>2. /\ Len(s) \in Nat \ {0} /\ Head(s) = s[1]
      /\ e \in Seq(Seq(Nat)) /\ Len(e) = Len(s)
  BY EmptySeq, EncodedTyped
<1>3. e[1] = Encode(s[1])
  BY <1>2 DEF Encoded
<1>4. e # <<>>
  BY <1>2
<1> HIDE DEF e, t
<1>5. Head(e) = Encode(Head(s))
  BY <1>2, <1>3, <1>4
<1>6. /\ Tail(e) \in Seq(Seq(Nat)) /\ Len(Tail(e)) = Len(s) - 1
      /\ \A i \in 1..Len(Tail(e)) : Tail(e)[i] = e[i + 1]
  BY <1>2, <1>4, HeadTailProperties
<1>7. Encoded(t) \in Seq(Seq(Nat)) /\ Len(Encoded(t)) = Len(t)
  BY <1>1, EncodedTyped
<1>8. \A i \in 1..Len(t) : Encoded(t)[i] = Tail(e)[i]
  <2> SUFFICES ASSUME NEW i \in 1..Len(t) PROVE Encoded(t)[i] = Tail(e)[i]
    OBVIOUS
  <2>1. i + 1 \in 1..Len(s) /\ i \in 1..Len(Tail(e))
    BY <1>1, <1>2, <1>6
  <2>2. e[i + 1] = Encode(s[i + 1])
    BY <2>1 DEF e, Encoded
  <2>3. Encoded(t)[i] = Encode(t[i])
    BY DEF Encoded
  <2> QED BY <1>1, <1>6, <2>1, <2>2, <2>3
<1>9. Encoded(t) = Tail(e)
  BY <1>1, <1>6, <1>7, <1>8, SeqEqual
<1>10. FlattenSeq(e) = Head(e) \o FlattenSeq(Tail(e))
  BY <1>2, <1>4, FlattenTail
<1> QED BY <1>5, <1>9, <1>10, StreamIs DEF e, t

LEMMA StreamBoth ==
    \A s, t \in Seq(Written) : Stream(s \o t) = Stream(s) \o Stream(t)
<1> DEFINE S == {n \in Nat : \A s, t \in Seq(Written) :
                                Len(t) = n => Stream(s \o t) = Stream(s) \o Stream(t)}
<1>1. 0 \in S
  <2> SUFFICES ASSUME NEW s \in Seq(Written), NEW t \in Seq(Written), Len(t) = 0
               PROVE  Stream(s \o t) = Stream(s) \o Stream(t)
    OBVIOUS
  <2>1. t = <<>>
    BY EmptySeq
  <2>2. s \o t = s /\ Stream(t) = <<>> /\ Stream(s) \in Seq(Nat)
    BY <2>1, ConcatEmptySeq, StreamIs
  <2>3. Stream(s) \o <<>> = Stream(s)
    BY <2>2, ConcatEmptySeq
  <2> QED BY <2>2, <2>3
<1>2. ASSUME NEW n \in Nat, n \in S PROVE n + 1 \in S
  <2> SUFFICES ASSUME NEW s \in Seq(Written), NEW t \in Seq(Written), Len(t) = n + 1
               PROVE  Stream(s \o t) = Stream(s) \o Stream(t)
    OBVIOUS
  <2>1. t # <<>>
    BY EmptySeq
  <2>2. PICK r \in Seq(Written), f \in Written : t = Append(r, f)
    BY <2>1, SequenceEmptyOrAppend
  <2>3. Len(r) = n
    <3>1. Len(r) \in Nat /\ Len(t) = Len(r) + 1
      BY <2>2, AppendProperties, LenProperties
    <3> QED BY <3>1
  <2>4. Stream(s \o r) = Stream(s) \o Stream(r)
    BY <1>2, <2>3
  <2>5. s \o r \in Seq(Written) /\ s \o t = Append(s \o r, f)
    <3>1. t = r \o <<f>> /\ <<f>> \in Seq(Written) /\ s \o r \in Seq(Written)
      BY <2>2, AppendIsConcat, ConcatProperties
    <3>2. Append(s \o r, f) = (s \o r) \o <<f>>
      BY <3>1, AppendIsConcat
    <3> QED BY <3>1, <3>2, ConcatAssociative
  <2>6. Stream(s \o t) = (Stream(s) \o Stream(r)) \o Encode(f)
    BY <2>4, <2>5, StreamMore
  <2>7. Stream(t) = Stream(r) \o Encode(f)
    BY <2>2, StreamMore
  <2>8. Stream(s) \in Seq(Nat) /\ Stream(r) \in Seq(Nat) /\ Encode(f) \in Seq(Nat)
    BY StreamIs, EncodeTyped
  <2>9. (Stream(s) \o Stream(r)) \o Encode(f) = Stream(s) \o (Stream(r) \o Encode(f))
    BY <2>8, ConcatAssociative
  <2> QED BY <2>6, <2>7, <2>9, Zenon
<1> HIDE DEF S
<1>3. \A n \in Nat : n \in S
  BY <1>1, <1>2, SetInduction
<1>4. \A t \in Seq(Written) : Len(t) \in Nat
  BY LenProperties
<1> QED BY <1>3, <1>4 DEF S

-----------------------------------------------------------------------------
(* Frames: what next_frame makes of a buffer that holds the beginning of a  *)
(* frame, or a frame and more.                                              *)

\* As far as both go, the buffer is the bytes of f.
BufferBegins(f) ==
    /\ buffer \in Seq(Byte)
    /\ \A i \in 1..Len(buffer) : i <= Len(Encode(f)) => buffer[i] = Encode(f)[i]

LEMMA LengthLine ==
    ASSUME NEW f \in Written, BufferBegins(f)
    PROVE  /\ Len(buffer) <= TextLength(f) => LineEnds = {} /\ Len(buffer) < MaxLine
           /\ Len(buffer) > TextLength(f) =>
                 /\ LineEnds # {} /\ LineEnd = TextLength(f) + 1
                 /\ IsLength /\ Length = PayloadLength(f)
<1> DEFINE l == TextLength(f)
           text == Digits[PayloadLength(f)]
           size == Len(buffer)
<1>1. l \in Nat \ {0} /\ size \in Nat /\ MaxLine \in Nat /\ l < MaxLine
  BY Layout, LengthFits, LenProperties, FramesAssumption DEF BufferBegins, TextLength
<1>2. text \in Seq(Digit) /\ Len(text) = l /\ NumberOf(text) = PayloadLength(f)
  BY LengthFits DEF TextLength
<1>3. Len(Encode(f)) \in Nat /\ Len(Encode(f)) >= l + 1
  <2>1. Len(Encode(f)) = l + 1 + PayloadLength(f) /\ PayloadLength(f) \in Nat
    BY Layout, LengthFits
  <2> HIDE DEF l
  <2> QED BY <1>1, <2>1
<1>4. \A i \in 1..l : Encode(f)[i] = text[i] /\ text[i] \in Digit
  <2>1. \A i \in 1..l : text[i] \in Digit
    BY <1>2, ElementOfSeq
  <2> QED BY <2>1, Layout
<1>5. Encode(f)[l + 1] = Newline
  BY Layout
<1> HIDE DEF l, text, size
<1>6. \A i \in Nat : i \in 1..size /\ i <= l => buffer[i] = text[i] /\ buffer[i] # Newline
  <2> SUFFICES ASSUME NEW i \in Nat, i \in 1..size, i <= l
               PROVE  buffer[i] = text[i] /\ buffer[i] # Newline
    OBVIOUS
  <2>1. i <= Len(Encode(f)) /\ i \in 1..l
    BY <1>1, <1>3
  <2>2. buffer[i] = text[i] /\ text[i] \in Digit
    BY <1>4, <2>1 DEF BufferBegins, size
  <2> QED BY <2>2 DEF Digit, Newline
<1>7. Scanned = (IF size < MaxLine THEN size ELSE MaxLine)
  BY DEF Scanned, MinOf, size
<1>8. \A i \in Nat : i \in LineEnds <=> i \in 1..Scanned /\ buffer[i] = Newline
  BY DEF LineEnds
<1>9. LineEnds \subseteq Nat
  BY <1>1, <1>7 DEF LineEnds
<1>10. ASSUME size <= l PROVE LineEnds = {} /\ size < MaxLine
  <2>1. size < MaxLine
    BY <1>1, <1>10
  <2>2. ASSUME NEW i \in LineEnds PROVE FALSE
    <3>1. i \in Nat /\ i \in 1..size /\ i <= l /\ buffer[i] = Newline
      BY <1>1, <1>7, <1>8, <1>9, <1>10, <2>1, <2>2
    <3> QED BY <1>6, <3>1
  <2> QED BY <2>1, <2>2
<1>11. ASSUME size > l
       PROVE  LineEnds # {} /\ LineEnd = l + 1 /\ IsLength /\ Length = PayloadLength(f)
  <2>1. l + 1 \in 1..Scanned /\ l + 1 \in 1..size
    BY <1>1, <1>7, <1>11
  <2>2. buffer[l + 1] = Newline
    BY <1>3, <1>5, <2>1 DEF BufferBegins, size
  <2>3. l + 1 \in LineEnds
    BY <1>8, <2>1, <2>2
  <2>4. ASSUME NEW i \in LineEnds PROVE i \in Nat /\ l + 1 <= i
    <3>1. i \in Nat /\ i \in 1..size /\ buffer[i] = Newline
      BY <1>1, <1>7, <1>8, <1>9, <2>4
    <3>2. ~(i <= l)
      BY <1>6, <3>1
    <3> QED BY <1>1, <3>1, <3>2
  <2>5. LineEnd \in LineEnds /\ \A j \in LineEnds : LineEnd <= j
    BY <2>3, <2>4 DEF LineEnd
  <2>6. LineEnd = l + 1
    <3>1. LineEnd \in Nat /\ l + 1 <= LineEnd /\ LineEnd <= l + 1
      BY <2>3, <2>4, <2>5
    <3> HIDE DEF LineEnd
    <3> QED BY <1>1, <3>1
  <2>7. LengthText = text
    <3>1. LengthText = SubSeq(buffer, 1, l)
      <4>1. (l + 1) - 1 = l
        BY <1>1
      <4> QED BY <2>6, <4>1 DEF LengthText
    <3>2. \A i \in 1..l : buffer[i] = text[i] /\ buffer[i] \in Digit
      BY <1>1, <1>4, <1>6, <1>11
    <3>3. /\ SubSeq(buffer, 1, l) \in Seq(Digit) /\ Len(SubSeq(buffer, 1, l)) = l
          /\ \A i \in 1..l : SubSeq(buffer, 1, l)[i] = buffer[i]
      <4>1. SubSeq(buffer, 1, l) \in Seq(Digit) /\ Len(SubSeq(buffer, 1, l)) = l
            /\ \A i \in 1..(l - 1 + 1) : SubSeq(buffer, 1, l)[i] = buffer[1 + i - 1]
        BY <1>1, <3>2, SubSeqProperties
      <4>2. l - 1 + 1 = l /\ \A i \in 1..l : 1 + i - 1 = i
        BY <1>1
      <4> QED BY <4>1, <4>2
    <3> QED BY <1>2, <3>1, <3>2, <3>3, SeqEqual
  <2>8. IsLength
    <3>1. text # <<>> /\ \A i \in 1..Len(text) : text[i] \in Digit
      BY <1>1, <1>2, <1>4
    <3> QED BY <2>7, <3>1 DEF IsLength
  <2> QED BY <1>2, <2>3, <2>6, <2>7, <2>8 DEF Length
<1> QED BY <1>10, <1>11 DEF l, size

\* The n bytes of s behind the first m.
Part(r, s, m, n) == r \in Seq(Byte) /\ Len(r) = n /\ \A i \in 1..n : r[i] = s[m + i]

LEMMA PartIs ==
    ASSUME NEW s, NEW m \in Nat, NEW n \in Nat, \A i \in 1..n : s[m + i] \in Byte
    PROVE  Part(SubSeq(s, m + 1, m + n), s, m, n)
<1> DEFINE a == m + 1
           z == m + n
           r == SubSeq(s, a, z)
<1>1. a \in Int /\ z \in Int /\ z - a + 1 = n /\ (a <= z <=> n # 0)
  OBVIOUS
<1>2. \A i \in a..z : s[i] \in Byte
  <2> SUFFICES ASSUME NEW i \in a..z PROVE s[i] \in Byte
    OBVIOUS
  <2>1. i - m \in 1..n /\ m + (i - m) = i
    OBVIOUS
  <2>2. s[m + (i - m)] \in Byte
    BY <2>1
  <2> QED BY <2>1, <2>2
<1>3. \A i \in 1..n : a + i - 1 = m + i
  OBVIOUS
<1> HIDE DEF a, z
<1>4. /\ r \in Seq(Byte) /\ Len(r) = IF a <= z THEN z - a + 1 ELSE 0
      /\ \A i \in 1..(z - a + 1) : r[i] = s[a + i - 1]
  BY <1>1, <1>2, SubSeqProperties
<1> HIDE DEF r
<1>5. Len(r) = n
  BY <1>1, <1>4
<1>6. \A i \in 1..n : r[i] = s[m + i]
  <2> SUFFICES ASSUME NEW i \in 1..n PROVE r[i] = s[m + i]
    OBVIOUS
  <2>1. r[i] = s[a + i - 1]
    BY <1>1, <1>4
  <2> QED BY <1>3, <2>1, Zenon
<1> QED BY <1>4, <1>5, <1>6 DEF Part, r, a, z

\* Where the channel line of the payload ends.
ChannelEnd == SelectInSeq(Payload, LAMBDA b : b = Newline)

LEMMA PayloadHeld ==
    ASSUME NEW f \in Written, BufferBegins(f), Len(buffer) >= Len(Encode(f))
    PROVE  /\ FrameEnd = Len(Encode(f))
           /\ Payload \in Seq(Byte) /\ Len(Payload) = PayloadLength(f)
           /\ \A i \in 1..ChannelLength(f) : Payload[i] = f.channel[i]
           /\ Payload[ChannelLength(f) + 1] = Newline
           /\ \A i \in 1..Len(f.data) : Payload[ChannelLength(f) + 1 + i] = f.data[i]
<1> DEFINE l == TextLength(f)
           c == ChannelLength(f)
           d == Len(f.data)
           n == PayloadLength(f)
           e == Encode(f)
           size == Len(buffer)
<1>1. /\ l \in Nat \ {0} /\ c \in Nat /\ d \in Nat /\ n \in Nat /\ size \in Nat
      /\ n = c + 1 + d
  <2>1. l \in Nat \ {0} /\ c \in Nat
    BY Layout
  <2>2. d \in Nat
    BY WrittenTyped, LenProperties
  <2>3. size \in Nat
    BY LenProperties DEF BufferBegins
  <2>4. n = c + 1 + d /\ n \in Nat
    BY LengthFits DEF ChannelLength
  <2> QED BY <2>1, <2>2, <2>3, <2>4
<1>2. /\ Len(e) = l + 1 + n
      /\ \A i \in 1..c : e[l + 1 + i] = f.channel[i]
      /\ e[l + c + 2] = Newline
      /\ \A i \in 1..d : e[l + c + 2 + i] = f.data[i]
  BY Layout
<1>3. \A i \in 1..size : i <= Len(e) => buffer[i] = e[i] /\ buffer[i] \in Byte
  BY ElementOfSeq DEF BufferBegins
<1>4. size >= Len(e)
  OBVIOUS
<1>5. Len(buffer) > TextLength(f)
  <2> HIDE DEF l, e, size, n
  <2>1. size > l
    BY <1>1, <1>2, <1>4
  <2> QED BY <2>1 DEF size, l
<1>6. LineEnd = l + 1 /\ Length = n
  BY <1>5, LengthLine
<1> HIDE DEF l, c, d, n, e, size
<1>7. FrameEnd = Len(e)
  BY <1>2, <1>6 DEF FrameEnd
<1> DEFINE b == buffer
<1>8. Payload = SubSeq(b, l + 2, l + 1 + n)
  <2>1. (l + 1) + 1 = l + 2
    BY <1>1
  <2> QED BY <1>2, <1>6, <1>7, <2>1 DEF Payload
<1> HIDE DEF b
<1>9. \A i \in 1..n : b[l + 1 + i] = e[l + 1 + i] /\ b[l + 1 + i] \in Byte
  <2> SUFFICES ASSUME NEW i \in 1..n
               PROVE  b[l + 1 + i] = e[l + 1 + i] /\ b[l + 1 + i] \in Byte
    OBVIOUS
  <2>1. l + 1 + i \in 1..size /\ l + 1 + i <= Len(e)
    BY <1>1, <1>2, <1>4
  <2> QED BY <1>3, <2>1 DEF b
<1>10. /\ Payload \in Seq(Byte) /\ Len(Payload) = n
       /\ \A i \in 1..n : Payload[i] = e[l + 1 + i]
  <2>1. l + 1 \in Nat /\ (l + 1) + 1 = l + 2
    BY <1>1
  <2>2. Part(SubSeq(b, (l + 1) + 1, (l + 1) + n), b, l + 1, n)
    BY <1>1, <1>9, <2>1, PartIs
  <2>3. Part(Payload, b, l + 1, n)
    BY <1>8, <2>1, <2>2, Zenon
  <2> HIDE DEF Payload
  <2> QED BY <1>9, <2>3 DEF Part
<1> HIDE DEF Payload
<1>11. \A i \in 1..c : Payload[i] = f.channel[i]
  <2> SUFFICES ASSUME NEW i \in 1..c PROVE Payload[i] = f.channel[i]
    OBVIOUS
  <2>1. i \in 1..n
    BY <1>1
  <2> QED BY <1>2, <1>10, <2>1
<1>12. Payload[c + 1] = Newline
  <2>1. c + 1 \in 1..n /\ l + 1 + (c + 1) = l + c + 2
    BY <1>1
  <2>2. Payload[c + 1] = e[l + 1 + (c + 1)]
    BY <1>10, <2>1
  <2> QED BY <1>2, <2>1, <2>2
<1>13. \A i \in 1..d : Payload[c + 1 + i] = f.data[i]
  <2> SUFFICES ASSUME NEW i \in 1..d PROVE Payload[c + 1 + i] = f.data[i]
    OBVIOUS
  <2>1. c + 1 + i \in 1..n /\ l + 1 + (c + 1 + i) = l + c + 2 + i
    BY <1>1
  <2>2. Payload[c + 1 + i] = e[l + 1 + (c + 1 + i)]
    BY <1>10, <2>1
  <2> QED BY <1>2, <2>1, <2>2
<1> QED BY <1>7, <1>10, <1>11, <1>12, <1>13 DEF c, d, n, e

LEMMA FrameTold ==
    ASSUME NEW f \in Written, BufferBegins(f), Len(buffer) >= Len(Encode(f))
    PROVE  /\ Contains(Payload, Newline)
           /\ [channel |-> SubSeq(Payload, 1, ChannelEnd - 1),
               data |-> SubSeq(Payload, ChannelEnd + 1, Len(Payload))] = f
<1> DEFINE c == ChannelLength(f)
           d == Len(f.data)
           n == PayloadLength(f)
           I == {i \in 1..Len(Payload) : Payload[i] = Newline}
<1>1. c \in Nat /\ d \in Nat /\ n \in Nat /\ n = c + 1 + d /\ c = Len(f.channel)
  <2>1. d \in Nat /\ c \in Nat
    BY WrittenTyped, LenProperties, Layout
  <2> QED BY <2>1, LengthFits DEF ChannelLength
<1>2. /\ Payload \in Seq(Byte) /\ Len(Payload) = n
      /\ \A i \in 1..c : Payload[i] = f.channel[i]
      /\ Payload[c + 1] = Newline
      /\ \A i \in 1..d : Payload[c + 1 + i] = f.data[i]
  BY PayloadHeld
<1>3. /\ f = [channel |-> f.channel, data |-> f.data]
      /\ f.channel \in Seq(Byte) /\ f.data \in Seq(Byte)
      /\ \A i \in 1..Len(f.channel) : f.channel[i] # Newline
  BY WrittenTyped
<1> DEFINE p == Payload
<1>4. ChannelEnd = IF I # {} THEN Min(I) ELSE 0
  BY DEF ChannelEnd, SelectInSeq
<1>5. I = {i \in 1..n : p[i] = Newline}
  BY <1>2, Zenon
<1> HIDE DEF c, d, n, I, p
<1>6. c + 1 \in I
  <2>1. c + 1 \in 1..n /\ p[c + 1] = Newline
    BY <1>1, <1>2 DEF p
  <2> QED BY <1>5, <2>1
<1>7. \A i \in I : i \in Nat /\ c + 1 <= i
  <2> SUFFICES ASSUME NEW i \in I, i \in Nat, ~(c + 1 <= i) PROVE FALSE
    BY <1>1, <1>5
  <2>1. i \in 1..c /\ p[i] = Newline
    BY <1>1, <1>5
  <2> QED BY <1>1, <1>2, <1>3, <2>1 DEF p
<1>8. ChannelEnd = c + 1
  <2>1. ChannelEnd = CHOOSE x \in I : \A y \in I : x <= y
    BY <1>4, <1>6 DEF Min
  <2>2. ChannelEnd \in I /\ \A y \in I : ChannelEnd <= y
    BY <1>6, <1>7, <2>1
  <2> QED BY <1>1, <1>6, <1>7, <2>2
<1>9. \A i \in 1..n : p[i] \in Byte
  BY <1>2, ElementOfSeq DEF p
<1>10. SubSeq(p, 1, c) = f.channel
  <2> DEFINE s == SubSeq(p, 1, c)
  <2>1. 0 + 1 = 1 /\ 0 + c = c /\ 0 \in Nat /\ \A i \in 1..c : 0 + i = i /\ i \in 1..n
    BY <1>1
  <2>2. Part(SubSeq(p, 0 + 1, 0 + c), p, 0, c)
    <3>1. \A i \in 1..c : p[0 + i] \in Byte
      BY <1>9, <2>1
    <3> QED BY <1>1, <2>1, <3>1, PartIs, Zenon
  <2>3. Part(s, p, 0, c)
    BY <2>1, <2>2, Zenon
  <2> HIDE DEF s
  <2>4. s \in Seq(Byte) /\ Len(s) = c /\ \A i \in 1..c : s[i] = p[i]
    BY <2>1, <2>3 DEF Part
  <2>5. \A i \in 1..c : s[i] = f.channel[i]
    BY <1>2, <2>4 DEF p
  <2>6. s = f.channel
    BY <1>1, <1>3, <2>4, <2>5, SeqEqual
  <2> QED BY <2>6 DEF s
<1>11. SubSeq(p, c + 2, n) = f.data
  <2> DEFINE s == SubSeq(p, c + 2, n)
  <2>1. /\ c + 1 \in Nat /\ (c + 1) + 1 = c + 2 /\ (c + 1) + d = n
        /\ \A i \in 1..d : c + 1 + i \in 1..n
    BY <1>1
  <2>2. Part(SubSeq(p, (c + 1) + 1, (c + 1) + d), p, c + 1, d)
    <3>1. \A i \in 1..d : p[c + 1 + i] \in Byte
      BY <1>9, <2>1
    <3> QED BY <1>1, <2>1, <3>1, PartIs, Zenon
  <2>3. Part(s, p, c + 1, d)
    BY <2>1, <2>2, Zenon
  <2> HIDE DEF s
  <2>4. s \in Seq(Byte) /\ Len(s) = d /\ \A i \in 1..d : s[i] = p[c + 1 + i]
    BY <2>3 DEF Part
  <2>5. \A i \in 1..d : s[i] = f.data[i]
    BY <1>2, <2>4 DEF p
  <2>6. s = f.data
    BY <1>3, <2>4, <2>5, SeqEqual DEF d
  <2> QED BY <2>6 DEF s
<1>12. Contains(Payload, Newline)
  <2>1. c + 1 \in 1..Len(Payload)
    BY <1>1, <1>2
  <2> QED BY <1>2, <2>1 DEF Contains
<1>13. ChannelEnd - 1 = c /\ ChannelEnd + 1 = c + 2
  BY <1>1, <1>8
<1> QED BY <1>2, <1>3, <1>10, <1>11, <1>12, <1>13 DEF p

\* A beginning is waited for, a frame is told.
LEMMA Decodable ==
    ASSUME NEW f \in Written, BufferBegins(f)
    PROVE  /\ ~OutOfStep
           /\ HasFrame <=> Len(buffer) >= Len(Encode(f))
           /\ HasFrame =>
                 /\ FrameEnd = Len(Encode(f))
                 /\ [channel |-> SubSeq(Payload, 1, ChannelEnd - 1),
                     data |-> SubSeq(Payload, ChannelEnd + 1, Len(Payload))] = f
<1>1. /\ TextLength(f) \in Nat /\ PayloadLength(f) \in Nat
      /\ PayloadLength(f) <= MaxFrame /\ MaxFrame \in Nat
      /\ Len(Encode(f)) = TextLength(f) + 1 + PayloadLength(f)
      /\ Len(buffer) \in Nat
  BY Layout, LengthFits, FramesAssumption, LenProperties DEF BufferBegins
<1>2. CASE Len(buffer) <= TextLength(f)
  <2>1. LineEnds = {} /\ Len(buffer) < MaxLine
    BY <1>2, LengthLine
  <2>2. ~(Len(buffer) >= Len(Encode(f))) /\ ~(Len(buffer) >= MaxLine)
    BY <1>1, <1>2, <2>1, FramesAssumption
  <2> QED BY <2>1, <2>2 DEF OutOfStep, HasFrame
<1>3. CASE Len(buffer) > TextLength(f)
  <2>1. LineEnds # {} /\ LineEnd = TextLength(f) + 1 /\ IsLength /\ Length = PayloadLength(f)
    BY <1>3, LengthLine
  <2>2. FrameEnd = Len(Encode(f))
    BY <1>1, <2>1 DEF FrameEnd
  <2>3. HasFrame <=> Len(buffer) >= Len(Encode(f))
    BY <2>1, <2>2 DEF HasFrame
  <2>4. ~(Length > MaxFrame)
    BY <1>1, <2>1
  <2>5. Len(buffer) >= Len(Encode(f)) => Contains(Payload, Newline)
    BY FrameTold
  <2>6. ~OutOfStep
    BY <2>1, <2>2, <2>4, <2>5 DEF OutOfStep
  <2> QED BY <2>2, <2>3, <2>6, FrameTold
<1> QED BY <1>1, <1>2, <1>3

-----------------------------------------------------------------------------
(* Frames: the invariant.  What was written and has not been decoded is on  *)
(* its way: its bytes are what the buffer and the pipe hold.                *)

Preludes == {<<>>, <<Letter>>, <<Letter, Newline>>, [i \in 1..MaxLine |-> 1]}

FramesTypes ==
    /\ prelude \in Preludes
    /\ emitted \in Seq(Written) /\ decoded \in Seq(Written)
    /\ wire \in Seq(Byte) /\ buffer \in Seq(Byte)
    /\ thread \in {"none", "reading", "decoding", "ended"}
    /\ broken \in BOOLEAN

NotStarted ==
    thread = "none" =>
        /\ prelude = <<>> /\ emitted = <<>> /\ decoded = <<>>
        /\ wire = <<>> /\ buffer = <<>>

\* A thread that reads has no whole frame in its buffer.
OnTheWay(rest) ==
    /\ emitted = decoded \o rest
    /\ buffer \o wire = Stream(rest)
    /\ thread = "reading" /\ rest # <<>> => Len(buffer) < Len(Encode(Head(rest)))

FramesComing ==
    prelude = <<>> =>
        /\ thread # "ended" /\ ~broken
        /\ \E rest \in Seq(Written) : OnTheWay(rest)

\* What the profile printed is what the decoder begins with, and stays there.
NoiseStays ==
    prelude # <<>> =>
        /\ decoded = <<>>
        /\ \A i \in 1..Len(prelude) :
              i \in 1..Len(buffer \o wire) /\ (buffer \o wire)[i] = prelude[i]

FramesInv == FramesTypes /\ NotStarted /\ FramesComing /\ NoiseStays

LEMMA MoveFrame ==
    ASSUME NEW s \in Seq(Written), NEW t \in Seq(Written), t # <<>>
    PROVE  /\ Head(t) \in Written /\ Tail(t) \in Seq(Written)
           /\ Append(s, Head(t)) \in Seq(Written)
           /\ s \o t = Append(s, Head(t)) \o Tail(t)
<1> DEFINE h == <<Head(t)>>
           r == Tail(t)
<1>1. Head(t) \in Written /\ r \in Seq(Written) /\ Head(t) = t[1]
  BY HeadTailProperties
<1>2. Append(s, Head(t)) = s \o h /\ h \in Seq(Written) /\ Append(s, Head(t)) \in Seq(Written)
  BY <1>1, AppendIsConcat, AppendProperties
<1>3. h \o r = t
  <2>1. Len(t) \in Nat \ {0} /\ 1 \in 1..Len(t) /\ Len(t) \in 1..Len(t)
    BY EmptySeq
  <2>2. SubSeq(t, 1, Len(t)) = <<t[1]>> \o SubSeq(t, 2, Len(t))
    BY <2>1, SubSeqRecursiveFirst
  <2>3. SubSeq(t, 1, Len(t)) = t /\ r = SubSeq(t, 2, Len(t))
    BY SubSeqFull, TailIsSubSeq
  <2> QED BY <1>1, <2>2, <2>3
<1> HIDE DEF h, r
<1>4. s \o (h \o r) = (s \o h) \o r
  BY <1>1, <1>2, ConcatAssociative
<1> QED BY <1>1, <1>2, <1>3, <1>4 DEF r

LEMMA NothingLeft ==
    ASSUME FramesInv, OnTheWay(<<>>)
    PROVE  buffer = <<>> /\ ~OutOfStep /\ ~HasFrame
<1>1. buffer \o wire = <<>> /\ buffer \in Seq(Byte) /\ wire \in Seq(Byte)
  BY StreamIs DEF FramesInv, FramesTypes, OnTheWay
<1>2. buffer = <<>> /\ Len(buffer) = 0
  BY <1>1, ConcatEqualIffEmpty
<1>3. MaxLine > 0 /\ MaxLine \in Nat
  <2>1. 1 \in 1..(MaxData + 2) /\ 1 \in Nat
    BY FramesAssumption
  <2>2. Len(Digits[1]) \in Nat
    BY <2>1, DigitsRead, LenProperties
  <2>3. Len(Digits[1]) < MaxLine
    BY <2>1, FramesAssumption
  <2> QED BY <2>2, <2>3, FramesAssumption
<1>4. LineEnds = {}
  <2>1. Scanned = 0
    BY <1>2, <1>3 DEF Scanned, MinOf
  <2> QED BY <2>1 DEF LineEnds
<1> QED BY <1>2, <1>3, <1>4 DEF OutOfStep, HasFrame

LEMMA NextStarts ==
    ASSUME FramesInv, NEW rest \in Seq(Written), rest # <<>>, OnTheWay(rest)
    PROVE  Head(rest) \in Written /\ Tail(rest) \in Seq(Written) /\ BufferBegins(Head(rest))
<1> DEFINE e == Encode(Head(rest))
           s == Stream(Tail(rest))
<1>1. Head(rest) \in Written /\ Tail(rest) \in Seq(Written)
  BY MoveFrame
<1>2. e \in Seq(Nat) /\ s \in Seq(Nat) /\ buffer \in Seq(Byte)
  BY <1>1, EncodeTyped, StreamIs DEF FramesInv, FramesTypes
<1>3. buffer \in Seq(Nat) /\ wire \in Seq(Nat)
  BY ByteFacts, SeqMonotonic DEF FramesInv, FramesTypes
<1>4. buffer \o wire = e \o s
  BY StreamFirst DEF OnTheWay
<1> HIDE DEF e, s
<1>5. ASSUME NEW i \in 1..Len(buffer), i <= Len(e) PROVE buffer[i] = e[i]
  <2>1. /\ Len(buffer) \in Nat /\ Len(wire) \in Nat /\ Len(e) \in Nat /\ Len(s) \in Nat
    BY <1>2, <1>3, LenProperties
  <2>2. i \in 1..(Len(buffer) + Len(wire)) /\ i \in 1..(Len(e) + Len(s))
    BY <1>5, <2>1
  <2>3. (buffer \o wire)[i] = buffer[i]
    BY <1>3, <2>1, <2>2, ConcatProperties
  <2>4. (e \o s)[i] = e[i]
    BY <1>2, <1>5, <2>2, ConcatProperties
  <2> QED BY <1>4, <2>3, <2>4
<1> QED BY <1>1, <1>2, <1>5 DEF BufferBegins, e

\* Noise is no frame.
LEMMA NoiseTold ==
    ASSUME FramesInv, prelude # <<>>, HasFrame
    PROVE  OutOfStep
<1>1. /\ buffer \in Seq(Byte) /\ wire \in Seq(Byte) /\ prelude \in Preludes
      /\ Len(buffer) \in Nat /\ Len(wire) \in Nat /\ MaxLine \in Nat
  BY LenProperties, FramesAssumption DEF FramesInv, FramesTypes
<1>2. \A i \in 1..Len(buffer) : i \in 1..Len(prelude) => buffer[i] = prelude[i]
  <2> SUFFICES ASSUME NEW i \in 1..Len(buffer), i \in 1..Len(prelude)
               PROVE  buffer[i] = prelude[i]
    OBVIOUS
  <2>1. i \in 1..(Len(buffer) + Len(wire)) /\ i <= Len(buffer)
    BY <1>1
  <2>2. (buffer \o wire)[i] = buffer[i]
    BY <1>1, <2>1, ConcatProperties
  <2> QED BY <2>2 DEF FramesInv, NoiseStays
<1>3. LineEnds # {} /\ Scanned = (IF Len(buffer) < MaxLine THEN Len(buffer) ELSE MaxLine)
  BY DEF HasFrame, Scanned, MinOf
<1>4. \A i \in LineEnds : /\ i \in Nat \ {0} /\ i <= Len(buffer) /\ i <= MaxLine
                          /\ buffer[i] = Newline
  BY <1>1, <1>3 DEF LineEnds
<1>5. LineEnd \in LineEnds
  <2> DEFINE T == {n \in Nat : n \in LineEnds}
  <2>1. T \subseteq Nat /\ T # {}
    BY <1>3, <1>4
  <2> HIDE DEF T
  <2>2. PICK m \in T : \A y \in T : ~(<<y, m>> \in OpToRel(<, Nat))
    BY <2>1, NatLessThanWellFounded, WFMin
  <2>3. m \in LineEnds /\ \A y \in LineEnds : m <= y
    <3>1. m \in LineEnds /\ m \in Nat
      BY <2>1, <2>2 DEF T
    <3>2. ASSUME NEW y \in LineEnds PROVE m <= y
      <4>1. y \in Nat /\ y \in T
        BY <1>4, <3>2 DEF T
      <4>2. ~(y < m)
        BY <2>2, <3>1, <4>1 DEF OpToRel
      <4> QED BY <3>1, <4>1, <4>2
    <3> QED BY <3>1, <3>2
  <2> QED BY <2>3 DEF LineEnd
<1>6. CASE prelude[1] = Letter /\ Len(prelude) \in Nat \ {0}
  <2>1. 1 \in 1..Len(buffer) /\ 1 \in 1..Len(prelude)
    BY <1>1, <1>4, <1>5, <1>6
  <2>2. buffer[1] = Letter
    BY <1>2, <1>6, <2>1
  <2>3. LineEnd \in Nat /\ LineEnd > 1 /\ LineEnd <= Len(buffer)
    <3>1. LineEnd # 1
      BY <1>4, <1>5, <2>2 DEF Newline, Letter
    <3> QED BY <1>4, <1>5, <3>1
  <2> HIDE DEF LineEnd
  <2>4. Len(LengthText) = LineEnd - 1 /\ LengthText[1] = Letter
    <3> DEFINE n == LineEnd - 1
    <3>1. n \in Nat \ {0} /\ \A i \in 1..n : i \in 1..Len(buffer)
      BY <1>1, <2>3
    <3>2. \A i \in 1..n : buffer[0 + i] \in Byte
      <4>1. \A i \in 1..n : 0 + i = i /\ buffer[i] \in Byte
        BY <1>1, <3>1, ElementOfSeq
      <4> QED BY <4>1
    <3> HIDE DEF n
    <3>3. Part(SubSeq(buffer, 0 + 1, 0 + n), buffer, 0, n)
      BY <3>1, <3>2, PartIs
    <3>4. 0 + 1 = 1 /\ 0 + n = n /\ 1 \in 1..n
      BY <3>1
    <3>5. Part(LengthText, buffer, 0, n)
      BY <3>3, <3>4, Zenon DEF LengthText, n
    <3>6. Len(LengthText) = n /\ LengthText[1] = buffer[1]
      BY <3>4, <3>5 DEF Part
    <3> QED BY <2>2, <3>6 DEF n
  <2>5. ~IsLength
    <3>1. 1 \in 1..Len(LengthText) /\ Letter \notin Digit
      BY <2>3, <2>4 DEF Letter, Digit
    <3> QED BY <2>4, <3>1 DEF IsLength
  <2> QED BY <1>3, <2>5 DEF OutOfStep
<1>7. CASE prelude = [i \in 1..MaxLine |-> 1]
  <2>1. Len(prelude) = MaxLine
    BY <1>1, <1>7
  <2>2. LineEnd \in 1..MaxLine /\ LineEnd \in 1..Len(buffer) /\ buffer[LineEnd] = Newline
    BY <1>1, <1>4, <1>5
  <2> HIDE DEF LineEnd
  <2>3. buffer[LineEnd] = 1
    BY <1>2, <1>7, <2>1, <2>2
  <2> QED BY <2>2, <2>3 DEF Newline
<1>8. CASE prelude \in {<<Letter>>, <<Letter, Newline>>}
  BY <1>6, <1>8
<1> QED BY <1>1, <1>7, <1>8 DEF Preludes

LEMMA PreludesTyped ==
    ASSUME NEW p \in Preludes
    PROVE  p \in Seq(Byte)
<1>1. 1 \in Byte /\ Newline \in Byte /\ Letter \in Byte /\ MaxLine \in Nat
  BY FramesAssumption DEF Byte, Digit
<1>2. [i \in 1..MaxLine |-> 1] \in [1..MaxLine -> Byte]
  BY <1>1
<1>3. [i \in 1..MaxLine |-> 1] \in Seq(Byte)
  BY <1>1, <1>2
<1>4. <<>> \in Seq(Byte) /\ <<Letter>> \in Seq(Byte) /\ <<Letter, Newline>> \in Seq(Byte)
  BY <1>1
<1> QED BY <1>3, <1>4 DEF Preludes

LEMMA NothingYet ==
    /\ <<>> \in Seq(Written) /\ <<>> \in Seq(Byte)
    /\ <<>> \o <<>> = <<>> /\ Stream(<<>>) = <<>>
<1>1. <<>> \in Seq(Written) /\ <<>> \in Seq(Byte)
  BY EmptySeq
<1> QED BY <1>1, ConcatEmptySeq, StreamIs

LEMMA FramesInvInit == FramesInit => FramesInv
<1> SUFFICES ASSUME FramesInit PROVE FramesInv
  OBVIOUS
<1>1. FramesTypes
  BY NothingYet DEF FramesInit, FramesTypes, Preludes
<1>2. OnTheWay(<<>>)
  BY NothingYet DEF FramesInit, OnTheWay
<1> QED BY <1>1, <1>2, NothingYet
    DEF FramesInit, FramesInv, NotStarted, FramesComing, NoiseStays

LEMMA StartReadingStep == FramesInv /\ StartReading => FramesInv'
<1> SUFFICES ASSUME FramesInv, StartReading PROVE FramesInv'
  OBVIOUS
<1>1. /\ emitted = <<>> /\ decoded = <<>> /\ buffer = <<>>
      /\ UNCHANGED <<emitted, buffer, decoded, broken>>
      /\ wire' = prelude' /\ prelude' \in Preludes /\ thread' = "reading"
  BY DEF StartReading, FramesInv, NotStarted, Preludes
<1>2. FramesTypes'
  BY <1>1, PreludesTyped DEF FramesInv, FramesTypes
<1>3. (buffer \o wire)' = prelude'
  BY <1>1, PreludesTyped, ConcatEmptySeq
<1>4. ASSUME prelude' = <<>> PROVE OnTheWay(<<>>)' /\ thread' # "ended" /\ ~broken'
  <2>1. ~broken
    BY <1>1 DEF FramesInv, FramesComing, NotStarted, StartReading
  <2> QED BY <1>1, <1>3, <1>4, <2>1, NothingYet DEF OnTheWay
<1>5. ASSUME prelude' # <<>> PROVE NoiseStays'
  BY <1>1, <1>3 DEF NoiseStays
<1> QED BY <1>1, <1>2, <1>4, <1>5, NothingYet DEF FramesInv, NotStarted, FramesComing, NoiseStays

LEMMA BridgeWritesStep == FramesInv /\ BridgeWrites => FramesInv'
<1> SUFFICES ASSUME FramesInv, BridgeWrites PROVE FramesInv'
  OBVIOUS
<1>1. PICK f \in Written : emitted' = Append(emitted, f) /\ wire' = wire \o Encode(f)
  BY DEF BridgeWrites
<1>2. thread # "none" /\ UNCHANGED <<prelude, buffer, thread, decoded, broken>>
  BY DEF BridgeWrites
<1> DEFINE e == Encode(f)
<1>3. /\ e \in Seq(Byte) /\ Len(e) \in Nat \ {0}
      /\ wire \in Seq(Byte) /\ buffer \in Seq(Byte) /\ buffer \o wire \in Seq(Byte)
      /\ wire' \in Seq(Byte)
  <2>1. e \in Seq(Byte) /\ Len(e) \in Nat \ {0}
    BY EncodeTyped
  <2>2. wire \in Seq(Byte) /\ buffer \in Seq(Byte)
    BY DEF FramesInv, FramesTypes
  <2> QED BY <1>1, <2>1, <2>2, ConcatProperties
<1>4. FramesTypes'
  <2>1. emitted' \in Seq(Written)
    BY <1>1, AppendProperties DEF FramesInv, FramesTypes
  <2> QED BY <1>2, <1>3, <2>1 DEF FramesInv, FramesTypes
<1> HIDE DEF e
<1>5. (buffer \o wire)' = (buffer \o wire) \o e
  BY <1>1, <1>2, <1>3, ConcatAssociative DEF e
<1>6. ASSUME prelude = <<>> PROVE FramesComing'
  <2>1. PICK rest \in Seq(Written) : OnTheWay(rest)
    BY <1>6 DEF FramesInv, FramesComing
  <2> DEFINE more == Append(rest, f)
  <2>2. more \in Seq(Written) /\ more # <<>>
    BY AppendProperties
  <2>3. emitted' = decoded' \o more
    <3>1. decoded \in Seq(Written) /\ <<f>> \in Seq(Written) /\ decoded \o rest \in Seq(Written)
      BY ConcatProperties DEF FramesInv, FramesTypes
    <3>2. emitted = decoded \o rest
      BY <2>1 DEF OnTheWay
    <3>3. Append(decoded \o rest, f) = (decoded \o rest) \o <<f>> /\ more = rest \o <<f>>
      BY <3>1, AppendIsConcat
    <3>4. (decoded \o rest) \o <<f>> = decoded \o (rest \o <<f>>)
      BY <3>1, ConcatAssociative
    <3> HIDE DEF more
    <3> QED BY <1>1, <1>2, <3>2, <3>3, <3>4
  <2>4. (buffer \o wire)' = Stream(more)
    BY <1>5, <2>1, StreamMore DEF OnTheWay, e
  <2>5. Len(buffer) < Len(Encode(Head(more))) \/ thread # "reading"
    <3>1. CASE rest = <<>>
      <4>1. Len(buffer) = 0
        BY <2>1, <3>1, NothingLeft
      <4>2. Head(more) = f
        BY <3>1, HeadTailAppend
      <4> HIDE DEF more
      <4> QED BY <1>3, <4>1, <4>2 DEF e
    <3>2. CASE rest # <<>>
      <4>1. Head(more) = Head(rest)
        BY <3>2, HeadTailAppend
      <4> HIDE DEF more
      <4> QED BY <2>1, <3>2, <4>1 DEF OnTheWay
    <3> QED BY <3>1, <3>2
  <2> HIDE DEF more
  <2>6. OnTheWay(more)'
    BY <1>2, <2>3, <2>4, <2>5 DEF OnTheWay
  <2> QED BY <1>2, <1>6, <2>2, <2>6 DEF FramesInv, FramesComing
<1>7. NoiseStays'
  <2> SUFFICES ASSUME prelude # <<>>
               PROVE  /\ decoded' = <<>>
                      /\ \A i \in 1..Len(prelude) : /\ i \in 1..Len((buffer \o wire)')
                                                    /\ (buffer \o wire)'[i] = prelude[i]
    BY <1>2 DEF NoiseStays
  <2> DEFINE old == buffer \o wire
  <2>1. \A i \in 1..Len(prelude) : i \in 1..Len(old) /\ old[i] = prelude[i]
    BY DEF FramesInv, NoiseStays
  <2>2. decoded' = <<>>
    BY <1>2 DEF FramesInv, NoiseStays
  <2> HIDE DEF old
  <2>3. old \in Seq(Byte) /\ Len(old) \in Nat /\ (buffer \o wire)' = old \o e
    BY <1>3, <1>5, LenProperties DEF old
  <2>4. /\ Len(old \o e) = Len(old) + Len(e)
        /\ \A i \in 1..(Len(old) + Len(e)) : i <= Len(old) => (old \o e)[i] = old[i]
    BY <1>3, <2>3, ConcatProperties
  <2>5. ASSUME NEW i \in 1..Len(prelude)
        PROVE  i \in 1..Len(old \o e) /\ (old \o e)[i] = prelude[i]
    <3>1. i \in 1..Len(old) /\ old[i] = prelude[i]
      BY <2>1, <2>5
    <3>2. i \in 1..(Len(old) + Len(e)) /\ i <= Len(old)
      BY <1>3, <2>3, <3>1
    <3> QED BY <2>4, <3>1, <3>2
  <2> QED BY <2>2, <2>3, <2>5
<1>8. FramesComing'
  BY <1>2, <1>6 DEF FramesComing
<1>9. NotStarted'
  BY <1>2 DEF NotStarted
<1> QED BY <1>4, <1>7, <1>8, <1>9 DEF FramesInv

LEMMA ReadBytesStep == FramesInv /\ ReadBytes => FramesInv'
<1> SUFFICES ASSUME FramesInv, ReadBytes PROVE FramesInv'
  OBVIOUS
<1>1. PICK n \in 1..Len(wire) : /\ buffer' = buffer \o SubSeq(wire, 1, n)
                               /\ wire' = SubSeq(wire, n + 1, Len(wire))
  BY DEF ReadBytes
<1>2. thread = "reading" /\ thread' = "decoding" /\ UNCHANGED <<prelude, emitted, decoded, broken>>
  BY DEF ReadBytes
<1> DEFINE front == SubSeq(wire, 1, n)
           back == SubSeq(wire, n + 1, Len(wire))
<1>3. buffer \in Seq(Byte) /\ wire \in Seq(Byte)
  BY DEF FramesInv, FramesTypes
<1>4. front \in Seq(Byte) /\ back \in Seq(Byte) /\ wire = front \o back
  BY <1>3, Cut
<1> HIDE DEF front, back
<1>5. buffer' \o wire' = buffer \o wire /\ buffer' \in Seq(Byte) /\ wire' \in Seq(Byte)
  <2>1. buffer' = buffer \o front /\ wire' = back
    BY <1>1 DEF front, back
  <2>2. (buffer \o front) \o back = buffer \o (front \o back) /\ buffer \o front \in Seq(Byte)
    BY <1>3, <1>4, ConcatAssociative, ConcatProperties
  <2> QED BY <1>4, <2>1, <2>2
<1>6. FramesTypes'
  BY <1>2, <1>5 DEF FramesInv, FramesTypes
<1>7. ASSUME prelude = <<>> PROVE FramesComing'
  <2>1. PICK rest \in Seq(Written) : OnTheWay(rest)
    BY <1>7 DEF FramesInv, FramesComing
  <2>2. OnTheWay(rest)'
    BY <1>2, <1>5, <2>1 DEF OnTheWay
  <2> QED BY <1>2, <1>7, <2>2 DEF FramesInv, FramesComing
<1>8. FramesComing' /\ NoiseStays' /\ NotStarted'
  BY <1>2, <1>5, <1>7 DEF FramesComing, FramesInv, NoiseStays, NotStarted
<1> QED BY <1>6, <1>8 DEF FramesInv

LEMMA DecodeFailsStep == FramesInv /\ DecodeFails => FramesInv'
<1> SUFFICES ASSUME FramesInv, DecodeFails PROVE FramesInv'
  OBVIOUS
<1>1. /\ OutOfStep /\ thread' = "ended" /\ broken' = TRUE
      /\ UNCHANGED <<prelude, emitted, wire, buffer, decoded>>
  BY DEF DecodeFails
<1>2. prelude # <<>>
  <2> SUFFICES ASSUME prelude = <<>> PROVE FALSE
    OBVIOUS
  <2>1. PICK rest \in Seq(Written) : OnTheWay(rest)
    BY DEF FramesInv, FramesComing
  <2>2. CASE rest = <<>>
    BY <1>1, <2>1, <2>2, NothingLeft
  <2>3. CASE rest # <<>>
    <3>1. Head(rest) \in Written /\ BufferBegins(Head(rest))
      BY <2>1, <2>3, NextStarts
    <3> QED BY <1>1, <3>1, Decodable
  <2> QED BY <2>2, <2>3
<1>3. FramesTypes'
  BY <1>1 DEF FramesInv, FramesTypes
<1> QED BY <1>1, <1>2, <1>3 DEF FramesInv, NotStarted, FramesComing, NoiseStays

LEMMA DecodeFrameStep == FramesInv /\ DecodeFrame => FramesInv'
<1> SUFFICES ASSUME FramesInv, DecodeFrame PROVE FramesInv'
  OBVIOUS
<1>1. /\ ~OutOfStep /\ HasFrame /\ thread' = "decoding"
      /\ buffer' = SubSeq(buffer, FrameEnd + 1, Len(buffer))
      /\ UNCHANGED <<prelude, emitted, wire, broken>>
  BY DEF DecodeFrame, AfterFrame
<1>2. decoded' = Append(decoded, [channel |-> SubSeq(Payload, 1, ChannelEnd - 1),
                                  data |-> SubSeq(Payload, ChannelEnd + 1, Len(Payload))])
  BY DEF DecodeFrame, ChannelEnd
<1>3. prelude = <<>>
  BY <1>1, NoiseTold
<1>4. PICK rest \in Seq(Written) : OnTheWay(rest)
  BY <1>3 DEF FramesInv, FramesComing
<1>5. rest # <<>>
  BY <1>1, <1>4, NothingLeft
<1> DEFINE f == Head(rest)
           e == Encode(f)
           later == Tail(rest)
<1>6. f \in Written /\ later \in Seq(Written) /\ BufferBegins(f)
  BY <1>4, <1>5, NextStarts
<1>7. /\ FrameEnd = Len(e) /\ Len(buffer) >= Len(e)
      /\ decoded' = Append(decoded, f)
  BY <1>1, <1>2, <1>6, Decodable
<1>8. decoded \in Seq(Written) /\ wire \in Seq(Byte) /\ buffer \in Seq(Byte)
  BY DEF FramesInv, FramesTypes
<1>9. decoded' \in Seq(Written) /\ emitted' = decoded' \o later
  BY <1>1, <1>4, <1>5, <1>7, <1>8, MoveFrame DEF OnTheWay
<1>10. Stream(rest) = e \o Stream(later) /\ buffer \o wire = Stream(rest)
  BY <1>4, <1>5, StreamFirst DEF OnTheWay
<1>11. /\ e \in Seq(Byte) /\ e \in Seq(Nat) /\ Len(e) \in Nat \ {0} /\ Len(buffer) \in Nat
       /\ Stream(later) \in Seq(Nat)
  BY <1>6, <1>8, EncodeTyped, LenProperties, StreamIs
<1>12. \A i \in 1..Len(e) : buffer[i] = e[i]
  <2> SUFFICES ASSUME NEW i \in 1..Len(e) PROVE buffer[i] = e[i]
    OBVIOUS
  <2> HIDE DEF e
  <2>1. i \in 1..Len(buffer) /\ i <= Len(e)
    BY <1>7, <1>11
  <2> QED BY <1>6, <2>1 DEF BufferBegins, e
<1> HIDE DEF f, e, later
<1> DEFINE front == SubSeq(buffer, 1, Len(e))
           back == SubSeq(buffer, Len(e) + 1, Len(buffer))
<1>13. Len(e) \in 1..Len(buffer)
  BY <1>7, <1>11
<1>14. front \in Seq(Byte) /\ back \in Seq(Byte) /\ buffer = front \o back
  BY <1>8, <1>13, Cut
<1>15. front = e
  <2> DEFINE n == Len(e)
  <2>1. \A i \in 1..n : buffer[0 + i] \in Byte /\ 0 + i = i
    <3>1. \A i \in 1..n : 0 + i = i /\ i \in 1..Len(buffer)
      BY <1>11, <1>13
    <3>2. \A i \in 1..n : buffer[i] \in Byte
      BY <1>8, <3>1, ElementOfSeq
    <3> QED BY <3>1, <3>2
  <2>2. n \in Nat /\ 0 + 1 = 1 /\ 0 + n = n /\ 0 \in Nat
    BY <1>11
  <2> HIDE DEF n
  <2>3. Part(SubSeq(buffer, 0 + 1, 0 + n), buffer, 0, n)
    BY <2>1, <2>2, PartIs
  <2>4. Part(front, buffer, 0, n)
    BY <2>2, <2>3, Zenon DEF n
  <2> HIDE DEF front
  <2>5. front \in Seq(Byte) /\ Len(front) = n /\ \A i \in 1..n : front[i] = buffer[i]
    BY <2>1, <2>4 DEF Part
  <2>6. Len(e) = n /\ \A i \in 1..n : front[i] = e[i]
    BY <1>12, <2>5 DEF n
  <2> QED BY <1>11, <2>5, <2>6, SeqEqual
<1> HIDE DEF front, back
<1>16. buffer' = back
  BY <1>1, <1>7 DEF back
<1>17. back \o wire = Stream(later)
  <2>1. back \in Seq(Nat) /\ wire \in Seq(Nat) /\ back \o wire \in Seq(Nat)
    BY <1>8, <1>14, ByteFacts, SeqMonotonic, ConcatProperties
  <2>2. e \o (back \o wire) = (e \o back) \o wire
    BY <1>11, <2>1, Regroup, Zenon
  <2>3. e \o (back \o wire) = e \o Stream(later)
    BY <1>10, <1>14, <1>15, <2>2
  <2> QED BY <1>11, <2>1, <2>3, ConcatSimplifications
<1>18. FramesTypes'
  BY <1>1, <1>9, <1>14, <1>16 DEF FramesInv, FramesTypes
<1>19. OnTheWay(later)'
  BY <1>1, <1>9, <1>16, <1>17 DEF OnTheWay
<1> QED BY <1>1, <1>3, <1>6, <1>18, <1>19 DEF FramesInv, NotStarted, FramesComing, NoiseStays

LEMMA NeedMoreStep == FramesInv /\ NeedMore => FramesInv'
<1> SUFFICES ASSUME FramesInv, NeedMore PROVE FramesInv'
  OBVIOUS
<1>1. /\ ~HasFrame /\ thread' = "reading"
      /\ UNCHANGED <<prelude, emitted, wire, buffer, decoded, broken>>
  BY DEF NeedMore
<1>2. FramesTypes'
  BY <1>1 DEF FramesInv, FramesTypes
<1>3. ASSUME prelude = <<>> PROVE FramesComing'
  <2>1. PICK rest \in Seq(Written) : OnTheWay(rest)
    BY <1>3 DEF FramesInv, FramesComing
  <2>2. ASSUME rest # <<>> PROVE Len(buffer) < Len(Encode(Head(rest)))
    <3>1. Head(rest) \in Written /\ BufferBegins(Head(rest))
      BY <2>1, <2>2, NextStarts
    <3>2. ~(Len(buffer) >= Len(Encode(Head(rest))))
      BY <1>1, <3>1, Decodable
    <3>3. Len(buffer) \in Nat /\ Len(Encode(Head(rest))) \in Nat
      BY <3>1, EncodeTyped, LenProperties DEF FramesInv, FramesTypes
    <3> QED BY <3>2, <3>3
  <2>3. OnTheWay(rest)'
    BY <1>1, <2>1, <2>2 DEF OnTheWay
  <2> QED BY <1>1, <1>3, <2>3 DEF FramesInv, FramesComing
<1> QED BY <1>1, <1>2, <1>3 DEF FramesInv, NotStarted, FramesComing, NoiseStays

LEMMA FramesInvStep == FramesInv /\ [FramesNext]_framesVars => FramesInv'
<1>1. ASSUME FramesInv, UNCHANGED framesVars PROVE FramesInv'
  <2>1. FramesTypes' /\ NotStarted'
    BY <1>1 DEF framesVars, FramesInv, FramesTypes, NotStarted
  <2>2. \A rest : OnTheWay(rest) => OnTheWay(rest)'
    BY <1>1 DEF framesVars, OnTheWay
  <2>3. FramesComing'
    BY <1>1, <2>2 DEF framesVars, FramesInv, FramesComing
  <2>4. NoiseStays'
    BY <1>1 DEF framesVars, FramesInv, NoiseStays
  <2> QED BY <2>1, <2>3, <2>4 DEF FramesInv
<1> QED BY <1>1, StartReadingStep, BridgeWritesStep, ReadBytesStep, DecodeFailsStep,
           DecodeFrameStep, NeedMoreStep DEF FramesNext

LEMMA FramesInvDecodes == FramesInv => Decodes
<1> SUFFICES ASSUME FramesInv PROVE Decodes
  OBVIOUS
<1>1. decoded \in Seq(Written) /\ emitted \in Seq(Written) /\ Len(decoded) \in Nat
  BY LenProperties DEF FramesInv, FramesTypes
<1>2. ASSUME prelude = <<>>, NEW rest \in Seq(Written), OnTheWay(rest)
      PROVE  IsPrefix(decoded, emitted)
  <2>1. emitted = decoded \o rest /\ Len(emitted) = Len(decoded) + Len(rest) /\ Len(rest) \in Nat
    BY <1>1, <1>2, ConcatProperties, LenProperties DEF OnTheWay
  <2>2. SubSeq(decoded, 1, Len(decoded)) = decoded
    BY <1>1, SubSeqFull
  <2>3. CASE Len(decoded) = 0
    <3>1. SubSeq(decoded, 1, 0) = <<>> /\ SubSeq(emitted, 1, 0) = <<>>
      BY SubSeqEmpty
    <3> QED BY <2>1, <2>3, <3>1 DEF IsPrefix
  <2>4. CASE Len(decoded) # 0
    <3>1. 1 \in 1..Len(decoded) /\ Len(decoded) \in 1..Len(decoded)
      BY <1>1, <2>4
    <3>2. SubSeq(decoded \o rest, 1, Len(decoded)) = SubSeq(decoded, 1, Len(decoded))
      BY <1>1, <3>1, SubSeqOfConcat1
    <3> QED BY <1>1, <2>1, <3>2 DEF IsPrefix
  <2> QED BY <2>3, <2>4
<1>3. InStep
  BY <1>2 DEF InStep, FramesInv, FramesComing
<1>4. ASSUME prelude = <<>>, thread = "reading", Len(decoded) < Len(emitted)
      PROVE  BytesOf(Len(decoded) + 1) > BytesRead
  <2>1. PICK rest \in Seq(Written) : OnTheWay(rest)
    BY <1>4 DEF FramesInv, FramesComing
  <2>2. emitted = decoded \o rest /\ buffer \o wire = Stream(rest)
    BY <2>1 DEF OnTheWay
  <2>3. Len(rest) \in Nat \ {0} /\ rest # <<>>
    <3>1. Len(emitted) = Len(decoded) + Len(rest) /\ Len(rest) \in Nat
      BY <1>1, <2>2, ConcatProperties, LenProperties
    <3> QED BY <1>1, <1>4, <3>1
  <2> DEFINE f == Head(rest)
             later == Tail(rest)
             known == Append(decoded, f)
  <2>4. /\ f \in Written /\ later \in Seq(Written) /\ known \in Seq(Written)
        /\ emitted = known \o later /\ Len(known) = Len(decoded) + 1
    BY <1>1, <2>2, <2>3, MoveFrame, AppendProperties
  <2>5. Len(buffer) < Len(Encode(f))
    BY <1>4, <2>1, <2>3 DEF OnTheWay
  <2>6. Stream(known) = Stream(decoded) \o Encode(f)
    BY <1>1, <2>4, StreamMore
  <2> HIDE DEF f, later, known
  <2>7. SubSeq(emitted, 1, Len(decoded) + 1) = known
    <3>1. 1 \in 1..Len(known) /\ Len(known) \in 1..Len(known)
      BY <1>1, <2>4
    <3>2. SubSeq(known \o later, 1, Len(known)) = SubSeq(known, 1, Len(known))
      BY <2>4, <3>1, SubSeqOfConcat1
    <3>3. SubSeq(known, 1, Len(known)) = known
      BY <2>4, SubSeqFull
    <3> QED BY <2>4, <3>2, <3>3
  <2>8. SubSeq(emitted, 1, Len(emitted)) = emitted
    BY <1>1, SubSeqFull
  <2>9. Stream(emitted) = Stream(decoded) \o Stream(rest)
    BY <1>1, <2>2, StreamBoth
  <2>10. /\ Stream(decoded) \in Seq(Nat) /\ Stream(rest) \in Seq(Nat) /\ Encode(f) \in Seq(Nat)
         /\ buffer \in Seq(Nat) /\ wire \in Seq(Nat)
    BY <1>1, <2>4, StreamIs, EncodeTyped, ByteFacts, SeqMonotonic DEF FramesInv, FramesTypes
  <2>11. /\ Len(Stream(known)) = Len(Stream(decoded)) + Len(Encode(f))
         /\ Len(Stream(emitted)) = Len(Stream(decoded)) + Len(Stream(rest))
         /\ Len(Stream(rest)) = Len(buffer) + Len(wire)
    BY <2>2, <2>6, <2>9, <2>10, ConcatProperties
  <2>12. /\ Len(Stream(decoded)) \in Nat /\ Len(Encode(f)) \in Nat
         /\ Len(buffer) \in Nat /\ Len(wire) \in Nat
    BY <2>10, LenProperties
  <2>13. /\ BytesOf(Len(decoded) + 1) = Len(Stream(decoded)) + Len(Encode(f))
         /\ BytesRead = Len(Stream(emitted)) - Len(wire)
    BY <2>7, <2>8, <2>11 DEF BytesOf, BytesRead
  <2> QED BY <2>5, <2>11, <2>12, <2>13
<1>5. NothingWithheld
  BY <1>4 DEF NothingWithheld
<1>6. NoiseIsNoFrame
  BY DEF NoiseIsNoFrame, FramesInv, NoiseStays
<1> QED BY <1>3, <1>5, <1>6 DEF Decodes

(* Every reachable state of the framing has the types the code gives it: what *)
(* is decoded is a channel and its data, whatever the stream began with.      *)
THEOREM FramesHaveTypes == FramesSpec => []FramesTypeOK
<1> DEFINE Frame == [channel : Seq(Byte), data : Seq(Byte)]
<1>1. \A f \in Written : f \in Frame
  <2> SUFFICES ASSUME NEW f \in Written PROVE f \in Frame
    OBVIOUS
  <2> QED BY WrittenTyped
<1>2. \A s \in Seq(Written) : s \in Seq(Frame)
  BY <1>1, SeqMonotonic
<1>3. FramesInv => FramesTypeOK
  BY <1>2 DEF FramesInv, FramesTypes, FramesTypeOK
<1> QED BY <1>3, FramesInvInit, FramesInvStep, PTL DEF FramesSpec

(* The decoder hands on what the bridge wrote, all of it, in order and as     *)
(* soon as it has the bytes, whatever a frame holds and however its bytes are *)
(* cut into reads; and it gives up a stream that begins with anything else    *)
(* (Decoder of cockpit.rs).                                                   *)
THEOREM AlwaysDecodes == FramesSpec => []Decodes
<1>1. FramesSpec => []FramesInv
  BY FramesInvInit, FramesInvStep, PTL DEF FramesSpec
<1> QED BY <1>1, FramesInvDecodes, PTL

=============================================================================
