-------------------------- MODULE TurnStreamProofs --------------------------
(***************************************************************************)
(* What an agent says reaches the user once, in order and whole, proved    *)
(* for every text, every plan and every interleaving of the agent, the     *)
(* task, a stop and run_turn, and with every fault.                        *)
(*                                                                         *)
(* The texts are concatenations, so their laws need induction.  It is had  *)
(* from the library's theorem that < is well founded on Nat: a set of      *)
(* naturals that holds 0 and the successor of each member is Nat.          *)
(***************************************************************************)
EXTENDS TurnStream, SequenceTheorems, WellFoundedInduction, TLAPS

-----------------------------------------------------------------------------
(* Induction                                                               *)

LEMMA Induction ==
    ASSUME NEW S, S \subseteq Nat, 0 \in S, \A n \in S : n + 1 \in S
    PROVE  S = Nat
<1> SUFFICES ASSUME Nat \ S # {} PROVE FALSE
  OBVIOUS
<1>1. PICK x \in Nat \ S : \A y \in Nat \ S : ~(<<y, x>> \in OpToRel(<, Nat))
  BY NatLessThanWellFounded, WFMin
<1>2. \A y \in Nat \ S : ~(y < x)
  BY <1>1 DEF OpToRel
<1>3. x \in Nat /\ x # 0
  BY <1>1
<1>4. x - 1 \in Nat /\ x - 1 < x /\ (x - 1) + 1 = x
  BY <1>3
<1>5. x - 1 \in S
  BY <1>2, <1>4
<1>6. QED
  BY <1>1, <1>4, <1>5

\* A set of positions that is not empty has a last one.
LEMMA MaxIsIn ==
    ASSUME NEW n \in Nat, NEW S, S \subseteq 1 .. n, S # {}
    PROVE  Max(S) \in S /\ \A y \in S : Max(S) >= y
<1> DEFINE Has == {m \in Nat : \A T \in SUBSET (1 .. m) :
                                  T # {} => \E x \in T : \A y \in T : x >= y}
<1>1. 0 \in Has
  <2>1. 0 \in Nat /\ 1 .. 0 = {}
    OBVIOUS
  <2>2. \A T \in SUBSET (1 .. 0) : T = {}
    BY <2>1
  <2>3. QED
    BY <2>1, <2>2, Zenon
<1>2. ASSUME NEW m \in Has PROVE m + 1 \in Has
  <2>1. SUFFICES ASSUME NEW T, T \subseteq 1 .. m + 1, T # {}
                 PROVE  \E x \in T : \A y \in T : x >= y
    OBVIOUS
  <2>2. CASE m + 1 \in T
    BY <2>1, <2>2
  <2>3. CASE m + 1 \notin T
    <3>1. T \subseteq 1 .. m
      BY <2>1, <2>3
    <3>2. QED
      BY <2>1, <3>1
  <2>4. QED
    BY <2>2, <2>3
<1>3. Has = Nat
  <2> HIDE DEF Has
  <2>1. Has \subseteq Nat
    BY DEF Has
  <2>2. QED
    BY <1>1, <1>2, <2>1, Induction
<1>4. \E x \in S : \A y \in S : x >= y
  <2> HIDE DEF Has
  <2>1. n \in Has
    BY <1>3
  <2>2. QED
    BY <2>1 DEF Has
<1>5. QED
  BY <1>4 DEF Max

-----------------------------------------------------------------------------
(* FlattenSeq                                                              *)

\* What FlattenSeq computes position by position.
Flattens(f, ss, n) ==
    /\ DOMAIN f = 1 .. n
    /\ \A i \in 1 .. n : f[i] = IF i = 1 THEN ss[i] ELSE f[i - 1] \o ss[i]

\* It depends on the part of the sequence that is read.
LEMMA FlattensOnce ==
    ASSUME NEW f, NEW g, NEW ss, NEW tt, NEW m \in Nat, NEW n \in Nat, m <= n,
           Flattens(f, ss, m), Flattens(g, tt, n), \A i \in 1 .. m : ss[i] = tt[i]
    PROVE  \A i \in 1 .. m : f[i] = g[i]
<1> DEFINE Same == {i \in Nat : i \in 1 .. m => f[i] = g[i]}
<1>1. 0 \in Same
  OBVIOUS
<1>2. ASSUME NEW i \in Same PROVE i + 1 \in Same
  <2> SUFFICES ASSUME i + 1 \in 1 .. m PROVE f[i + 1] = g[i + 1]
    OBVIOUS
  <2>1. i + 1 \in 1 .. n
    OBVIOUS
  <2>2. f[i + 1] = IF i + 1 = 1 THEN ss[i + 1] ELSE f[(i + 1) - 1] \o ss[i + 1]
    BY DEF Flattens
  <2>3. g[i + 1] = IF i + 1 = 1 THEN tt[i + 1] ELSE g[(i + 1) - 1] \o tt[i + 1]
    BY <2>1 DEF Flattens
  <2>4. i + 1 # 1 => i \in 1 .. m /\ f[i] = g[i]
    OBVIOUS
  <2>5. (i + 1) - 1 = i /\ ss[i + 1] = tt[i + 1]
    OBVIOUS
  <2>6. QED
    BY <2>2, <2>3, <2>4, <2>5
<1>3. Same = Nat
  <2> HIDE DEF Same
  <2>1. Same \subseteq Nat
    BY DEF Same
  <2>2. QED
    BY <1>1, <1>2, <2>1, Induction
<1>4. QED
  BY <1>3

\* There is such a function.
LEMMA FlattensExists ==
    ASSUME NEW T, NEW ss \in Seq(Seq(T))
    PROVE  \E f \in [1 .. Len(ss) -> Seq(T)] : Flattens(f, ss, Len(ss))
<1> DEFINE Has == {n \in Nat : n <= Len(ss) =>
                                  \E f \in [1 .. n -> Seq(T)] : Flattens(f, ss, n)}
<1>1. 0 \in Has
  <2> DEFINE f == [i \in 1 .. 0 |-> <<>>]
  <2>1. f \in [1 .. 0 -> Seq(T)] /\ Flattens(f, ss, 0)
    BY DEF Flattens
  <2>2. QED
    BY <2>1
<1>2. ASSUME NEW n \in Has PROVE n + 1 \in Has
  <2> SUFFICES ASSUME n + 1 <= Len(ss)
               PROVE  \E f \in [1 .. n + 1 -> Seq(T)] : Flattens(f, ss, n + 1)
    OBVIOUS
  <2>1. PICK g \in [1 .. n -> Seq(T)] : Flattens(g, ss, n)
    OBVIOUS
  <2>2. n + 1 \in 1 .. Len(ss) /\ ss[n + 1] \in Seq(T)
    OBVIOUS
  <2> DEFINE f == [i \in 1 .. n + 1 |->
                      IF i <= n THEN g[i]
                      ELSE IF n = 0 THEN ss[n + 1] ELSE g[n] \o ss[n + 1]]
  <2>3. n # 0 => g[n] \in Seq(T) /\ g[n] \o ss[n + 1] \in Seq(T)
    BY <2>1, <2>2
  <2>4. f \in [1 .. n + 1 -> Seq(T)]
    BY <2>1, <2>2, <2>3
  <2>5. ASSUME NEW i \in 1 .. n + 1
        PROVE  f[i] = IF i = 1 THEN ss[i] ELSE f[i - 1] \o ss[i]
    <3>1. CASE i <= n
      <4>1. i \in 1 .. n /\ (i # 1 => i - 1 \in 1 .. n + 1 /\ i - 1 <= n)
        BY <3>1
      <4>2. g[i] = IF i = 1 THEN ss[i] ELSE g[i - 1] \o ss[i]
        BY <4>1, <2>1 DEF Flattens
      <4>3. f[i] = g[i]
        BY <3>1
      <4>4. i # 1 => f[i - 1] = g[i - 1]
        BY <4>1
      <4>5. QED
        BY <4>2, <4>3, <4>4, Zenon
    <3>2. CASE ~(i <= n)
      <4>1. i = n + 1 /\ i - 1 = n /\ (i = 1 <=> n = 0) /\ (n # 0 => n \in 1 .. n + 1)
        BY <3>2
      <4>2. QED
        BY <4>1
    <3>3. QED
      BY <3>1, <3>2
  <2>6. Flattens(f, ss, n + 1)
    BY <2>5 DEF Flattens
  <2>7. QED
    BY <2>4, <2>6
<1>3. Has = Nat
  <2> HIDE DEF Has
  <2>1. Has \subseteq Nat
    BY DEF Has
  <2>2. QED
    BY <1>1, <1>2, <2>1, Induction
<1>4. QED
  BY <1>3

LEMMA FlattenEmpty == FlattenSeq(<<>>) = <<>>
  BY DEF FlattenSeq

\* The recursive function of the definition is the one above.
LEMMA FlattenIs ==
    ASSUME NEW T, NEW ss \in Seq(Seq(T)), ss # <<>>
    PROVE  \E f \in [1 .. Len(ss) -> Seq(T)] :
              Flattens(f, ss, Len(ss)) /\ FlattenSeq(ss) = f[Len(ss)]
<1> DEFINE g == CHOOSE h : h = [i \in 1 .. Len(ss) |->
                                   IF i = 1 THEN ss[i] ELSE h[i - 1] \o ss[i]]
<1>1. PICK f \in [1 .. Len(ss) -> Seq(T)] : Flattens(f, ss, Len(ss))
  BY FlattensExists
<1>2. f = [i \in 1 .. Len(ss) |-> IF i = 1 THEN ss[i] ELSE f[i - 1] \o ss[i]]
  BY <1>1 DEF Flattens
<1>3. g = [i \in 1 .. Len(ss) |-> IF i = 1 THEN ss[i] ELSE g[i - 1] \o ss[i]]
  BY <1>2
<1>4. Flattens(g, ss, Len(ss))
  <2> HIDE DEF g
  <2> QED
    BY <1>3 DEF Flattens
<1>5. \A i \in 1 .. Len(ss) : f[i] = g[i]
  <2> HIDE DEF g
  <2> QED
    BY <1>1, <1>4, FlattensOnce
<1>6. FlattenSeq(ss) = g[Len(ss)]
  BY DEF FlattenSeq
<1>7. Len(ss) \in 1 .. Len(ss)
  OBVIOUS
<1>8. QED
  <2> HIDE DEF g
  <2> QED
    BY <1>1, <1>5, <1>6, <1>7

LEMMA FlattenType ==
    ASSUME NEW T, NEW ss \in Seq(Seq(T))
    PROVE  FlattenSeq(ss) \in Seq(T)
<1>1. CASE ss = <<>>
  <2>1. FlattenSeq(ss) = <<>>
    BY <1>1, FlattenEmpty, Zenon
  <2>2. QED
    BY <2>1, EmptySeq
<1>2. CASE ss # <<>>
  <2>1. Len(ss) \in 1 .. Len(ss)
    BY <1>2, EmptySeq
  <2>2. PICK f \in [1 .. Len(ss) -> Seq(T)] : FlattenSeq(ss) = f[Len(ss)]
    BY <1>2, FlattenIs
  <2>3. f[Len(ss)] \in Seq(T)
    BY <2>1, <2>2
  <2>4. QED
    BY <2>2, <2>3
<1>3. QED
  BY <1>1, <1>2

LEMMA FlattenAppend ==
    ASSUME NEW T, NEW ss \in Seq(Seq(T)), NEW t \in Seq(T)
    PROVE  FlattenSeq(Append(ss, t)) = FlattenSeq(ss) \o t
<1> DEFINE tt == Append(ss, t)
<1>1. /\ tt \in Seq(Seq(T)) /\ tt # <<>> /\ Len(tt) = Len(ss) + 1
      /\ tt[Len(ss) + 1] = t
      /\ \A i \in 1 .. Len(ss) : ss[i] = tt[i]
  <2>1. tt \in Seq(Seq(T)) /\ Len(tt) = Len(ss) + 1 /\ Len(ss) \in Nat
    BY AppendProperties, LenProperties
  <2>2. tt[Len(ss) + 1] = t /\ \A i \in 1 .. Len(ss) : tt[i] = ss[i]
    BY AppendProperties
  <2>3. tt # <<>>
    BY AppendProperties
  <2>4. QED
    BY <2>1, <2>2, <2>3
<1> HIDE DEF tt
<1>2. PICK g \in [1 .. Len(tt) -> Seq(T)] :
              Flattens(g, tt, Len(tt)) /\ FlattenSeq(tt) = g[Len(tt)]
  BY <1>1, FlattenIs
<1>3. CASE ss = <<>>
  <2>1. FlattenSeq(tt) = t
    BY <1>1, <1>2, <1>3 DEF Flattens
  <2>2. <<>> \o t = t
    OBVIOUS
  <2>3. QED
    BY <1>3, <2>1, <2>2, FlattenEmpty DEF tt
<1>4. CASE ss # <<>>
  <2>1. PICK f \in [1 .. Len(ss) -> Seq(T)] :
                Flattens(f, ss, Len(ss)) /\ FlattenSeq(ss) = f[Len(ss)]
    BY <1>4, FlattenIs
  <2>2. Len(ss) \in Nat /\ Len(tt) \in Nat /\ Len(ss) <= Len(tt) /\ Len(ss) \in 1 .. Len(ss)
    BY <1>1, <1>4
  <2>3. f[Len(ss)] = g[Len(ss)]
    <3>1. \A m \in Nat, n \in Nat :
             /\ m <= n
             /\ Flattens(f, ss, m)
             /\ Flattens(g, tt, n)
             /\ \A i \in 1 .. m : ss[i] = tt[i]
             => \A i \in 1 .. m : f[i] = g[i]
      BY ONLY FlattensOnce
    <3>2. \A i \in 1 .. Len(ss) : f[i] = g[i]
      BY <1>1, <1>2, <2>1, <2>2, <3>1
    <3>3. QED
      BY <2>2, <3>2
  <2>4. g[Len(ss) + 1] = g[(Len(ss) + 1) - 1] \o tt[Len(ss) + 1]
    <3>1. Len(ss) + 1 \in 1 .. Len(tt) /\ Len(ss) + 1 # 1
      BY <1>1, <2>2
    <3>2. QED
      BY <1>2, <3>1 DEF Flattens
  <2>5. (Len(ss) + 1) - 1 = Len(ss)
    BY <2>2
  <2>6. QED
    BY <1>1, <1>2, <2>1, <2>3, <2>4, <2>5 DEF tt
<1>5. QED
  BY <1>3, <1>4

LEMMA FlattenOne ==
    ASSUME NEW T, NEW t \in Seq(T)
    PROVE  FlattenSeq(<<t>>) = t
<1>1. <<>> \in Seq(Seq(T)) /\ <<t>> = Append(<<>>, t) /\ <<>> \o t = t
  OBVIOUS
<1>2. QED
  BY <1>1, FlattenAppend, FlattenEmpty

LEMMA FlattenConcat ==
    ASSUME NEW T, NEW ss \in Seq(Seq(T)), NEW tt \in Seq(Seq(T))
    PROVE  FlattenSeq(ss \o tt) = FlattenSeq(ss) \o FlattenSeq(tt)
<1> DEFINE Splits == {n \in Nat : \A uu \in Seq(Seq(T)) :
                Len(uu) = n => FlattenSeq(ss \o uu) = FlattenSeq(ss) \o FlattenSeq(uu)}
<1>1. 0 \in Splits
  <2>1. ASSUME NEW uu \in Seq(Seq(T)), Len(uu) = 0
        PROVE  FlattenSeq(ss \o uu) = FlattenSeq(ss) \o FlattenSeq(uu)
    <3>1. uu = <<>> /\ ss \o <<>> = ss
      BY <2>1
    <3>2. FlattenSeq(ss) \in Seq(T)
      BY FlattenType
    <3>3. FlattenSeq(ss) \o <<>> = FlattenSeq(ss)
      BY <3>2
    <3>4. QED
      BY <3>1, <3>3, FlattenEmpty
  <2>2. QED
    BY <2>1
<1>2. ASSUME NEW n \in Splits PROVE n + 1 \in Splits
  <2>1. ASSUME NEW uu \in Seq(Seq(T)), Len(uu) = n + 1
        PROVE  FlattenSeq(ss \o uu) = FlattenSeq(ss) \o FlattenSeq(uu)
    <3> DEFINE front == SubSeq(uu, 1, n)
               t == uu[n + 1]
    <3>1. /\ n \in Nat /\ front \in Seq(Seq(T)) /\ Len(front) = n /\ t \in Seq(T)
          /\ uu = Append(front, t)
      BY <2>1
    <3>2. FlattenSeq(ss \o front) = FlattenSeq(ss) \o FlattenSeq(front)
      BY <3>1
    <3> HIDE DEF front, t
    <3>3. ss \o uu = Append(ss \o front, t) /\ ss \o front \in Seq(Seq(T))
      BY <3>1
    <3>4. FlattenSeq(ss \o uu) = FlattenSeq(ss \o front) \o t
      BY <3>1, <3>3, FlattenAppend
    <3>5. FlattenSeq(uu) = FlattenSeq(front) \o t
      BY <3>1, FlattenAppend
    <3>6. FlattenSeq(ss) \in Seq(T) /\ FlattenSeq(front) \in Seq(T)
      BY <3>1, FlattenType
    <3>7. (FlattenSeq(ss) \o FlattenSeq(front)) \o t = FlattenSeq(ss) \o (FlattenSeq(front) \o t)
      <4>1. FlattenSeq(ss) \in Seq(T) /\ FlattenSeq(front) \in Seq(T) /\ t \in Seq(T)
        BY <3>1, <3>6
      <4>2. QED
        BY ONLY <4>1, ConcatAssociative
    <3>8. QED
      BY <3>2, <3>4, <3>5, <3>7
  <2>2. n + 1 \in Nat
    OBVIOUS
  <2>3. QED
    BY <2>1, <2>2
<1>3. Splits = Nat
  <2> HIDE DEF Splits
  <2>1. Splits \subseteq Nat
    BY DEF Splits
  <2>2. QED
    BY <1>1, <1>2, <2>1, Induction
<1>4. Len(tt) \in Splits
  <2> HIDE DEF Splits
  <2> QED
    BY <1>3
<1>5. QED
  BY <1>4

-----------------------------------------------------------------------------
(* Texts                                                                   *)

\* What the elements of a sequence contribute to a text, joined.
Maps(h, E, S) == \A e \in E : h[e] \in S
Parts(h, s) == [i \in 1 .. Len(s) |-> h[s[i]]]
Joined(h, s) == FlattenSeq(Parts(h, s))

LEMMA PartsType ==
    ASSUME NEW E, NEW S, NEW h, Maps(h, E, S), NEW a \in Seq(E)
    PROVE  Parts(h, a) \in Seq(S)
  BY DEF Parts, Maps

LEMMA PartsElements ==
    ASSUME NEW E, NEW h, NEW a \in Seq(E)
    PROVE  Len(Parts(h, a)) = Len(a) /\ \A i \in 1 .. Len(a) : Parts(h, a)[i] = h[a[i]]
  BY DEF Parts

LEMMA PartsConcat ==
    ASSUME NEW E, NEW S, NEW h, Maps(h, E, S), NEW a \in Seq(E), NEW b \in Seq(E)
    PROVE  Parts(h, a \o b) = Parts(h, a) \o Parts(h, b)
<1>1. a \o b \in Seq(E) /\ Len(a \o b) = Len(a) + Len(b)
  OBVIOUS
<1>2. /\ Parts(h, a \o b) \in Seq(S)
      /\ Parts(h, a) \in Seq(S)
      /\ Parts(h, b) \in Seq(S)
  BY <1>1, PartsType
<1>3. /\ Len(Parts(h, a \o b)) = Len(a) + Len(b)
      /\ Len(Parts(h, a)) = Len(a)
      /\ Len(Parts(h, b)) = Len(b)
  BY <1>1, PartsElements
<1>4. /\ Parts(h, a) \o Parts(h, b) \in Seq(S)
      /\ Len(Parts(h, a) \o Parts(h, b)) = Len(a) + Len(b)
  <2>1. /\ Parts(h, a) \o Parts(h, b) \in Seq(S)
        /\ Len(Parts(h, a) \o Parts(h, b)) = Len(Parts(h, a)) + Len(Parts(h, b))
    BY <1>2
  <2>2. QED
    BY <1>3, <2>1
<1>5. ASSUME NEW i \in 1 .. Len(a) + Len(b)
      PROVE  Parts(h, a \o b)[i] = (Parts(h, a) \o Parts(h, b))[i]
  <2>1. Parts(h, a \o b)[i] = h[(a \o b)[i]]
    <3>1. i \in 1 .. Len(a \o b)
      BY <1>1
    <3>2. \A j \in 1 .. Len(a \o b) : Parts(h, a \o b)[j] = h[(a \o b)[j]]
      BY <1>1 DEF Parts
    <3>3. QED
      BY <3>1, <3>2
  <2>2. (a \o b)[i] = IF i <= Len(a) THEN a[i] ELSE b[i - Len(a)]
    OBVIOUS
  <2>3. (Parts(h, a) \o Parts(h, b))[i] =
           IF i <= Len(a) THEN Parts(h, a)[i] ELSE Parts(h, b)[i - Len(a)]
    BY <1>2, <1>3, ConcatProperties
  <2>4. CASE i <= Len(a)
    <3>1. i \in 1 .. Len(a)
      BY <2>4
    <3>2. Parts(h, a)[i] = h[a[i]]
      BY <3>1, PartsElements
    <3>3. QED
      BY <2>1, <2>2, <2>3, <2>4, <3>2
  <2>5. CASE ~(i <= Len(a))
    <3>1. i - Len(a) \in 1 .. Len(b)
      BY <2>5
    <3>2. Parts(h, b)[i - Len(a)] = h[b[i - Len(a)]]
      BY <3>1, PartsElements
    <3>3. QED
      BY <2>1, <2>2, <2>3, <2>5, <3>2
  <2>6. QED
    BY <2>4, <2>5
<1>6. QED
  BY <1>2, <1>3, <1>4, <1>5, SeqEqual

LEMMA JoinedType ==
    ASSUME NEW E, NEW T, NEW h, Maps(h, E, Seq(T)), NEW a \in Seq(E)
    PROVE  Joined(h, a) \in Seq(T)
<1>1. Parts(h, a) \in Seq(Seq(T))
  BY PartsType
<1>2. QED
  BY <1>1, FlattenType DEF Joined

LEMMA JoinedConcat ==
    ASSUME NEW E, NEW T, NEW h, Maps(h, E, Seq(T)), NEW a \in Seq(E), NEW b \in Seq(E)
    PROVE  Joined(h, a \o b) = Joined(h, a) \o Joined(h, b)
<1>1. Parts(h, a) \in Seq(Seq(T)) /\ Parts(h, b) \in Seq(Seq(T))
  BY PartsType
<1>2. Parts(h, a \o b) = Parts(h, a) \o Parts(h, b)
  BY PartsConcat
<1>3. QED
  BY <1>1, <1>2, FlattenConcat DEF Joined

LEMMA JoinedOne ==
    ASSUME NEW E, NEW T, NEW h, Maps(h, E, Seq(T)), NEW e \in E
    PROVE  Joined(h, <<e>>) = h[e]
<1>1. Parts(h, <<e>>) = <<h[e]>> /\ h[e] \in Seq(T)
  BY DEF Parts, Maps
<1>2. QED
  BY <1>1, FlattenOne DEF Joined

LEMMA JoinedEmpty ==
    ASSUME NEW h
    PROVE  Joined(h, <<>>) = <<>>
<1>1. Parts(h, <<>>) = <<>>
  BY DEF Parts
<1>2. QED
  BY <1>1, FlattenEmpty DEF Joined

Text == Seq(Nat)

\* Words forgets the white space and nothing else.
LEMMA WordsLaws ==
    /\ \A text \in Text : Words(text) \in Text
    /\ Words(<<>>) = <<>>
    /\ \A w \in Nat \ {Space} : Words(<<w>>) = <<w>>
    /\ Words(<<Space>>) = <<>>
    /\ \A a, b \in Text : Words(a \o b) = Words(a) \o Words(b)
<1> DEFINE h == [w \in Nat |-> IF w = Space THEN <<>> ELSE <<w>>]
<1>1. Maps(h, Nat, Seq(Nat))
  BY DEF Maps
<1>2. \A text \in Text : Words(text) = Joined(h, text)
  <2>1. ASSUME NEW text \in Text
        PROVE  Parts(h, text) = [i \in 1 .. Len(text) |->
                                    IF text[i] = Space THEN <<>> ELSE <<text[i]>>]
    BY DEF Parts, Text
  <2>2. QED
    BY <2>1, Zenon DEF Joined, Words
<1>3. /\ Space \in Nat /\ h[Space] = <<>>
      /\ \A w \in Nat \ {Space} : h[w] = <<w>>
  BY DEF Space
<1>4. \A a \in Text : a \in Seq(Nat)
  BY DEF Text
<1>5. <<>> \in Text /\ (\A w \in Nat : <<w>> \in Text) /\ \A a, b \in Text : a \o b \in Text
  BY DEF Text
<1> HIDE DEF h
<1>6. ASSUME NEW a \in Text PROVE Joined(h, a) \in Text
  BY <1>1, JoinedType DEF Text
<1>7. ASSUME NEW a \in Text, NEW b \in Text
      PROVE  Joined(h, a \o b) = Joined(h, a) \o Joined(h, b)
  BY <1>1, JoinedConcat DEF Text
<1>8. Joined(h, <<>>) = <<>> /\ \A w \in Nat : Joined(h, <<w>>) = h[w]
  BY <1>1, JoinedOne, JoinedEmpty
<1>9. \A text \in Text : Words(text) \in Text
  BY <1>2, <1>6
<1>10. Words(<<>>) = <<>>
  BY <1>2, <1>5, <1>8
<1>11. Words(<<Space>>) = <<>> /\ \A w \in Nat \ {Space} : Words(<<w>>) = <<w>>
  BY <1>2, <1>3, <1>5, <1>8
<1>12. ASSUME NEW a \in Text, NEW b \in Text
       PROVE  Words(a \o b) = Words(a) \o Words(b)
  <2>1. a \o b \in Text
    BY <1>5
  <2>2. QED
    BY ONLY <1>2, <1>7, <2>1
<1>13. QED
  BY ONLY <1>9, <1>10, <1>11, <1>12

\* A text is what a message has room for and what is cut off.
LEMMA CutLaw ==
    ASSUME NEW text \in Text
    PROVE  /\ Shorten(text) \in Text /\ CutOff(text) \in Text
           /\ Words(text) = Words(Shorten(text)) \o Words(CutOff(text))
<1>1. CASE Len(text) <= MaxFinal
  <2>1. Shorten(text) = text /\ CutOff(text) = <<>>
    BY <1>1, LimitAssumption DEF Shorten, CutOff, Text
  <2>2. Words(text) \in Text /\ Words(<<>>) = <<>>
    BY WordsLaws
  <2>3. Words(text) \o <<>> = Words(text) /\ <<>> \in Text
    BY <2>2 DEF Text
  <2>4. QED
    BY <2>1, <2>2, <2>3
<1>2. CASE Len(text) > MaxFinal
  <2> DEFINE a == SubSeq(text, 1, MaxFinal)
             b == SubSeq(text, MaxFinal + 1, Len(text))
  <2>1. Shorten(text) = a /\ CutOff(text) = b
    BY <1>2 DEF Shorten, CutOff
  <2>2. /\ a \in Seq(Nat) /\ Len(a) = MaxFinal
        /\ \A i \in 1 .. MaxFinal : a[i] = text[i]
    BY <1>2, LimitAssumption DEF Text
  <2>3. /\ b \in Seq(Nat) /\ Len(b) = Len(text) - MaxFinal
        /\ \A i \in 1 .. Len(text) - MaxFinal : b[i] = text[i + MaxFinal]
    BY <1>2, LimitAssumption DEF Text
  <2> HIDE DEF a, b
  <2> DEFINE n == Len(text)
  <2>n. n \in Nat /\ n > MaxFinal /\ MaxFinal \in Nat
    BY <1>2, LimitAssumption DEF Text
  <2> HIDE DEF n
  <2>4. /\ a \o b \in Seq(Nat) /\ Len(a \o b) = n
        /\ \A i \in 1 .. n :
              (a \o b)[i] = IF i <= MaxFinal THEN a[i] ELSE b[i - MaxFinal]
    <3>1. /\ a \o b \in Seq(Nat) /\ Len(a \o b) = Len(a) + Len(b)
          /\ \A i \in 1 .. Len(a) + Len(b) :
                (a \o b)[i] = IF i <= Len(a) THEN a[i] ELSE b[i - Len(a)]
      <4>1. a \in Seq(Nat) /\ b \in Seq(Nat)
        BY ONLY <2>2, <2>3
      <4> DEFINE P(s, t) ==
            /\ s \o t \in Seq(Nat) /\ Len(s \o t) = Len(s) + Len(t)
            /\ \A i \in 1 .. Len(s) + Len(t) :
                  (s \o t)[i] = IF i <= Len(s) THEN s[i] ELSE t[i - Len(s)]
      <4>2. ASSUME NEW s \in Seq(Nat), NEW t \in Seq(Nat) PROVE P(s, t)
        BY ONLY <4>2, ConcatProperties
      <4>3. P(a, b)
        <5> HIDE DEF P
        <5>1. QED
          BY ONLY <4>1, <4>2
      <4>4. QED
        BY ONLY <4>3
    <3>2. Len(a) + Len(b) = n
      BY <2>2, <2>3, <2>n DEF n
    <3>3. QED
      BY ONLY <2>2, <3>1, <3>2
  <2>5. \A i \in 1 .. n : (a \o b)[i] = text[i]
    <3> TAKE i \in 1 .. n
    <3>0. i \in Nat
      BY <2>n
    <3>1. CASE i <= MaxFinal
      BY <2>2, <2>4, <2>n, <3>1
    <3>2. CASE i > MaxFinal
      <4>1. PICK j \in 1 .. Len(text) - MaxFinal : j = i - MaxFinal /\ j + MaxFinal = i
        BY <2>n, <3>2 DEF n
      <4>2. (a \o b)[i] = b[j]
        BY <2>4, <2>n, <3>2, <4>1
      <4>3. b[j] = text[j + MaxFinal]
        BY ONLY <2>3, <4>1
      <4>4. QED
        BY ONLY <4>1, <4>2, <4>3
    <3>3. i <= MaxFinal \/ i > MaxFinal
      BY ONLY <2>n, <3>0
    <3>4. QED
      BY ONLY <3>1, <3>2, <3>3
  <2>6. a \o b = text
    BY <2>4, <2>5, SeqEqual DEF n, Text
  <2>7. a \in Text /\ b \in Text
    BY <2>2, <2>3 DEF Text
  <2>8. Words(a \o b) = Words(a) \o Words(b)
    BY <2>7, WordsLaws
  <2>9. QED
    BY <2>1, <2>6, <2>7, <2>8
<1>3. QED
  BY <1>1, <1>2, LimitAssumption DEF Text

-----------------------------------------------------------------------------
(* The last element of a kind                                              *)

Places(s, S) == {i \in 1 .. Len(s) : s[i] \in S}

\* The last element of s that is in S, d when there is none.
LastIn(s, S, d) == IF Places(s, S) = {} THEN d ELSE s[Max(Places(s, S))]

\* What the operator returns, without Max.
IsLastIn(s, S, d, x) ==
    \/ Places(s, S) = {} /\ x = d
    \/ \E i \in Places(s, S) : x = s[i] /\ \A j \in Places(s, S) : i >= j

LEMMA LastInIs ==
    ASSUME NEW s, Len(s) \in Nat, NEW S, NEW d
    PROVE  IsLastIn(s, S, d, LastIn(s, S, d))
<1>1. CASE Places(s, S) = {}
  BY <1>1 DEF LastIn, IsLastIn
<1>2. CASE Places(s, S) # {}
  <2>1. Places(s, S) \subseteq 1 .. Len(s)
    BY DEF Places
  <2>2. Max(Places(s, S)) \in Places(s, S) /\ \A j \in Places(s, S) : Max(Places(s, S)) >= j
    BY <1>2, <2>1, MaxIsIn
  <2>3. QED
    BY <1>2, <2>2 DEF LastIn, IsLastIn
<1>3. QED
  BY <1>1, <1>2

LEMMA LastInOnly ==
    ASSUME NEW s, Len(s) \in Nat, NEW S, NEW d, NEW x, NEW y,
           IsLastIn(s, S, d, x), IsLastIn(s, S, d, y)
    PROVE  x = y
<1>1. \A i \in Places(s, S) : i \in Nat
  BY DEF Places
<1>2. QED
  BY <1>1 DEF IsLastIn

LEMMA LastInEmpty ==
    ASSUME NEW S, NEW d
    PROVE  LastIn(<<>>, S, d) = d
<1>1. Places(<<>>, S) = {}
  BY DEF Places
<1>2. QED
  BY <1>1 DEF LastIn

LEMMA LastInAppend ==
    ASSUME NEW E, NEW s \in Seq(E), NEW e \in E, NEW S, NEW d
    PROVE  LastIn(Append(s, e), S, d) = IF e \in S THEN e ELSE LastIn(s, S, d)
<1> DEFINE t == Append(s, e)
           n == Len(s)
<1>1. /\ n \in Nat /\ Len(t) = n + 1 /\ t[n + 1] = e
      /\ \A i \in 1 .. n : t[i] = s[i]
  OBVIOUS
<1> HIDE DEF t
<1>2. IsLastIn(t, S, d, LastIn(t, S, d))
  BY <1>1, LastInIs
<1>3. CASE e \in S
  <2>1. n + 1 \in Places(t, S) /\ \A j \in Places(t, S) : n + 1 >= j
    BY <1>1, <1>3 DEF Places
  <2>2. IsLastIn(t, S, d, e)
    BY <1>1, <2>1 DEF IsLastIn
  <2>3. Len(t) \in Nat
    BY <1>1
  <2>4. LastIn(t, S, d) = e
    BY <1>2, <2>2, <2>3, LastInOnly
  <2>5. QED
    BY <1>3, <2>4 DEF t
<1>4. CASE e \notin S
  <2>1. Places(t, S) = Places(s, S)
    BY <1>1, <1>4 DEF Places
  <2>2. \A i \in Places(s, S) : t[i] = s[i]
    BY <1>1 DEF Places
  <2>3. IsLastIn(s, S, d, LastIn(t, S, d))
    BY <1>2, <2>1, <2>2 DEF IsLastIn
  <2>4. LastIn(t, S, d) = LastIn(s, S, d)
    BY <1>1, <2>3, LastInIs, LastInOnly
  <2>5. QED
    BY <1>4, <2>4 DEF t
<1>5. QED
  BY <1>3, <1>4

LEMMA LastInHead ==
    ASSUME NEW E, NEW s \in Seq(E), s # <<>>, NEW S, NEW d
    PROVE  LastIn(s, S, d) = LastIn(Tail(s), S, IF Head(s) \in S THEN Head(s) ELSE d)
<1> DEFINE t == Tail(s)
           n == Len(t)
           b == IF Head(s) \in S THEN Head(s) ELSE d
<1>1. /\ n \in Nat /\ Len(s) = n + 1 /\ s[1] = Head(s)
      /\ \A i \in 1 .. n : s[i + 1] = t[i]
  OBVIOUS
<1> HIDE DEF t
<1>2. IsLastIn(t, S, b, LastIn(t, S, b))
  BY <1>1, LastInIs
<1>3. \A i \in Places(t, S) : i + 1 \in Places(s, S) /\ s[i + 1] = t[i]
  BY <1>1 DEF Places
<1>4. \A i \in Places(s, S) : i \in Nat /\ (i = 1 \/ i - 1 \in Places(t, S))
  BY <1>1 DEF Places
<1>5. CASE Places(t, S) # {}
  <2>1. PICK i \in Places(t, S) : LastIn(t, S, b) = t[i] /\ \A j \in Places(t, S) : i >= j
    BY <1>2, <1>5 DEF IsLastIn
  <2>2. i \in Nat /\ i + 1 \in Places(s, S) /\ LastIn(t, S, b) = s[i + 1]
    BY <1>3, <2>1 DEF Places
  <2>3. \A j \in Places(s, S) : i + 1 >= j
    BY <1>4, <2>1, <2>2
  <2>4. IsLastIn(s, S, d, LastIn(t, S, b))
    BY <2>2, <2>3 DEF IsLastIn
  <2>5. QED
    BY <1>1, <2>4, LastInIs, LastInOnly DEF t
<1>6. CASE Places(t, S) = {}
  <2>1. LastIn(t, S, b) = b
    BY <1>6 DEF LastIn
  <2>2. CASE Head(s) \in S
    <3>1. 1 \in Places(s, S) /\ \A j \in Places(s, S) : 1 >= j
      <4>1. 1 \in Places(s, S)
        BY <1>1, <2>2 DEF Places
      <4>2. \A j \in Places(s, S) : j = 1
        BY <1>4, <1>6
      <4>3. QED
        BY <4>1, <4>2
    <3>2. IsLastIn(s, S, d, b)
      BY <1>1, <2>2, <3>1 DEF IsLastIn
    <3>3. QED
      BY <1>1, <2>1, <3>2, LastInIs, LastInOnly DEF t
  <2>3. CASE Head(s) \notin S
    <3>1. Places(s, S) = {}
      BY <1>1, <1>4, <1>6, <2>3 DEF Places
    <3>2. QED
      BY <2>1, <2>3, <3>1 DEF LastIn, t
  <2>4. QED
    BY <2>2, <2>3
<1>7. QED
  BY <1>5, <1>6

-----------------------------------------------------------------------------
(* The invariant                                                           *)

\* The plans that can be on their way, and those run_turn can receive.
PlanValue == {<<>>} \cup Plans \cup {Usable(plan) : plan \in Plans}
Proposed(m) == PlanValue \ (IF m = "exec_json" THEN {<<>>} ELSE {})

Answers == [kind : {"message"}, text : {text \in Text : Words(text) = text}, plan : {<<>>}]

\* What an agent of a mode says, and the events that come of it, when the plans
\* are in P.
Voice(m, P) ==
    [kind : {"tool", "other"}, text : {<<>>}, plan : {<<>>}]
      \cup [kind : {"plan"}, text : {<<>>}, plan : P]
      \cup (IF m = "exec_json"
              THEN Answers \cup [kind : {"completed"}, text : {<<>>}, plan : {<<>>}]
              ELSE [kind : {"chunk"}, text : Text, plan : {<<>>}])

Render == [status : {"running", "completed", "failed"},
           buffered : Text, pending : Text, current : Text,
           final : [text : Text, given : BOOLEAN], todo : PlanValue]

ShownMessage == [slot : {"todo", "progress", "final"}, text : Text,
                 plan : {<<>>} \cup {OrderedTodos(plan) : plan \in PlanValue},
                 failed : BOOLEAN]

DataInv ==
    /\ said \in Seq(Voice(mode, Plans))
    /\ stream \in Seq(Voice(mode, Plans))
    /\ events \in Seq(Voice(mode, Proposed(mode)))
    /\ render \in Render
    /\ shown \in Seq(ShownMessage)

\* Where the actors are together: a task that did not see a stop reads to the
\* end of the stream, run_turn ends after the task and with the channel empty.
ControlInv ==
    /\ Len(stream) <= Len(said)
    /\ task = "starting" => agent = "absent"
    /\ agent = "absent" => /\ said = <<>> /\ stream = <<>> /\ open = {}
                           /\ task \in {"starting", "ended"}
    /\ task \in {"joining", "ended"} /\ ~seen => stream = <<>> /\ "stdout" \notin open
    /\ task = "ended" /\ seen => outcome = "interrupted"
    /\ core = "done" => task = "ended" /\ events = <<>>

\* run_turn has lost nothing so far.
Whole == core = "streaming" \/ (core = "done" /\ outcome = "ok")

\* The words of what is said or on its way; those of what is shown.
WordsOf(s) == FlattenSeq([i \in 1 .. Len(s) |-> Words(s[i].text)])
TextOf(s) == FlattenSeq([i \in 1 .. Len(s) |-> s[i].text])

InOrder(x, b, e, t) == x \o (b \o (e \o t))

\* The words that run_turn has and that are not shown: those it still collects,
\* and in the end those the final message has no room for.
Kept == IF core = "done" THEN Words(CutOff(render.final.text)) ELSE Words(render.buffered)

\* The words of the chunks are shown, kept, in the channel or in the stream, in
\* this order.
ChunksInv ==
    mode = "fallback" =>
      /\ core = "streaming" => /\ render.final = None
                               /\ Words(render.current) = Words(render.buffered)
      /\ Whole => WordsOf(said) = InOrder(TextOf(shown), Kept, WordsOf(events), WordsOf(stream))
      /\ IsPrefix(TextOf(shown), WordsOf(said))

NoMessage == Message(<<>>)
Answer == IF render.final = None THEN NoMessage ELSE Message(render.final.text)

\* No message becomes progress, and the last message is the answer, in the
\* channel or in the stream.
AnswerInv ==
    mode = "exec_json" =>
      /\ core = "streaming" => /\ render.buffered = <<>>
                               /\ render.final = None => render.current = <<>>
                               /\ TextOf(shown) = <<>>
      /\ core = "done" /\ outcome = "ok" =>
            TextOf(shown) \o Words(CutOff(render.final.text)) = Answer.text
      /\ Whole => LastIn(said, Answers, NoMessage) =
                     LastIn(stream, Answers, LastIn(events, Answers, Answer))

\* The plans said, as run_turn receives them.
Entries(m, line) == IF m = "exec_json" THEN Usable(line.plan) ELSE line.plan
Tell(m, line) == IF line.kind = "plan" THEN Plan(Entries(m, line)) ELSE Other
Told(m, s) == [i \in 1 .. Len(s) |-> Tell(m, s[i])]
Proposals(m) == {Plan(plan) : plan \in Proposed(m)}
NewPlans == {Plan(plan) : plan \in PlanValue \ {<<>>}}
Todos == {message \in ShownMessage : message.slot = "todo"}
NoTodo == TodoMessage(NewRender)
Has(s, e) == \E i \in 1 .. Len(s) : s[i] = e

\* The last plan is the one run_turn holds, in the channel or in the stream, and
\* the user sees the one run_turn holds.  As long as no plan is shown, run_turn
\* has none and each that says something is on its way.
PlanInv ==
    Whole =>
      /\ LastIn(Told(mode, said), Proposals(mode), Plan(<<>>)) =
            LastIn(Told(mode, stream), Proposals(mode),
                   LastIn(events, Proposals(mode), Plan(render.todo)))
      /\ LastIn(shown, Todos, NoTodo).plan = OrderedTodos(render.todo)
      /\ Places(shown, Todos) = {} =>
            /\ render.todo = <<>>
            /\ \A new \in NewPlans : Has(Told(mode, said), new) =>
                                         Has(events, new) \/ Has(Told(mode, stream), new)

StreamInv == DataInv /\ TypeOK /\ ControlInv /\ ChunksInv /\ AnswerInv /\ PlanInv

-----------------------------------------------------------------------------
(* Laws of the operators the invariant is made of                          *)

\* Concatenations, for the provers that do not compute them.
LEMMA TextConcat ==
    /\ <<>> \in Text
    /\ \A a, b \in Text : a \o b \in Text
    /\ \A a \in Text : a \o <<>> = a /\ <<>> \o a = a
    /\ \A a, b, c \in Text : (a \o b) \o c = a \o (b \o c)
  BY DEF Text

LEMMA TextAssoc ==
    ASSUME NEW a \in Text, NEW b \in Text, NEW c \in Text
    PROVE  (a \o b) \o c = a \o (b \o c)
  BY DEF Text

LEMMA PrefixOfConcat ==
    ASSUME NEW a \in Text, NEW b \in Text
    PROVE  IsPrefix(a, a \o b)
<1>1. /\ Len(a) \in Nat /\ Len(b) \in Nat /\ a \o b \in Seq(Nat)
      /\ Len(a \o b) = Len(a) + Len(b)
      /\ \A i \in 1 .. Len(a) : (a \o b)[i] = a[i]
  BY DEF Text
<1>2. SubSeq(a, 1, Len(a)) = SubSeq(a \o b, 1, Len(a))
  BY <1>1 DEF Text
<1>3. QED
  BY <1>1, <1>2 DEF IsPrefix

LEMMA PrefixOfLonger ==
    ASSUME NEW a \in Text, NEW b \in Text, NEW c \in Text, IsPrefix(a, b)
    PROVE  IsPrefix(a, b \o c)
<1>1. /\ Len(a) \in Nat /\ Len(b) \in Nat /\ Len(a) <= Len(b)
      /\ SubSeq(a, 1, Len(a)) = SubSeq(b, 1, Len(a))
  BY DEF Text, IsPrefix
<1>2. /\ b \o c \in Seq(Nat) /\ Len(b \o c) = Len(b) + Len(c) /\ Len(c) \in Nat
      /\ \A i \in 1 .. Len(b) : (b \o c)[i] = b[i]
  BY DEF Text
<1>3. SubSeq(b, 1, Len(a)) = SubSeq(b \o c, 1, Len(a))
  BY <1>1, <1>2 DEF Text
<1>4. QED
  BY <1>1, <1>2, <1>3 DEF IsPrefix

\* Elements that carry a text.
Texted(E) == \A e \in E : e.text \in Text

LEMMA WordsOfIsJoined ==
    ASSUME NEW E, Texted(E), NEW s \in Seq(E)
    PROVE  WordsOf(s) = Joined([e \in E |-> Words(e.text)], s)
<1>1. Parts([e \in E |-> Words(e.text)], s) = [i \in 1 .. Len(s) |-> Words(s[i].text)]
  BY DEF Parts
<1>2. QED
  BY <1>1, Zenon DEF WordsOf, Joined

LEMMA TextOfIsJoined ==
    ASSUME NEW E, Texted(E), NEW s \in Seq(E)
    PROVE  TextOf(s) = Joined([e \in E |-> e.text], s)
<1>1. Parts([e \in E |-> e.text], s) = [i \in 1 .. Len(s) |-> s[i].text]
  BY DEF Parts
<1>2. QED
  BY <1>1, Zenon DEF TextOf, Joined

LEMMA WordsOfConcat ==
    ASSUME NEW E, Texted(E), NEW a \in Seq(E), NEW b \in Seq(E)
    PROVE  /\ WordsOf(a) \in Text /\ WordsOf(b) \in Text
           /\ WordsOf(a \o b) = WordsOf(a) \o WordsOf(b)
<1> DEFINE h == [e \in E |-> Words(e.text)]
<1>1. Maps(h, E, Seq(Nat))
  BY WordsLaws DEF Maps, Texted, Text
<1>2. a \o b \in Seq(E)
  OBVIOUS
<1>3. WordsOf(a) = Joined(h, a) /\ WordsOf(b) = Joined(h, b) /\ WordsOf(a \o b) = Joined(h, a \o b)
  BY <1>2, WordsOfIsJoined
<1> HIDE DEF h
<1>4. Joined(h, a) \in Seq(Nat) /\ Joined(h, b) \in Seq(Nat)
  BY <1>1, JoinedType
<1>5. Joined(h, a \o b) = Joined(h, a) \o Joined(h, b)
  BY <1>1, JoinedConcat
<1>6. QED
  BY <1>3, <1>4, <1>5 DEF Text

LEMMA WordsOfOne ==
    ASSUME NEW E, Texted(E), NEW e \in E
    PROVE  WordsOf(<<e>>) = Words(e.text)
<1> DEFINE h == [x \in E |-> Words(x.text)]
<1>1. Maps(h, E, Seq(Nat)) /\ h[e] = Words(e.text)
  BY WordsLaws DEF Maps, Texted, Text
<1>2. <<e>> \in Seq(E)
  OBVIOUS
<1>3. WordsOf(<<e>>) = Joined(h, <<e>>)
  BY <1>2, WordsOfIsJoined
<1> HIDE DEF h
<1>4. QED
  BY <1>1, <1>3, JoinedOne

LEMMA TextOfConcat ==
    ASSUME NEW E, Texted(E), NEW a \in Seq(E), NEW b \in Seq(E)
    PROVE  /\ TextOf(a) \in Text /\ TextOf(b) \in Text
           /\ TextOf(a \o b) = TextOf(a) \o TextOf(b)
<1> DEFINE h == [e \in E |-> e.text]
<1>1. Maps(h, E, Seq(Nat))
  BY DEF Maps, Texted, Text
<1>2. a \o b \in Seq(E)
  OBVIOUS
<1>3. TextOf(a) = Joined(h, a) /\ TextOf(b) = Joined(h, b) /\ TextOf(a \o b) = Joined(h, a \o b)
  BY <1>2, TextOfIsJoined
<1> HIDE DEF h
<1>4. Joined(h, a) \in Seq(Nat) /\ Joined(h, b) \in Seq(Nat)
  BY <1>1, JoinedType
<1>5. Joined(h, a \o b) = Joined(h, a) \o Joined(h, b)
  BY <1>1, JoinedConcat
<1>6. QED
  BY <1>3, <1>4, <1>5 DEF Text

LEMMA TextOfOne ==
    ASSUME NEW E, Texted(E), NEW e \in E
    PROVE  TextOf(<<e>>) = e.text
<1> DEFINE h == [x \in E |-> x.text]
<1>1. Maps(h, E, Seq(Nat)) /\ h[e] = e.text
  BY DEF Maps, Texted, Text
<1>2. <<e>> \in Seq(E)
  OBVIOUS
<1>3. TextOf(<<e>>) = Joined(h, <<e>>)
  BY <1>2, TextOfIsJoined
<1> HIDE DEF h
<1>4. QED
  BY <1>1, <1>3, JoinedOne

LEMMA OfNothing == WordsOf(<<>>) = <<>> /\ TextOf(<<>>) = <<>>
<1>1. /\ [i \in 1 .. Len(<<>>) |-> Words((<<>>)[i].text)] = <<>>
      /\ [i \in 1 .. Len(<<>>) |-> (<<>>)[i].text] = <<>>
  OBVIOUS
<1>2. QED
  BY <1>1, FlattenEmpty DEF WordsOf, TextOf

LEMMA VoiceTexted ==
    /\ \A m, P : Texted(Voice(m, P))
    /\ Texted(ShownMessage)
  BY TextConcat DEF Texted, Voice, Answers, ShownMessage

LEMMA UsableEmpty == Usable(<<>>) = <<>>
<1>1. [i \in 1 .. Len(<<>>) |-> IF (<<>>)[i].content = "none" THEN <<>> ELSE <<(<<>>)[i]>>] = <<>>
  OBVIOUS
<1>2. QED
  BY <1>1, FlattenEmpty DEF Usable

LEMMA AppendAsConcat ==
    ASSUME NEW E, NEW s \in Seq(E), NEW e \in E
    PROVE  Append(s, e) = s \o <<e>> /\ <<e>> \in Seq(E)
  OBVIOUS

LEMMA HeadAndTail ==
    ASSUME NEW E, NEW s \in Seq(E), s # <<>>
    PROVE  /\ Head(s) \in E /\ Tail(s) \in Seq(E)
           /\ s = <<Head(s)>> \o Tail(s)
  OBVIOUS

LEMMA WordsOfAppend ==
    ASSUME NEW E, Texted(E), NEW s \in Seq(E), NEW e \in E
    PROVE  WordsOf(Append(s, e)) = WordsOf(s) \o Words(e.text)
<1>1. Append(s, e) = s \o <<e>> /\ <<e>> \in Seq(E)
  BY AppendAsConcat
<1>2. WordsOf(<<e>>) = Words(e.text)
  BY WordsOfOne
<1>3. WordsOf(s \o <<e>>) = WordsOf(s) \o WordsOf(<<e>>)
  BY <1>1, WordsOfConcat
<1>4. QED
  BY <1>1, <1>2, <1>3

LEMMA WordsOfHead ==
    ASSUME NEW E, Texted(E), NEW s \in Seq(E), s # <<>>
    PROVE  WordsOf(s) = Words(Head(s).text) \o WordsOf(Tail(s))
<1> DEFINE e == Head(s)
           t == Tail(s)
<1>1. e \in E /\ t \in Seq(E) /\ s = <<e>> \o t
  BY HeadAndTail
<1> HIDE DEF e, t
<1>2. <<e>> \in Seq(E) /\ WordsOf(<<e>>) = Words(e.text)
  BY <1>1, WordsOfOne
<1>3. WordsOf(<<e>> \o t) = WordsOf(<<e>>) \o WordsOf(t)
  BY <1>1, <1>2, WordsOfConcat
<1>4. QED
  BY <1>1, <1>2, <1>3 DEF e, t

LEMMA TextOfAppend ==
    ASSUME NEW E, Texted(E), NEW s \in Seq(E), NEW e \in E
    PROVE  TextOf(Append(s, e)) = TextOf(s) \o e.text
<1>1. Append(s, e) = s \o <<e>> /\ <<e>> \in Seq(E)
  BY AppendAsConcat
<1>2. TextOf(<<e>>) = e.text
  BY TextOfOne
<1>3. TextOf(s \o <<e>>) = TextOf(s) \o TextOf(<<e>>)
  BY <1>1, TextOfConcat
<1>4. QED
  BY <1>1, <1>2, <1>3

\* What run_turn receives for a thing said: nothing when there is no text, message
\* or plan in it, or one event with what there is.
Normalized(m, line) ==
    IF m = "exec_json" THEN NormalizeExecJsonEvent(line) ELSE NormalizeAcpUpdate(line)

IsEventOf(m, line, event) ==
    /\ event \in Voice(m, Proposed(m))
    /\ event.text = line.text
    /\ line \in Answers => event = line
    /\ event \in Answers => event = line
    /\ IF line.kind = "plan" THEN event = Plan(Entries(m, line))
       ELSE event.kind # "plan"

LEMMA NormalizedLaw ==
    ASSUME NEW m \in {"exec_json", "fallback"}, NEW line \in Voice(m, Plans)
    PROVE  \/ /\ Normalized(m, line) = <<>>
              /\ line.text = <<>>
              /\ line \notin Answers
              /\ line.kind = "plan" => Plan(Entries(m, line)) = Plan(<<>>) /\ m = "exec_json"
           \/ \E event : Normalized(m, line) = <<event>> /\ IsEventOf(m, line, event)
<1> USE DEF Normalized, Entries
<1>1. CASE line.kind = "plan" /\ m = "exec_json"
  <2>1. /\ line \in [kind : {"plan"}, text : {<<>>}, plan : Plans]
        /\ Usable(line.plan) \in PlanValue
    BY <1>1 DEF Voice, Answers, PlanValue
  <2>2. CASE Usable(line.plan) = <<>>
    <3>1. NormalizeExecJsonEvent(line) = <<>> \o <<>>
      BY <2>1, <2>2 DEF NormalizeExecJsonEvent
    <3>2. QED
      BY <1>1, <2>1, <2>2, <3>1 DEF Answers
  <2>3. CASE Usable(line.plan) # <<>>
    <3>1. NormalizeExecJsonEvent(line) = <<>> \o <<Plan(Usable(line.plan))>>
      BY <2>1, <2>3 DEF NormalizeExecJsonEvent
    <3>2. <<>> \o <<Plan(Usable(line.plan))>> = <<Plan(Usable(line.plan))>>
      OBVIOUS
    <3>3. IsEventOf(m, line, Plan(Usable(line.plan)))
      BY <1>1, <2>1, <2>3 DEF IsEventOf, Plan, Voice, Answers, Proposed
    <3>4. QED
      BY <1>1, <3>1, <3>2, <3>3
  <2>4. QED
    BY <2>2, <2>3
<1>2. CASE line.kind # "plan" /\ m = "exec_json"
  <2>1. /\ line \in [kind : {"tool", "other"}, text : {<<>>}, plan : {<<>>}]
                      \cup Answers \cup [kind : {"completed"}, text : {<<>>}, plan : {<<>>}]
        /\ line.plan = <<>> /\ [line EXCEPT !.plan = <<>>] = line
    BY <1>2 DEF Voice, Answers
  <2>2. Usable(line.plan) = <<>>
    BY <2>1, UsableEmpty
  <2>3. CASE line.kind = "other"
    <3>1. NormalizeExecJsonEvent(line) = <<>> \o <<>>
      BY <2>2, <2>3 DEF NormalizeExecJsonEvent
    <3>2. QED
      BY <1>2, <2>1, <2>3, <3>1 DEF Answers
  <2>4. CASE line.kind # "other"
    <3>1. NormalizeExecJsonEvent(line) = <<line>> \o <<>>
      BY <1>2, <2>1, <2>2, <2>4 DEF NormalizeExecJsonEvent
    <3>2. IsEventOf(m, line, line)
      BY <1>2, <2>1 DEF IsEventOf, Voice
    <3>3. <<line>> \o <<>> = <<line>>
      OBVIOUS
    <3>4. QED
      BY <1>2, <3>1, <3>2, <3>3
  <2>5. QED
    BY <2>3, <2>4
<1>3. CASE m = "fallback"
  <2>1. CASE line = Other
    BY <1>3, <2>1 DEF NormalizeAcpUpdate, Other, Answers
  <2>2. CASE line # Other
    <3>1. Normalized(m, line) = <<line>>
      BY <1>3, <2>2 DEF NormalizeAcpUpdate
    <3>2. line.kind = "plan" => line = Plan(line.plan) /\ line.plan \in Plans
      BY <1>3 DEF Voice, Plan
    <3>3. IsEventOf(m, line, line)
      BY <1>3, <3>2 DEF IsEventOf, Voice, Proposed, PlanValue
    <3>4. QED
      BY <3>1, <3>3
  <2>3. QED
    BY <2>1, <2>2
<1>4. QED
  BY <1>1, <1>2, <1>3

LEMMA TellType ==
    ASSUME NEW m, NEW line \in Voice(m, Plans)
    PROVE  Tell(m, line) \in Voice(m, PlanValue)
<1>1. line.kind = "plan" => line.plan \in Plans
  BY DEF Voice, Answers
<1>2. line.kind = "plan" => Entries(m, line) \in PlanValue
  BY <1>1 DEF Entries, PlanValue
<1>3. QED
  BY <1>2 DEF Tell, Voice, Plan, Other

LEMMA ToldType ==
    ASSUME NEW m, NEW s \in Seq(Voice(m, Plans))
    PROVE  /\ Told(m, s) \in Seq(Voice(m, PlanValue))
           /\ Len(Told(m, s)) = Len(s)
           /\ \A i \in 1 .. Len(s) : Told(m, s)[i] = Tell(m, s[i])
<1>1. \A i \in 1 .. Len(s) : Tell(m, s[i]) \in Voice(m, PlanValue)
  BY TellType
<1> HIDE DEF Voice
<1>2. QED
  BY <1>1 DEF Told

LEMMA ToldAppend ==
    ASSUME NEW m, NEW s \in Seq(Voice(m, Plans)), NEW line \in Voice(m, Plans)
    PROVE  Told(m, Append(s, line)) = Append(Told(m, s), Tell(m, line))
<1> DEFINE V == Voice(m, PlanValue)
           t == Append(s, line)
<1>1. /\ t \in Seq(Voice(m, Plans)) /\ Len(t) = Len(s) + 1 /\ Len(s) \in Nat
      /\ t[Len(s) + 1] = line /\ \A i \in 1 .. Len(s) : t[i] = s[i]
  OBVIOUS
<1> HIDE DEF t
<1>2. /\ Told(m, s) \in Seq(V) /\ Len(Told(m, s)) = Len(s)
      /\ \A i \in 1 .. Len(s) : Told(m, s)[i] = Tell(m, s[i])
  BY ToldType
<1>3. /\ Told(m, t) \in Seq(V) /\ Len(Told(m, t)) = Len(t)
      /\ \A i \in 1 .. Len(t) : Told(m, t)[i] = Tell(m, t[i])
  BY <1>1, ToldType
<1>4. Tell(m, line) \in V
  BY TellType
<1> HIDE DEF V
<1>5. /\ Append(Told(m, s), Tell(m, line)) \in Seq(V)
      /\ Len(Append(Told(m, s), Tell(m, line))) = Len(t)
      /\ \A i \in 1 .. Len(t) : Append(Told(m, s), Tell(m, line))[i] =
                                   IF i = Len(s) + 1 THEN Tell(m, line) ELSE Told(m, s)[i]
  BY <1>1, <1>2, <1>4
<1>6. \A i \in 1 .. Len(t) : Told(m, t)[i] = Append(Told(m, s), Tell(m, line))[i]
  BY <1>1, <1>2, <1>3, <1>5
<1>7. QED
  BY <1>3, <1>5, <1>6, SeqEqual DEF t

LEMMA ToldHead ==
    ASSUME NEW m, NEW s \in Seq(Voice(m, Plans)), s # <<>>
    PROVE  /\ Told(m, s) # <<>>
           /\ Head(Told(m, s)) = Tell(m, Head(s))
           /\ Tail(Told(m, s)) = Told(m, Tail(s))
<1> DEFINE V == Voice(m, PlanValue)
           t == Tail(s)
<1>1. /\ t \in Seq(Voice(m, Plans)) /\ Len(t) = Len(s) - 1 /\ Len(s) \in Nat \ {0}
      /\ s[1] = Head(s) /\ \A i \in 1 .. Len(t) : t[i] = s[i + 1]
  OBVIOUS
<1> HIDE DEF t
<1>2. /\ Told(m, s) \in Seq(V) /\ Len(Told(m, s)) = Len(s)
      /\ \A i \in 1 .. Len(s) : Told(m, s)[i] = Tell(m, s[i])
  BY ToldType
<1>3. /\ Told(m, t) \in Seq(V) /\ Len(Told(m, t)) = Len(t)
      /\ \A i \in 1 .. Len(t) : Told(m, t)[i] = Tell(m, t[i])
  BY <1>1, ToldType
<1> HIDE DEF V
<1>4. /\ Told(m, s) # <<>> /\ Head(Told(m, s)) = Told(m, s)[1]
      /\ Tail(Told(m, s)) \in Seq(V) /\ Len(Tail(Told(m, s))) = Len(t)
      /\ \A i \in 1 .. Len(t) : Tail(Told(m, s))[i] = Told(m, s)[i + 1]
  BY <1>1, <1>2
<1>5. \A i \in 1 .. Len(t) : Tail(Told(m, s))[i] = Told(m, t)[i]
  BY <1>1, <1>2, <1>3, <1>4
<1>6. Head(Told(m, s)) = Tell(m, Head(s))
  BY <1>1, <1>2, <1>4
<1>7. QED
  BY <1>3, <1>4, <1>5, <1>6, SeqEqual DEF t

LEMMA ApplyEventLaw ==
    ASSUME NEW r \in Render, NEW m, NEW event \in Voice(m, Proposed(m))
    PROVE  LET next == ApplyEvent(r, event)
               kind == event.kind
           IN  /\ next \in Render
               /\ next.todo = IF kind = "plan" THEN event.plan ELSE r.todo
               /\ next.final = IF kind = "message" THEN Some(event.text) ELSE r.final
               /\ next.buffered = IF kind = "chunk" THEN r.buffered \o event.text
                                  ELSE IF kind \in {"message", "tool"} THEN <<>>
                                  ELSE r.buffered
               /\ next.current = IF kind = "chunk" THEN r.current \o event.text
                                 ELSE IF kind = "message" THEN event.text
                                 ELSE IF kind = "tool" /\ ~Blank(r.current) THEN <<>>
                                 ELSE r.current
               /\ next.pending = IF kind = "tool" /\ Blank(r.pending) /\ ~Blank(r.buffered)
                                   THEN r.buffered ELSE r.pending
<1> DEFINE next == ApplyEvent(r, event)
<1>1. CASE event.kind = "chunk"
  <2>1. next = [r EXCEPT !.buffered = @ \o event.text, !.current = @ \o event.text]
    BY <1>1 DEF ApplyEvent
  <2>2. event.text \in Text
    BY VoiceTexted DEF Texted
  <2>3. r.buffered \o event.text \in Text /\ r.current \o event.text \in Text
    BY <2>2, TextConcat DEF Render
  <2>4. QED
    BY <1>1, <2>1, <2>3 DEF Render
<1>2. CASE event.kind = "message"
  <2>1. next = [r EXCEPT !.buffered = <<>>, !.current = event.text, !.final = Some(event.text)]
    BY <1>2 DEF ApplyEvent, AssistantMessage
  <2>2. event.text \in Text /\ <<>> \in Text
    BY VoiceTexted, TextConcat DEF Texted
  <2>3. Some(event.text) \in [text : Text, given : BOOLEAN]
    BY <2>2 DEF Some
  <2>4. next \in Render
    BY <2>1, <2>2, <2>3 DEF Render
  <2>5. /\ next.todo = r.todo /\ next.pending = r.pending /\ next.final = Some(event.text)
        /\ next.buffered = <<>> /\ next.current = event.text
    BY <2>1 DEF Render
  <2>6. QED
    BY <1>2, <2>4, <2>5
<1>3. CASE event.kind = "tool"
  <2>1. next = [r EXCEPT !.pending = IF Blank(@) /\ ~Blank(r.buffered) THEN r.buffered ELSE @,
                         !.buffered = <<>>,
                         !.current = IF Blank(@) THEN @ ELSE <<>>]
    BY <1>3 DEF ApplyEvent, ToolBegun, QueueProgressFromBuffer, Render
  <2>2. <<>> \in Text
    BY TextConcat
  <2>3. QED
    BY <1>3, <2>1, <2>2 DEF Render
<1>4. CASE event.kind = "plan"
  <2>1. next = [r EXCEPT !.todo = event.plan]
    BY <1>4 DEF ApplyEvent
  <2>2. event.plan \in PlanValue
    BY <1>4 DEF Voice, Answers, Proposed
  <2>3. QED
    BY <1>4, <2>1, <2>2 DEF Render
<1>5. CASE event.kind = "completed"
  <2>1. next = [r EXCEPT !.status = "completed"]
    BY <1>5 DEF ApplyEvent
  <2>2. next \in Render
    BY <2>1 DEF Render
  <2>3. /\ next.todo = r.todo /\ next.pending = r.pending /\ next.final = r.final
        /\ next.buffered = r.buffered /\ next.current = r.current
    BY <2>1 DEF Render
  <2>4. QED
    BY <1>5, <2>2, <2>3
<1>6. CASE event.kind = "other"
  <2>1. next = r
    BY <1>6 DEF ApplyEvent
  <2>2. QED
    BY <1>6, <2>1
<1>7. event.kind \in {"chunk", "message", "tool", "plan", "completed", "other"}
  BY DEF Voice, Answers
<1>8. QED
  BY <1>1, <1>2, <1>3, <1>4, <1>5, <1>6, <1>7

\* What run_turn sends for an event.
TodoPart(r, next) == IF next.todo # r.todo THEN <<TodoMessage(next)>> ELSE <<>>
ProgressPart(next) == IF HasProgressUpdate(next) THEN <<ProgressMessage(next)>> ELSE <<>>

LEMMA PartsShown ==
    ASSUME NEW r \in Render, NEW next \in Render
    PROVE  /\ TodoMessage(next) \in Todos /\ ProgressMessage(next) \in ShownMessage \ Todos
           /\ TodoPart(r, next) \in Seq(ShownMessage) /\ TextOf(TodoPart(r, next)) = <<>>
           /\ ProgressPart(next) \in Seq(ShownMessage)
           /\ TextOf(ProgressPart(next)) = Words(next.pending)
<1>1. TodoMessage(next) \in Todos /\ TodoMessage(next).text = <<>>
  BY TextConcat DEF TodoMessage, Shown, Todos, ShownMessage, Render
<1>2. /\ ProgressMessage(next) \in ShownMessage \ Todos
      /\ ProgressMessage(next).text = Words(next.pending)
  BY WordsLaws DEF ProgressMessage, Shown, Todos, ShownMessage, Render
<1>3. TodoMessage(next) \in ShownMessage
  BY <1>1 DEF Todos
<1>4. /\ TextOf(<<TodoMessage(next)>>) = <<>>
      /\ TextOf(<<ProgressMessage(next)>>) = Words(next.pending)
  BY <1>1, <1>2, <1>3, TextOfOne, VoiceTexted
<1>5. TodoPart(r, next) \in Seq(ShownMessage) /\ TextOf(TodoPart(r, next)) = <<>>
  BY <1>3, <1>4, OfNothing DEF TodoPart
<1>6. ProgressPart(next) \in Seq(ShownMessage) /\ TextOf(ProgressPart(next)) = Words(next.pending)
  <2>1. CASE HasProgressUpdate(next)
    BY <1>2, <1>4, <2>1 DEF ProgressPart
  <2>2. CASE ~HasProgressUpdate(next)
    BY <2>2, OfNothing DEF ProgressPart, HasProgressUpdate, Blank
  <2>3. QED
    BY <2>1, <2>2
<1>7. QED
  BY <1>1, <1>2, <1>5, <1>6

\* What the user has seen after an event whose messages were all taken.
LEMMA ShownAfter ==
    ASSUME NEW s \in Seq(ShownMessage), NEW r \in Render, NEW next \in Render
    PROVE  LET t == s \o (TodoPart(r, next) \o ProgressPart(next))
           IN  /\ t \in Seq(ShownMessage)
               /\ TextOf(t) = TextOf(s) \o Words(next.pending)
               /\ LastIn(t, Todos, NoTodo) = IF next.todo # r.todo THEN TodoMessage(next)
                                             ELSE LastIn(s, Todos, NoTodo)
               /\ Places(t, Todos) = {} => Places(s, Todos) = {} /\ next.todo = r.todo
<1> DEFINE a == TodoPart(r, next)
           b == ProgressPart(next)
           t == s \o (a \o b)
<1>1. /\ TodoMessage(next) \in Todos /\ ProgressMessage(next) \in ShownMessage \ Todos
      /\ a \in Seq(ShownMessage) /\ TextOf(a) = <<>>
      /\ b \in Seq(ShownMessage) /\ TextOf(b) = Words(next.pending)
  BY PartsShown
<1>2. TodoMessage(next) \in ShownMessage
  BY <1>1 DEF Todos
<1>3. t \in Seq(ShownMessage) /\ a \o b \in Seq(ShownMessage) /\ s \o a \in Seq(ShownMessage)
  BY <1>1
<1>4. TextOf(t) = TextOf(s) \o Words(next.pending)
  <2>1. TextOf(a \o b) = TextOf(a) \o TextOf(b) /\ TextOf(b) \in Text
    BY <1>1, TextOfConcat, VoiceTexted
  <2>2. TextOf(a \o b) = Words(next.pending)
    BY <1>1, <2>1, TextConcat
  <2>3. TextOf(t) = TextOf(s) \o TextOf(a \o b)
    BY <1>3, TextOfConcat, VoiceTexted
  <2>4. QED
    BY <2>2, <2>3
<1>5. t = (s \o a) \o b
  BY <1>1, ConcatAssociative
<1>6. LastIn(s \o a, Todos, NoTodo) = IF next.todo # r.todo THEN TodoMessage(next)
                                      ELSE LastIn(s, Todos, NoTodo)
  <2>1. CASE next.todo # r.todo
    <3>1. s \o a = Append(s, TodoMessage(next))
      BY <2>1, <1>2 DEF TodoPart
    <3>2. QED
      BY <1>1, <1>2, <2>1, <3>1, LastInAppend
  <2>2. CASE next.todo = r.todo
    <3>1. s \o a = s
      BY <2>2 DEF TodoPart
    <3>2. QED
      BY <2>2, <3>1
  <2>3. QED
    BY <2>1, <2>2
<1>7. LastIn(t, Todos, NoTodo) = LastIn(s \o a, Todos, NoTodo)
  <2>1. CASE HasProgressUpdate(next)
    <3>1. t = Append(s \o a, ProgressMessage(next))
      BY <1>1, <1>3, <1>5, <2>1 DEF ProgressPart
    <3> DEFINE c == s \o a
               e == ProgressMessage(next)
    <3>2. c \in Seq(ShownMessage) /\ e \in ShownMessage /\ e \notin Todos
      BY <1>1, <1>3
    <3> HIDE DEF c, e
    <3>3. LastIn(Append(c, e), Todos, NoTodo) = LastIn(c, Todos, NoTodo)
      BY <3>2, LastInAppend
    <3>4. QED
      BY <3>1, <3>3 DEF c, e
  <2>2. CASE ~HasProgressUpdate(next)
    BY <1>3, <1>5, <2>2 DEF ProgressPart
  <2>3. QED
    BY <2>1, <2>2
<1>8. ASSUME Places(t, Todos) = {} PROVE Places(s, Todos) = {} /\ next.todo = r.todo
  <2>1. /\ Len(t) = Len(s) + Len(a \o b) /\ Len(s) \in Nat /\ Len(a \o b) \in Nat
        /\ \A i \in 1 .. Len(s) : t[i] = s[i]
    BY <1>3
  <2>2. Places(s, Todos) = {}
    BY <1>8, <2>1 DEF Places
  <2>3. ASSUME next.todo # r.todo PROVE FALSE
    <3>1. a = <<TodoMessage(next)>>
      BY <2>3 DEF TodoPart
    <3>2. Len(s) + 1 \in 1 .. Len(t) /\ t[Len(s) + 1] = TodoMessage(next)
      BY <1>1, <1>3, <1>5, <2>1, <3>1
    <3>3. QED
      BY <1>1, <1>8, <3>2 DEF Places
  <2>4. QED
    BY <2>2, <2>3
<1>9. QED
  BY <1>3, <1>4, <1>6, <1>7, <1>8

-----------------------------------------------------------------------------
(* The types                                                               *)

\* Every step but four leaves what was said and shown alone.
Quiet == /\ UNCHANGED <<mode, said, stream, events, core, render, shown>>
         /\ core = "done" => outcome' = outcome

\* The agent ends, or a pipe of it.
Ending == \/ AgentEnds("ok") \/ AgentEnds("err") \/ AgentStops \/ MuteExits
          \/ OutputEnds \/ ErrorsEnd

LEMMA StepsByKind ==
    ASSUME StreamInv, [Next]_vars
    PROVE  Say \/ ReadNext \/ Receive \/ Conclude \/ Quiet
<1> USE DEF vars, agentVars, taskVars, stopVars, coreVars
<1>1. CASE Ending
  BY <1>1 DEF Ending, AgentEnds, AgentStops, MuteExits, OutputEnds, ErrorsEnd, LetGo, Quiet
<1>2. CASE Starts \/ EndOfStream \/ SeeStop
  BY <1>2 DEF Starts, EndOfStream, SeeStop, Quiet
<1>3. CASE StartFails \/ Join
  BY <1>3 DEF StartFails, Join, Quiet, StreamInv, ControlInv
<1>4. CASE Stop \/ PassOn
  BY <1>4 DEF Stop, PassOn, Quiet
<1>5. CASE UNCHANGED vars
  BY <1>5 DEF Quiet
<1>6. QED
  BY <1>1, <1>2, <1>3, <1>4, <1>5 DEF Next, Agent, TaskStep, CoreStep, Ending

\* What an agent can say is in its voice.
LEMMA SayableVoice ==
    ASSUME StreamInv
    PROVE  Sayable \subseteq Voice(mode, Plans)
<1> DEFINE word == Len(said) + 1
<1>1. word \in Nat \ {0}
  BY DEF StreamInv, DataInv
<1>2. /\ <<word>> \in Text /\ <<Space>> \in Text /\ Words(<<word>>) = <<word>>
  BY <1>1, WordsLaws DEF Text, Space
<1> HIDE DEF word
<1>3. Message(<<word>>) \in Answers
  BY <1>2 DEF Message, Answers
<1>4. Chunk(<<word>>) \in [kind : {"chunk"}, text : Text, plan : {<<>>}]
  BY <1>2 DEF Chunk
<1>5. Chunk(<<Space>>) \in [kind : {"chunk"}, text : Text, plan : {<<>>}]
  BY <1>2 DEF Chunk
<1>6. \A plan \in Plans : Plan(plan) \in [kind : {"plan"}, text : {<<>>}, plan : Plans]
  BY DEF Plan
<1>7. /\ ToolBegins \in [kind : {"tool", "other"}, text : {<<>>}, plan : {<<>>}]
      /\ Other \in [kind : {"tool", "other"}, text : {<<>>}, plan : {<<>>}]
      /\ Completed \in [kind : {"completed"}, text : {<<>>}, plan : {<<>>}]
  BY DEF ToolBegins, Other, Completed
<1>8. Sayable = {ToolBegins, Other}
          \cup {Plan(plan) : plan \in Plans}
          \cup (IF mode = "exec_json" THEN {Message(<<word>>), Completed}
                                      ELSE {Chunk(<<word>>), Chunk(<<Space>>)})
  BY DEF Sayable, word
<1>9. QED
  BY <1>3, <1>4, <1>5, <1>6, <1>7, <1>8 DEF Voice

LEMMA InitInv == Init => StreamInv
<1> SUFFICES ASSUME Init PROVE StreamInv
  OBVIOUS
<1> USE DEF Init
<1>1. DataInv
  <2>1. <<>> \in Text /\ None \in [text : Text, given : BOOLEAN]
    BY TextConcat DEF None
  <2>2. render \in Render
    BY <2>1 DEF NewRender, Render, PlanValue
  <2>3. QED
    BY <2>2 DEF DataInv
<1>2. TypeOK
  <2>1. /\ Len(said) = 0 /\ 0 <= MaxSaid
        /\ stream = SubSeq(said, Len(said) - Len(stream) + 1, Len(said))
    BY ConstantsAssumption
  <2>2. ~HasProgressUpdate(render)
    BY WordsLaws DEF HasProgressUpdate, Blank, NewRender
  <2>3. QED
    BY <2>1, <2>2 DEF TypeOK
<1>3. ControlInv
  BY DEF ControlInv
<1>4. render.final = None /\ render.buffered = <<>> /\ render.current = <<>> /\ render.todo = <<>>
  BY DEF NewRender
<1>5. ChunksInv
  <2>1. TextOf(shown) = <<>> /\ WordsOf(said) = <<>> /\ WordsOf(events) = <<>>
        /\ WordsOf(stream) = <<>> /\ Words(render.buffered) = <<>>
    BY <1>4, OfNothing, WordsLaws
  <2>2. InOrder(<<>>, <<>>, <<>>, <<>>) = <<>> /\ <<>> \o <<>> = <<>>
    BY TextConcat DEF InOrder
  <2>3. IsPrefix(<<>>, <<>>)
    BY PrefixOfConcat, TextConcat, <2>2
  <2>4. Kept = <<>>
    BY <2>1 DEF Kept
  <2>5. QED
    BY <1>4, <2>1, <2>2, <2>3, <2>4 DEF ChunksInv
<1>6. AnswerInv
  BY <1>4, LastInEmpty, OfNothing DEF AnswerInv, Answer
<1>7. PlanInv
  <2>1. Told(mode, said) = <<>> /\ Told(mode, stream) = <<>>
    BY DEF Told
  <2>2. NoTodo.plan = OrderedTodos(render.todo)
    BY <1>4 DEF NoTodo, TodoMessage, Shown, NewRender
  <2>3. \A new \in NewPlans : ~Has(<<>>, new)
    BY DEF Has
  <2>4. QED
    BY <1>4, <2>1, <2>2, <2>3, LastInEmpty DEF PlanInv
<1>8. QED
  BY <1>1, <1>2, <1>3, <1>5, <1>6, <1>7 DEF StreamInv

LEMMA DataStep ==
    ASSUME StreamInv, [Next]_vars
    PROVE  DataInv'
<1> USE DEF DataInv
<1>1. DataInv
  BY DEF StreamInv
<1>2. CASE Say
  <2>1. PICK line \in Sayable : said' = Append(said, line) /\ stream' = Append(stream, line)
    BY <1>2 DEF Say
  <2>2. line \in Voice(mode, Plans)
    BY <2>1, SayableVoice
  <2>3. said' \in Seq(Voice(mode, Plans)) /\ stream' \in Seq(Voice(mode, Plans))
    BY <1>1, <2>1, <2>2
  <2>4. QED
    BY <1>1, <1>2, <2>3 DEF Say, agentVars, coreVars
<1>3. CASE ReadNext
  <2>1. Head(stream) \in Voice(mode, Plans) /\ stream' \in Seq(Voice(mode, Plans))
    BY <1>1, <1>3, HeadAndTail DEF ReadNext
  <2>2. /\ mode \in {"exec_json", "fallback"}
        /\ events' = IF core = "aborted" THEN events
                     ELSE events \o Normalized(mode, Head(stream))
    BY <1>3 DEF ReadNext, Send, Normalized, StreamInv, TypeOK
  <2>3. Normalized(mode, Head(stream)) \in Seq(Voice(mode, Proposed(mode)))
    <3> DEFINE line == Head(stream)
               V == Voice(mode, Proposed(mode))
    <3>1. \/ Normalized(mode, line) = <<>>
          \/ \E event \in V : Normalized(mode, line) = <<event>>
      BY <2>1, <2>2, NormalizedLaw DEF IsEventOf
    <3> HIDE DEF line, V
    <3>2. CASE Normalized(mode, line) = <<>>
      <4>1. <<>> \in Seq(V)
        OBVIOUS
      <4>2. QED
        BY <3>2, <4>1 DEF line, V
    <3>3. CASE \E event \in V : Normalized(mode, line) = <<event>>
      <4>1. PICK event \in V : Normalized(mode, line) = <<event>>
        BY <3>3
      <4>2. <<event>> \in Seq(V)
        OBVIOUS
      <4>3. QED
        BY <4>1, <4>2 DEF line, V
    <3>4. QED
      BY <3>1, <3>2, <3>3
  <2>4. events' \in Seq(Voice(mode, Proposed(mode)))
    <3> DEFINE V == Voice(mode, Proposed(mode))
               new == Normalized(mode, Head(stream))
    <3>1. events \in Seq(V) /\ new \in Seq(V)
      BY <1>1, <2>3
    <3> HIDE DEF V, new
    <3>2. events \o new \in Seq(V)
      BY <3>1
    <3>3. QED
      BY <2>2, <3>1, <3>2 DEF V, new
  <2>5. QED
    BY <1>1, <1>3, <2>1, <2>4 DEF ReadNext, coreVars
<1>4. CASE Receive
  <2> DEFINE next == ApplyEvent(render, Head(events))
             a == TodoPart(render, next)
             b == ProgressPart(next)
  <2>1. Head(events) \in Voice(mode, Proposed(mode)) /\ events' \in Seq(Voice(mode, Proposed(mode)))
    BY <1>1, <1>4, HeadAndTail DEF Receive
  <2>2. next \in Render
    BY <1>1, <2>1, ApplyEventLaw
  <2>3. MarkFlushed(next) \in Render
    BY <2>2, TextConcat DEF MarkFlushed, Render
  <2>4. a \o b \in Seq(ShownMessage) /\ shown \o (a \o b) \in Seq(ShownMessage)
    BY <1>1, <2>2, PartsShown
  <2>5. \/ shown' = shown \o (a \o b) /\ render' = MarkFlushed(next)
        \/ /\ \E n \in 0 .. Len(a \o b) - 1 : shown' = shown \o SubSeq(a \o b, 1, n)
           /\ render' = next
    BY <1>4 DEF Receive, TodoPart, ProgressPart
  <2> HIDE DEF next, a, b
  <2>6. shown' \in Seq(ShownMessage) /\ render' \in Render
    <3>1. CASE shown' = shown \o (a \o b) /\ render' = MarkFlushed(next)
      BY <2>3, <2>4, <3>1
    <3>2. CASE /\ \E n \in 0 .. Len(a \o b) - 1 : shown' = shown \o SubSeq(a \o b, 1, n)
               /\ render' = next
      <4> DEFINE c == a \o b
      <4>1. c \in Seq(ShownMessage) /\ shown \in Seq(ShownMessage)
        BY <1>1, <2>4
      <4>2. PICK n \in 0 .. Len(c) - 1 : shown' = shown \o SubSeq(c, 1, n)
        BY <3>2
      <4> HIDE DEF c
      <4>3. SubSeq(c, 1, n) \in Seq(ShownMessage)
        BY <4>1, <4>2
      <4>4. shown' \in Seq(ShownMessage)
        BY <4>1, <4>2, <4>3
      <4>5. QED
        BY <2>2, <3>2, <4>4
    <3>3. QED
      BY <2>5, <3>1, <3>2
  <2>7. QED
    BY <1>1, <1>4, <2>1, <2>6 DEF Receive, agentVars
<1>5. CASE Conclude
  <2> DEFINE last == IF outcome = "ok" THEN Finalize(render) ELSE Fail(render)
  <2>1. Some(render.current) \in [text : Text, given : BOOLEAN] /\ <<>> \in Text
    BY <1>1, TextConcat DEF Some, Render
  <2>2. Finalize(render) \in Render
    BY <1>1, <2>1 DEF Finalize, Render
  <2>3. Fail(render) \in Render
    BY <1>1 DEF Fail, Render
  <2>4. last \in Render
    BY <2>2, <2>3
  <2>5. render' = last /\ (shown' = shown \/ shown' = Append(shown, FinalMessage(last)))
    BY <1>5 DEF Conclude
  <2> HIDE DEF last
  <2>6. FinalMessage(last) \in ShownMessage
    <3>1. last.final.text \in Text
      BY <2>4 DEF Render
    <3>2. Words(Shorten(last.final.text)) \in Text /\ <<>> \in Text
      BY <3>1, CutLaw, WordsLaws, TextConcat
    <3>3. QED
      BY <3>2 DEF FinalMessage, Shown, ShownMessage
  <2>7. QED
    BY <1>1, <1>5, <2>4, <2>5, <2>6 DEF Conclude, agentVars
<1>6. CASE Quiet
  BY <1>1, <1>6 DEF Quiet
<1>7. QED
  BY <1>2, <1>3, <1>4, <1>5, <1>6, StepsByKind

\* A suffix grows with its sequence, and shrinks by its head.
LEMMA SuffixAppend ==
    ASSUME NEW V, NEW s \in Seq(V), NEW t \in Seq(V), NEW e \in V, Len(t) <= Len(s),
           t = SubSeq(s, Len(s) - Len(t) + 1, Len(s))
    PROVE  Append(t, e) = SubSeq(Append(s, e), Len(s) - Len(t) + 1, Len(s) + 1)
<1> DEFINE k == Len(s) - Len(t)
           u == Append(s, e)
           v == SubSeq(u, k + 1, Len(s) + 1)
<1>1. k \in Nat /\ Len(s) \in Nat /\ Len(t) \in Nat /\ Len(t) = Len(s) - k
  OBVIOUS
<1>2. \A i \in 1 .. Len(t) : t[i] = s[i + k]
  BY <1>1
<1>3. /\ u \in Seq(V) /\ Len(u) = Len(s) + 1 /\ u[Len(s) + 1] = e
      /\ \A i \in 1 .. Len(s) : u[i] = s[i]
  OBVIOUS
<1> HIDE DEF u
<1>4. /\ v \in Seq(V) /\ Len(v) = Len(t) + 1
      /\ \A i \in 1 .. Len(t) + 1 : v[i] = u[i + k]
  BY <1>1, <1>3
<1>5. /\ Append(t, e) \in Seq(V) /\ Len(Append(t, e)) = Len(t) + 1
      /\ \A i \in 1 .. Len(t) + 1 : Append(t, e)[i] = IF i = Len(t) + 1 THEN e ELSE t[i]
  OBVIOUS
<1> HIDE DEF v, k
<1>6. ASSUME NEW i \in 1 .. Len(t) + 1 PROVE Append(t, e)[i] = v[i]
  <2>1. CASE i = Len(t) + 1
    <3>1. i + k = Len(s) + 1
      BY <1>1, <2>1
    <3>2. QED
      BY <1>3, <1>4, <1>5, <2>1, <3>1
  <2>2. CASE i # Len(t) + 1
    <3>1. i \in 1 .. Len(t) /\ i + k \in 1 .. Len(s)
      BY <1>1, <2>2
    <3>2. QED
      BY <1>2, <1>3, <1>4, <1>5, <2>2, <3>1
  <2>3. QED
    BY <2>1, <2>2
<1>7. QED
  BY <1>4, <1>5, <1>6, SeqEqual DEF v, k, u

LEMMA SuffixTail ==
    ASSUME NEW V, NEW s \in Seq(V), NEW t \in Seq(V), t # <<>>, Len(t) <= Len(s),
           t = SubSeq(s, Len(s) - Len(t) + 1, Len(s))
    PROVE  /\ Len(Tail(t)) = Len(t) - 1
           /\ Tail(t) = SubSeq(s, Len(s) - Len(t) + 2, Len(s))
<1> DEFINE k == Len(s) - Len(t)
           v == SubSeq(s, k + 2, Len(s))
<1>1. /\ k \in Nat /\ Len(s) \in Nat /\ Len(t) \in Nat \ {0} /\ Len(t) = Len(s) - k
      /\ Tail(t) \in Seq(V) /\ Len(Tail(t)) = Len(t) - 1
      /\ \A i \in 1 .. Len(t) - 1 : Tail(t)[i] = t[i + 1]
  OBVIOUS
<1>2. \A i \in 1 .. Len(t) : t[i] = s[i + k]
  BY <1>1
<1>3. /\ v \in Seq(V) /\ Len(v) = Len(t) - 1
      /\ \A i \in 1 .. Len(t) - 1 : v[i] = s[i + 1 + k]
  BY <1>1
<1> HIDE DEF v, k
<1>4. \A i \in 1 .. Len(t) - 1 : Tail(t)[i] = v[i]
  BY <1>1, <1>2, <1>3
<1>5. QED
  BY <1>1, <1>3, <1>4, SeqEqual DEF v, k

LEMMA TypeStep ==
    ASSUME StreamInv, [Next]_vars
    PROVE  TypeOK'
<1> USE DEF TypeOK, agentVars, taskVars, stopVars, coreVars
<1>1. TypeOK /\ DataInv /\ DataInv' /\ Len(stream) <= Len(said)
  BY DataStep DEF StreamInv, ControlInv
<1>2. CASE Say
  <2>1. PICK line : said' = Append(said, line) /\ stream' = Append(stream, line) /\ line \in Sayable
    BY <1>2 DEF Say
  <2>2. line \in Voice(mode, Plans)
    BY <2>1, SayableVoice
  <2>3. Len(said') = Len(said) + 1 /\ Len(stream') = Len(stream) + 1 /\ Len(said') <= MaxSaid
    BY <1>1, <1>2, <2>1, <2>2, ConstantsAssumption DEF Say, DataInv
  <2>4. stream' = SubSeq(said', Len(said') - Len(stream') + 1, Len(said'))
    <3> DEFINE V == Voice(mode, Plans)
    <3>1. /\ said \in Seq(V) /\ stream \in Seq(V) /\ line \in V /\ Len(stream) <= Len(said)
          /\ stream = SubSeq(said, Len(said) - Len(stream) + 1, Len(said))
      BY <1>1, <2>2 DEF DataInv
    <3> HIDE DEF V
    <3>2. Append(stream, line) =
             SubSeq(Append(said, line), Len(said) - Len(stream) + 1, Len(said) + 1)
      BY <3>1, SuffixAppend
    <3>3. Len(said') - Len(stream') = Len(said) - Len(stream)
      <4>1. Len(said) \in Nat /\ Len(stream) \in Nat
        BY <3>1
      <4>2. QED
        BY <2>3, <4>1
    <3>4. QED
      BY <2>1, <2>3, <3>2, <3>3
  <2>5. QED
    BY <1>1, <1>2, <2>3, <2>4 DEF Say
<1>3. CASE ReadNext
  <2>1. stream' = SubSeq(said', Len(said') - Len(stream') + 1, Len(said'))
    <3> DEFINE V == Voice(mode, Plans)
    <3>1. /\ said \in Seq(V) /\ stream \in Seq(V) /\ stream # <<>>
          /\ Len(stream) <= Len(said)
          /\ stream = SubSeq(said, Len(said) - Len(stream) + 1, Len(said))
      BY <1>1, <1>3 DEF DataInv, ReadNext
    <3> HIDE DEF V
    <3>2. /\ Len(Tail(stream)) = Len(stream) - 1
          /\ Tail(stream) = SubSeq(said, Len(said) - Len(stream) + 2, Len(said))
      BY <3>1, SuffixTail
    <3>3. stream' = Tail(stream) /\ said' = said
      BY <1>3 DEF ReadNext
    <3>4. Len(said') - Len(stream') + 1 = Len(said) - Len(stream) + 2
      <4>1. Len(said) \in Nat /\ Len(stream) \in Nat
        BY <3>1
      <4>2. Len(stream') = Len(stream) - 1 /\ Len(said') = Len(said)
        BY <3>2, <3>3
      <4>3. QED
        BY <4>1, <4>2
    <3>5. QED
      BY <3>2, <3>3, <3>4
  <2>2. QED
    BY <1>1, <1>3, <2>1 DEF ReadNext
<1>4. CASE Receive
  <2>1. HasProgressUpdate(render)' => core' = "aborted"
    <3>1. \A next : ~HasProgressUpdate(MarkFlushed(next))
      <4>1. ASSUME NEW next PROVE ~HasProgressUpdate(MarkFlushed(next))
        BY WordsLaws DEF HasProgressUpdate, MarkFlushed, Blank
      <4>2. QED
        BY <4>1
    <3>2. \/ render' = MarkFlushed(ApplyEvent(render, Head(events)))
          \/ core' = "aborted"
      BY <1>4 DEF Receive
    <3>3. QED
      BY <3>1, <3>2 DEF HasProgressUpdate
  <2>2. core' \in {"streaming", "aborted"}
    BY <1>4 DEF Receive
  <2>3. QED
    BY <1>1, <1>4, <2>1, <2>2 DEF Receive
<1>5. CASE Conclude
  <2>1. render'.pending = render.pending
    BY <1>1, <1>5 DEF Conclude, Finalize, Fail, DataInv, Render
  <2>2. ~HasProgressUpdate(render)
    BY <1>1, <1>5 DEF Conclude
  <2>3. QED
    BY <1>1, <1>5, <2>1, <2>2 DEF Conclude, HasProgressUpdate
<1>6. CASE Ending
  <2>1. ASSUME AgentEnds("ok") \/ AgentEnds("err") PROVE TypeOK'
    <3>1. PICK result \in {"ok", "err"} : AgentEnds(result)
      BY <2>1
    <3>2. open' \subseteq open /\ agent' \in {"ok", "err"}
      BY <3>1 DEF AgentEnds
    <3>3. QED
      BY <1>1, <3>1, <3>2 DEF AgentEnds
  <2>2. ASSUME NEW pipe, LetGo(pipe) PROVE TypeOK'
    BY <1>1, <2>2 DEF LetGo
  <2>3. QED
    BY <1>6, <2>1, <2>2 DEF Ending, AgentStops, MuteExits, OutputEnds, ErrorsEnd
<1>7. CASE Starts
  BY <1>1, <1>7 DEF Starts
<1>8. CASE StartFails
  BY <1>1, <1>8 DEF StartFails
<1>9. CASE EndOfStream
  BY <1>1, <1>9 DEF EndOfStream
<1>10. CASE SeeStop
  BY <1>1, <1>10 DEF SeeStop
<1>11. CASE Join
  BY <1>1, <1>11 DEF Join
<1>12. CASE Stop
  BY <1>1, <1>12 DEF Stop
<1>13. CASE PassOn
  BY <1>1, <1>13 DEF PassOn
<1>14. CASE UNCHANGED vars
  BY <1>1, <1>14 DEF vars
<1>15. QED
  BY <1>2, <1>3, <1>4, <1>5, <1>6, <1>7, <1>8, <1>9, <1>10, <1>11, <1>12, <1>13, <1>14
  DEF Next, Agent, TaskStep, CoreStep, Ending

LEMMA ControlStep ==
    ASSUME StreamInv, [Next]_vars
    PROVE  ControlInv'
<1> USE DEF ControlInv, agentVars, taskVars, stopVars, coreVars
<1>1. ControlInv /\ TypeOK
  BY DEF StreamInv
<1>2. CASE Say
  <2>1. Len(stream') <= Len(said')
    <3>1. PICK line \in Voice(mode, Plans) :
                  said' = Append(said, line) /\ stream' = Append(stream, line)
      BY <1>2, SayableVoice DEF Say
    <3>2. said \in Seq(Voice(mode, Plans)) /\ stream \in Seq(Voice(mode, Plans))
      BY DEF StreamInv, DataInv
    <3>3. QED
      BY <1>1, <3>1, <3>2
  <2>2. QED
    BY <1>1, <1>2, <2>1 DEF Say
<1>3. CASE ReadNext
  <2>1. Len(stream') <= Len(said')
    <3>1. said \in Seq(Voice(mode, Plans)) /\ stream \in Seq(Voice(mode, Plans))
      BY DEF StreamInv, DataInv
    <3>2. stream # <<>> /\ stream' = Tail(stream) /\ said' = said
      BY <1>3 DEF ReadNext
    <3>3. QED
      BY <1>1, <3>1, <3>2
  <2>2. QED
    BY <1>1, <1>3, <2>1 DEF ReadNext
<1>4. CASE Receive
  BY <1>1, <1>4 DEF Receive
<1>5. CASE Conclude
  BY <1>1, <1>5 DEF Conclude
<1>6. CASE Ending
  <2>1. UNCHANGED <<said, stream, task, seen, outcome, core, events>>
    BY <1>6 DEF Ending, AgentEnds, AgentStops, MuteExits, OutputEnds, ErrorsEnd, LetGo
  <2>2. CASE \E result \in {"ok", "err"} : AgentEnds(result)
    <3>1. agent = "working" /\ agent' \in {"ok", "err"}
      BY <2>2 DEF AgentEnds
    <3>2. open' \in SUBSET open
      BY <2>2 DEF AgentEnds
    <3>3. QED
      BY ONLY <1>1, <2>1, <3>1, <3>2 DEF ControlInv
  <2>3. CASE \E pipe \in {"stdout", "stderr"} : LetGo(pipe)
    <3>1. agent' = agent /\ open' \in SUBSET open
      BY <2>3 DEF LetGo
    <3>2. QED
      BY ONLY <1>1, <2>1, <3>1 DEF ControlInv
  <2>4. QED
    BY <1>6, <2>2, <2>3 DEF Ending, AgentStops, MuteExits, OutputEnds, ErrorsEnd
<1>7. CASE Starts \/ StartFails \/ EndOfStream
  <2>1. CASE Starts
    <3>1. /\ task = "starting" /\ task' = "reading" /\ agent' # "absent"
          /\ UNCHANGED <<said, stream, seen, core, events>>
      BY <1>7, <2>1 DEF Starts
    <3>2. QED
      BY ONLY <1>1, <3>1 DEF ControlInv, TypeOK
  <2>2. CASE StartFails
    BY <1>1, <2>2 DEF StartFails, TypeOK
  <2>3. CASE EndOfStream
    BY <1>1, <2>3 DEF EndOfStream, TypeOK
  <2>4. QED
    BY <1>7, <2>1, <2>2, <2>3
<1>8. CASE SeeStop \/ Join
  BY <1>1, <1>8 DEF SeeStop, Join, TypeOK
<1>9. CASE Stop \/ PassOn
  BY <1>1, <1>9 DEF Stop, PassOn
<1>10. CASE UNCHANGED vars
  BY <1>1, <1>10 DEF vars
<1>11. QED
  BY <1>2, <1>3, <1>4, <1>5, <1>6, <1>7, <1>8, <1>9, <1>10
  DEF Next, Agent, TaskStep, CoreStep, Ending

-----------------------------------------------------------------------------
(* What the steps that move data do                                        *)

LEMMA TypesOfTexts ==
    ASSUME NEW E, Texted(E), NEW s \in Seq(E)
    PROVE  WordsOf(s) \in Text /\ TextOf(s) \in Text
  BY WordsOfConcat, TextOfConcat

\* The texts of a reachable state.
LEMMA StateTexts ==
    ASSUME DataInv
    PROVE  /\ WordsOf(said) \in Text /\ WordsOf(stream) \in Text /\ WordsOf(events) \in Text
           /\ TextOf(shown) \in Text
           /\ Words(render.buffered) \in Text /\ Words(render.current) \in Text
           /\ Words(render.pending) \in Text
<1>1. /\ said \in Seq(Voice(mode, Plans)) /\ stream \in Seq(Voice(mode, Plans))
      /\ events \in Seq(Voice(mode, Proposed(mode))) /\ shown \in Seq(ShownMessage)
  BY DEF DataInv
<1>2. WordsOf(said) \in Text /\ WordsOf(stream) \in Text
  BY <1>1, TypesOfTexts, VoiceTexted
<1>3. WordsOf(events) \in Text /\ TextOf(shown) \in Text
  BY <1>1, TypesOfTexts, VoiceTexted
<1>4. /\ Words(render.buffered) \in Text /\ Words(render.current) \in Text
      /\ Words(render.pending) \in Text
  BY WordsLaws DEF DataInv, Render
<1>5. QED
  BY <1>2, <1>3, <1>4

LEMMA SayLaw ==
    ASSUME StreamInv, Say
    PROVE  \E line \in Voice(mode, Plans) :
              said' = Append(said, line) /\ stream' = Append(stream, line)
  BY SayableVoice DEF Say

LEMMA ReadLaw ==
    ASSUME StreamInv, ReadNext, core # "aborted"
    PROVE  LET line == Head(stream)
           IN  /\ line \in Voice(mode, Plans) /\ stream # <<>> /\ stream' = Tail(stream)
               /\ \/ /\ events' = events
                     /\ line.text = <<>>
                     /\ line \notin Answers
                     /\ Tell(mode, line) \notin Proposals(mode) \cup NewPlans
                  \/ \E event \in Voice(mode, Proposed(mode)) :
                        /\ events' = Append(events, event)
                        /\ IsEventOf(mode, line, event)
<1> DEFINE line == Head(stream)
<1>1. stream # <<>> /\ stream' = Tail(stream)
  BY DEF ReadNext
<1>2. line \in Voice(mode, Plans) /\ mode \in {"exec_json", "fallback"}
  BY <1>1, HeadAndTail DEF StreamInv, DataInv, TypeOK
<1>3. events' = events \o Normalized(mode, line)
  BY DEF ReadNext, Send, Normalized
<1>4. events \in Seq(Voice(mode, Proposed(mode)))
  BY DEF StreamInv, DataInv
<1> HIDE DEF line
<1>5. CASE \E event : Normalized(mode, line) = <<event>> /\ IsEventOf(mode, line, event)
  <2>1. PICK event : Normalized(mode, line) = <<event>> /\ IsEventOf(mode, line, event)
    BY <1>5
  <2>2. event \in Voice(mode, Proposed(mode))
    BY <2>1 DEF IsEventOf
  <2>3. Append(events, event) = events \o <<event>>
    BY <1>4, <2>2, AppendAsConcat
  <2>4. events' = Append(events, event)
    BY <1>3, <2>1, <2>3
  <2>5. QED
    BY <1>1, <1>2, <2>1, <2>2, <2>4 DEF line
<1>6. CASE /\ Normalized(mode, line) = <<>>
           /\ line.text = <<>>
           /\ line \notin Answers
           /\ line.kind = "plan" => Plan(Entries(mode, line)) = Plan(<<>>) /\ mode = "exec_json"
  <2>1. events' = events
    <3> DEFINE V == Voice(mode, Proposed(mode))
    <3> HIDE DEF V
    <3>1. events \in Seq(V)
      BY <1>4 DEF V
    <3>2. events \o <<>> = events
      BY <3>1
    <3>3. QED
      BY <1>3, <1>6, <3>2
  <2>2. Tell(mode, line) \notin Proposals(mode) \cup NewPlans
    <3>1. Tell(mode, line) = Other \/ (Tell(mode, line) = Plan(<<>>) /\ mode = "exec_json")
      BY <1>6 DEF Tell
    <3>2. QED
      BY <3>1 DEF Proposals, Proposed, NewPlans, Plan, Other
  <2>3. QED
    BY <1>1, <1>2, <1>6, <2>1, <2>2 DEF line
<1>7. QED
  BY <1>2, <1>5, <1>6, NormalizedLaw

\* An event is taken: its messages were sent, or some of them before run_turn gave
\* up.
LEMMA ReceiveLaw ==
    ASSUME StreamInv, Receive
    PROVE  LET next == ApplyEvent(render, Head(events))
               new == TodoPart(render, next) \o ProgressPart(next)
           IN  /\ core = "streaming" /\ events # <<>> /\ events' = Tail(events)
               /\ Head(events) \in Voice(mode, Proposed(mode))
               /\ next \in Render
               /\ \/ shown' = shown \o new /\ render' = MarkFlushed(next) /\ core' = core
                  \/ /\ \E n \in 0 .. Len(new) - 1 : shown' = shown \o SubSeq(new, 1, n)
                     /\ core' = "aborted"
<1>1. core = "streaming" /\ events # <<>> /\ events' = Tail(events)
  BY DEF Receive
<1>2. Head(events) \in Voice(mode, Proposed(mode)) /\ render \in Render
  BY <1>1, HeadAndTail DEF StreamInv, DataInv
<1>3. ApplyEvent(render, Head(events)) \in Render
  BY <1>2, ApplyEventLaw
<1>4. QED
  BY <1>1, <1>2, <1>3 DEF Receive, TodoPart, ProgressPart

LEMMA PrefixOfTwo ==
    ASSUME NEW E, NEW a \in Seq(E), NEW b \in Seq(E), Len(a) \in {0, 1}, Len(b) \in {0, 1},
           NEW n \in 0 .. Len(a \o b) - 1
    PROVE  SubSeq(a \o b, 1, n) = IF n = 0 THEN <<>> ELSE a
<1> DEFINE c == a \o b
           d == SubSeq(c, 1, n)
<1>1. /\ Len(a) \in Nat /\ Len(b) \in Nat /\ c \in Seq(E) /\ Len(c) = Len(a) + Len(b)
      /\ \A i \in 1 .. Len(a) : c[i] = a[i]
  OBVIOUS
<1>2. n \in 0 .. Len(c) - 1
  OBVIOUS
<1> HIDE DEF c
<1>3. n = 0 \/ (n = 1 /\ Len(a) = 1)
  <2>1. \A x \in {0, 1}, y \in {0, 1} :
             \A z \in 0 .. (x + y) - 1 : z = 0 \/ (z = 1 /\ x = 1)
    OBVIOUS
  <2>2. n \in 0 .. (Len(a) + Len(b)) - 1
    BY <1>1, <1>2
  <2>3. QED
    BY <2>1, <2>2
<1>4. d \in Seq(E) /\ Len(d) = n /\ \A i \in 1 .. n : d[i] = c[i]
  BY <1>1, <1>2
<1> HIDE DEF d
<1>5. CASE n = 0
  BY <1>4, <1>5, EmptySeq DEF d, c
<1>6. CASE n = 1 /\ Len(a) = 1
  <2>1. \A i \in 1 .. Len(a) : d[i] = a[i]
    BY <1>1, <1>4, <1>6
  <2>2. d = a
    BY <1>4, <1>6, <2>1, SeqEqual
  <2>3. QED
    BY <1>6, <2>2 DEF d, c
<1>7. QED
  BY <1>3, <1>5, <1>6

\* What is sent before a message is refused carries no text.
LEMMA CutShort ==
    ASSUME NEW r \in Render, NEW next \in Render,
           NEW n \in 0 .. Len(TodoPart(r, next) \o ProgressPart(next)) - 1
    PROVE  LET cut == SubSeq(TodoPart(r, next) \o ProgressPart(next), 1, n)
           IN  cut \in Seq(ShownMessage) /\ TextOf(cut) = <<>>
<1> DEFINE a == TodoPart(r, next)
           b == ProgressPart(next)
<1>1. /\ a \in Seq(ShownMessage) /\ TextOf(a) = <<>> /\ b \in Seq(ShownMessage)
  BY PartsShown
<1>2. Len(a) \in {0, 1} /\ Len(b) \in {0, 1}
  BY DEF TodoPart, ProgressPart
<1>3. n \in 0 .. Len(a \o b) - 1
  OBVIOUS
<1> HIDE DEF a, b
<1>4. SubSeq(a \o b, 1, n) = IF n = 0 THEN <<>> ELSE a
  BY <1>1, <1>2, <1>3, PrefixOfTwo
<1>5. <<>> \in Seq(ShownMessage)
  OBVIOUS
<1>6. QED
  BY <1>1, <1>4, <1>5, OfNothing DEF a, b

\* The final message.
LEMMA FinalLaw ==
    ASSUME NEW r \in Render
    PROVE  /\ FinalMessage(Finalize(r)) \in ShownMessage \ Todos
           /\ FinalMessage(Fail(r)) \in ShownMessage \ Todos
           /\ FinalMessage(Fail(r)).text = <<>>
           /\ FinalMessage(Finalize(r)).text = Words(Shorten(Finalize(r).final.text))
           /\ Finalize(r).final.text \in Text
           /\ Finalize(r).final = IF r.final = None /\ ~Blank(r.current)
                                    THEN Some(r.current) ELSE r.final
           /\ Finalize(r).buffered = <<>> /\ Finalize(r).todo = r.todo
           /\ Finalize(r).current = r.current
<1> DEFINE f == Finalize(r)
           g == Fail(r)
<1>1. f = [r EXCEPT !.status = "completed",
                    !.final = IF r.final = None /\ ~Blank(r.current) THEN Some(r.current) ELSE r.final,
                    !.buffered = <<>>]
  BY DEF Finalize, Render
<1>2. /\ f.status = "completed" /\ f.buffered = <<>> /\ f.todo = r.todo /\ f.current = r.current
      /\ f.final = IF r.final = None /\ ~Blank(r.current) THEN Some(r.current) ELSE r.final
  BY <1>1 DEF Render
<1>3. f.final.text \in Text
  BY <1>2 DEF Some, Render
<1>4. g.status = "failed"
  BY DEF Fail, Render
<1> HIDE DEF f, g
<1>5. /\ FinalMessage(f) = [slot |-> "final", text |-> Words(Shorten(f.final.text)), plan |-> <<>>,
                            failed |-> FALSE]
      /\ FinalMessage(g) = [slot |-> "final", text |-> <<>>, plan |-> <<>>, failed |-> TRUE]
  BY <1>2, <1>4 DEF FinalMessage, Shown
<1>6. Words(Shorten(f.final.text)) \in Text /\ <<>> \in Text
  BY <1>3, CutLaw, WordsLaws, TextConcat
<1>7. QED
  BY <1>2, <1>3, <1>5, <1>6 DEF ShownMessage, Todos, f, g


-----------------------------------------------------------------------------
(* Chunks                                                                  *)

LEMMA RegroupMiddle ==
    ASSUME NEW x \in Text, NEW b \in Text, NEW e \in Text, NEW t \in Text, NEW w \in Text
    PROVE  InOrder(x, b, e, w \o t) = InOrder(x, b, e \o w, t)
<1>1. e \o (w \o t) = (e \o w) \o t
  BY TextConcat
<1>2. QED
  BY <1>1, Zenon DEF InOrder

\* An event moves words from the channel into the buffer, and the buffer into a
\* progress message.
LEMMA ReceivedWords ==
    ASSUME NEW r \in Render, NEW event \in Voice("fallback", Proposed("fallback")),
           Words(r.pending) = <<>>, Words(r.current) = Words(r.buffered)
    PROVE  LET next == ApplyEvent(r, event)
           IN  /\ next.final = r.final
               /\ Words(next.current) = Words(next.buffered)
               /\ Words(next.pending) \o Words(next.buffered) =
                     Words(r.buffered) \o Words(event.text)
<1> DEFINE next == ApplyEvent(r, event)
<1>1. /\ r.buffered \in Text /\ r.current \in Text /\ r.pending \in Text
      /\ Words(r.buffered) \in Text /\ Words(<<>>) = <<>>
  BY WordsLaws DEF Render
<1>2. /\ event.kind \in {"chunk", "tool", "plan", "other"}
      /\ event.text \in Text /\ (event.kind # "chunk" => event.text = <<>>)
  BY TextConcat DEF Voice
<1>3. /\ next.final = IF event.kind = "message" THEN Some(event.text) ELSE r.final
      /\ next.buffered = IF event.kind = "chunk" THEN r.buffered \o event.text
                         ELSE IF event.kind \in {"message", "tool"} THEN <<>>
                         ELSE r.buffered
      /\ next.current = IF event.kind = "chunk" THEN r.current \o event.text
                        ELSE IF event.kind = "message" THEN event.text
                        ELSE IF event.kind = "tool" /\ ~Blank(r.current) THEN <<>>
                        ELSE r.current
      /\ next.pending = IF event.kind = "tool" /\ Blank(r.pending) /\ ~Blank(r.buffered)
                          THEN r.buffered ELSE r.pending
  BY ApplyEventLaw
<1> HIDE DEF next
<1>4. next.final = r.final
  BY <1>2, <1>3
<1>5. CASE event.kind = "chunk"
  <2>1. /\ next.buffered = r.buffered \o event.text
        /\ next.current = r.current \o event.text
        /\ next.pending = r.pending
    BY <1>3, <1>5
  <2>2. /\ Words(r.buffered \o event.text) = Words(r.buffered) \o Words(event.text)
        /\ Words(r.current \o event.text) = Words(r.current) \o Words(event.text)
        /\ Words(r.buffered \o event.text) \in Text
    BY <1>1, <1>2, WordsLaws, TextConcat
  <2>3. <<>> \o Words(next.buffered) = Words(next.buffered)
    BY <2>1, <2>2, TextConcat
  <2>4. QED
    BY <1>4, <2>1, <2>2, <2>3, Zenon DEF next
<1>6. CASE event.kind = "tool"
  <2>1. next.buffered = <<>> /\ Words(next.current) = <<>>
    BY <1>1, <1>3, <1>6 DEF Blank
  <2>2. Words(next.pending) = Words(r.buffered)
    BY <1>3, <1>6 DEF Blank
  <2>3. QED
    BY <1>1, <1>2, <1>4, <1>6, <2>1, <2>2 DEF next
<1>7. CASE event.kind \in {"plan", "other"}
  <2>1. next.buffered = r.buffered /\ next.current = r.current /\ next.pending = r.pending
    BY <1>3, <1>7
  <2>2. Words(event.text) = <<>>
    BY <1>1, <1>2, <1>7
  <2>3. QED
    BY <1>1, <1>4, <2>1, <2>2, TextConcat DEF next
<1>8. QED
  BY <1>2, <1>5, <1>6, <1>7


LEMMA KeptIsText ==
    ASSUME StreamInv
    PROVE  Kept \in Text
<1>1. render.final.text \in Text /\ render.buffered \in Text
  BY DEF StreamInv, DataInv, Render
<1>2. QED
  BY <1>1, CutLaw, WordsLaws DEF Kept

LEMMA ChunksSay ==
    ASSUME StreamInv, Say, mode = "fallback"
    PROVE  ChunksInv'
<1>1. PICK line \in Voice(mode, Plans) :
              said' = Append(said, line) /\ stream' = Append(stream, line)
  BY SayLaw
<1>2. /\ mode' = mode /\ core' = core /\ outcome' = outcome /\ render' = render
      /\ shown' = shown /\ events' = events
  BY DEF Say, taskVars, coreVars
<1>3. /\ said \in Seq(Voice(mode, Plans)) /\ stream \in Seq(Voice(mode, Plans)) /\ ChunksInv
  BY DEF StreamInv, DataInv
<1> DEFINE x == TextOf(shown)
           b == Kept
           e == WordsOf(events)
           t == WordsOf(stream)
           w == Words(line.text)
<1>4. /\ x \in Text /\ b \in Text /\ e \in Text /\ t \in Text /\ WordsOf(said) \in Text
  BY StateTexts, KeptIsText DEF StreamInv
<1>5. w \in Text
  BY WordsLaws, VoiceTexted DEF Texted
<1>6. WordsOf(said') = WordsOf(said) \o w
  BY <1>1, <1>3, WordsOfAppend, VoiceTexted
<1>7. WordsOf(stream') = t \o w
  BY <1>1, <1>3, WordsOfAppend, VoiceTexted
<1>8. IsPrefix(x, WordsOf(said) \o w)
  BY <1>3, <1>4, <1>5, PrefixOfLonger DEF ChunksInv
<1>9. ASSUME Whole PROVE WordsOf(said) \o w = InOrder(x, b, e, t \o w)
  <2>1. WordsOf(said) = InOrder(x, b, e, t)
    BY <1>3, <1>9 DEF ChunksInv
  <2> HIDE DEF x, b, e, t, w
  <2> DEFINE et == e \o t
             bet == b \o et
  <2>2. et \in Text /\ bet \in Text
    BY <1>4, TextConcat
  <2>3. et \o w = e \o (t \o w)
    BY <1>4, <1>5, TextAssoc
  <2> HIDE DEF et, bet
  <2>4. (b \o et) \o w = b \o (et \o w)
    <3>1. b \in Text /\ et \in Text /\ w \in Text
      BY <1>4, <1>5, <2>2
    <3>2. QED
      BY ONLY <3>1, TextAssoc
  <2>5. (x \o bet) \o w = x \o (bet \o w)
    <3>1. x \in Text /\ bet \in Text /\ w \in Text
      BY <1>4, <1>5, <2>2
    <3>2. QED
      BY ONLY <3>1, TextAssoc
  <2>6. QED
    BY <2>1, <2>3, <2>4, <2>5, Zenon DEF InOrder, et, bet
<1>10. Whole' = Whole /\ Kept' = Kept
  BY <1>2 DEF Whole, Kept
<1>11. QED
  BY <1>2, <1>3, <1>6, <1>7, <1>8, <1>9, <1>10 DEF ChunksInv

LEMMA ChunksRead ==
    ASSUME StreamInv, ReadNext, mode = "fallback"
    PROVE  ChunksInv'
<1>1. /\ mode' = mode /\ core' = core /\ outcome' = outcome /\ render' = render
      /\ shown' = shown /\ said' = said
  BY DEF ReadNext, taskVars, coreVars
<1>2. /\ stream \in Seq(Voice(mode, Plans)) /\ events \in Seq(Voice(mode, Proposed(mode)))
      /\ ChunksInv
  BY DEF StreamInv, DataInv
<1>3. ASSUME Whole
      PROVE  WordsOf(said) = InOrder(TextOf(shown), Kept,
                                     WordsOf(events'), WordsOf(stream'))
  <2> DEFINE line == Head(stream)
             x == TextOf(shown)
             b == Kept
             e == WordsOf(events)
             t == WordsOf(Tail(stream))
             w == Words(line.text)
  <2>1. /\ line \in Voice(mode, Plans) /\ stream # <<>> /\ stream' = Tail(stream)
        /\ \/ events' = events /\ line.text = <<>>
           \/ \E event \in Voice(mode, Proposed(mode)) :
                 events' = Append(events, event) /\ event.text = line.text
    BY <1>3, ReadLaw DEF Whole, IsEventOf
  <2>2. WordsOf(stream) = w \o t
    BY <1>2, <2>1, WordsOfHead, VoiceTexted
  <2>3. Tail(stream) \in Seq(Voice(mode, Plans))
    BY <1>2, <2>1, HeadAndTail
  <2>4. t \in Text
    BY <2>3, TypesOfTexts, VoiceTexted
  <2>5. x \in Text /\ b \in Text /\ e \in Text
    BY StateTexts, KeptIsText DEF StreamInv
  <2>6. w \in Text
    BY <2>1, WordsLaws, VoiceTexted DEF Texted
  <2>7. WordsOf(events') = e \o w
    <3>1. CASE events' = events /\ line.text = <<>>
      <4>1. w = <<>>
        BY <3>1, WordsLaws
      <4>2. e \o <<>> = e
        BY <2>5, TextConcat
      <4>3. QED
        BY <3>1, <4>1, <4>2
    <3>2. CASE \E event \in Voice(mode, Proposed(mode)) :
                  events' = Append(events, event) /\ event.text = line.text
      BY <1>2, <3>2, WordsOfAppend, VoiceTexted
    <3>3. QED
      BY <2>1, <3>1, <3>2
  <2>8. WordsOf(said) = InOrder(x, b, e, w \o t)
    BY <1>2, <1>3, <2>2 DEF ChunksInv
  <2> HIDE DEF line, x, b, e, t, w
  <2>9. WordsOf(said) = InOrder(x, b, e \o w, t)
    BY <2>4, <2>5, <2>6, <2>8, RegroupMiddle
  <2>10. QED
    BY <2>1, <2>7, <2>9 DEF x, b, t
<1>4. Whole' = Whole /\ Kept' = Kept
  BY <1>1 DEF Whole, Kept
<1>5. QED
  BY <1>1, <1>2, <1>3, <1>4 DEF ChunksInv


LEMMA ChunksReceive ==
    ASSUME StreamInv, Receive, mode = "fallback"
    PROVE  ChunksInv'
<1> DEFINE event == Head(events)
           next == ApplyEvent(render, event)
           new == TodoPart(render, next) \o ProgressPart(next)
<1>1. /\ core = "streaming" /\ events # <<>> /\ events' = Tail(events)
      /\ event \in Voice(mode, Proposed(mode)) /\ next \in Render
      /\ \/ shown' = shown \o new /\ render' = MarkFlushed(next) /\ core' = core
         \/ /\ \E n \in 0 .. Len(new) - 1 : shown' = shown \o SubSeq(new, 1, n)
            /\ core' = "aborted"
  BY ReceiveLaw
<1>2. mode' = mode /\ said' = said /\ stream' = stream /\ outcome' = outcome
  BY DEF Receive, agentVars, taskVars
<1>3. /\ render \in Render /\ shown \in Seq(ShownMessage)
      /\ events \in Seq(Voice(mode, Proposed(mode)))
      /\ Words(render.pending) = <<>>
      /\ ChunksInv
  BY <1>1 DEF StreamInv, DataInv, TypeOK, HasProgressUpdate, Blank
<1>4. CASE shown' = shown \o new /\ render' = MarkFlushed(next) /\ core' = core
  <2> DEFINE x == TextOf(shown)
             b == Words(render.buffered)
             w == Words(event.text)
             e == WordsOf(Tail(events))
             t == WordsOf(stream)
             p == Words(next.pending)
             c == Words(next.buffered)
  <2>1. /\ next.final = None
        /\ Words(next.current) = c
        /\ p \o c = b \o w
    <3>1. render.final = None /\ Words(render.current) = Words(render.buffered)
      BY <1>1, <1>3 DEF ChunksInv
    <3>2. event \in Voice("fallback", Proposed("fallback"))
      BY <1>1
    <3> HIDE DEF event
    <3>3. QED
      BY <1>3, <3>1, <3>2, ReceivedWords
  <2>2. WordsOf(said) = InOrder(x, b, w \o e, t)
    <3>1. WordsOf(events) = w \o e
      BY <1>1, <1>3, WordsOfHead, VoiceTexted
    <3>2. Kept = b
      BY <1>1 DEF Kept
    <3>3. QED
      BY <1>1, <1>3, <3>1, <3>2 DEF ChunksInv, Whole
  <2>3. TextOf(shown') = x \o p
    <3> HIDE DEF next
    <3>1. QED
      BY <1>1, <1>3, <1>4, ShownAfter
  <2>4. x \in Text /\ b \in Text /\ t \in Text
    BY StateTexts DEF StreamInv
  <2>5. e \in Text
    <3>1. Tail(events) \in Seq(Voice(mode, Proposed(mode)))
      BY <1>1, <1>3, HeadAndTail
    <3>2. QED
      BY <3>1, TypesOfTexts, VoiceTexted
  <2>6. w \in Text /\ p \in Text /\ c \in Text
    <3>1. event.text \in Text
      BY <1>1, VoiceTexted DEF Texted
    <3>2. QED
      BY <1>1, <3>1, WordsLaws DEF Render
  <2>7. /\ render'.final = next.final /\ render'.current = next.current
        /\ render'.buffered = next.buffered
    BY <1>1, <1>4 DEF MarkFlushed, Render
  <2>8. WordsOf(said) = InOrder(x \o p, c, e, t)
    <3> HIDE DEF x, b, w, e, t, p, c
    <3> DEFINE et == e \o t
               cet == c \o et
    <3>1. et \in Text /\ cet \in Text
      BY <2>4, <2>5, <2>6, TextConcat
    <3>2. (w \o e) \o t = w \o (e \o t)
      <4>1. w \in Text /\ e \in Text /\ t \in Text
        BY <2>4, <2>5, <2>6
      <4>2. QED
        BY ONLY <4>1, TextAssoc
    <3> HIDE DEF et, cet
    <3>3. b \o (w \o et) = (b \o w) \o et
      <4>1. b \in Text /\ w \in Text /\ et \in Text
        BY <2>4, <2>6, <3>1
      <4>2. QED
        BY ONLY <4>1, TextAssoc
    <3>4. (p \o c) \o et = p \o (c \o et)
      <4>1. p \in Text /\ c \in Text /\ et \in Text
        BY <2>6, <3>1
      <4>2. QED
        BY ONLY <4>1, TextAssoc
    <3>5. (x \o p) \o cet = x \o (p \o cet)
      <4>1. x \in Text /\ p \in Text /\ cet \in Text
        BY <2>4, <2>6, <3>1
      <4>2. QED
        BY ONLY <4>1, TextAssoc
    <3>6. InOrder(x, b, w \o e, t) = x \o (b \o (w \o et))
      BY <3>2, Zenon DEF InOrder, et
    <3>7. InOrder(x \o p, c, e, t) = x \o (p \o (c \o et))
      BY <3>5, Zenon DEF InOrder, et, cet
    <3>8. QED
      BY <2>1, <2>2, <3>3, <3>4, <3>6, <3>7, Zenon
  <2>9. IsPrefix(x \o p, WordsOf(said))
    <3> DEFINE xp == x \o p
               rest == c \o (e \o t)
    <3>1. xp \in Text /\ rest \in Text
      <4> HIDE DEF x, p, c, e, t
      <4>1. QED
        BY <2>4, <2>5, <2>6, TextConcat
    <3>2. WordsOf(said) = xp \o rest
      BY <2>8 DEF InOrder
    <3> HIDE DEF xp, rest
    <3>3. IsPrefix(xp, xp \o rest)
      BY <3>1, PrefixOfConcat
    <3>4. QED
      BY <3>2, <3>3 DEF xp
  <2>10. Kept' = c
    BY <1>1, <1>4, <2>7 DEF Kept
  <2> HIDE DEF x, b, w, e, t, p, c, next
  <2>11. QED
    BY <1>1, <1>2, <1>4, <2>1, <2>3, <2>7, <2>8, <2>9, <2>10 DEF ChunksInv, e, t, p, c
<1>5. CASE /\ \E n \in 0 .. Len(new) - 1 : shown' = shown \o SubSeq(new, 1, n)
           /\ core' = "aborted"
  <2>1. TextOf(shown') = TextOf(shown)
    <3>1. PICK n \in 0 .. Len(new) - 1 : shown' = shown \o SubSeq(new, 1, n)
      BY <1>5
    <3> DEFINE cut == SubSeq(new, 1, n)
    <3> HIDE DEF next
    <3>2. cut \in Seq(ShownMessage) /\ TextOf(cut) = <<>>
      BY <1>1, <1>3, CutShort
    <3> HIDE DEF cut, new
    <3>3. TextOf(shown \o cut) = TextOf(shown) \o TextOf(cut) /\ TextOf(shown) \in Text
      BY <1>3, <3>2, TextOfConcat, VoiceTexted
    <3>4. QED
      BY <3>1, <3>2, <3>3, TextConcat DEF cut
  <2>2. ~Whole' /\ core' # "streaming" /\ core' # "done"
    BY <1>5 DEF Whole
  <2>3. QED
    BY <1>2, <1>3, <2>1, <2>2 DEF ChunksInv
<1>6. QED
  BY <1>1, <1>4, <1>5


LEMMA ConcludeLaw ==
    ASSUME StreamInv, Conclude
    PROVE  /\ core = "streaming" /\ events = <<>> /\ render \in Render /\ shown \in Seq(ShownMessage)
           /\ mode' = mode /\ said' = said /\ stream' = stream /\ events' = events
           /\ outcome' = outcome
           /\ outcome = "ok" => stream = <<>> /\ render' = Finalize(render)
           /\ outcome # "ok" => render' = Fail(render)
           /\ \/ /\ shown' = Append(shown, FinalMessage(render'))
                 /\ core' = "done"
              \/ /\ shown' = shown
                 /\ core' = IF outcome = "ok" THEN "aborted" ELSE "done"
<1>1. /\ core = "streaming" /\ events = <<>> /\ task = "ended"
      /\ mode' = mode /\ said' = said /\ stream' = stream /\ events' = events
      /\ outcome' = outcome
  BY DEF Conclude, agentVars, taskVars
<1>2. outcome = "ok" => stream = <<>>
  BY <1>1 DEF StreamInv, ControlInv
<1>3. /\ outcome = "ok" => render' = Finalize(render)
      /\ outcome # "ok" => render' = Fail(render)
      /\ \/ /\ shown' = Append(shown, FinalMessage(render'))
            /\ core' = "done"
         \/ /\ shown' = shown
            /\ core' = IF outcome = "ok" THEN "aborted" ELSE "done"
  BY DEF Conclude
<1>4. render \in Render /\ shown \in Seq(ShownMessage)
  BY DEF StreamInv, DataInv
<1>5. QED
  BY <1>1, <1>2, <1>3, <1>4

LEMMA ChunksConclude ==
    ASSUME StreamInv, Conclude, mode = "fallback"
    PROVE  ChunksInv'
<1>1. /\ core = "streaming" /\ events = <<>> /\ render \in Render /\ shown \in Seq(ShownMessage)
      /\ mode' = mode /\ said' = said /\ stream' = stream /\ events' = events
      /\ outcome' = outcome
      /\ outcome = "ok" => stream = <<>> /\ render' = Finalize(render)
      /\ outcome # "ok" => render' = Fail(render)
      /\ \/ /\ shown' = Append(shown, FinalMessage(render'))
            /\ core' = "done"
         \/ /\ shown' = shown
            /\ core' = IF outcome = "ok" THEN "aborted" ELSE "done"
  BY ConcludeLaw
<1>2. /\ ChunksInv /\ Whole /\ render.final = None
      /\ Words(render.current) = Words(render.buffered)
  BY <1>1 DEF StreamInv, ChunksInv, Whole
<1> DEFINE x == TextOf(shown)
           b == Words(render.buffered)
<1>3. x \in Text /\ b \in Text
  BY StateTexts DEF StreamInv
<1>4. CASE outcome # "ok"
  <2>1. TextOf(shown') = x
    <3>1. CASE shown' = shown
      BY <3>1
    <3>2. CASE shown' = Append(shown, FinalMessage(render'))
      <4>1. FinalMessage(render') \in ShownMessage /\ FinalMessage(render').text = <<>>
        BY <1>1, <1>4, FinalLaw
      <4>2. TextOf(shown') = x \o <<>>
        BY <1>1, <3>2, <4>1, TextOfAppend, VoiceTexted
      <4>3. QED
        BY <1>3, <4>2, TextConcat
    <3>3. QED
      BY <1>1, <3>1, <3>2
  <2>2. ~Whole' /\ core' = "done" /\ outcome' # "ok"
    BY <1>1, <1>4 DEF Whole
  <2>3. QED
    BY <1>1, <1>2, <2>1, <2>2 DEF ChunksInv
<1>5. CASE outcome = "ok"
  <2>1. WordsOf(said) = x \o b
    <3>1. WordsOf(said) = InOrder(x, b, <<>>, <<>>)
      BY <1>1, <1>2, <1>5, OfNothing DEF ChunksInv, Kept
    <3> HIDE DEF x, b
    <3>2. QED
      BY <1>3, <3>1, TextConcat DEF InOrder
  <2>2. CASE shown' = shown /\ core' = "aborted"
    BY <1>1, <1>2, <2>2 DEF ChunksInv, Whole
  <2>3. CASE shown' = Append(shown, FinalMessage(render')) /\ core' = "done"
    <3> DEFINE a == Words(Shorten(render'.final.text))
               c == Words(CutOff(render'.final.text))
    <3>1. /\ FinalMessage(render') \in ShownMessage
          /\ FinalMessage(render').text = a
          /\ render'.final = IF ~Blank(render.current) THEN Some(render.current) ELSE None
          /\ render'.final.text \in Text
      BY <1>1, <1>2, <1>5, FinalLaw
    <3>2. Words(render'.final.text) = b
      <4>1. Words(None.text) = <<>>
        BY WordsLaws DEF None
      <4>2. Words(Some(render.current).text) = b
        BY <1>2 DEF Some
      <4>3. Blank(render.current) => b = <<>>
        BY <1>2 DEF Blank
      <4>4. QED
        BY <3>1, <4>1, <4>2, <4>3
    <3>3. a \in Text /\ c \in Text /\ b = a \o c
      BY <3>1, <3>2, CutLaw, WordsLaws
    <3>4. TextOf(shown') = x \o a
      BY <1>1, <2>3, <3>1, TextOfAppend, VoiceTexted
    <3>5. Kept' = c /\ WordsOf(events') = <<>> /\ WordsOf(stream') = <<>>
      BY <1>1, <1>5, <2>3, OfNothing DEF Kept
    <3> HIDE DEF x, b, a, c
    <3>6. x \o (a \o c) = (x \o a) \o c /\ x \o a \in Text
      BY <1>3, <3>3, TextConcat
    <3>7. IsPrefix(x \o a, (x \o a) \o c)
      <4> DEFINE xa == x \o a
      <4>1. xa \in Text
        BY <3>6
      <4> HIDE DEF xa
      <4>2. IsPrefix(xa, xa \o c)
        BY <3>3, <4>1, PrefixOfConcat
      <4>3. QED
        BY <4>2 DEF xa
    <3>8. InOrder(x \o a, c, <<>>, <<>>) = (x \o a) \o c
      BY <3>3, TextConcat DEF InOrder
    <3>9. WordsOf(said') = InOrder(TextOf(shown'), Kept', WordsOf(events'), WordsOf(stream'))
      BY <1>1, <2>1, <3>3, <3>4, <3>5, <3>6, <3>8
    <3>10. IsPrefix(TextOf(shown'), WordsOf(said'))
      BY <1>1, <2>1, <3>3, <3>4, <3>6, <3>7
    <3>11. QED
      BY <1>1, <2>3, <3>9, <3>10 DEF ChunksInv
  <2>4. QED
    BY <1>1, <1>5, <2>2, <2>3
<1>6. QED
  BY <1>4, <1>5

LEMMA ChunksStep ==
    ASSUME StreamInv, [Next]_vars
    PROVE  ChunksInv'
<1>1. mode' = mode
  BY StepsByKind DEF Say, ReadNext, Receive, Conclude, Quiet, agentVars
<1>2. CASE Quiet
  BY <1>2 DEF Quiet, StreamInv, ChunksInv, Whole, Kept
<1>3. CASE mode # "fallback"
  BY <1>1, <1>3 DEF ChunksInv
<1>4. QED
  BY <1>2, <1>3, StepsByKind, ChunksSay, ChunksRead, ChunksReceive, ChunksConclude


-----------------------------------------------------------------------------
(* Answers                                                                 *)

LEMMA LastInMember ==
    ASSUME NEW s, Len(s) \in Nat, NEW S, NEW d
    PROVE  LastIn(s, S, d) \in S \cup {d}
<1>1. IsLastIn(s, S, d, LastIn(s, S, d))
  BY LastInIs
<1>2. QED
  BY <1>1 DEF IsLastIn, Places

LEMMA AnswerSay ==
    ASSUME StreamInv, Say, mode = "exec_json"
    PROVE  AnswerInv'
<1>1. PICK line \in Voice(mode, Plans) :
              said' = Append(said, line) /\ stream' = Append(stream, line)
  BY SayLaw
<1>2. /\ mode' = mode /\ core' = core /\ outcome' = outcome /\ render' = render
      /\ shown' = shown /\ events' = events
  BY DEF Say, taskVars, coreVars
<1>3. /\ said \in Seq(Voice(mode, Plans)) /\ stream \in Seq(Voice(mode, Plans)) /\ AnswerInv
  BY DEF StreamInv, DataInv
<1> DEFINE d == LastIn(events, Answers, Answer)
<1>4. LastIn(said', Answers, NoMessage) =
         IF line \in Answers THEN line ELSE LastIn(said, Answers, NoMessage)
  BY <1>1, <1>3, LastInAppend
<1>5. LastIn(stream', Answers, d) =
         IF line \in Answers THEN line ELSE LastIn(stream, Answers, d)
  <2> HIDE DEF d
  <2>1. QED
    BY <1>1, <1>3, LastInAppend
<1>6. Whole' = Whole /\ Answer' = Answer
  BY <1>2 DEF Whole, Answer
<1>7. QED
  BY <1>2, <1>3, <1>4, <1>5, <1>6 DEF AnswerInv

LEMMA AnswerRead ==
    ASSUME StreamInv, ReadNext, mode = "exec_json"
    PROVE  AnswerInv'
<1>1. /\ mode' = mode /\ core' = core /\ outcome' = outcome /\ render' = render
      /\ shown' = shown /\ said' = said
  BY DEF ReadNext, taskVars, coreVars
<1>2. /\ stream \in Seq(Voice(mode, Plans)) /\ events \in Seq(Voice(mode, Proposed(mode)))
      /\ AnswerInv
  BY DEF StreamInv, DataInv
<1>3. ASSUME Whole
      PROVE  LastIn(said, Answers, NoMessage) =
                LastIn(stream', Answers, LastIn(events', Answers, Answer))
  <2> DEFINE line == Head(stream)
             d == LastIn(events, Answers, Answer)
  <2>1. /\ stream # <<>> /\ stream' = Tail(stream)
        /\ \/ events' = events /\ line \notin Answers
           \/ \E event \in Voice(mode, Proposed(mode)) :
                 /\ events' = Append(events, event)
                 /\ line \in Answers => event = line
                 /\ event \in Answers => event = line
    BY <1>3, ReadLaw DEF Whole, IsEventOf
  <2>2. LastIn(events', Answers, Answer) = IF line \in Answers THEN line ELSE d
    <3> HIDE DEF line
    <3>1. CASE events' = events /\ line \notin Answers
      BY <3>1
    <3>2. CASE \E event \in Voice(mode, Proposed(mode)) :
                 /\ events' = Append(events, event)
                 /\ line \in Answers => event = line
                 /\ event \in Answers => event = line
      <4>1. PICK event \in Voice(mode, Proposed(mode)) :
                 /\ events' = Append(events, event)
                 /\ line \in Answers => event = line
                 /\ event \in Answers => event = line
        BY <3>2
      <4>2. LastIn(events', Answers, Answer) = IF event \in Answers THEN event ELSE d
        BY <1>2, <4>1, LastInAppend
      <4>3. QED
        BY <4>1, <4>2
    <3>3. QED
      BY <2>1, <3>1, <3>2
  <2>3. LastIn(stream, Answers, d) =
           LastIn(Tail(stream), Answers, IF line \in Answers THEN line ELSE d)
    <3> HIDE DEF d
    <3>1. QED
      BY <1>2, <2>1, LastInHead
  <2>4. LastIn(said, Answers, NoMessage) = LastIn(stream, Answers, d)
    BY <1>2, <1>3 DEF AnswerInv
  <2>5. QED
    BY <2>1, <2>2, <2>3, <2>4
<1>4. Whole' = Whole /\ Answer' = Answer
  BY <1>1 DEF Whole, Answer
<1>5. QED
  BY <1>1, <1>2, <1>3, <1>4 DEF AnswerInv

LEMMA AnswerReceive ==
    ASSUME StreamInv, Receive, mode = "exec_json"
    PROVE  AnswerInv'
<1> DEFINE event == Head(events)
           next == ApplyEvent(render, event)
           new == TodoPart(render, next) \o ProgressPart(next)
<1>1. /\ core = "streaming" /\ events # <<>> /\ events' = Tail(events)
      /\ event \in Voice(mode, Proposed(mode)) /\ next \in Render
      /\ \/ shown' = shown \o new /\ render' = MarkFlushed(next) /\ core' = core
         \/ /\ \E n \in 0 .. Len(new) - 1 : shown' = shown \o SubSeq(new, 1, n)
            /\ core' = "aborted"
  BY ReceiveLaw
<1>2. mode' = mode /\ said' = said /\ stream' = stream /\ outcome' = outcome
  BY DEF Receive, agentVars, taskVars
<1>3. /\ render \in Render /\ shown \in Seq(ShownMessage)
      /\ events \in Seq(Voice(mode, Proposed(mode)))
      /\ Words(render.pending) = <<>>
      /\ AnswerInv
  BY <1>1 DEF StreamInv, DataInv, TypeOK, HasProgressUpdate, Blank
<1>4. CASE shown' = shown \o new /\ render' = MarkFlushed(next) /\ core' = core
  <2>1. /\ render.buffered = <<>> /\ (render.final = None => render.current = <<>>)
        /\ TextOf(shown) = <<>>
        /\ LastIn(said, Answers, NoMessage) =
              LastIn(stream, Answers, LastIn(events, Answers, Answer))
    BY <1>1, <1>3 DEF AnswerInv, Whole
  <2>2. event.kind # "chunk" /\ (event.kind = "message" <=> event \in Answers)
        /\ (event.kind = "message" => event.plan = <<>>)
    BY <1>1 DEF Voice, Answers
  <2>3. /\ next.final = IF event.kind = "message" THEN Some(event.text) ELSE render.final
        /\ next.buffered = <<>>
        /\ next.current = IF event.kind = "message" THEN event.text
                          ELSE IF event.kind = "tool" /\ ~Blank(render.current) THEN <<>>
                          ELSE render.current
        /\ next.pending = render.pending
    <3>1. Blank(render.buffered)
      BY <2>1, WordsLaws DEF Blank
    <3> HIDE DEF event
    <3>2. QED
      BY <1>1, <1>3, <2>1, <2>2, <3>1, ApplyEventLaw
  <2> HIDE DEF next
  <2>4. TextOf(shown') = <<>>
    <3>1. TextOf(shown') = TextOf(shown) \o Words(next.pending)
      BY <1>1, <1>3, <1>4, ShownAfter
    <3>2. QED
      BY <1>3, <2>1, <2>3, <3>1, TextConcat
  <2>5. /\ render'.final = next.final /\ render'.current = next.current
        /\ render'.buffered = next.buffered
    BY <1>1, <1>4 DEF MarkFlushed, Render
  <2>6. Answer' = IF event \in Answers THEN event ELSE Answer
    <3>1. CASE event \in Answers
      <4>1. event = Message(event.text)
        BY <3>1 DEF Answers, Message
      <4>2. render'.final = Some(event.text) /\ render'.final # None
        BY <2>2, <2>3, <2>5, <3>1 DEF Some, None
      <4>3. Message(render'.final.text) = Message(event.text)
        BY <4>2 DEF Some
      <4>4. QED
        BY <3>1, <4>1, <4>2, <4>3 DEF Answer
    <3>2. CASE event \notin Answers
      BY <2>2, <2>3, <2>5, <3>2 DEF Answer
    <3>3. QED
      BY <3>1, <3>2
  <2>7. LastIn(events, Answers, Answer) = LastIn(events', Answers, Answer')
    <3>1. LastIn(events, Answers, Answer) =
             LastIn(Tail(events), Answers, IF event \in Answers THEN event ELSE Answer)
      BY <1>1, <1>3, LastInHead
    <3>2. QED
      BY <1>1, <2>6, <3>1
  <2>8. render'.buffered = <<>> /\ (render'.final = None => render'.current = <<>>)
    BY <2>1, <2>3, <2>5 DEF Some, None
  <2>9. QED
    BY <1>1, <1>2, <1>4, <2>1, <2>4, <2>7, <2>8 DEF AnswerInv
<1>5. CASE core' = "aborted"
  BY <1>5 DEF AnswerInv, Whole
<1>6. QED
  BY <1>1, <1>4, <1>5

LEMMA AnswerConclude ==
    ASSUME StreamInv, Conclude, mode = "exec_json"
    PROVE  AnswerInv'
<1>1. /\ core = "streaming" /\ events = <<>> /\ render \in Render /\ shown \in Seq(ShownMessage)
      /\ mode' = mode /\ said' = said /\ stream' = stream /\ events' = events
      /\ outcome' = outcome
      /\ outcome = "ok" => stream = <<>> /\ render' = Finalize(render)
      /\ \/ /\ shown' = Append(shown, FinalMessage(render'))
            /\ core' = "done"
         \/ core' = IF outcome = "ok" THEN "aborted" ELSE "done"
  BY ConcludeLaw
<1>2. CASE outcome = "ok" /\ core' = "done"
  <2>1. /\ (render.final = None => render.current = <<>>)
        /\ TextOf(shown) = <<>>
        /\ LastIn(said, Answers, NoMessage) =
              LastIn(stream, Answers, LastIn(events, Answers, Answer))
    BY <1>1 DEF AnswerInv, Whole, StreamInv
  <2>2. LastIn(said, Answers, NoMessage) = Answer
    BY <1>1, <1>2, <2>1, LastInEmpty
  <2>3. Words(Answer.text) = Answer.text
    <3>1. Len(said) \in Nat
      BY DEF StreamInv, DataInv
    <3>2. Answer \in Answers \cup {NoMessage}
      BY <2>2, <3>1, LastInMember
    <3>3. QED
      BY <3>2, WordsLaws DEF Answers, NoMessage, Message
  <2>4. render'.final = render.final
    <3>1. render.final = None => Blank(render.current)
      BY <2>1, WordsLaws DEF Blank
    <3>2. render'.final = IF render.final = None /\ ~Blank(render.current)
                            THEN Some(render.current) ELSE render.final
      BY <1>1, <1>2, FinalLaw
    <3>3. QED
      BY <3>1, <3>2
  <2>5. Answer' = Answer
    BY <2>4 DEF Answer
  <2>6. /\ FinalMessage(render') \in ShownMessage
        /\ FinalMessage(render').text = Words(Shorten(render'.final.text))
        /\ render'.final.text \in Text
    BY <1>1, <1>2, FinalLaw
  <2>7. Words(render'.final.text) = Answer.text
    <3>1. CASE render.final = None
      <4>1. Answer.text = <<>> /\ render.final.text = <<>>
        BY <3>1 DEF Answer, NoMessage, Message, None
      <4>2. QED
        BY <2>4, <4>1, WordsLaws
    <3>2. CASE render.final # None
      <4>1. Answer.text = render.final.text
        BY <3>2 DEF Answer, Message
      <4>2. QED
        BY <2>3, <2>4, <4>1
    <3>3. QED
      BY <3>1, <3>2
  <2>8. shown' = Append(shown, FinalMessage(render'))
    BY <1>1, <1>2
  <2>9. TextOf(shown') = TextOf(shown) \o FinalMessage(render').text
    BY <1>1, <2>6, <2>8, TextOfAppend, VoiceTexted
  <2>10. FinalMessage(render').text \in Text
    BY <2>6, VoiceTexted DEF Texted
  <2>11. TextOf(shown') \o Words(CutOff(render'.final.text)) = Answer.text
    <3>1. TextOf(shown') = Words(Shorten(render'.final.text))
      BY <2>1, <2>6, <2>9, <2>10, TextConcat
    <3>2. QED
      BY <2>6, <2>7, <3>1, CutLaw
  <2>12. QED
    BY <1>1, <1>2, <2>1, <2>5, <2>11 DEF AnswerInv
<1>3. CASE ~(outcome = "ok" /\ core' = "done")
  BY <1>1, <1>3 DEF AnswerInv, Whole
<1>4. QED
  BY <1>2, <1>3

LEMMA AnswerStep ==
    ASSUME StreamInv, [Next]_vars
    PROVE  AnswerInv'
<1>1. mode' = mode
  BY StepsByKind DEF Say, ReadNext, Receive, Conclude, Quiet, agentVars
<1>2. CASE Quiet
  BY <1>2 DEF Quiet, StreamInv, AnswerInv, Whole, Answer
<1>3. CASE mode # "exec_json"
  BY <1>1, <1>3 DEF AnswerInv
<1>4. QED
  BY <1>2, <1>3, StepsByKind, AnswerSay, AnswerRead, AnswerReceive, AnswerConclude


-----------------------------------------------------------------------------
(* Plans                                                                   *)

LEMMA HasAppend ==
    ASSUME NEW E, NEW s \in Seq(E), NEW e \in E, NEW x
    PROVE  Has(Append(s, e), x) <=> Has(s, x) \/ e = x
<1>1. /\ Len(Append(s, e)) = Len(s) + 1 /\ Len(s) \in Nat /\ Append(s, e)[Len(s) + 1] = e
      /\ \A i \in 1 .. Len(s) : Append(s, e)[i] = s[i]
  OBVIOUS
<1> DEFINE t == Append(s, e)
<1> HIDE DEF t
<1>2. Has(t, x) <=> Has(s, x) \/ e = x
  BY <1>1 DEF Has, t
<1>3. QED
  BY <1>2 DEF t

LEMMA HasHead ==
    ASSUME NEW E, NEW s \in Seq(E), s # <<>>, NEW x
    PROVE  Has(s, x) <=> Head(s) = x \/ Has(Tail(s), x)
<1> DEFINE t == Tail(s)
<1>1. /\ Len(s) = Len(t) + 1 /\ Len(t) \in Nat /\ s[1] = Head(s)
      /\ \A i \in 1 .. Len(t) : s[i + 1] = t[i]
  OBVIOUS
<1> HIDE DEF t
<1>2. ASSUME Has(s, x) PROVE Head(s) = x \/ Has(t, x)
  <2>1. PICK i \in 1 .. Len(s) : s[i] = x
    BY <1>2 DEF Has
  <2>2. CASE i = 1
    BY <1>1, <2>1, <2>2
  <2>3. CASE i # 1
    <3>1. i - 1 \in 1 .. Len(t) /\ (i - 1) + 1 = i
      BY <1>1, <2>3
    <3>2. t[i - 1] = x
      BY <1>1, <2>1, <3>1
    <3>3. QED
      BY <3>1, <3>2 DEF Has
  <2>4. QED
    BY <2>2, <2>3
<1>3. ASSUME Has(t, x) PROVE Has(s, x)
  <2>1. PICK i \in 1 .. Len(t) : t[i] = x
    BY <1>3 DEF Has
  <2>2. i + 1 \in 1 .. Len(s) /\ s[i + 1] = x
    BY <1>1, <2>1
  <2>3. QED
    BY <2>2 DEF Has
<1>4. Head(s) = x => Has(s, x)
  BY <1>1 DEF Has
<1>5. QED
  BY <1>2, <1>3, <1>4 DEF t

\* The events that carry a plan are the proposals.
LEMMA PlanEvents ==
    ASSUME NEW m, NEW event \in Voice(m, Proposed(m))
    PROVE  /\ event \in Proposals(m) <=> event.kind = "plan"
           /\ event.kind = "plan" => event = Plan(event.plan)
           /\ event \in NewPlans => event.kind = "plan" /\ event.plan # <<>>
  BY DEF Voice, Answers, Proposals, NewPlans, Plan

LEMMA PlanOf ==
    ASSUME NEW m, NEW plan
    PROVE  /\ Plan(plan) \in Proposals(m) <=> plan \in Proposed(m)
           /\ Plan(plan).plan = plan
           /\ Other \notin Proposals(m)
<1>1. \A p, q : Plan(p) = Plan(q) <=> p = q
  BY DEF Plan
<1>2. Plan(plan) \in Proposals(m) <=> plan \in Proposed(m)
  BY <1>1 DEF Proposals
<1>3. QED
  BY <1>2 DEF Plan, Other, Proposals

LEMMA PlanSay ==
    ASSUME StreamInv, Say
    PROVE  PlanInv'
<1>1. PICK line \in Voice(mode, Plans) :
              said' = Append(said, line) /\ stream' = Append(stream, line)
  BY SayLaw
<1>2. /\ mode' = mode /\ core' = core /\ outcome' = outcome /\ render' = render
      /\ shown' = shown /\ events' = events
  BY DEF Say, taskVars, coreVars
<1>3. /\ said \in Seq(Voice(mode, Plans)) /\ stream \in Seq(Voice(mode, Plans)) /\ PlanInv
  BY DEF StreamInv, DataInv
<1> DEFINE V == Voice(mode, PlanValue)
           P == Proposals(mode)
           d == LastIn(events, P, Plan(render.todo))
           a == Told(mode, said)
           b == Told(mode, stream)
           e == Tell(mode, line)
<1>4. a \in Seq(V) /\ b \in Seq(V) /\ e \in V
  BY <1>3, ToldType, TellType
<1>5. Told(mode, said') = Append(a, e) /\ Told(mode, stream') = Append(b, e)
  BY <1>1, <1>3, ToldAppend
<1>6. Whole' = Whole
  BY <1>2 DEF Whole
<1> SUFFICES ASSUME Whole PROVE PlanInv'
  BY <1>6 DEF PlanInv
<1>7. /\ LastIn(a, P, Plan(<<>>)) = LastIn(b, P, d)
      /\ LastIn(shown, Todos, NoTodo).plan = OrderedTodos(render.todo)
      /\ Places(shown, Todos) = {} =>
            /\ render.todo = <<>>
            /\ \A new \in NewPlans : Has(a, new) => Has(events, new) \/ Has(b, new)
  BY <1>3 DEF PlanInv
<1> HIDE DEF V, P, d, a, b, e
<1>8. LastIn(Append(a, e), P, Plan(<<>>)) = LastIn(Append(b, e), P, d)
  BY <1>4, <1>7, LastInAppend
<1>9. ASSUME NEW new PROVE /\ Has(Append(a, e), new) <=> Has(a, new) \/ e = new
                           /\ Has(Append(b, e), new) <=> Has(b, new) \/ e = new
  BY <1>4, HasAppend
<1>10. QED
  BY <1>2, <1>5, <1>7, <1>8, <1>9 DEF PlanInv, P, d

LEMMA PlanRead ==
    ASSUME StreamInv, ReadNext
    PROVE  PlanInv'
<1>1. /\ mode' = mode /\ core' = core /\ outcome' = outcome /\ render' = render
      /\ shown' = shown /\ said' = said
  BY DEF ReadNext, taskVars, coreVars
<1>2. /\ stream \in Seq(Voice(mode, Plans)) /\ events \in Seq(Voice(mode, Proposed(mode)))
      /\ PlanInv
  BY DEF StreamInv, DataInv
<1>3. Whole' = Whole
  BY <1>1 DEF Whole
<1> SUFFICES ASSUME Whole PROVE PlanInv'
  BY <1>3 DEF PlanInv
<1> DEFINE line == Head(stream)
           V == Voice(mode, PlanValue)
           W == Voice(mode, Proposed(mode))
           P == Proposals(mode)
           d == LastIn(events, P, Plan(render.todo))
           a == Told(mode, said)
           b == Told(mode, stream)
           c == Told(mode, Tail(stream))
           e == Tell(mode, line)
<1>4. /\ line \in Voice(mode, Plans) /\ stream # <<>> /\ stream' = Tail(stream)
      /\ \/ events' = events /\ e \notin P \cup NewPlans
         \/ \E event \in W :
               events' = Append(events, event) /\ IsEventOf(mode, line, event)
  BY ReadLaw DEF Whole
<1>5. b # <<>> /\ Head(b) = e /\ Tail(b) = c /\ b \in Seq(V)
  BY <1>2, <1>4, ToldHead, ToldType
<1>6. /\ LastIn(a, P, Plan(<<>>)) = LastIn(b, P, d)
      /\ LastIn(shown, Todos, NoTodo).plan = OrderedTodos(render.todo)
      /\ Places(shown, Todos) = {} =>
            /\ render.todo = <<>>
            /\ \A new \in NewPlans : Has(a, new) => Has(events, new) \/ Has(b, new)
  BY <1>2 DEF PlanInv
<1>7. /\ LastIn(events', P, Plan(render.todo)) = IF e \in P THEN e ELSE d
      /\ \A new \in NewPlans : Has(events, new) \/ e = new => Has(events', new)
  <2>1. CASE events' = events /\ e \notin P \cup NewPlans
    BY <2>1
  <2>2. CASE \E event \in W :
                events' = Append(events, event) /\ IsEventOf(mode, line, event)
    <3>1. PICK event \in W : events' = Append(events, event) /\ IsEventOf(mode, line, event)
      BY <2>2
    <3>2. /\ event \in P <=> event.kind = "plan"
          /\ event \in NewPlans => event.kind = "plan"
      BY PlanEvents
    <3>3. (line.kind = "plan" /\ event = e /\ event \in P)
          \/ (line.kind # "plan" /\ e = Other /\ event \notin P)
      BY <3>1, <3>2 DEF IsEventOf, Tell, Plan
    <3>4. Other \notin P \cup NewPlans
      BY DEF Other, Proposals, NewPlans, Plan
    <3> HIDE DEF line, V, P, d, e
    <3>5. LastIn(events', P, Plan(render.todo)) = IF event \in P THEN event ELSE d
      <4>1. events \in Seq(W)
        BY <1>2
      <4> HIDE DEF W
      <4>2. QED
        BY <3>1, <4>1, LastInAppend DEF d
    <3>6. ASSUME NEW new PROVE Has(events', new) <=> Has(events, new) \/ event = new
      <4>1. events \in Seq(W)
        BY <1>2
      <4> HIDE DEF W
      <4>2. QED
        BY <3>1, <4>1, HasAppend
    <3>7. LastIn(events', P, Plan(render.todo)) = IF e \in P THEN e ELSE d
      BY <3>3, <3>4, <3>5
    <3>8. \A new \in NewPlans : Has(events, new) \/ e = new => Has(events', new)
      BY <3>3, <3>4, <3>6
    <3>9. QED
      BY <3>7, <3>8
  <2>3. QED
    BY <1>4, <2>1, <2>2
<1> HIDE DEF line, V, W, P, d, a, b, c, e
<1>8. LastIn(b, P, d) = LastIn(c, P, IF e \in P THEN e ELSE d)
  BY <1>5, LastInHead
<1>9. ASSUME NEW new PROVE Has(b, new) <=> e = new \/ Has(c, new)
  BY <1>5, HasHead
<1>10. /\ LastIn(a, P, Plan(<<>>)) = LastIn(c, P, LastIn(events', P, Plan(render.todo)))
       /\ Places(shown, Todos) = {} =>
            \A new \in NewPlans : Has(a, new) => Has(events', new) \/ Has(c, new)
  BY <1>6, <1>7, <1>8, <1>9
<1>11. QED
  BY <1>1, <1>4, <1>6, <1>10 DEF PlanInv, P, a, c


LEMMA PlanReceive ==
    ASSUME StreamInv, Receive
    PROVE  PlanInv'
<1> DEFINE event == Head(events)
           next == ApplyEvent(render, event)
           new == TodoPart(render, next) \o ProgressPart(next)
<1>1. /\ core = "streaming" /\ events # <<>> /\ events' = Tail(events)
      /\ event \in Voice(mode, Proposed(mode)) /\ next \in Render
      /\ \/ shown' = shown \o new /\ render' = MarkFlushed(next) /\ core' = core
         \/ /\ \E n \in 0 .. Len(new) - 1 : shown' = shown \o SubSeq(new, 1, n)
            /\ core' = "aborted"
  BY ReceiveLaw
<1>2. mode' = mode /\ said' = said /\ stream' = stream /\ outcome' = outcome
  BY DEF Receive, agentVars, taskVars
<1>3. /\ render \in Render /\ shown \in Seq(ShownMessage)
      /\ events \in Seq(Voice(mode, Proposed(mode)))
      /\ PlanInv /\ Whole
  BY <1>1 DEF StreamInv, DataInv, Whole
<1>4. CASE shown' = shown \o new /\ render' = MarkFlushed(next) /\ core' = core
  <2> DEFINE P == Proposals(mode)
             W == Voice(mode, Proposed(mode))
             rest == Tail(events)
             a == Told(mode, said)
             b == Told(mode, stream)
             d == Plan(render.todo)
  <2>1. /\ LastIn(a, P, Plan(<<>>)) = LastIn(b, P, LastIn(events, P, d))
        /\ LastIn(shown, Todos, NoTodo).plan = OrderedTodos(render.todo)
        /\ Places(shown, Todos) = {} =>
              /\ render.todo = <<>>
              /\ \A plan \in NewPlans : Has(a, plan) => Has(events, plan) \/ Has(b, plan)
    BY <1>3 DEF PlanInv
  <2>2. /\ event \in P <=> event.kind = "plan"
        /\ event.kind = "plan" => event = Plan(event.plan)
        /\ event \in NewPlans => event.kind = "plan" /\ event.plan # <<>>
    BY <1>1, PlanEvents
  <2>3. next.todo = IF event.kind = "plan" THEN event.plan ELSE render.todo
    <3> HIDE DEF event
    <3>1. QED
      BY <1>1, <1>3, ApplyEventLaw
  <2>4. render'.todo = next.todo
    BY <1>1, <1>4 DEF MarkFlushed, Render
  <2>5. LastIn(events, P, d) = LastIn(events', P, Plan(render'.todo))
    <3>1. LastIn(events, P, d) = LastIn(rest, P, IF event \in P THEN event ELSE d)
      <4>1. events \in Seq(W)
        BY <1>3
      <4> HIDE DEF W, P, d
      <4>2. QED
        BY <1>1, <4>1, LastInHead
    <3>2. Plan(render'.todo) = IF event \in P THEN event ELSE d
      BY <2>2, <2>3, <2>4
    <3>3. QED
      BY <1>1, <3>1, <3>2
  <2>6. /\ LastIn(shown', Todos, NoTodo) = IF next.todo # render.todo THEN TodoMessage(next)
                                           ELSE LastIn(shown, Todos, NoTodo)
        /\ Places(shown', Todos) = {} => Places(shown, Todos) = {} /\ next.todo = render.todo
    <3> HIDE DEF next
    <3>1. QED
      BY <1>1, <1>3, <1>4, ShownAfter
  <2>7. LastIn(shown', Todos, NoTodo).plan = OrderedTodos(render'.todo)
    <3>1. TodoMessage(next).plan = OrderedTodos(next.todo)
      BY DEF TodoMessage, Shown
    <3> HIDE DEF next
    <3>2. QED
      BY <2>1, <2>4, <2>6, <3>1
  <2>8. ASSUME Places(shown', Todos) = {}
        PROVE  /\ render'.todo = <<>>
               /\ \A plan \in NewPlans : Has(a, plan) => Has(events', plan) \/ Has(b, plan)
    <3>1. render.todo = <<>> /\ next.todo = <<>>
      BY <2>1, <2>6, <2>8
    <3>2. event \notin NewPlans
      BY <2>2, <2>3, <3>1
    <3>3. ASSUME NEW plan PROVE Has(events, plan) <=> event = plan \/ Has(rest, plan)
      <4>1. events \in Seq(W)
        BY <1>3
      <4> HIDE DEF W
      <4>2. QED
        BY <1>1, <4>1, HasHead
    <3> HIDE DEF event, next, a, b, rest
    <3>4. \A plan \in NewPlans : Has(a, plan) => Has(rest, plan) \/ Has(b, plan)
      BY <2>1, <2>6, <2>8, <3>2, <3>3
    <3>5. QED
      BY <1>1, <2>4, <3>1, <3>4 DEF rest
  <2>9. QED
    BY <1>2, <2>1, <2>5, <2>7, <2>8 DEF PlanInv
<1>5. CASE core' = "aborted"
  BY <1>5 DEF PlanInv, Whole
<1>6. QED
  BY <1>1, <1>4, <1>5

LEMMA PlanConclude ==
    ASSUME StreamInv, Conclude
    PROVE  PlanInv'
<1>1. /\ core = "streaming" /\ events = <<>> /\ render \in Render /\ shown \in Seq(ShownMessage)
      /\ mode' = mode /\ said' = said /\ stream' = stream /\ events' = events
      /\ outcome' = outcome
      /\ outcome = "ok" => stream = <<>> /\ render' = Finalize(render)
      /\ \/ /\ shown' = Append(shown, FinalMessage(render'))
            /\ core' = "done"
         \/ core' = IF outcome = "ok" THEN "aborted" ELSE "done"
  BY ConcludeLaw
<1>2. CASE outcome = "ok" /\ core' = "done"
  <2> DEFINE final == FinalMessage(render')
  <2>1. shown' = Append(shown, final) /\ final \in ShownMessage /\ final \notin Todos
        /\ render'.todo = render.todo
    BY <1>1, <1>2, FinalLaw
  <2> HIDE DEF final
  <2>2. LastIn(shown', Todos, NoTodo) = LastIn(shown, Todos, NoTodo)
    BY <1>1, <2>1, LastInAppend
  <2>3. Places(shown', Todos) = {} => Places(shown, Todos) = {}
    <3>1. Len(shown') = Len(shown) + 1 /\ Len(shown) \in Nat
          /\ \A i \in 1 .. Len(shown) : shown'[i] = shown[i]
      BY <1>1, <2>1
    <3>2. QED
      BY <3>1 DEF Places
  <2>4. PlanInv /\ Whole
    BY <1>1 DEF StreamInv, Whole
  <2>5. QED
    BY <1>1, <2>1, <2>2, <2>3, <2>4 DEF PlanInv
<1>3. CASE ~(outcome = "ok" /\ core' = "done")
  BY <1>1, <1>3 DEF PlanInv, Whole
<1>4. QED
  BY <1>2, <1>3

LEMMA PlanStep ==
    ASSUME StreamInv, [Next]_vars
    PROVE  PlanInv'
<1>1. CASE Quiet
  BY <1>1 DEF Quiet, StreamInv, PlanInv, Whole
<1>2. QED
  BY <1>1, StepsByKind, PlanSay, PlanRead, PlanReceive, PlanConclude

-----------------------------------------------------------------------------
(* The theorems                                                            *)

LEMMA StreamInvariant == Spec => []StreamInv
<1>1. StreamInv /\ [Next]_vars => StreamInv'
  BY DataStep, TypeStep, ControlStep, ChunksStep, AnswerStep, PlanStep DEF StreamInv
<1>2. QED
  BY <1>1, InitInv, PTL DEF Spec

\* Type correctness: among others, a runtime that did not see the stop reads on,
\* and progress is always sent with the event that made it.
THEOREM TypeCorrect == Spec => []TypeOK
<1>1. StreamInv => TypeOK
  BY DEF StreamInv
<1>2. QED
  BY <1>1, StreamInvariant, PTL

\* What the user sees of the chunks is at any time a prefix of what the agent
\* wrote: none is shown twice, out of order or after a gap, whatever is stopped,
\* fails or is refused by the gateway.
THEOREM ChunksAreInOrder == Spec => []ChunksAreShownInOrder
<1>1. StreamInv => ChunksAreShownInOrder
  BY Zenon DEF StreamInv, ChunksInv, ChunksAreShownInOrder, SaidWords, ShownWords, WordsOf, TextOf
<1>2. QED
  BY <1>1, StreamInvariant, PTL

\* When a turn succeeded, the messages and what the final one had no room for are
\* all the chunks, or the last message: for texts of any length, and any limit.
THEOREM AnswersAreWhole == Spec => []AnswerIsWhole
<1>1. ASSUME StreamInv PROVE AnswerIsWhole
  <2> DEFINE messages == {i \in 1 .. Len(said) : said[i].kind = "message"}
             rest == Words(CutOff(render.final.text))
  <2> SUFFICES ASSUME core = "done", outcome = "ok"
               PROVE  ShownWords \o rest =
                         CASE mode = "fallback" -> SaidWords
                           [] mode = "exec_json" /\ messages = {} -> <<>>
                           [] OTHER -> said[Max(messages)].text
    BY DEF AnswerIsWhole
  <2>1. /\ stream = <<>> /\ events = <<>> /\ Whole /\ mode \in {"exec_json", "fallback"}
        /\ said \in Seq(Voice(mode, Plans)) /\ ChunksInv /\ AnswerInv
    BY <1>1 DEF StreamInv, ControlInv, TypeOK, Whole, DataInv
  <2>2. ShownWords = TextOf(shown) /\ SaidWords = WordsOf(said)
    BY Zenon DEF ShownWords, SaidWords, TextOf, WordsOf
  <2>3. CASE mode = "fallback"
    <3>1. WordsOf(said) = InOrder(TextOf(shown), Kept, <<>>, <<>>)
      BY <2>1, <2>3, OfNothing DEF ChunksInv
    <3>2. TextOf(shown) \in Text /\ Kept \in Text /\ Kept = rest
      BY <1>1, StateTexts, KeptIsText DEF StreamInv, Kept
    <3> HIDE DEF rest, messages
    <3>3. WordsOf(said) = TextOf(shown) \o rest
      BY <3>1, <3>2, TextConcat DEF InOrder
    <3>4. QED
      BY <2>2, <2>3, <3>3
  <2>4. CASE mode = "exec_json"
    <3>1. messages = Places(said, Answers)
      <4>1. \A i \in 1 .. Len(said) : said[i] \in Voice(mode, Plans)
        BY <2>1
      <4>2. \A line \in Voice(mode, Plans) : line.kind = "message" <=> line \in Answers
        BY <2>4 DEF Voice, Answers
      <4>3. QED
        BY <4>1, <4>2 DEF Places
    <3>2. /\ LastIn(said, Answers, NoMessage) = Answer
          /\ TextOf(shown) \o rest = Answer.text
      BY <2>1, <2>4, LastInEmpty DEF AnswerInv
    <3>3. NoMessage.text = <<>>
      BY DEF NoMessage, Message
    <3> HIDE DEF messages, rest
    <3>4. ShownWords \o rest = IF messages = {} THEN <<>> ELSE said[Max(messages)].text
      BY <2>2, <3>1, <3>2, <3>3 DEF LastIn
    <3>5. QED
      BY <2>4, <3>4
  <2>5. QED
    BY <2>1, <2>3, <2>4
<1>2. QED
  BY <1>1, StreamInvariant, PTL

\* After a turn that succeeded the user sees the last plan the agent had, in the
\* order of the list, unless there never was anything to do.
THEOREM LastPlansAreShown == Spec => []LastPlanIsShown
<1>1. ASSUME StreamInv PROVE LastPlanIsShown
  <2> DEFINE plans == {i \in 1 .. Len(said) :
                          /\ said[i].kind = "plan"
                          /\ mode = "exec_json" => Entries(mode, said[i]) # <<>>}
             todos == {i \in 1 .. Len(shown) : shown[i].slot = "todo"}
             a == Told(mode, said)
             P == Proposals(mode)
  <2> SUFFICES ASSUME core = "done", outcome = "ok", plans # {}
               PROVE  \/ /\ todos # {}
                         /\ shown[Max(todos)].plan =
                               OrderedTodos(Entries(mode, said[Max(plans)]))
                      \/ todos = {} /\ \A i \in plans : Entries(mode, said[i]) = <<>>
    BY Zenon DEF LastPlanIsShown, Entries
  <2>1. /\ stream = <<>> /\ events = <<>> /\ Whole
        /\ said \in Seq(Voice(mode, Plans)) /\ shown \in Seq(ShownMessage) /\ PlanInv
    BY <1>1 DEF StreamInv, ControlInv, Whole, DataInv
  <2>2. /\ Len(a) = Len(said) /\ \A i \in 1 .. Len(said) : a[i] = Tell(mode, said[i])
    BY <2>1, ToldType
  <2>3. \A i \in 1 .. Len(said) : said[i].kind = "plan" =>
           a[i] = Plan(Entries(mode, said[i])) /\ Entries(mode, said[i]) \in PlanValue
    <3>1. ASSUME NEW i \in 1 .. Len(said), said[i].kind = "plan"
          PROVE  Entries(mode, said[i]) \in PlanValue
      <4>1. said[i] \in Voice(mode, Plans)
        BY <2>1
      <4>2. said[i].plan \in Plans
        BY <3>1, <4>1 DEF Voice, Answers
      <4>3. QED
        BY <4>2 DEF Entries, PlanValue
    <3>2. QED
      BY <2>2, <3>1 DEF Tell
  <2>4. plans = Places(a, P)
    <3>1. ASSUME NEW i \in 1 .. Len(said)
          PROVE  a[i] \in P <=> /\ said[i].kind = "plan"
                                /\ mode = "exec_json" => Entries(mode, said[i]) # <<>>
      <4>1. CASE said[i].kind = "plan"
        <5> DEFINE plan == Entries(mode, said[i])
        <5>1. a[i] = Plan(plan) /\ plan \in PlanValue
          BY <2>3, <4>1
        <5> HIDE DEF plan, a
        <5>2. a[i] \in P <=> plan \in Proposed(mode)
          BY <5>1, PlanOf
        <5>3. QED
          BY <4>1, <5>1, <5>2 DEF Proposed, plan
      <4>2. CASE said[i].kind # "plan"
        <5>1. a[i] = Other
          BY <2>2, <4>2 DEF Tell
        <5>2. QED
          BY <4>2, <5>1, PlanOf
      <4>3. QED
        BY <4>1, <4>2
    <3> HIDE DEF a, P
    <3>2. QED
      BY <2>2, <3>1 DEF Places
  <2>5. todos = Places(shown, Todos)
    BY <2>1 DEF Places, Todos
  <2>6. /\ LastIn(a, P, Plan(<<>>)) = Plan(render.todo)
        /\ LastIn(shown, Todos, NoTodo).plan = OrderedTodos(render.todo)
        /\ Places(shown, Todos) = {} => \A new \in NewPlans : ~Has(a, new)
    <3>1. Told(mode, stream) = <<>>
      BY <2>1 DEF Told
    <3>2. \A new : ~Has(<<>>, new)
      BY DEF Has
    <3>3. QED
      BY <2>1, <3>1, <3>2, LastInEmpty DEF PlanInv
  <2>7. Max(plans) \in plans
    <3>1. plans \subseteq 1 .. Len(said) /\ Len(said) \in Nat
      BY <2>1
    <3> HIDE DEF plans
    <3>2. QED
      BY <3>1, MaxIsIn
  <2>8. Entries(mode, said[Max(plans)]) = render.todo
    <3>1. a[Max(plans)] = Plan(render.todo)
      BY <2>4, <2>6 DEF LastIn
    <3>2. a[Max(plans)] = Plan(Entries(mode, said[Max(plans)]))
      BY <2>3, <2>7
    <3>3. QED
      BY <3>1, <3>2, PlanOf
  <2>9. CASE todos # {}
    <3>1. shown[Max(todos)].plan = OrderedTodos(render.todo)
      BY <2>5, <2>6, <2>9 DEF LastIn
    <3>2. QED
      BY <2>8, <2>9, <3>1
  <2>10. CASE todos = {}
    <3>1. ASSUME NEW i \in plans, Entries(mode, said[i]) # <<>> PROVE FALSE
      <4>1. i \in 1 .. Len(said) /\ a[i] = Plan(Entries(mode, said[i]))
            /\ Entries(mode, said[i]) \in PlanValue
        BY <2>3
      <4>2. a[i] \in NewPlans
        BY <3>1, <4>1 DEF NewPlans
      <4>3. Has(a, a[i])
        BY <2>2, <4>1 DEF Has
      <4>4. QED
        BY <2>5, <2>6, <2>10, <4>2, <4>3
    <3>2. QED
      BY <2>10, <3>1
  <2>11. QED
    BY <2>9, <2>10
<1>2. QED
  BY <1>1, StreamInvariant, PTL


=============================================================================
