----------------------------- MODULE FramesProofs ----------------------------
(***************************************************************************)
(* Facts about Frames for every payload: induction and sequences put       *)
(* together from parts, what is read is what was written, and base64 of    *)
(* the guest is undone by the host.                                        *)
(***************************************************************************)
EXTENDS Frames, SequenceTheorems, WellFoundedInduction, TLAPS

\* The provers for the steps that name none, and the seconds they have.
USE SMTT(30), ZenonT(60)

-----------------------------------------------------------------------------
(* Induction, and sequences put together.                                  *)

\* A set of numbers has a least one.
LEMMA LeastNat ==
    ASSUME NEW T, T \subseteq Nat, T # {}
    PROVE  \E x \in T : \A y \in T : x <= y
<1> DEFINE R == OpToRel(<, Nat)
<1>1. IsWellFoundedOn(R, Nat)  BY NatLessThanWellFounded, Zenon
<1>2. \A x, y \in Nat : x < y => <<x, y>> \in R  BY DEF OpToRel
<1> HIDE DEF R
<1>3. PICK x \in T : \A y \in T : ~(<<y, x>> \in R)  BY <1>1, WFMin, Zenon
<1>4. ASSUME NEW y \in T PROVE x <= y
  <2>1. x \in Nat /\ y \in Nat /\ ~(<<y, x>> \in R)  BY <1>3, Zenon
  <2>2. ~(y < x)  BY <1>2, <2>1, Zenon
  <2> QED  BY <2>1, <2>2
<1> QED  BY <1>4

\* Induction on a number, with the set of numbers for which the claim holds.
LEMMA Induction ==
    ASSUME NEW S, 0 \in S, \A n \in Nat : n \in S => n + 1 \in S
    PROVE  Nat \subseteq S
<1> SUFFICES ASSUME Nat \ S # {} PROVE FALSE
    OBVIOUS
<1>1. PICK x \in Nat \ S : \A y \in Nat \ S : x <= y  BY LeastNat, Zenon
<1>2. x - 1 \in Nat /\ (x - 1) + 1 = x  BY x # 0
<1>3. x - 1 \in S  BY <1>1, <1>2
<1> QED  BY <1>2, <1>3

\* \o, by its algebra: the provers are better off not to see through it.
Cat(s, t) == s \o t

\* Two sequences put together: their length,
LEMMA CatSeq ==
    ASSUME NEW S, NEW s \in Seq(S), NEW t \in Seq(S)
    PROVE  Cat(s, t) \in Seq(S) /\ Len(Cat(s, t)) = Len(s) + Len(t)
BY ConcatProperties DEF Cat

\* their elements,
LEMMA CatElement ==
    ASSUME NEW S, NEW s \in Seq(S), NEW t \in Seq(S)
    PROVE  /\ \A i \in 1..Len(s) : Cat(s, t)[i] = s[i]
           /\ \A i \in 1..Len(t) : Cat(s, t)[Len(s) + i] = t[i]
<1>1. \A i \in 1..(Len(s) + Len(t)) : (s \o t)[i] = IF i <= Len(s) THEN s[i] ELSE t[i - Len(s)]
  BY ConcatProperties, Zenon
<1>2. Len(s) \in Nat /\ Len(t) \in Nat  OBVIOUS
<1> DEFINE c == s \o t
<1> HIDE DEF c
<1>3. \A i \in 1..(Len(s) + Len(t)) : c[i] = IF i <= Len(s) THEN s[i] ELSE t[i - Len(s)]
  BY <1>1, Zenon DEF c
<1>4. ASSUME NEW i \in 1..Len(s) PROVE c[i] = s[i]  BY <1>2, <1>3
<1>5. ASSUME NEW i \in 1..Len(t) PROVE c[Len(s) + i] = t[i]
  <2>1. Len(s) + i \in 1..(Len(s) + Len(t)) /\ ~(Len(s) + i <= Len(s)) /\ (Len(s) + i) - Len(s) = i
    BY <1>2
  <2> QED  BY <1>3, <2>1
<1>6. c = Cat(s, t)  BY DEF c, Cat
<1> QED  BY <1>4, <1>5, <1>6, Zenon

\* nothing added,
LEMMA CatEmpty ==
    ASSUME NEW S, NEW s \in Seq(S)
    PROVE  Cat(s, <<>>) = s /\ Cat(<<>>, s) = s
BY ConcatEmptySeq DEF Cat

\* three of them,
LEMMA CatAssociative ==
    ASSUME NEW S, NEW s \in Seq(S), NEW t \in Seq(S), NEW u \in Seq(S)
    PROVE  Cat(Cat(s, t), u) = Cat(s, Cat(t, u))
BY ConcatAssociative DEF Cat

\* and what follows a known beginning.
LEMMA CatCancel ==
    ASSUME NEW S, NEW s \in Seq(S), NEW t \in Seq(S), NEW u \in Seq(S), Cat(s, t) = Cat(s, u)
    PROVE  t = u
<1>1. \A a, b, c \in Seq(S) : a \o b = a \o c => b = c  BY ConcatSimplifications, Zenon
<1> QED  BY <1>1, Zenon DEF Cat

\* upto is s put together up to every length not above N.
Joins(upto, s, N) ==
    upto = [n \in 0..N |-> IF n = 0 THEN <<>> ELSE Cat(upto[n - 1], s[n])]

\* The recursion of Joined defines a function.
LEMMA JoinedJoins ==
    ASSUME NEW s, Len(s) \in Nat
    PROVE  Joins(Joined(s), s, Len(s))
<1> DEFINE S == {N \in Nat : \E g : Joins(g, s, N)}
<1>1. 0 \in S
  <2>1. Joins([n \in 0..0 |-> <<>>], s, 0)  BY DEF Joins
  <2> QED  BY <2>1
<1>2. ASSUME NEW N \in Nat, N \in S PROVE N + 1 \in S
  <2>1. PICK g : Joins(g, s, N)  BY <1>2
  <2> DEFINE M == N + 1
             h == [n \in 0..M |-> IF n = M THEN Cat(g[N], s[M]) ELSE g[n]]
  <2>2. ASSUME NEW n \in 0..M
        PROVE  h[n] = IF n = 0 THEN <<>> ELSE Cat(h[n - 1], s[n])
    <3>1. CASE n = M  BY <3>1
    <3>2. CASE n # M
      <4>1. n \in 0..N  BY <3>2
      <4>2. g[n] = IF n = 0 THEN <<>> ELSE Cat(g[n - 1], s[n])
        BY <2>1, <4>1 DEF Joins
      <4>3. n # 0 => h[n - 1] = g[n - 1]  BY <4>1
      <4> QED  BY <3>2, <4>1, <4>2, <4>3
    <3> QED  BY <3>1, <3>2
  <2>3. Joins(h, s, M)  BY <2>2 DEF Joins
  <2> QED  BY <2>3
<1> HIDE DEF S
<1>3. Nat \subseteq S  BY <1>1, <1>2, Induction
<1>4. PICK g : Joins(g, s, Len(s))  BY <1>3 DEF S
<1> QED  BY <1>4, Zenon DEF Joins, Joined, Cat

\* Joined adds one part at a time.
LEMMA JoinedSteps ==
    ASSUME NEW S, NEW s \in Seq(Seq(S))
    PROVE  /\ Joined(s)[0] = <<>>
           /\ \A n \in 1..Len(s) : Joined(s)[n] = Cat(Joined(s)[n - 1], s[n])
           /\ \A n \in 0..Len(s) : Joined(s)[n] \in Seq(S)
<1> DEFINE J == Joined(s)
           T == {n \in Nat : n <= Len(s) => J[n] \in Seq(S)}
<1>l. Len(s) \in Nat  OBVIOUS
<1>1. J = [n \in 0..Len(s) |-> IF n = 0 THEN <<>> ELSE Cat(J[n - 1], s[n])]
  BY <1>l, JoinedJoins DEF Joins
<1> HIDE DEF J
<1>2. J[0] = <<>>  BY <1>1, <1>l
<1>3. ASSUME NEW n \in 1..Len(s) PROVE J[n] = Cat(J[n - 1], s[n])
  <2>1. n \in 0..Len(s) /\ n # 0  BY <1>l
  <2> QED  BY <2>1, <1>1, Zenon
<1>4. 0 \in T
  <2>1. <<>> \in Seq(S)  BY EmptySeq
  <2> QED  BY <1>2, <2>1, Zenon
<1>5. ASSUME NEW n \in Nat, n \in T PROVE n + 1 \in T
  <2> SUFFICES ASSUME n + 1 <= Len(s) PROVE J[n + 1] \in Seq(S)
    OBVIOUS
  <2>1. J[n] \in Seq(S) /\ s[n + 1] \in Seq(S) /\ n + 1 \in 1..Len(s)  BY <1>5, <1>l
  <2>2. J[n + 1] = Cat(J[n], s[n + 1])  BY <1>3, <2>1
  <2> QED  BY <2>1, <2>2, CatSeq, Zenon
<1> HIDE DEF T
<1>6. Nat \subseteq T  BY <1>4, <1>5, Induction, Zenon
<1>7. \A n \in 0..Len(s) : J[n] \in Seq(S)  BY <1>6, <1>l DEF T
<1> QED  BY <1>2, <1>3, <1>7 DEF J

\* What is put together up to n is what all of it begins with.
LEMMA JoinedPrefix ==
    ASSUME NEW S, NEW s \in Seq(Seq(S)), NEW n \in 0..Len(s)
    PROVE  \E u \in Seq(S) : Concat(s) = Cat(Joined(s)[n], u)
<1> DEFINE J == Joined(s)
           T == {k \in Nat : n + k <= Len(s) => \E u \in Seq(S) : J[n + k] = Cat(J[n], u)}
<1>l. Len(s) \in Nat /\ n \in Nat  OBVIOUS
<1>1. \A m \in 1..Len(s) : J[m] = Cat(J[m - 1], s[m])  BY JoinedSteps
<1>2. \A m \in 0..Len(s) : J[m] \in Seq(S)  BY JoinedSteps
<1> HIDE DEF J
<1>3. 0 \in T
  <2>1. J[n] \in Seq(S)  BY <1>2
  <2>2. Cat(J[n], <<>>) = J[n] /\ <<>> \in Seq(S)  BY <2>1, CatEmpty
  <2>3. n + 0 = n  BY <1>l
  <2> QED  BY <2>2, <2>3, Zenon
<1>4. ASSUME NEW k \in Nat, k \in T PROVE k + 1 \in T
  <2> SUFFICES ASSUME n + (k + 1) <= Len(s)
               PROVE  \E u \in Seq(S) : J[n + (k + 1)] = Cat(J[n], u)
    BY <1>l
  <2>1. n + k \in 0..Len(s) /\ n + (k + 1) \in 1..Len(s) /\ (n + (k + 1)) - 1 = n + k
    BY <1>l
  <2>2. PICK u \in Seq(S) : J[n + k] = Cat(J[n], u)  BY <1>4, <2>1
  <2>3. s[n + (k + 1)] \in Seq(S) /\ J[n] \in Seq(S)  BY <2>1, <1>2
  <2>4. J[n + (k + 1)] = Cat(J[n + k], s[n + (k + 1)])  BY <1>1, <2>1
  <2>5. Cat(Cat(J[n], u), s[n + (k + 1)]) = Cat(J[n], Cat(u, s[n + (k + 1)]))
    BY <2>3, CatAssociative
  <2>6. Cat(u, s[n + (k + 1)]) \in Seq(S)  BY <2>3, CatSeq, Zenon
  <2> QED  BY <2>2, <2>4, <2>5, <2>6
<1> HIDE DEF T
<1>5. Nat \subseteq T  BY <1>3, <1>4, Induction, Zenon
<1>6. Len(s) - n \in T  BY <1>5, <1>l
<1>7. n + (Len(s) - n) = Len(s)  BY <1>l
<1>8. \E u \in Seq(S) : J[Len(s)] = Cat(J[n], u)  BY <1>6, <1>7, <1>l DEF T
<1> QED  BY <1>8 DEF J, Concat

\* The first part can be taken off.
LEMMA ConcatHead ==
    ASSUME NEW S, NEW s \in Seq(Seq(S)), s # <<>>
    PROVE  Concat(s) = Cat(s[1], Concat(Tail(s))) /\ Concat(Tail(s)) \in Seq(S)
<1> DEFINE t == Tail(s)
           J == Joined(s)
           K == Joined(t)
           T == {k \in Nat : k + 1 <= Len(s) => J[k + 1] = Cat(s[1], K[k])}
<1>t. t \in Seq(Seq(S)) /\ Len(t) = Len(s) - 1 /\ \A i \in 1..Len(t) : t[i] = s[i + 1]
  BY HeadTailProperties
<1>l. Len(s) \in Nat /\ Len(s) >= 1 /\ s[1] \in Seq(S)
  <2>1. Len(s) \in Nat \ {0}  BY EmptySeq
  <2> QED  BY <2>1
<1> HIDE DEF t
<1>1. J[0] = <<>> /\ \A m \in 1..Len(s) : J[m] = Cat(J[m - 1], s[m])  BY JoinedSteps
<1>2. K[0] = <<>> /\ \A m \in 1..Len(t) : K[m] = Cat(K[m - 1], t[m])  BY <1>t, JoinedSteps
<1>3. \A m \in 0..Len(t) : K[m] \in Seq(S)  BY <1>t, JoinedSteps
<1> HIDE DEF J, K
<1>4. 0 \in T
  <2>1. J[1] = Cat(J[1 - 1], s[1])  BY <1>1, <1>l
  <2>2. J[1] = Cat(<<>>, s[1])  BY <2>1, <1>1
  <2>3. Cat(<<>>, s[1]) = Cat(s[1], <<>>)  BY <1>l, CatEmpty
  <2> QED  BY <2>2, <2>3, <1>2
<1>5. ASSUME NEW k \in Nat, k \in T PROVE k + 1 \in T
  <2> SUFFICES ASSUME (k + 1) + 1 <= Len(s) PROVE J[(k + 1) + 1] = Cat(s[1], K[k + 1])
    OBVIOUS
  <2>1. k + 1 \in 1..Len(t) /\ (k + 1) + 1 \in 1..Len(s) /\ (k + 1) - 1 = k
        /\ ((k + 1) + 1) - 1 = k + 1 /\ k \in 0..Len(t)  BY <1>t, <1>l
  <2>2. J[(k + 1) + 1] = Cat(J[k + 1], s[(k + 1) + 1])  BY <1>1, <2>1
  <2>3. J[k + 1] = Cat(s[1], K[k])  BY <1>5, <1>l
  <2>4. K[k + 1] = Cat(K[k], s[(k + 1) + 1])  BY <1>2, <2>1, <1>t, Zenon
  <2>5. s[(k + 1) + 1] \in Seq(S) /\ K[k] \in Seq(S)  BY <2>1, <1>3
  <2>6. Cat(Cat(s[1], K[k]), s[(k + 1) + 1]) = Cat(s[1], Cat(K[k], s[(k + 1) + 1]))
    BY <2>5, <1>l, CatAssociative
  <2> QED  BY <2>2, <2>3, <2>4, <2>6
<1> HIDE DEF T
<1>6. Nat \subseteq T  BY <1>4, <1>5, Induction, Zenon
<1>7. Len(t) \in Nat /\ Len(t) + 1 = Len(s)  BY <1>t, <1>l
<1>8. J[Len(s)] = Cat(s[1], K[Len(t)])  BY <1>6, <1>7 DEF T
<1>9. K[Len(t)] \in Seq(S)  BY <1>3, <1>7
<1> QED  BY <1>8, <1>9 DEF J, K, t, Concat

\* Taking the next frame of a sequence.
LEMMA TakeNext ==
    ASSUME NEW S, NEW s \in Seq(S), NEW n \in 0..Len(s), n + 1 \in 1..Len(s)
    PROVE  /\ Append(SubSeq(s, 1, n), s[n + 1]) = SubSeq(s, 1, n + 1)
           /\ Len(SubSeq(s, 1, n)) = n /\ SubSeq(s, 1, n) \in Seq(S)
<1> DEFINE t == SubSeq(s, 1, n)
           e == s[n + 1]
<1>1. n \in Nat /\ Len(s) \in Nat  OBVIOUS
<1>2. SubSeq(s, 1, n + 1) = SubSeq(s, 1, (n + 1) - 1) \o <<s[n + 1]>>
  BY <1>1, SubSeqRecursiveSecond
<1>3. (n + 1) - 1 = n  BY <1>1
<1>4. t \in Seq(S) /\ e \in S
  <2>1. \A i \in 1..n : s[i] \in S  BY <1>1
  <2> QED  BY <2>1, <1>1, SubSeqProperties
<1>5. Len(t) = n
  <2>1. \A i \in 1..n : s[i] \in S  BY <1>1
  <2>2. Len(t) = IF 1 <= n THEN n - 1 + 1 ELSE 0  BY <2>1, <1>1, SubSeqProperties
  <2> QED  BY <2>2, <1>1
<1>6. SubSeq(s, 1, n + 1) = t \o <<e>>  BY <1>2, <1>3, Zenon
<1> HIDE DEF t, e
<1>7. Append(t, e) = t \o <<e>>  BY <1>4, AppendIsConcat
<1> QED  BY <1>4, <1>5, <1>6, <1>7, Zenon DEF t, e

\* A byte goes from the stream to the frame.
LEMMA ShiftByte ==
    ASSUME NEW b \in Seq(Nat), NEW p \in Seq(Nat), p # <<>>
    PROVE  /\ Append(b, Head(p)) \in Seq(Nat) /\ Tail(p) \in Seq(Nat)
           /\ Cat(Append(b, Head(p)), Tail(p)) = Cat(b, p)
<1>1. Head(p) \in Nat /\ Tail(p) \in Seq(Nat)  BY HeadTailProperties
<1>2. Append(b, Head(p)) \in Seq(Nat) /\ Append(b, Head(p)) = Cat(b, <<Head(p)>>)
  BY <1>1, AppendProperties, AppendIsConcat DEF Cat
<1>3. <<Head(p)>> \in Seq(Nat)  BY <1>1
<1>4. Cat(<<Head(p)>>, Tail(p)) = p
  BY DEF Cat
<1>5. Cat(Cat(b, <<Head(p)>>), Tail(p)) = Cat(b, Cat(<<Head(p)>>, Tail(p)))
  <2> DEFINE h == <<Head(p)>>
             t == Tail(p)
  <2>1. h \in Seq(Nat) /\ t \in Seq(Nat)  BY <1>1, <1>3
  <2> HIDE DEF h, t
  <2>2. Cat(Cat(b, h), t) = Cat(b, Cat(h, t))  BY <2>1, CatAssociative
  <2> QED  BY <2>2 DEF h, t
<1> QED  BY <1>1, <1>2, <1>4, <1>5, Zenon

\* When bytes are lost at the end, those before still follow.
LEMMA CutEnd ==
    ASSUME NEW a \in Seq(Nat), NEW p \in Seq(Nat), NEW u \in Seq(Nat)
    PROVE  Cat(p, u) \in Seq(Nat) /\ Cat(Cat(a, <<>>), Cat(p, u)) = Cat(Cat(a, p), u)
<1>1. Cat(a, <<>>) = a  BY CatEmpty
<1>2. Cat(Cat(a, p), u) = Cat(a, Cat(p, u))  BY CatAssociative
<1>3. Cat(p, u) \in Seq(Nat)  BY CatSeq
<1> QED  BY <1>1, <1>2, <1>3

\* Another id in front of an object: the other fields stay.
LEMMA TailOfPair ==
    ASSUME NEW x \in Nat, NEW y \in Nat, NEW e \in Seq(Nat), NEW v \in Nat,
           NEW p, p = <<v>> \o Tail(<<x, y>> \o e)
    PROVE  /\ p \in Seq(Nat) /\ Len(p) = Len(e) + 2 /\ p[1] = v /\ p[2] = y
           /\ SubSeq(p, 3, Len(p)) = e
<1> DEFINE h == <<x, y>>
           s == Cat(h, e)
           t == Tail(s)
           c == <<v>>
<1>1. h \in Seq(Nat) /\ Len(h) = 2 /\ h[2] = y /\ c \in Seq(Nat) /\ Len(c) = 1 /\ c[1] = v  OBVIOUS
<1>2. Len(e) \in Nat  OBVIOUS
<1>p. p = Cat(c, t)  BY Zenon DEF Cat
<1> HIDE DEF h, c
<1>3. s \in Seq(Nat) /\ Len(s) = 2 + Len(e)  BY <1>1, CatSeq, Zenon
<1>4. s[2] = y /\ \A i \in 1..Len(e) : s[2 + i] = e[i]
  <2>t. h \in Seq(Nat)  BY <1>1
  <2>1. \A i \in 1..Len(h) : s[i] = h[i]  BY <2>t, CatElement
  <2>2. \A i \in 1..Len(e) : s[Len(h) + i] = e[i]  BY <2>t, CatElement
  <2> QED  BY <2>1, <2>2, <1>1
<1> HIDE DEF s
<1>5. s # <<>>  BY <1>2, <1>3, EmptySeq
<1>6. t \in Seq(Nat) /\ Len(t) = 1 + Len(e) /\ \A i \in 1..Len(t) : t[i] = s[i + 1]
  BY <1>2, <1>3, <1>5, HeadTailProperties
<1> HIDE DEF t
<1>7. t[1] = y /\ \A i \in 1..Len(e) : t[1 + i] = e[i]
  <2>1. 1 \in 1..Len(t)  BY <1>2, <1>6
  <2>2. t[1] = y  BY <2>1, <1>4, <1>6
  <2>3. ASSUME NEW i \in 1..Len(e) PROVE t[1 + i] = e[i]
    <3>l. Len(t) = 1 + Len(e)  BY <1>6
    <3>1. 1 + i \in 1..Len(t) /\ (1 + i) + 1 = 2 + i  BY <1>2, <3>l
    <3> QED  BY <3>1, <1>4, <1>6, Zenon
  <2> QED  BY <2>2, <2>3, Zenon
<1>8. p \in Seq(Nat) /\ Len(p) = Len(e) + 2  BY <1>p, <1>1, <1>2, <1>6, CatSeq
<1>9. /\ \A i \in 1..Len(c) : p[i] = c[i]
      /\ \A i \in 1..Len(t) : p[Len(c) + i] = t[i]
  <2>t. c \in Seq(Nat) /\ t \in Seq(Nat)  BY <1>1, <1>6
  <2>1. \A i \in 1..Len(c) : Cat(c, t)[i] = c[i]  BY <2>t, CatElement
  <2>2. \A i \in 1..Len(t) : Cat(c, t)[Len(c) + i] = t[i]  BY <2>t, CatElement
  <2> QED  BY <2>1, <2>2, <1>p, Zenon
<1>10. p[1] = v  BY <1>1, <1>9
<1>11. p[2] = y
  <2>1. 1 \in 1..Len(t) /\ Len(c) + 1 = 2  BY <1>1, <1>2, <1>6
  <2> QED  BY <2>1, <1>7, <1>9
<1>12. ASSUME NEW i \in 1..Len(e) PROVE p[2 + i] = e[i]
  <2>1. 1 + i \in 1..Len(t) /\ Len(c) + (1 + i) = 2 + i  BY <1>1, <1>2, <1>6
  <2> QED  BY <2>1, <1>7, <1>9
<1>13. SubSeq(p, 3, Len(p)) = e
  <2> DEFINE n == Len(e)
             q == SubSeq(p, 3, n + 2)
  <2>1. \A i \in 3..(n + 2) : p[i] \in Nat  BY <1>8, <1>2
  <2>2. q \in Seq(Nat) /\ Len(q) = (IF 3 <= n + 2 THEN n + 2 - 3 + 1 ELSE 0)
        /\ \A i \in 1..(n + 2 - 3 + 1) : q[i] = p[3 + i - 1]
    BY <2>1, <1>2, SubSeqProperties
  <2> HIDE DEF q
  <2>3. Len(q) = n  BY <2>2, <1>2
  <2>4. ASSUME NEW i \in 1..n PROVE q[i] = e[i]
    <3>1. i \in 1..(n + 2 - 3 + 1) /\ 3 + i - 1 = 2 + i  BY <1>2
    <3> QED  BY <3>1, <2>2, <1>12
  <2>5. q = e  BY <2>2, <2>3, <2>4, SeqEqual
  <2> QED  BY <2>5, <1>8 DEF q
<1> QED  BY <1>8, <1>10, <1>11, <1>13

-----------------------------------------------------------------------------
(* Frames.                                                                 *)

\* The four bytes of the header hold the length.
LEMMA HeaderRead ==
    ASSUME NEW kind \in Nat, NEW n \in Nat, n <= MaxLength
    PROVE  /\ Header(kind, n) \in Seq(Nat)
           /\ Len(Header(kind, n)) = 5
           /\ Header(kind, n)[1] = kind
           /\ PayloadLen(Header(kind, n)) = n
<1> DEFINE a == n \div 256
           b == n \div 65536
           c == n \div 16777216
<1>1. b = a \div 256  BY SMT
<1>2. c = b \div 256  BY SMT
<1>3. c \in Nat /\ c < 256  BY SMT DEF MaxLength
<1>4. n = a * 256 + (n % 256) /\ a \in Nat /\ n % 256 \in Nat  BY SMT
<1> HIDE DEF a, b, c
<1>5. a = b * 256 + (a % 256) /\ b \in Nat /\ a % 256 \in Nat  BY <1>1, <1>4, SMT
<1>6. b = c * 256 + (b % 256) /\ b % 256 \in Nat  BY <1>2, <1>5, SMT
<1>7. c % 256 = c  BY <1>3, SMT
<1>8. (c % 256) * 16777216 + (b % 256) * 65536 + (a % 256) * 256 + (n % 256) = n
  BY <1>3, <1>4, <1>5, <1>6, <1>7, SMT
<1>9. Header(kind, n) = <<kind, c % 256, b % 256, a % 256, n % 256>>  BY DEF Header, a, b, c
<1> QED  BY <1>3, <1>4, <1>5, <1>6, <1>7, <1>8, <1>9, SMT DEF PayloadLen

\* What write_frame writes is what read_frame reads.
LEMMA FrameRead ==
    ASSUME NEW kind \in Nat, NEW payload \in Seq(Nat), Len(payload) <= MaxLength
    PROVE  LET b == write_frame(kind, payload)
           IN /\ b \in Seq(Nat)
              /\ Len(b) = 5 + Len(payload)
              /\ PayloadLen(b) = Len(payload)
              /\ Frame(b) = [kind |-> kind, payload |-> payload]
<1> DEFINE n == Len(payload)
           h == Header(kind, n)
           b == Cat(h, payload)
<1>n. n \in Nat  OBVIOUS
<1>1. h \in Seq(Nat) /\ Len(h) = 5 /\ h[1] = kind /\ PayloadLen(h) = n  BY <1>n, HeaderRead
<1> HIDE DEF h
<1>3. b \in Seq(Nat) /\ Len(b) = 5 + n  BY <1>1, CatSeq, Zenon
<1>4. /\ \A i \in 1..Len(h) : b[i] = h[i]
      /\ \A i \in 1..Len(payload) : b[Len(h) + i] = payload[i]
  <2>1. h \in Seq(Nat) /\ payload \in Seq(Nat)  BY <1>1
  <2> HIDE DEF n
  <2>2. \A i \in 1..Len(h) : Cat(h, payload)[i] = h[i]  BY <2>1, CatElement, Zenon
  <2>3. \A i \in 1..Len(payload) : Cat(h, payload)[Len(h) + i] = payload[i]
    BY <2>1, CatElement
  <2> QED  BY <2>2, <2>3
<1> HIDE DEF b
<1>5. b[1] = h[1] /\ b[2] = h[2] /\ b[3] = h[3] /\ b[4] = h[4] /\ b[5] = h[5]  BY <1>1, <1>4
<1>6. PayloadLen(b) = n  BY <1>1, <1>5, SMT DEF PayloadLen
<1>7. SubSeq(b, 6, Len(b)) = payload
  <2> DEFINE q == SubSeq(b, 6, Len(b))
  <2>1. \A i \in 6..(5 + n) : b[i] \in Nat  BY <1>3, <1>n
  <2>2. q \in Seq(Nat) /\ Len(q) = n /\ \A i \in 1..n : q[i] = b[6 + i - 1]
    <3>1. 6 \in Int /\ 5 + n \in Int  BY <1>n
    <3>2. SubSeq(b, 6, 5 + n) \in Seq(Nat)
      /\ Len(SubSeq(b, 6, 5 + n)) = (IF 6 <= 5 + n THEN 5 + n - 6 + 1 ELSE 0)
      /\ \A i \in 1..(5 + n - 6 + 1) : SubSeq(b, 6, 5 + n)[i] = b[6 + i - 1]
      BY <2>1, <3>1, SubSeqProperties
    <3> QED  BY <3>2, <1>3, <1>n
  <2> HIDE DEF q
  <2>3. \A i \in 1..n : q[i] = payload[i]  BY <2>2, <1>1, <1>4, <1>n
  <2>4. q = payload  BY <2>2, <2>3, SeqEqual
  <2> QED  BY <2>4 DEF q
<1>8. Frame(b) = [kind |-> kind, payload |-> payload]
  <2>1. HeaderSize + 1 = 6  BY DEF HeaderSize
  <2> QED  BY <2>1, <1>7, <1>5, <1>1, Zenon DEF Frame
<1> QED  BY <1>3, <1>6, <1>8 DEF b, h, write_frame, Cat

\* A reader that has read a frame has read the one that was written.
LEMMA SameFrame ==
    ASSUME NEW kind \in Nat, NEW payload \in Seq(Nat), Len(payload) <= MaxLength,
           NEW s \in Seq(Nat), NEW t \in Seq(Nat), NEW r \in Seq(Nat),
           Cat(s, t) = Cat(write_frame(kind, payload), r), Complete(s)
    PROVE  s = write_frame(kind, payload)
<1> DEFINE b == write_frame(kind, payload)
           n == Len(payload)
<1>n. n \in Nat  OBVIOUS
<1>1. b \in Seq(Nat) /\ Len(b) = 5 + n /\ PayloadLen(b) = n  BY FrameRead
<1> HIDE DEF b, n
<1>2. Len(s) \in Nat /\ Len(s) >= 5 /\ Len(s) = 5 + PayloadLen(s)
  BY DEF Complete, HeaderSize
<1>3. \A i \in 1..Len(s) : Cat(s, t)[i] = s[i]  BY CatElement
<1>4. \A i \in 1..Len(b) : Cat(b, r)[i] = b[i]  BY <1>1, CatElement, Zenon
<1>5. Cat(s, t) = Cat(b, r)  BY DEF b
<1>6. ASSUME NEW i \in 1..5 PROVE s[i] = b[i]
  <2>1. i \in 1..Len(s) /\ i \in 1..Len(b)  BY <1>1, <1>2, <1>n
  <2> QED  BY <2>1, <1>3, <1>4, <1>5, Zenon
<1>7. PayloadLen(s) = PayloadLen(b)
  <2>1. s[2] = b[2] /\ s[3] = b[3] /\ s[4] = b[4] /\ s[5] = b[5]  BY <1>6
  <2> QED  BY <2>1, SMT DEF PayloadLen
<1>8. Len(s) = Len(b)  BY <1>1, <1>2, <1>7
<1>9. \A i \in 1..Len(s) : s[i] = b[i]  BY <1>3, <1>4, <1>5, <1>8
<1>10. s = b  BY <1>1, <1>8, <1>9, SeqEqual
<1> QED  BY <1>10 DEF b

-----------------------------------------------------------------------------
(* base64.                                                                 *)

\* The digits that are left out for missing bytes are zeros.
LEMMA MissingDigits ==
    ASSUME NEW a \in Nat, NEW b \in Nat, a <= 255, b <= 255
    PROVE  /\ (a * 65536 + b * 256 + 0) % 64 = 0
           /\ ((a * 65536 + 0 * 256 + 0) \div 64) % 64 = 0
BY SMT

\* The first of three elements.
LEMMA Firsts ==
    ASSUME NEW S, NEW x \in S, NEW y \in S, NEW z \in S
    PROVE  /\ SubSeq(<<x, y, z>>, 1, 3) = <<x, y, z>>
           /\ SubSeq(<<x, y, z>>, 1, 2) = <<x, y>>
           /\ SubSeq(<<x, y, z>>, 1, 1) = <<x>>
<1> DEFINE s == <<x, y, z>>
<1>1. s \in Seq(S) /\ Len(s) = 3 /\ s[1] = x /\ s[2] = y /\ s[3] = z  OBVIOUS
<1>2. <<x, y>> \in Seq(S) /\ <<x>> \in Seq(S) /\ Len(<<x, y>>) = 2 /\ Len(<<x>>) = 1  OBVIOUS
<1> HIDE DEF s
<1>3. SubSeq(s, 1, 3) = s  BY <1>1, SubSeqFull
<1>4. SubSeq(s, 1, 2) = <<x, y>>
  <2>0. \A i \in 1..2 : s[i] \in S  BY <1>1
  <2>1. /\ SubSeq(s, 1, 2) \in Seq(S) /\ Len(SubSeq(s, 1, 2)) = 2
        /\ \A i \in 1..2 : SubSeq(s, 1, 2)[i] = s[1 + i - 1]
    BY <2>0, SubSeqProperties
  <2>2. \A i \in 1..2 : SubSeq(s, 1, 2)[i] = <<x, y>>[i]  BY <2>1, <1>1
  <2> QED  BY <2>1, <2>2, <1>2, SeqEqual, Zenon
<1>5. SubSeq(s, 1, 1) = <<x>>
  <2>0. \A i \in 1..1 : s[i] \in S  BY <1>1
  <2>1. /\ SubSeq(s, 1, 1) \in Seq(S) /\ Len(SubSeq(s, 1, 1)) = 1
        /\ \A i \in 1..1 : SubSeq(s, 1, 1)[i] = s[1 + i - 1]
    BY <2>0, SubSeqProperties
  <2>2. \A i \in 1..1 : SubSeq(s, 1, 1)[i] = <<x>>[i]  BY <2>1, <1>1
  <2> QED  BY <2>1, <2>2, <1>2, SeqEqual, Zenon
<1> QED  BY <1>3, <1>4, <1>5 DEF s

\* Three bytes as four digits of six bits.
Sextets(a, b, c) ==
    LET n == a * 65536 + b * 256 + c
    IN <<n \div 262144, (n \div 4096) % 64, (n \div 64) % 64, n % 64>>

\* Four characters, with as many '=' at the end as bytes are missing, give the
\* bytes back.
LEMMA TripleBack ==
    ASSUME NEW a \in Nat, NEW b \in Nat, NEW c \in Nat, a <= 255, b <= 255, c <= 255
    PROVE  LET d == Sextets(a, b, c)
           IN /\ {d[1], d[2], d[3], d[4]} \subseteq Digits
              /\ Triple(<<d[1], d[2], d[3], d[4]>>) = <<a, b, c>>
              /\ c = 0 => Triple(<<d[1], d[2], d[3], Pad>>) = <<a, b>>
              /\ c = 0 /\ b = 0 => Triple(<<d[1], d[2], Pad, Pad>>) = <<a>>
<1> DEFINE n == a * 65536 + b * 256 + c
           w == n \div 262144
           x == (n \div 4096) % 64
           y == (n \div 64) % 64
           z == n % 64
<1>m. (c = 0 => z = 0) /\ (c = 0 /\ b = 0 => y = 0)  BY MissingDigits, SMT
<1>n. n = a * 65536 + b * 256 + c  BY SMT
<1> HIDE DEF n
<1>1. n \in Nat /\ n <= 16777215 /\ n \div 65536 = a /\ (n \div 256) % 256 = b /\ n % 256 = c
  <2>1. n \in Nat /\ n <= 16777215  BY <1>n, SMT
  <2>2. n \div 65536 = a  BY <1>n, SMT
  <2>3. n % 256 = c  BY <1>n, SMT
  <2>4. n \div 256 = a * 256 + b  BY <1>n, SMT
  <2>5. (a * 256 + b) % 256 = b  BY SMT
  <2> QED  BY <2>1, <2>2, <2>3, <2>4, <2>5, SMT
<1>2. w \in 0..63 /\ x \in 0..63 /\ y \in 0..63 /\ z \in 0..63
      /\ w * 262144 + x * 4096 + y * 64 + z = n
  <2> DEFINE e == n \div 64
             f == n \div 4096
  <2>1. f = e \div 64 /\ w = f \div 64  BY <1>1, SMT
  <2>2. w \in 0..63  BY <1>1, SMT
  <2>3. n = e * 64 + z /\ e \in Nat /\ z \in 0..63  BY <1>1, SMT
  <2> HIDE DEF e, f, w
  <2>4. e = f * 64 + (e % 64) /\ f \in Nat /\ e % 64 \in 0..63  BY <2>1, <2>3, SMT
  <2>5. f = w * 64 + (f % 64) /\ f % 64 \in 0..63
    <3>1. w = f \div 64 /\ f \in Nat  BY <2>1, <2>4
    <3> QED  BY <3>1, SMT
  <2>6. x = f % 64 /\ y = e % 64  BY SMT DEF e, f
  <2> HIDE DEF x, y, z
  <2>7. w * 262144 + x * 4096 + y * 64 + z = n  BY <2>2, <2>3, <2>4, <2>5, <2>6, SMT
  <2> QED  BY <2>2, <2>3, <2>4, <2>5, <2>6, <2>7, SMT
<1> HIDE DEF w, x, y, z
<1>3. Triple(<<w, x, y, z>>) = <<a, b, c>>
  <2>1. y # Pad /\ z # Pad  BY <1>2, SMT DEF Pad
  <2>2. Triple(<<w, x, y, z>>) = SubSeq(<<n \div 65536, (n \div 256) % 256, n % 256>>, 1, 3)
    BY <2>1, <1>2, SMT DEF Triple
  <2>3. Triple(<<w, x, y, z>>) = SubSeq(<<a, b, c>>, 1, 3)  BY <2>2, <1>1, SMT
  <2> QED  BY <2>3, Firsts
<1>4. c = 0 => Triple(<<w, x, y, Pad>>) = <<a, b>>
  <2> SUFFICES ASSUME c = 0 PROVE Triple(<<w, x, y, Pad>>) = <<a, b>>
    OBVIOUS
  <2>1. y # Pad /\ z = 0  BY <1>2, <1>m, SMT DEF Pad
  <2>2. Triple(<<w, x, y, Pad>>) = SubSeq(<<n \div 65536, (n \div 256) % 256, n % 256>>, 1, 2)
    BY <2>1, <1>2, SMT DEF Triple
  <2>3. Triple(<<w, x, y, Pad>>) = SubSeq(<<a, b, c>>, 1, 2)  BY <2>2, <1>1, SMT
  <2> QED  BY <2>3, Firsts
<1>5. c = 0 /\ b = 0 => Triple(<<w, x, Pad, Pad>>) = <<a>>
  <2> SUFFICES ASSUME c = 0, b = 0 PROVE Triple(<<w, x, Pad, Pad>>) = <<a>>
    OBVIOUS
  <2>1. y = 0 /\ z = 0  BY <1>2, <1>m, SMT
  <2>2. Triple(<<w, x, Pad, Pad>>) = SubSeq(<<n \div 65536, (n \div 256) % 256, n % 256>>, 1, 1)
    BY <2>1, <1>2, SMT DEF Triple
  <2>3. Triple(<<w, x, Pad, Pad>>) = SubSeq(<<a, b, c>>, 1, 1)  BY <2>2, <1>1, SMT
  <2> QED  BY <2>3, Firsts
<1>6. {w, x, y, z} \subseteq Digits  BY <1>2, SMT DEF Digits
<1> DEFINE d == Sextets(a, b, c)
<1>7. d[1] = w /\ d[2] = x /\ d[3] = y /\ d[4] = z  BY SMT DEF Sextets, n, w, x, y, z
<1> HIDE DEF d
<1>8. /\ {d[1], d[2], d[3], d[4]} \subseteq Digits
      /\ Triple(<<d[1], d[2], d[3], d[4]>>) = <<a, b, c>>
      /\ c = 0 => Triple(<<d[1], d[2], d[3], Pad>>) = <<a, b>>
      /\ c = 0 /\ b = 0 => Triple(<<d[1], d[2], Pad, Pad>>) = <<a>>
  BY <1>3, <1>4, <1>5, <1>6, <1>7, SMT
<1> QED  BY <1>8, SMT DEF d

\* One, two and three elements out of a sequence.
LEMMA ShortSubSeq ==
    ASSUME NEW S, NEW s \in Seq(S), NEW k \in 1..Len(s)
    PROVE  /\ SubSeq(s, k, k) = <<s[k]>>
           /\ k + 1 <= Len(s) => SubSeq(s, k, k + 1) = <<s[k], s[k + 1]>>
           /\ k + 2 <= Len(s) => SubSeq(s, k, k + 2) = <<s[k], s[k + 1], s[k + 2]>>
<1>1. k \in Nat /\ Len(s) \in Nat /\ s[k] \in S  OBVIOUS
<1>2. SubSeq(s, k, k) = <<s[k]>>
  <2>1. \A i \in k..k : s[i] \in S  BY <1>1
  <2>2. /\ SubSeq(s, k, k) \in Seq(S) /\ Len(SubSeq(s, k, k)) = (IF k <= k THEN k - k + 1 ELSE 0)
        /\ \A i \in 1..(k - k + 1) : SubSeq(s, k, k)[i] = s[k + i - 1]
    BY <2>1, <1>1, SubSeqProperties
  <2>3. Len(SubSeq(s, k, k)) = 1 /\ SubSeq(s, k, k)[1] = s[k]  BY <2>2, <1>1
  <2> DEFINE t == SubSeq(s, k, k)
  <2>4. t \in Seq(S) /\ Len(t) = 1 /\ t[1] = s[k]  BY <2>2, <2>3
  <2> HIDE DEF t
  <2>5. t = <<s[k]>>  BY <2>4, <1>1
  <2> QED  BY <2>5 DEF t
<1>3. ASSUME k + 1 <= Len(s) PROVE SubSeq(s, k, k + 1) = <<s[k], s[k + 1]>>
  <2>1. \A i \in k..(k + 1) : s[i] \in S  BY <1>1, <1>3
  <2>2. /\ SubSeq(s, k, k + 1) \in Seq(S)
        /\ Len(SubSeq(s, k, k + 1)) = (IF k <= k + 1 THEN k + 1 - k + 1 ELSE 0)
        /\ \A i \in 1..(k + 1 - k + 1) : SubSeq(s, k, k + 1)[i] = s[k + i - 1]
    BY <2>1, <1>1, SubSeqProperties
  <2> DEFINE t == SubSeq(s, k, k + 1)
  <2>4. t \in Seq(S) /\ Len(t) = 2 /\ t[1] = s[k] /\ t[2] = s[k + 1]  BY <2>2, <1>1
  <2> HIDE DEF t
  <2>5. t = <<s[k], s[k + 1]>>  BY <2>4, <2>1, <1>1
  <2> QED  BY <2>5 DEF t
<1>4. ASSUME k + 2 <= Len(s) PROVE SubSeq(s, k, k + 2) = <<s[k], s[k + 1], s[k + 2]>>
  <2>1. \A i \in k..(k + 2) : s[i] \in S  BY <1>1, <1>4
  <2>2. /\ SubSeq(s, k, k + 2) \in Seq(S)
        /\ Len(SubSeq(s, k, k + 2)) = (IF k <= k + 2 THEN k + 2 - k + 1 ELSE 0)
        /\ \A i \in 1..(k + 2 - k + 1) : SubSeq(s, k, k + 2)[i] = s[k + i - 1]
    BY <2>1, <1>1, SubSeqProperties
  <2> DEFINE t == SubSeq(s, k, k + 2)
  <2>4. t \in Seq(S) /\ Len(t) = 3 /\ t[1] = s[k] /\ t[2] = s[k + 1] /\ t[3] = s[k + 2]
    BY <2>2, <1>1
  <2> HIDE DEF t
  <2>5. t = <<s[k], s[k + 1], s[k + 2]>>  BY <2>4, <2>1, <1>1
  <2> QED  BY <2>5 DEF t
<1> QED  BY <1>2, <1>3, <1>4

\* The end of the i-th three bytes of a sequence of n.
ChunkEnd(n, i) == IF 3 * i <= n THEN 3 * i ELSE n

\* Every four characters of encoded bytes are valid, and decode to the bytes
\* they stand for.
LEMMA QuadBack ==
    ASSUME NEW input \in Seq(0..255), NEW i \in Nat, i >= 1, 3 * i - 2 <= Len(input)
    PROVE  /\ Quad(input, i) \in Seq(0..64) /\ Len(Quad(input, i)) = 4
           /\ Valid(Quad(input, i))
           /\ Triple(Quad(input, i)) = SubSeq(input, 3 * i - 2, ChunkEnd(Len(input), i))
<1> DEFINE L == Len(input)
           k == 3 * i - 2
           ByteAt(j) == IF j > L THEN 0 ELSE input[j]
           a == ByteAt(k)
           b == ByteAt(k + 1)
           c == ByteAt(k + 2)
           d == Sextets(a, b, c)
           w == d[1]
           x == d[2]
           y == IF k + 1 > L THEN Pad ELSE d[3]
           z == IF k + 2 > L THEN Pad ELSE d[4]
           q == Quad(input, i)
<1>l. L \in Nat /\ k \in 1..L /\ 3 * i = k + 2  OBVIOUS
<1>i. ASSUME NEW j \in 1..L PROVE input[j] \in Nat /\ input[j] <= 255
  <2>1. input[j] \in 0..255  BY ElementOfSeq
  <2>2. \A v \in 0..255 : v \in Nat /\ v <= 255  OBVIOUS
  <2> QED  BY <2>1, <2>2, Zenon
<1> DEFINE m == a * 65536 + b * 256 + c
<1>2. q = <<w, x, y, z>>
  <2>1. q = <<m \div 262144, (m \div 4096) % 64, IF k + 1 > L THEN Pad ELSE (m \div 64) % 64,
              IF k + 2 > L THEN Pad ELSE m % 64>>
    BY SMT DEF Quad
  <2> HIDE DEF a, b, c, k, L, q
  <2>2. d = <<m \div 262144, (m \div 4096) % 64, (m \div 64) % 64, m % 64>>
    BY SMT DEF Sextets
  <2> HIDE DEF d, m
  <2>3. d[1] = m \div 262144 /\ d[2] = (m \div 4096) % 64 /\ d[3] = (m \div 64) % 64 /\ d[4] = m % 64
    BY <2>2, SMT
  <2> QED  BY <2>1, <2>3, SMT
<1> HIDE DEF k, L, q
<1>1. /\ a \in Nat /\ b \in Nat /\ c \in Nat /\ a <= 255 /\ b <= 255 /\ c <= 255 /\ a = input[k]
      /\ (k + 1 > L => b = 0) /\ (k + 2 > L => c = 0)
      /\ (k + 1 <= L => b = input[k + 1]) /\ (k + 2 <= L => c = input[k + 2])
  <2>1. k \in Nat /\ ~(k > L)  BY <1>l
  <2>2. a = input[k] /\ a \in Nat /\ a <= 255  BY <2>1, <1>l, <1>i
  <2>3. /\ b \in Nat /\ b <= 255
        /\ (k + 1 > L => b = 0) /\ (k + 1 <= L => b = input[k + 1])
    <3>1. CASE k + 1 > L  BY <3>1, <2>1, <1>l
    <3>2. CASE ~(k + 1 > L)
      <4>1. k + 1 \in 1..L  BY <3>2, <2>1, <1>l
      <4> QED  BY <4>1, <3>2, <2>1, <1>l, <1>i
    <3> QED  BY <3>1, <3>2
  <2>4. /\ c \in Nat /\ c <= 255
        /\ (k + 2 > L => c = 0) /\ (k + 2 <= L => c = input[k + 2])
    <3>1. CASE k + 2 > L  BY <3>1, <2>1, <1>l
    <3>2. CASE ~(k + 2 > L)
      <4>1. k + 2 \in 1..L  BY <3>2, <2>1, <1>l
      <4> QED  BY <4>1, <3>2, <2>1, <1>l, <1>i
    <3> QED  BY <3>1, <3>2
  <2> QED  BY <2>2, <2>3, <2>4
<1> HIDE DEF a, b, c
<1>3. /\ {d[1], d[2], d[3], d[4]} \subseteq Digits
      /\ Triple(<<d[1], d[2], d[3], d[4]>>) = <<a, b, c>>
      /\ c = 0 => Triple(<<d[1], d[2], d[3], Pad>>) = <<a, b>>
      /\ c = 0 /\ b = 0 => Triple(<<d[1], d[2], Pad, Pad>>) = <<a>>
  <2>1. a \in Nat /\ b \in Nat /\ c \in Nat /\ a <= 255 /\ b <= 255 /\ c <= 255  BY <1>1
  <2> QED  BY <2>1, TripleBack, Zenon
<1> HIDE DEF d
<1>4. w \in 0..63 /\ x \in 0..63 /\ y \in 0..64 /\ z \in 0..64 /\ Pad = 64 /\ Digits = 0..63
  BY <1>3 DEF Digits, Pad
<1>5. q \in Seq(0..64) /\ Len(q) = 4 /\ Valid(q)
  <2> HIDE DEF w, x, y, z
  <2>1. q \in Seq(0..64) /\ Len(q) = 4 /\ q[1] = w /\ q[2] = x /\ q[3] = y /\ q[4] = z
    BY <1>2, <1>4
  <2>2. w \in Digits /\ x \in Digits /\ y \in Digits \union {Pad} /\ z \in Digits \union {Pad}
    BY <1>4
  <2> QED  BY <2>1, <2>2, Zenon DEF Valid
<1>6. Triple(q) = SubSeq(input, k, ChunkEnd(L, i))
  <2>s. /\ SubSeq(input, k, k) = <<input[k]>>
        /\ k + 1 <= L => SubSeq(input, k, k + 1) = <<input[k], input[k + 1]>>
        /\ k + 2 <= L => SubSeq(input, k, k + 2) = <<input[k], input[k + 1], input[k + 2]>>
    BY <1>l, ShortSubSeq DEF L
  <2>1. CASE k + 2 <= L
    <3>1. q = <<d[1], d[2], d[3], d[4]>> /\ ChunkEnd(L, i) = k + 2
      BY <2>1, <1>l, <1>2 DEF ChunkEnd
    <3>2. a = input[k] /\ b = input[k + 1] /\ c = input[k + 2]  BY <2>1, <1>1, <1>l
    <3>3. SubSeq(input, k, k + 2) = <<a, b, c>>  BY <3>2, <2>1, <2>s, Zenon
    <3> QED  BY <3>1, <3>3, <1>3, Zenon
  <2>2. CASE k + 1 = L
    <3>1. q = <<d[1], d[2], d[3], Pad>> /\ ChunkEnd(L, i) = k + 1
      BY <2>2, <1>l, <1>2 DEF ChunkEnd
    <3>2. c = 0 /\ b = input[k + 1] /\ a = input[k] /\ k + 1 <= L  BY <2>2, <1>1, <1>l
    <3>3. SubSeq(input, k, k + 1) = <<a, b>>  BY <3>2, <2>s, Zenon
    <3> QED  BY <3>1, <3>2, <3>3, <1>3, Zenon
  <2>3. CASE k = L
    <3>1. q = <<d[1], d[2], Pad, Pad>> /\ ChunkEnd(L, i) = k
      BY <2>3, <1>l, <1>2 DEF ChunkEnd
    <3>2. c = 0 /\ b = 0 /\ a = input[k]  BY <2>3, <1>1, <1>l
    <3>3. SubSeq(input, k, k) = <<a>>  BY <3>2, <2>s, Zenon
    <3> QED  BY <3>1, <3>2, <3>3, <1>3, Zenon
  <2> QED  BY <2>1, <2>2, <2>3, <1>l
<1> QED  BY <1>5, <1>6, Zenon DEF q, k, L

\* Parts of four elements are found again where they were put.
LEMMA ConcatFours ==
    ASSUME NEW S, NEW Q \in Seq(Seq(S)), \A i \in 1..Len(Q) : Len(Q[i]) = 4
    PROVE  /\ Concat(Q) \in Seq(S) /\ Len(Concat(Q)) = 4 * Len(Q)
           /\ \A k \in 1..Len(Q) : SubSeq(Concat(Q), 4 * k - 3, 4 * k) = Q[k]
<1> DEFINE J == Joined(Q)
           N == Len(Q)
           E == Concat(Q)
           T == {n \in Nat : n <= N => Len(J[n]) = 4 * n}
<1>n. N \in Nat  OBVIOUS
<1>j. /\ J[0] = <<>> /\ \A n \in 1..N : J[n] = Cat(J[n - 1], Q[n])
      /\ \A n \in 0..N : J[n] \in Seq(S)
  BY JoinedSteps, Zenon
<1>e. E = J[N]  BY DEF Concat
<1>q. \A n \in 1..N : Q[n] \in Seq(S)  OBVIOUS
<1>p. \A n \in 0..N : \E u \in Seq(S) : E = Cat(J[n], u)  BY JoinedPrefix
<1> HIDE DEF J, E
<1>1. 0 \in T  BY <1>j, EmptySeq
<1>2. ASSUME NEW n \in Nat, n \in T PROVE n + 1 \in T
  <2> SUFFICES ASSUME n + 1 <= N PROVE Len(J[n + 1]) = 4 * (n + 1)
    OBVIOUS
  <2>1. n + 1 \in 1..N /\ (n + 1) - 1 = n /\ n \in 0..N  BY <1>n
  <2>2. J[n + 1] = Cat(J[n], Q[n + 1]) /\ J[n] \in Seq(S) /\ Q[n + 1] \in Seq(S)
    BY <2>1, <1>j, <1>q
  <2>3. Len(J[n + 1]) = Len(J[n]) + Len(Q[n + 1])  BY <2>2, CatSeq, Zenon
  <2>4. Len(J[n]) = 4 * n /\ Len(Q[n + 1]) = 4  BY <1>2, <2>1, <1>n
  <2> QED  BY <2>3, <2>4
<1> HIDE DEF T
<1>3. Nat \subseteq T  BY <1>1, <1>2, Induction, Zenon
<1>4. \A n \in 0..N : Len(J[n]) = 4 * n  BY <1>3, <1>n DEF T
<1>5. E \in Seq(S) /\ Len(E) = 4 * N  BY <1>e, <1>j, <1>4, <1>n
<1>6. ASSUME NEW k \in 1..N PROVE SubSeq(E, 4 * k - 3, 4 * k) = Q[k]
  <2>1. k \in 0..N /\ k - 1 \in 0..N /\ k \in Nat  BY <1>n
  <2>2. PICK u \in Seq(S) : E = Cat(J[k], u)  BY <2>1, <1>p
  <2>3. J[k] = Cat(J[k - 1], Q[k]) /\ J[k - 1] \in Seq(S) /\ Q[k] \in Seq(S) /\ J[k] \in Seq(S)
    BY <2>1, <1>j, <1>q
  <2>4. Len(J[k]) = 4 * k /\ Len(J[k - 1]) = 4 * (k - 1) /\ Len(Q[k]) = 4  BY <2>1, <1>4
  <2>5. ASSUME NEW i \in 1..4 PROVE E[4 * k - 3 + i - 1] = Q[k][i]
    <3>1. 4 * k - 3 + i - 1 = 4 * (k - 1) + i /\ 4 * (k - 1) + i \in 1..(4 * k)  BY <2>1
    <3>2. Cat(J[k], u)[4 * (k - 1) + i] = J[k][4 * (k - 1) + i]
      <4>1. \A j \in 1..Len(J[k]) : Cat(J[k], u)[j] = J[k][j]
        <5> DEFINE p == J[k]
        <5>1. p \in Seq(S)  BY <2>3
        <5> HIDE DEF p
        <5>2. \A j \in 1..Len(p) : Cat(p, u)[j] = p[j]  BY <5>1, CatElement
        <5> QED  BY <5>2 DEF p
      <4> QED  BY <4>1, <2>4, <3>1, Zenon
    <3>3. Cat(J[k - 1], Q[k])[4 * (k - 1) + i] = Q[k][i]
      <4>1. \A j \in 1..Len(Q[k]) : Cat(J[k - 1], Q[k])[Len(J[k - 1]) + j] = Q[k][j]
        <5> DEFINE p == J[k - 1]
                   r == Q[k]
        <5>1. p \in Seq(S) /\ r \in Seq(S)  BY <2>3
        <5> HIDE DEF p, r
        <5>2. \A j \in 1..Len(r) : Cat(p, r)[Len(p) + j] = r[j]  BY <5>1, CatElement
        <5> QED  BY <5>2 DEF p, r
      <4> QED  BY <4>1, <2>4, Zenon
    <3> QED  BY <3>1, <3>2, <3>3, <2>2, <2>3
  <2> DEFINE A == 4 * k - 3
             B == 4 * k
             s == SubSeq(E, A, B)
  <2>6. A \in Int /\ B \in Int /\ A <= B /\ B - A + 1 = 4 /\ A >= 1 /\ B <= Len(E)
    BY <1>5, <2>1, <1>n
  <2>7. \A i \in 1..4 : E[A + i - 1] = Q[k][i]  BY <2>5, Zenon
  <2> HIDE DEF A, B
  <2>8. \A i \in A..B : E[i] \in S
    <3>1. \A i \in A..B : i \in 1..Len(E)  BY <2>6, <1>5
    <3> QED  BY <3>1, <1>5, ElementOfSeq
  <2>9. s \in Seq(S) /\ Len(s) = (IF A <= B THEN B - A + 1 ELSE 0) /\ \A i \in 1..(B - A + 1) : s[i] = E[A + i - 1]
    BY <2>6, <2>8, SubSeqProperties
  <2> HIDE DEF s
  <2>10. Len(s) = 4 /\ \A i \in 1..4 : s[i] = Q[k][i]  BY <2>6, <2>7, <2>9
  <2>11. s = Q[k]
    <3> DEFINE r == Q[k]
    <3>1. /\ s \in Seq(S) /\ r \in Seq(S) /\ Len(s) = Len(r)
          /\ \A i \in 1..Len(s) : s[i] = r[i]
      BY <2>3, <2>4, <2>9, <2>10, Zenon
    <3> HIDE DEF r
    <3>2. s = r  BY <3>1, SeqEqual
    <3> QED  BY <3>2 DEF r
  <2> QED  BY <2>11 DEF s, A, B
<1> QED  BY <1>5, <1>6 DEF E

\* Text without white space is visible as it is.
LEMMA VisibleAll ==
    ASSUME NEW S, NEW E \in Seq(S), Space \notin S
    PROVE  Visible(E) = E
<1> DEFINE f == [i \in DOMAIN E |-> IF E[i] = Space THEN <<>> ELSE <<E[i]>>]
           N == Len(E)
           J == Joined(f)
           T == {n \in Nat : n <= N => J[n] = SubSeq(E, 1, n)}
<1>n. N \in Nat /\ DOMAIN E = 1..N /\ \A i \in 1..N : E[i] \in S  OBVIOUS
<1>1. f = [i \in 1..N |-> <<E[i]>>]  BY <1>n
<1>2. f \in [1..N -> Seq(S)] /\ \A i \in 1..N : f[i] = <<E[i]>>  BY <1>1, <1>n
<1>c. Visible(E) = Concat(f)  BY Zenon DEF Visible
<1> HIDE DEF f, N
<1>3. f \in Seq(Seq(S)) /\ Len(f) = N  BY <1>2, <1>n
<1>j. J[0] = <<>> /\ \A n \in 1..N : J[n] = Cat(J[n - 1], f[n])
  <2>1. J[0] = <<>> /\ \A n \in 1..Len(f) : J[n] = Cat(J[n - 1], f[n])
    BY <1>3, JoinedSteps, Zenon
  <2> QED  BY <2>1, <1>3
<1>e. Concat(f) = J[N]  BY <1>3, Zenon DEF Concat
<1> HIDE DEF J
<1>4. 0 \in T
  <2>1. SubSeq(E, 1, 0) = <<>>  BY SubSeqEmpty
  <2> QED  BY <2>1, <1>j, Zenon
<1>5. ASSUME NEW n \in Nat, n \in T PROVE n + 1 \in T
  <2> SUFFICES ASSUME n + 1 <= N PROVE J[n + 1] = SubSeq(E, 1, n + 1)
    OBVIOUS
  <2>1. n + 1 \in 1..N /\ (n + 1) - 1 = n /\ n \in 0..N  BY <1>n
  <2>2. J[n] = SubSeq(E, 1, n)  BY <1>5, <2>1
  <2>3. J[n + 1] = Cat(SubSeq(E, 1, n), <<E[n + 1]>>)  BY <2>1, <2>2, <1>2, <1>j, Zenon
  <2>4. /\ Append(SubSeq(E, 1, n), E[n + 1]) = SubSeq(E, 1, n + 1)
        /\ SubSeq(E, 1, n) \in Seq(S)
    BY <2>1, TakeNext DEF N
  <2>5. Append(SubSeq(E, 1, n), E[n + 1]) = Cat(SubSeq(E, 1, n), <<E[n + 1]>>)
    <3> DEFINE t == SubSeq(E, 1, n)
               e == E[n + 1]
    <3>1. t \in Seq(S) /\ e \in S  BY <2>1, <2>4, <1>n
    <3> HIDE DEF t, e
    <3>2. Append(t, e) = Cat(t, <<e>>)  BY <3>1, AppendIsConcat DEF Cat
    <3> QED  BY <3>2 DEF t, e
  <2> QED  BY <2>3, <2>4, <2>5, Zenon
<1> HIDE DEF T
<1>6. Nat \subseteq T  BY <1>4, <1>5, Induction
<1>7. J[N] = SubSeq(E, 1, N)  BY <1>6, <1>n DEF T
<1>8. SubSeq(E, 1, N) = E  BY SubSeqFull DEF N
<1> QED  BY <1>7, <1>8, <1>e, <1>c, Zenon

\* The threes of a sequence, the last one maybe shorter, make it up.
LEMMA ConcatThrees ==
    ASSUME NEW S, NEW b \in Seq(S), NEW N \in Nat, 3 * N >= Len(b), 3 * N - 2 <= Len(b),
           NEW f, f = [i \in 1..N |-> SubSeq(b, 3 * i - 2, ChunkEnd(Len(b), i))]
    PROVE  Concat(f) = b
<1> DEFINE L == Len(b)
           J == Joined(f)
           T == {n \in Nat : n <= N => J[n] = SubSeq(b, 1, ChunkEnd(L, n))}
<1>l. L \in Nat  OBVIOUS
<1>1. ASSUME NEW i \in 1..N
      PROVE  /\ 3 * i - 2 \in 1..L /\ ChunkEnd(L, i) \in (3 * i - 2)..L
             /\ f[i] = SubSeq(b, 3 * i - 2, ChunkEnd(L, i)) /\ f[i] \in Seq(S)
  <2>1. i \in Nat /\ 1 <= i /\ i <= N /\ 3 * i <= 3 * N  OBVIOUS
  <2>2. 3 * i - 2 \in 1..L  BY <2>1, <1>l
  <2>3. ChunkEnd(L, i) \in (3 * i - 2)..L  BY <2>1, <2>2, <1>l DEF ChunkEnd
  <2> DEFINE A == 3 * i - 2
             B == ChunkEnd(L, i)
  <2>4. A \in 1..L /\ B \in A..L /\ f[i] = SubSeq(b, A, B)  BY <2>2, <2>3
  <2> HIDE DEF A, B
  <2>5. A \in Int /\ B \in Int  BY <2>4, <1>l
  <2>6. \A j \in A..B : b[j] \in S
    <3>1. \A j \in A..B : j \in 1..Len(b)  BY <2>4, <1>l
    <3> QED  BY <3>1, ElementOfSeq
  <2>7. SubSeq(b, A, B) \in Seq(S)  BY <2>5, <2>6, SubSeqProperties
  <2> QED  BY <2>2, <2>3, <2>4, <2>7 DEF A, B
<1>2. f \in [1..N -> Seq(S)]  BY <1>1
<1>3. f \in Seq(Seq(S)) /\ Len(f) = N  BY <1>2
<1>j. J[0] = <<>> /\ \A n \in 1..N : J[n] = Cat(J[n - 1], f[n])
  <2>1. J[0] = <<>> /\ \A n \in 1..Len(f) : J[n] = Cat(J[n - 1], f[n])
    BY <1>3, JoinedSteps, Zenon
  <2> QED  BY <2>1, <1>3, Zenon
<1>e. Concat(f) = J[N]  BY <1>3 DEF Concat
<1> HIDE DEF J
<1>4. 0 \in T
  <2>1. ChunkEnd(L, 0) = 0  BY <1>l DEF ChunkEnd
  <2>2. SubSeq(b, 1, 0) = <<>>  BY SubSeqEmpty
  <2> QED  BY <2>1, <2>2, <1>j, Zenon
<1>5. ASSUME NEW n \in Nat, n \in T PROVE n + 1 \in T
  <2> SUFFICES ASSUME n + 1 <= N PROVE J[n + 1] = SubSeq(b, 1, ChunkEnd(L, n + 1))
    OBVIOUS
  <2>1. n + 1 \in 1..N /\ (n + 1) - 1 = n /\ n <= N  OBVIOUS
  <2>2. ChunkEnd(L, n) = 3 * n /\ 3 * (n + 1) - 2 = 3 * n + 1
    <3>1. 3 * (n + 1) - 2 \in 1..L  BY <2>1, <1>1
    <3>2. 3 * (n + 1) - 2 = 3 * n + 1  OBVIOUS
    <3> QED  BY <3>1, <3>2, <1>l DEF ChunkEnd
  <2>3. J[n] = SubSeq(b, 1, 3 * n)  BY <1>5, <2>1, <2>2
  <2>4. f[n + 1] = SubSeq(b, 3 * n + 1, ChunkEnd(L, n + 1)) /\ ChunkEnd(L, n + 1) \in (3 * n + 1)..L
    BY <2>1, <2>2, <1>1
  <2> DEFINE k == 3 * n
             m == ChunkEnd(L, n + 1)
  <2>5. k \in 0..L /\ m \in k..L /\ 1 \in 1..(L + 1) /\ 1 - 1 = 0  BY <2>4, <1>l
  <2>6. J[n + 1] = Cat(SubSeq(b, 1, k), SubSeq(b, k + 1, m))
    BY <2>1, <2>3, <2>4, <1>j, Zenon
  <2> HIDE DEF k, m
  <2>7. SubSeq(b, 1, k) \o SubSeq(b, k + 1, m) = SubSeq(b, 1, m)
    BY <2>5, ConcatAdjacentSubSeq
  <2>8. J[n + 1] = SubSeq(b, 1, m)  BY <2>6, <2>7, Zenon DEF Cat
  <2> QED  BY <2>8 DEF m
<1> HIDE DEF T
<1>6. Nat \subseteq T  BY <1>4, <1>5, Induction, Zenon
<1>7. J[N] = SubSeq(b, 1, ChunkEnd(L, N))  BY <1>6 DEF T
<1>8. ChunkEnd(L, N) = L  BY <1>l DEF ChunkEnd
<1>9. SubSeq(b, 1, L) = b  BY SubSeqFull
<1> QED  BY <1>7, <1>8, <1>9, <1>e, Zenon

\* base64_decode of the host (linux/src/smoke.rs, linux/src/session.rs) undoes
\* base64_encode of fendd, for every sequence of bytes.
THEOREM DecodeEncode ==
    ASSUME NEW b \in Seq(0..255)
    PROVE  base64_encode(b) \in Seq(0..64) /\ host_base64_decode(base64_encode(b)) = <<b>>
<1> DEFINE L == Len(b)
           N == (L + 2) \div 3
           Q == [i \in 1..N |-> Quad(b, i)]
           E == Concat(Q)
<1>n. L \in Nat /\ N \in Nat /\ 3 * N >= L /\ 3 * N - 2 <= L
  <2>1. L \in Nat  OBVIOUS
  <2> HIDE DEF L
  <2> QED  BY <2>1
<1>e. base64_encode(b) = E  BY Zenon DEF base64_encode
<1> HIDE DEF N
<1>1. ASSUME NEW i \in 1..N
      PROVE  /\ Quad(b, i) \in Seq(0..64) /\ Len(Quad(b, i)) = 4
             /\ Valid(Quad(b, i))
             /\ Triple(Quad(b, i)) = SubSeq(b, 3 * i - 2, ChunkEnd(L, i))
  <2>1. i \in Nat /\ i >= 1 /\ 3 * i - 2 <= Len(b)
    <3>1. i \in Nat /\ i >= 1 /\ i <= N  BY <1>n
    <3> QED  BY <3>1, <1>n
  <2> QED  BY <2>1, QuadBack
<1>2. Q \in [1..N -> Seq(0..64)] /\ \A i \in 1..N : Q[i] = Quad(b, i)  BY <1>1
<1> HIDE DEF Q, E
<1>3. Q \in Seq(Seq(0..64)) /\ Len(Q) = N  BY <1>2, <1>n
<1>4. E \in Seq(0..64) /\ Len(E) = 4 * N /\ \A k \in 1..N : SubSeq(E, 4 * k - 3, 4 * k) = Q[k]
  <2>1. \A i \in 1..Len(Q) : Len(Q[i]) = 4  BY <1>1, <1>2, <1>3
  <2>2. /\ Concat(Q) \in Seq(0..64) /\ Len(Concat(Q)) = 4 * Len(Q)
        /\ \A k \in 1..Len(Q) : SubSeq(Concat(Q), 4 * k - 3, 4 * k) = Q[k]
    BY <1>3, <2>1, ConcatFours
  <2> QED  BY <2>2, <1>3, Zenon DEF E
<1>5. Visible(E) = E
  <2> DEFINE S == 0..64
  <2>1. Space \notin S /\ E \in Seq(S)  BY <1>4 DEF Space
  <2> HIDE DEF S
  <2> QED  BY <2>1, VisibleAll, Zenon
<1> DEFINE quads == [k \in 1..(Len(E) \div 4) |-> SubSeq(E, 4 * k - 3, 4 * k)]
           f == [k \in DOMAIN quads |-> Triple(quads[k])]
<1>6. Len(E) \div 4 = N /\ Len(E) % 4 = 0
  <2> DEFINE M == Len(E)
  <2>1. M = 4 * N  BY <1>4
  <2> HIDE DEF M
  <2>2. M \div 4 = N /\ M % 4 = 0  BY <2>1, <1>n
  <2> QED  BY <2>2 DEF M
<1>7. quads = Q
  <2>1. quads = [k \in 1..N |-> Q[k]]  BY <1>4, <1>6, Zenon
  <2>2. Q = [k \in 1..N |-> Q[k]]  BY <1>2
  <2> QED  BY <2>1, <2>2, Zenon
<1>8. DOMAIN quads = 1..N /\ \A k \in 1..N : Valid(quads[k])
  <2>1. DOMAIN Q = 1..N  BY <1>2
  <2> QED  BY <2>1, <1>1, <1>2, <1>7, Zenon
<1>9. f = [i \in 1..N |-> SubSeq(b, 3 * i - 2, ChunkEnd(L, i))]
  <2>1. \A i \in 1..N : Triple(quads[i]) = SubSeq(b, 3 * i - 2, ChunkEnd(L, i))
    BY <1>1, <1>2, <1>7, Zenon
  <2> QED  BY <2>1, <1>8, Zenon
<1>10. host_base64_decode(E) =
         IF Len(E) % 4 = 0 /\ \A k \in DOMAIN quads : Valid(quads[k])
         THEN <<Concat(f)>> ELSE <<>>
  BY <1>5, Zenon DEF host_base64_decode, Some, None
<1> HIDE DEF quads, f
<1>11. Concat(f) = b  BY <1>9, <1>n, ConcatThrees, Zenon
<1>12. host_base64_decode(E) = <<b>>  BY <1>6, <1>8, <1>10, <1>11, Zenon
<1> QED  BY <1>4, <1>12, <1>e, Zenon

==============================================================================
