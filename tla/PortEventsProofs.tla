-------------------------- MODULE PortEventsProofs --------------------------
(***************************************************************************)
(* A theorem about PortEvents for any number of ports and sessions and any *)
(* size of the streams: what a session has bound and what is still on its  *)
(* way to it add up to the ports the monitor knows.                        *)
(*                                                                         *)
(* The removal of dead subscribers by swap_remove, and what a list of      *)
(* events says of a port, are settled by induction first.                  *)
(***************************************************************************)
EXTENDS PortEvents, FiniteSetTheorems, SequenceTheorems, WellFoundedInduction, TLAPS

\* The provers for the steps that name none, and the seconds they have.
USE SMTT(30), ZenonT(60)

\* A set of numbers has a least one.
LEMMA LeastNat ==
    ASSUME NEW T, T \subseteq Nat, T # {}
    PROVE  \E x \in T : \A y \in T : x <= y
<1> DEFINE R == OpToRel(<, Nat)
<1>1. IsWellFoundedOn(R, Nat)  BY NatLessThanWellFounded, Zenon
<1>2. \A x, y \in Nat : x < y => <<x, y>> \in R  BY DEF OpToRel
<1> HIDE DEF R
<1>3. PICK x \in T : \A y \in T : ~(<<y, x>> \in R)  BY <1>1, WFMin, Zenon
<1>4. ASSUME NEW y \in T PROVE x <= y
  <2>1. x \in Nat /\ y \in Nat /\ ~(<<y, x>> \in R)  BY <1>3, Zenon
  <2>2. ~(y < x)  BY <1>2, <2>1, Zenon
  <2> QED  BY <2>1, <2>2
<1> QED  BY <1>4

\* Induction on a number, with the set of numbers for which the claim holds.
LEMMA Induction ==
    ASSUME NEW S, 0 \in S, \A n \in Nat : n \in S => n + 1 \in S
    PROVE  Nat \subseteq S
<1> SUFFICES ASSUME Nat \ S # {} PROVE FALSE
    OBVIOUS
<1>1. PICK x \in Nat \ S : \A y \in Nat \ S : x <= y  BY LeastNat, Zenon
<1>2. x - 1 \in Nat /\ (x - 1) + 1 = x  BY x # 0
<1>3. x - 1 \in S  BY <1>1, <1>2
<1> QED  BY <1>2, <1>3

\* swap_remove takes one element out and puts the last one there.
LEMMA SwapRemove ==
    ASSUME NEW S, NEW seq \in Seq(S), NEW i \in 1..Len(seq)
    PROVE  /\ swap_remove(seq, i) \in Seq(S)
           /\ Len(swap_remove(seq, i)) = Len(seq) - 1
           /\ \A j \in 1..(Len(seq) - 1) :
                swap_remove(seq, i)[j] = IF j = i THEN seq[Len(seq)] ELSE seq[j]
<1> DEFINE N == Len(seq)
           s == [seq EXCEPT ![i] = seq[N]]
<1>1. N \in Nat /\ i \in 1..N /\ seq \in [1..N -> S]  BY LenProperties
<1>2. s \in Seq(S) /\ Len(s) = N /\ \A j \in 1..N : s[j] = IF j = i THEN seq[N] ELSE seq[j]
  <2>1. s \in [1..N -> S] /\ \A j \in 1..N : s[j] = IF j = i THEN seq[N] ELSE seq[j]
    BY <1>1
  <2> QED  BY <2>1, <1>1
<1>3. swap_remove(seq, i) = SubSeq(s, 1, N - 1)  BY Zenon DEF swap_remove, s
<1> HIDE DEF s, N
<1>4. N - 1 \in Int /\ \A j \in 1..(N - 1) : j \in 1..N  BY <1>1
<1>5. /\ SubSeq(s, 1, N - 1) \in Seq(S) /\ Len(SubSeq(s, 1, N - 1)) = N - 1
      /\ \A j \in 1..(N - 1) : SubSeq(s, 1, N - 1)[j] = s[j]
  <2>1. N - 1 \in 0..N /\ 1 \in 1..(N + 1) /\ N - 1 >= 0  BY <1>1
  <2>2. \A k \in 1..(N - 1) : s[k] \in S  BY <1>2, <1>4
  <2> QED  BY <2>1, <2>2, <1>1, <1>2, SubSeqProperties
<1> QED  BY <1>2, <1>3, <1>4, <1>5, Zenon DEF N

\* left is what RemoveDead leaves of seq, for up to M indices.
Removes(left, seq, dead, M) ==
    left = [n \in 0..M |->
              IF n = 0 THEN seq
              ELSE IF seq[Len(seq) + 1 - n] \in dead
                   THEN swap_remove(left[n - 1], Len(seq) + 1 - n) ELSE left[n - 1]]

\* The recursion of RemoveDead defines a function.
LEMMA RemoveDeadRemoves ==
    ASSUME NEW seq, NEW dead, Len(seq) \in Nat
    PROVE  \E left : /\ Removes(left, seq, dead, Len(seq))
                     /\ RemoveDead(seq, dead) = left[Len(seq)]
<1> DEFINE Step(g, n) == IF seq[Len(seq) + 1 - n] \in dead
                         THEN swap_remove(g, Len(seq) + 1 - n) ELSE g
           S == {M \in Nat : \E g : Removes(g, seq, dead, M)}
<1>1. 0 \in S
  <2>1. Removes([n \in 0..0 |-> seq], seq, dead, 0)  BY DEF Removes
  <2> QED  BY <2>1
<1>2. ASSUME NEW N \in Nat, N \in S PROVE N + 1 \in S
  <2>1. PICK g : Removes(g, seq, dead, N)  BY <1>2
  <2> DEFINE M == N + 1
             h == [n \in 0..M |-> IF n = M THEN Step(g[N], M) ELSE g[n]]
  <2>2. ASSUME NEW n \in 0..M
        PROVE  h[n] = IF n = 0 THEN seq ELSE Step(h[n - 1], n)
    <3> HIDE DEF Step
    <3>1. CASE n = M  BY <3>1
    <3>2. CASE n # M
      <4>1. n \in 0..N  BY <3>2
      <4>2. g[n] = IF n = 0 THEN seq ELSE Step(g[n - 1], n)
        BY <2>1, <4>1 DEF Removes, Step
      <4>3. n # 0 => h[n - 1] = g[n - 1]  BY <4>1
      <4> QED  BY <3>2, <4>1, <4>2, <4>3
    <3> QED  BY <3>1, <3>2
  <2>3. Removes(h, seq, dead, M)
    <3> HIDE DEF Step
    <3>1. h = [n \in 0..M |-> IF n = 0 THEN seq ELSE Step(h[n - 1], n)]  BY <2>2
    <3> QED  BY <3>1, Zenon DEF Removes, Step
  <2> QED  BY <2>3
<1> HIDE DEF S
<1>3. Nat \subseteq S  BY <1>1, <1>2, Induction
<1>4. \E g : Removes(g, seq, dead, Len(seq))  BY <1>3 DEF S
<1> DEFINE left == CHOOSE g : Removes(g, seq, dead, Len(seq))
<1>5. Removes(left, seq, dead, Len(seq))  BY <1>4, Zenon
<1>6. RemoveDead(seq, dead) = left[Len(seq)]  BY Zenon DEF RemoveDead, Removes
<1> QED  BY <1>5, <1>6, Zenon

\* poll_loop drops the subscribers it could not write to, and no other: the
\* indices it removes from the highest down are those of dead ones.
LEMMA RemoveDeadExact ==
    ASSUME NEW S, NEW seq \in Seq(S), NEW dead
    PROVE  /\ RemoveDead(seq, dead) \in Seq(S)
           /\ Range(RemoveDead(seq, dead)) = Range(seq) \ dead
<1> DEFINE N == Len(seq)
<1>n. N \in Nat /\ \A j \in 1..N : seq[j] \in S  OBVIOUS
<1>1. PICK left : Removes(left, seq, dead, N) /\ RemoveDead(seq, dead) = left[N]
  BY <1>n, RemoveDeadRemoves
<1> DEFINE Good(r, m) ==
             /\ r \in Seq(S) /\ Len(r) >= m
             /\ \A j \in 1..m : r[j] = seq[j]
             /\ \A j \in 1..Len(r) : j > m => r[j] \notin dead
             /\ \A k \in 1..N : seq[k] \notin dead => \E j \in 1..Len(r) : r[j] = seq[k]
             /\ \A j \in 1..Len(r) : \E k \in 1..N : r[j] = seq[k]
           T == {n \in Nat : n <= N => Good(left[n], N - n)}
<1> HIDE DEF N
<1>2. 0 \in T
  <2>1. left[0] = seq  BY <1>1, <1>n DEF Removes
  <2>2. Good(seq, N)  BY <1>n DEF N
  <2>3. N - 0 = N  BY <1>n
  <2> QED  BY <2>1, <2>2, <2>3, Zenon
<1>3. ASSUME NEW n \in Nat, n \in T PROVE n + 1 \in T
  <2> SUFFICES ASSUME n + 1 <= N PROVE Good(left[n + 1], N - (n + 1))
    <3> HIDE DEF Good
    <3> QED  OBVIOUS
  <2> DEFINE r == left[n]
             i == N - n
             q == left[n + 1]
  <2>1. i \in 1..N /\ N + 1 - (n + 1) = i /\ N - (n + 1) = i - 1 /\ n + 1 \in 0..N
        /\ n + 1 # 0 /\ (n + 1) - 1 = n  BY <1>n
  <2>2. q = IF seq[i] \in dead THEN swap_remove(r, i) ELSE r
    BY <1>1, <2>1 DEF Removes, N
  <2>3. Good(r, i)  BY <1>3, <1>n
  <2> HIDE DEF r, i, q
  <2>4. CASE seq[i] \notin dead
    <3>1. q = r  BY <2>2, <2>4
    <3>2. r[i] = seq[i] /\ Len(r) \in Nat  BY <2>1, <2>3
    <3>3. \A j \in 1..Len(r) : j > i - 1 => r[j] \notin dead
      BY <2>1, <2>3, <2>4, <3>2
    <3>4. \A j \in 1..(i - 1) : r[j] = seq[j]  BY <2>1, <2>3
    <3>5. Len(r) >= i - 1  BY <2>1, <2>3, <3>2
    <3>6. Good(r, i - 1)  BY <2>3, <3>3, <3>4, <3>5
    <3> QED  BY <3>1, <3>6, <2>1 DEF q
  <2>5. CASE seq[i] \in dead
    <3> DEFINE M == Len(r)
    <3>1. M \in Nat /\ M >= i /\ i \in 1..M  BY <2>1, <2>3
    <3>2. q = swap_remove(r, i)  BY <2>2, <2>5
    <3>3. /\ q \in Seq(S) /\ Len(q) = M - 1
          /\ \A j \in 1..(M - 1) : q[j] = IF j = i THEN r[M] ELSE r[j]
      <4>1. r \in Seq(S) /\ i \in 1..Len(r)  BY <2>3, <3>1
      <4> DEFINE w == swap_remove(r, i)
      <4>2. /\ w \in Seq(S) /\ Len(w) = Len(r) - 1
            /\ \A j \in 1..(Len(r) - 1) : w[j] = IF j = i THEN r[Len(r)] ELSE r[j]
        BY <4>1, SwapRemove
      <4> HIDE DEF w
      <4>3. q = w  BY <3>2 DEF w
      <4> QED  BY <4>2, <4>3
    <3>4. r[i] = seq[i]  BY <2>1, <2>3
    <3> HIDE DEF M
    <3>5. ASSUME NEW j \in 1..(i - 1) PROVE q[j] = seq[j]
      <4>1. j \in 1..(M - 1) /\ j \in 1..i /\ j # i  BY <2>1, <3>1
      <4>2. r[j] = seq[j]  BY <4>1, <2>3
      <4> QED  BY <4>1, <4>2, <3>3
    <3>6. \A j \in 1..(M - 1) : j > i - 1 => q[j] \notin dead
      <4>1. \A j \in 1..M : j > i => r[j] \notin dead  BY <2>3 DEF M
      <4> QED  BY <4>1, <2>1, <3>1, <3>3
    <3>7. ASSUME NEW k \in 1..N, seq[k] \notin dead
          PROVE \E j \in 1..(M - 1) : q[j] = seq[k]
      <4>1. PICK j \in 1..M : r[j] = seq[k]  BY <3>7, <2>3 DEF M
      <4>2. j # i  BY <3>4, <2>5, <4>1, <3>7
      <4>3. CASE j = M
        <5>1. i \in 1..(M - 1) /\ q[i] = r[M]  BY <3>1, <3>3, <4>2, <4>3
        <5> QED  BY <5>1, <4>1, <4>3
      <4>4. CASE j # M
        <5>1. j \in 1..(M - 1) /\ q[j] = r[j]  BY <3>1, <3>3, <4>2, <4>4
        <5> QED  BY <5>1, <4>1
      <4> QED  BY <4>3, <4>4
    <3>8. ASSUME NEW j \in 1..(M - 1) PROVE \E k \in 1..N : q[j] = seq[k]
      <4>1. j \in 1..M /\ M \in 1..M  BY <3>1
      <4>2. \A l \in 1..M : \E k \in 1..N : r[l] = seq[k]  BY <2>3 DEF M
      <4>3. q[j] = r[j] \/ q[j] = r[M]  BY <3>3
      <4> QED  BY <4>1, <4>2, <4>3
    <3>9. Len(q) = M - 1 /\ M - 1 >= i - 1  BY <3>1, <3>3, <2>1
    <3>10. Good(q, i - 1)  BY <3>3, <3>5, <3>6, <3>7, <3>8, <3>9
    <3> QED  BY <3>10, <2>1 DEF q
  <2> QED  BY <2>4, <2>5
<1> HIDE DEF T
<1>4. Nat \subseteq T  BY <1>2, <1>3, Induction
<1>5. Good(left[N], 0)
  <2>1. N \in T /\ N - N = 0 /\ N <= N  BY <1>4, <1>n
  <2> QED  BY <2>1 DEF T
<1> DEFINE r == left[N]
<1> HIDE DEF r
<1>6. r \in Seq(S) /\ DOMAIN r = 1..Len(r) /\ Len(r) \in Nat /\ DOMAIN seq = 1..N
  BY <1>5, LenProperties DEF r, N
<1>7. \A j \in 1..Len(r) : r[j] \notin dead /\ \E k \in 1..N : r[j] = seq[k]
  BY <1>5, <1>6 DEF r
<1>8. \A k \in 1..N : seq[k] \notin dead => \E j \in 1..Len(r) : r[j] = seq[k]
  BY <1>5 DEF r
<1>9. Range(r) = Range(seq) \ dead
  <2>1. ASSUME NEW x \in Range(r) PROVE x \in Range(seq) \ dead
    <3>1. PICK j \in 1..Len(r) : x = r[j]  BY <1>6 DEF Range
    <3> QED  BY <3>1, <1>6, <1>7 DEF Range
  <2>2. ASSUME NEW x \in Range(seq) \ dead PROVE x \in Range(r)
    <3>1. PICK k \in 1..N : x = seq[k]  BY <1>6 DEF Range
    <3> QED  BY <3>1, <1>6, <1>8 DEF Range
  <2> QED  BY <2>1, <2>2
<1> QED  BY <1>1, <1>6, <1>9 DEF r

\* Orders lists every element of a finite set.
LEMMA OrderLists ==
    ASSUME NEW S, IsFiniteSet(S), NEW f \in Orders(S)
    PROVE  f \in Seq(S) /\ \A x \in S : \E i \in DOMAIN f : f[i] = x
<1> DEFINE n == Cardinality(S)
<1>1. n \in Nat  BY FS_CardinalityType
<1>2. f \in Injection(1..n, S)  BY Zenon DEF Orders, n
<1> HIDE DEF n
<1>3. IsFiniteSet(1..n) /\ Cardinality(1..n) = n
  <2>1. Cardinality(1..n) = IF 1 > n THEN 0 ELSE n - 1 + 1  BY <1>1, FS_Interval
  <2>2. IsFiniteSet(1..n)  BY <1>1, FS_Interval
  <2> QED  BY <2>1, <2>2, <1>1
<1>4. f \in [1..n -> S]  BY <1>2, Zenon DEF Injection
<1>5. f \in Surjection(1..n, S)  BY <1>2, <1>3, FS_Injection DEF n
<1>6. \A x \in S : \E i \in 1..n : f[i] = x  BY <1>5, Zenon DEF Surjection
<1> QED  BY <1>1, <1>4, <1>6

\* The positions of the events about a port.
About(events, p) == {i \in 1..Len(events) : events[i].port = p}

\* What After says, in terms of positions.
LEMMA AfterPositions ==
    ASSUME NEW E, NEW events \in Seq(E), NEW held, NEW p
    PROVE  After(events, held, p) <=>
             \/ \E i \in About(events, p) :
                  events[i].event = "opened" /\ \A j \in About(events, p) : j <= i
             \/ About(events, p) = {} /\ p \in held
<1>1. DOMAIN events = 1..Len(events)  BY LenProperties
<1> QED  BY <1>1, Zenon DEF After, About

\* A bounded set of numbers has a greatest one.
LEMMA Greatest ==
    ASSUME NEW N \in Nat, NEW T, T \subseteq 1..N, T # {}
    PROVE  \E x \in T : \A y \in T : y <= x
<1> DEFINE U == {N - x : x \in T}
<1>1. U \subseteq Nat /\ U # {}
  <2>1. \A x \in T : N - x \in Nat  OBVIOUS
  <2> QED  BY <2>1, Zenon
<1>2. PICK u \in U : \A v \in U : u <= v
  <2> HIDE DEF U
  <2> QED  BY <1>1, LeastNat, Zenon
<1>3. PICK x \in T : u = N - x  BY <1>2
<1>4. ASSUME NEW y \in T PROVE y <= x
  <2>1. N - y \in U  OBVIOUS
  <2>2. N - x <= N - y /\ x \in 1..N /\ y \in 1..N  BY <1>2, <1>3, <2>1
  <2> HIDE DEF U
  <2> QED  BY <2>2
<1> QED  BY <1>4

\* Events that are added decide about the ports they speak of, and leave the
\* others as they were.
LEMMA AfterAdded ==
    ASSUME NEW E, NEW s \in Seq(E), NEW new \in Seq(E), NEW held, NEW p
    PROVE  /\ About(new, p) = {} => (After(s \o new, held, p) <=> After(s, held, p))
           /\ About(new, p) # {} /\ (\A i \in About(new, p) : new[i].event = "opened")
                => After(s \o new, held, p)
           /\ About(new, p) # {} /\ (\A i \in About(new, p) : new[i].event # "opened")
                => ~After(s \o new, held, p)
<1> DEFINE c == s \o new
           m == Len(s)
           n == Len(new)
<1>1. /\ m \in Nat /\ n \in Nat /\ c \in Seq(E) /\ Len(c) = m + n
      /\ \A i \in 1..m : c[i] = s[i]
      /\ \A i \in 1..n : c[m + i] = new[i]
  BY ConcatProperties
<1>2. After(c, held, p) <=>
             \/ \E i \in About(c, p) : c[i].event = "opened" /\ \A j \in About(c, p) : j <= i
             \/ About(c, p) = {} /\ p \in held
  BY <1>1, AfterPositions, Zenon
<1>3. After(s, held, p) <=>
             \/ \E i \in About(s, p) : s[i].event = "opened" /\ \A j \in About(s, p) : j <= i
             \/ About(s, p) = {} /\ p \in held
  BY AfterPositions
<1> HIDE DEF c, m, n
<1>4. ASSUME NEW i \in 1..(m + n) PROVE i \in 1..m \/ (i - m \in 1..n /\ c[i] = new[i - m] /\ i > m)
  <2>1. CASE i <= m  BY <2>1, <1>1
  <2>2. CASE ~(i <= m)
    <3>1. i - m \in 1..n /\ m + (i - m) = i  BY <2>2, <1>1
    <3>2. c[m + (i - m)] = new[i - m]  BY <3>1, <1>1
    <3> QED  BY <3>1, <3>2, <2>2, <1>1
  <2> QED  BY <2>1, <2>2
<1>5. ASSUME About(new, p) = {} PROVE After(c, held, p) <=> After(s, held, p)
  <2>1. ASSUME NEW i \in About(c, p) PROVE i \in About(s, p)
    <3>1. i \in 1..(m + n) /\ c[i].port = p  BY <1>1 DEF About
    <3>2. CASE i \in 1..m  BY <3>1, <3>2, <1>1 DEF About, m
    <3>3. CASE i - m \in 1..n /\ c[i] = new[i - m]
      <4>1. i - m \in About(new, p)  BY <3>1, <3>3, Zenon DEF About, n
      <4> QED  BY <4>1, <1>5
    <3> QED  BY <3>1, <3>2, <3>3, <1>4
  <2>2. ASSUME NEW i \in About(s, p) PROVE i \in About(c, p) /\ c[i] = s[i]
    <3>1. i \in 1..m /\ s[i].port = p  BY DEF About, m
    <3>2. c[i] = s[i] /\ i \in 1..(m + n)  BY <3>1, <1>1
    <3> QED  BY <3>1, <3>2, <1>1 DEF About
  <2>3. About(c, p) = About(s, p)  BY <2>1, <2>2, Zenon
  <2> QED  BY <2>2, <2>3, <1>2, <1>3, Zenon
<1>6. ASSUME NEW k \in About(new, p)
      PROVE  /\ m + k \in About(c, p)
             /\ \A i \in About(c, p) : (\A j \in About(c, p) : j <= i) =>
                  i - m \in About(new, p) /\ c[i] = new[i - m]
  <2>1. k \in 1..n /\ new[k].port = p  BY DEF About, n
  <2>2. m + k \in 1..(m + n) /\ m + k > m /\ c[m + k] = new[k]  BY <2>1, <1>1
  <2>3. m + k \in About(c, p)  BY <2>1, <2>2, <1>1 DEF About
  <2>4. ASSUME NEW i \in About(c, p), \A j \in About(c, p) : j <= i
        PROVE  i - m \in About(new, p) /\ c[i] = new[i - m]
    <3>1. i \in 1..(m + n) /\ c[i].port = p  BY <1>1 DEF About
    <3>2. m + k <= i  BY <2>3, <2>4
    <3>3. i \notin 1..m  BY <3>1, <3>2, <2>2, <1>1
    <3>4. i - m \in 1..n /\ c[i] = new[i - m]  BY <3>1, <3>3, <1>4
    <3> QED  BY <3>1, <3>4, Zenon DEF About, n
  <2> QED  BY <2>3, <2>4
<1>7. ASSUME About(new, p) # {}, \A i \in About(new, p) : new[i].event = "opened"
      PROVE  After(c, held, p)
  <2>1. PICK k \in About(new, p) : TRUE  BY <1>7
  <2>2. About(c, p) # {} /\ About(c, p) \subseteq 1..(m + n) /\ m + n \in Nat
    BY <2>1, <1>6, <1>1 DEF About
  <2>3. PICK i \in About(c, p) : \A j \in About(c, p) : j <= i  BY <2>2, Greatest
  <2>4. i - m \in About(new, p) /\ c[i] = new[i - m]  BY <2>1, <2>3, <1>6
  <2> QED  BY <2>3, <2>4, <1>7, <1>2, Zenon
<1>8. ASSUME About(new, p) # {}, \A i \in About(new, p) : new[i].event # "opened"
      PROVE  ~After(c, held, p)
  <2>1. PICK k \in About(new, p) : TRUE  BY <1>8
  <2>2. m + k \in About(c, p)  BY <2>1, <1>6
  <2>3. ASSUME NEW i \in About(c, p), \A j \in About(c, p) : j <= i
        PROVE  c[i].event # "opened"
    BY <2>1, <2>3, <1>6, <1>8, Zenon
  <2> QED  BY <2>2, <2>3, <1>2, Zenon
<1> QED  BY <1>5, <1>6, <1>7, <1>8, Zenon DEF c

\* An event that is read and applied to what is held leaves the outcome as it
\* was.
LEMMA AfterRead ==
    ASSUME NEW E, NEW events \in Seq(E), events # <<>>, NEW held, NEW now, NEW p,
           now = IF Head(events).event = "opened" THEN held \union {Head(events).port}
                 ELSE held \ {Head(events).port}
    PROVE  After(Tail(events), now, p) <=> After(events, held, p)
<1> DEFINE t == Tail(events)
           e == Head(events)
           n == Len(t)
<1>1. /\ t \in Seq(E) /\ n \in Nat /\ Len(events) = n + 1 /\ e = events[1]
      /\ \A i \in 1..n : t[i] = events[i + 1]
  BY HeadTailProperties
<1>h. now = IF e.event = "opened" THEN held \union {e.port} ELSE held \ {e.port}  OBVIOUS
<1> HIDE DEF t, e, n
<1>2. After(t, now, p) <=>
             \/ \E i \in About(t, p) : t[i].event = "opened" /\ \A j \in About(t, p) : j <= i
             \/ About(t, p) = {} /\ p \in now
  <2>1. t \in Seq(E)  BY <1>1
  <2>2. ASSUME NEW w
        PROVE  After(t, w, p) <=>
             \/ \E i \in About(t, p) : t[i].event = "opened" /\ \A j \in About(t, p) : j <= i
             \/ About(t, p) = {} /\ p \in w
    BY <2>1, AfterPositions, SMT
  <2> QED  BY <2>2, Zenon
<1>3. After(events, held, p) <=>
             \/ \E i \in About(events, p) :
                  events[i].event = "opened" /\ \A j \in About(events, p) : j <= i
             \/ About(events, p) = {} /\ p \in held
  BY AfterPositions
<1>4. ASSUME NEW i \in About(t, p) PROVE i + 1 \in About(events, p) /\ t[i] = events[i + 1]
  <2>1. i \in 1..n /\ t[i].port = p  BY DEF About, n
  <2>2. i + 1 \in 1..(n + 1) /\ t[i] = events[i + 1]  BY <2>1, <1>1
  <2> QED  BY <2>1, <2>2, <1>1 DEF About
<1>5. ASSUME NEW i \in About(events, p), i # 1 PROVE i - 1 \in About(t, p) /\ t[i - 1] = events[i]
  <2>1. i \in 1..(n + 1) /\ events[i].port = p  BY <1>1 DEF About
  <2>2. i - 1 \in 1..n /\ (i - 1) + 1 = i  BY <2>1, <1>5, <1>1
  <2>3. t[i - 1] = events[i]  BY <2>2, <1>1
  <2> QED  BY <2>1, <2>2, <2>3, Zenon DEF About, n
<1>6. 1 \in About(events, p) <=> e.port = p
  <2>1. 1 \in 1..Len(events)  BY <1>1
  <2> QED  BY <2>1, <1>1, Zenon DEF About
<1>7. CASE About(t, p) = {}
  <2>1. \A i \in About(events, p) : i = 1  BY <1>5, <1>7
  <2>2. After(t, now, p) <=> p \in now  BY <1>2, <1>7
  <2>3. CASE e.port = p
    <3>1. After(events, held, p) <=> e.event = "opened"  BY <2>1, <2>3, <1>1, <1>3, <1>6
    <3>2. p \in now <=> e.event = "opened"  BY <1>h, <2>3, Zenon
    <3> QED  BY <3>1, <3>2, <2>2, Zenon DEF t
  <2>4. CASE e.port # p
    <3>1. About(events, p) = {}  BY <2>1, <2>4, <1>6
    <3>2. p \in now <=> p \in held  BY <1>h, <2>4
    <3> QED  BY <3>1, <3>2, <2>2, <1>3, Zenon DEF t
  <2> QED  BY <2>3, <2>4
<1>8. CASE About(t, p) # {}
  <2>1. \A i \in About(t, p) : i \in Nat /\ i >= 1  BY <1>1 DEF About, n
  <2>2. \A i \in About(events, p) : i \in Nat  BY DEF About
  <2>3. ASSUME NEW i \in About(t, p), t[i].event = "opened", \A j \in About(t, p) : j <= i
        PROVE  After(events, held, p)
    <3>1. i + 1 \in About(events, p) /\ events[i + 1].event = "opened"  BY <2>3, <1>4
    <3>2. ASSUME NEW j \in About(events, p) PROVE j <= i + 1
      <4>1. CASE j = 1
        <5>1. i \in Nat  BY <2>1
        <5> QED  BY <5>1, <4>1
      <4>2. CASE j # 1
        <5>1. j - 1 \in About(t, p)  BY <4>2, <1>5
        <5>2. j - 1 <= i  BY <5>1, <2>3
        <5> QED  BY <5>2, <2>1, <2>2
      <4> QED  BY <4>1, <4>2
    <3> QED  BY <3>1, <3>2, <1>3, Zenon
  <2>4. ASSUME NEW i \in About(events, p), events[i].event = "opened",
               \A j \in About(events, p) : j <= i
        PROVE  After(t, now, p)
    <3>1. PICK k \in About(t, p) : TRUE  BY <1>8
    <3>2. k + 1 <= i  BY <3>1, <1>4, <2>4
    <3>3. i # 1  BY <3>2, <2>1, <3>1
    <3>4. i - 1 \in About(t, p) /\ t[i - 1].event = "opened"  BY <3>3, <1>5, <2>4
    <3>5. ASSUME NEW j \in About(t, p) PROVE j <= i - 1
      <4>1. j + 1 <= i  BY <1>4, <2>4
      <4> QED  BY <4>1, <2>1, <2>2
    <3> QED  BY <3>4, <3>5, <1>2, Zenon
  <2>5. About(events, p) # {}  BY <1>8, <1>4
  <2> QED  BY <2>3, <2>4, <2>5, <1>2, <1>3, <1>8, Zenon DEF t
<1> QED  BY <1>7, <1>8

EventSet == [event : {"opened", "closed"}, port : Ports]

\* The events about a set of ports speak of these ports and of no others.
LEMMA EventsTell ==
    ASSUME NEW S, IsFiniteSet(S), S \subseteq Ports, NEW f \in Orders(S),
           NEW kind \in {"opened", "closed"}
    PROVE  /\ Event(kind, f) \in Seq(EventSet)
           /\ \A p : About(Event(kind, f), p) = {} <=> p \notin S
           /\ \A p : \A i \in About(Event(kind, f), p) : Event(kind, f)[i].event = kind
<1> DEFINE E == Event(kind, f)
<1>1. f \in Seq(S) /\ \A x \in S : \E i \in DOMAIN f : f[i] = x  BY OrderLists
<1>2. DOMAIN f = 1..Len(f) /\ Len(f) \in Nat /\ \A i \in 1..Len(f) : f[i] \in S
  BY <1>1, LenProperties, ElementOfSeq
<1>3. E = [i \in 1..Len(f) |-> [event |-> kind, port |-> f[i]]]  BY <1>2, Zenon DEF Event
<1>4. \A i \in 1..Len(f) : [event |-> kind, port |-> f[i]] \in EventSet
  BY <1>2 DEF EventSet
<1>5. E \in [1..Len(f) -> EventSet]  BY <1>3, <1>4, Zenon
<1>6. E \in Seq(EventSet) /\ Len(E) = Len(f)
  <2> DEFINE n == Len(f)
             e == E
  <2>1. n \in Nat /\ e \in [1..n -> EventSet]  BY <1>2, <1>5
  <2> HIDE DEF n, e
  <2>2. e \in Seq(EventSet) /\ Len(e) = n  BY <2>1
  <2> QED  BY <2>2 DEF n, e
<1>7. \A i \in 1..Len(f) : E[i].event = kind /\ E[i].port = f[i]  BY <1>3
<1> HIDE DEF E
<1>8. ASSUME NEW p PROVE About(E, p) = {} <=> p \notin S
  <2>1. ASSUME NEW i \in About(E, p) PROVE p \in S
    <3>1. i \in 1..Len(f) /\ E[i].port = p  BY <1>6 DEF About
    <3> QED  BY <3>1, <1>2, <1>7
  <2>2. ASSUME p \in S PROVE About(E, p) # {}
    <3>1. PICK i \in 1..Len(f) : f[i] = p  BY <2>2, <1>1, <1>2
    <3>2. i \in About(E, p)  BY <3>1, <1>6, <1>7 DEF About
    <3> QED  BY <3>2
  <2> QED  BY <2>1, <2>2, Zenon
<1>9. ASSUME NEW p, NEW i \in About(E, p) PROVE E[i].event = kind
  <2>1. i \in 1..Len(f)  BY <1>6 DEF About
  <2> QED  BY <2>1, <1>7
<1> QED  BY <1>6, <1>8, <1>9, Zenon DEF E

\* The events take a session that is in step with the old ports to the new ones.
Tells(events, old, new) ==
    /\ events \in Seq(EventSet)
    /\ \A s \in Seq(EventSet) : \A held, p :
         (After(s, held, p) <=> p \in old) => (After(s \o events, held, p) <=> p \in new)

\* The events of a scan take a session from the known ports to those found.
LEMMA ChangesTell ==
    ASSUME NEW old, IsFiniteSet(old), old \subseteq Ports,
           NEW new, IsFiniteSet(new), new \subseteq Ports,
           NEW opened \in Orders(new \ old), NEW closed \in Orders(old \ new),
           NEW events,
           events = Event("opened", opened) \o Event("closed", closed)
    PROVE  Tells(events, old, new)
<1> DEFINE o == Event("opened", opened)
           c == Event("closed", closed)
<1>1. IsFiniteSet(new \ old) /\ IsFiniteSet(old \ new)  BY FS_Difference, Zenon
<1>2. /\ o \in Seq(EventSet) /\ \A p : About(o, p) = {} <=> p \notin new \ old
      /\ \A p : \A i \in About(o, p) : o[i].event = "opened"
  <2> DEFINE S == new \ old
  <2>1. IsFiniteSet(S) /\ S \subseteq Ports /\ opened \in Orders(S)  BY <1>1
  <2> HIDE DEF S
  <2>2. /\ o \in Seq(EventSet) /\ \A p : About(o, p) = {} <=> p \notin S
        /\ \A p : \A i \in About(o, p) : o[i].event = "opened"
    BY <2>1, EventsTell, Zenon
  <2> QED  BY <2>2, Zenon DEF S
<1>3. /\ c \in Seq(EventSet) /\ \A p : About(c, p) = {} <=> p \notin old \ new
      /\ \A p : \A i \in About(c, p) : c[i].event = "closed"
  <2> DEFINE S == old \ new
  <2>1. IsFiniteSet(S) /\ S \subseteq Ports /\ closed \in Orders(S)  BY <1>1
  <2> HIDE DEF S
  <2>2. /\ c \in Seq(EventSet) /\ \A p : About(c, p) = {} <=> p \notin S
        /\ \A p : \A i \in About(c, p) : c[i].event = "closed"
    BY <2>1, EventsTell, Zenon
  <2> QED  BY <2>2, Zenon DEF S
<1>4. events = o \o c  OBVIOUS
<1> HIDE DEF o, c
<1>s. o \in Seq(EventSet) /\ c \in Seq(EventSet)  BY <1>2, <1>3
<1>5. events \in Seq(EventSet)  BY <1>s, <1>4, ConcatProperties, Zenon
<1>6. ASSUME NEW s \in Seq(EventSet), NEW held, NEW p, After(s, held, p) <=> p \in old
      PROVE  After(s \o events, held, p) <=> p \in new
  <2> DEFINE t == s \o o
  <2>1. s \o events = t \o c
    <3>1. (s \o o) \o c = s \o (o \o c)  BY <1>s, ConcatAssociative
    <3> QED  BY <3>1, <1>4, Zenon
  <2>2. t \in Seq(EventSet)  BY <1>s, ConcatProperties, Zenon
  <2>3. /\ About(o, p) = {} => (After(t, held, p) <=> After(s, held, p))
        /\ About(o, p) # {} => After(t, held, p)
    BY <1>2, AfterAdded
  <2> HIDE DEF t
  <2>4. \A i \in About(c, p) : c[i].event # "opened"
    <3>1. "closed" # "opened"  OBVIOUS
    <3> QED  BY <3>1, <1>3, Zenon
  <2>5. /\ About(c, p) = {} => (After(t \o c, held, p) <=> After(t, held, p))
        /\ About(c, p) # {} => ~After(t \o c, held, p)
    BY <2>2, <2>4, <1>s, AfterAdded, Zenon
  <2> QED  BY <2>1, <2>3, <2>5, <1>2, <1>3, <1>6, Zenon
<1> QED  BY <1>5, <1>6, Zenon DEF Tells

\* The types of the variables; the guest has finitely many ports open.
PortTypes ==
    /\ listening \subseteq Ports /\ IsFiniteSet(listening)
    /\ known \subseteq Ports /\ IsFiniteSet(known)
    /\ scanned # Idle => scanned[1] \subseteq Ports /\ IsFiniteSet(scanned[1])
    /\ subscribers \in Seq(Sessions)
    /\ backlog \subseteq Sessions
    /\ stream \in [Sessions -> Seq(EventSet)]
    /\ phase \in [Sessions -> {"off", "on", "ended"}]
    /\ listeners \in [Sessions -> SUBSET Ports]
    /\ refused \in [Sessions -> SUBSET Ports]

Held(s) == listeners[s] \union refused[s]

\* A session that was not accepted is not subscribed, and nothing was sent to
\* it or opened for it.
NotYet ==
    \A s \in Sessions : phase[s] = "off" \/ s \in backlog =>
        s \notin Range(subscribers) /\ stream[s] = <<>> /\ Held(s) = {}

NotQueued == \A s \in backlog : phase[s] # "off"

\* One that was accepted and goes on is subscribed, and in step.
InStep(s) ==
    phase[s] = "on" /\ s \notin backlog =>
        /\ s \in Range(subscribers)
        /\ \A p : After(stream[s], Held(s), p) <=> p \in known

PortInv == PortTypes /\ NotYet /\ NotQueued /\ \A s \in Sessions : InStep(s)

\* Nothing is open and nobody is there at first.
LEMMA PortInit == Init => PortInv
<1> SUFFICES ASSUME Init PROVE PortInv
    OBVIOUS
<1> USE DEF Init
<1>1. IsFiniteSet({})  BY FS_EmptySet
<1>2. PortTypes  BY <1>1 DEF PortTypes
<1>3. NotYet  BY DEF NotYet, Held, Range
<1>4. NotQueued  BY DEF NotQueued
<1>5. \A s \in Sessions : InStep(s)  BY DEF InStep
<1> QED  BY <1>2, <1>3, <1>4, <1>5 DEF PortInv

\* A step that leaves the sessions and the monitor's state alone.
LEMMA SameSessions ==
    ASSUME PortInv, PortTypes', UNCHANGED <<known, subscribers, backlog, stream, phase, listeners, refused>>
    PROVE  PortInv'
<1>1. NotYet'  BY DEF PortInv, NotYet, Held
<1>2. NotQueued'  BY DEF PortInv, NotQueued
<1>3. ASSUME NEW s \in Sessions PROVE InStep(s)'
  <2>1. InStep(s)  BY DEF PortInv
  <2> QED  BY <2>1, Zenon DEF InStep, Held
<1> QED  BY <1>1, <1>2, <1>3 DEF PortInv

\* The guest opens and closes ports, and poll_loop scans them.
LEMMA GuestKeeps ==
    ASSUME PortInv, Scan \/ \E p \in Ports : GuestListens(p) \/ GuestCloses(p)
    PROVE  PortInv'
<1>t. PortTypes  BY DEF PortInv
<1>1. CASE Scan
  <2>1. UNCHANGED <<listening, known, subscribers, backlog, stream, phase, listeners, refused>>
        /\ scanned' = <<listening>>
    BY <1>1 DEF Scan, host
  <2>2. PortTypes'  BY <2>1, <1>t DEF PortTypes
  <2> QED  BY <2>1, <2>2, SameSessions
<1>2. ASSUME NEW p \in Ports, GuestListens(p) \/ GuestCloses(p) PROVE PortInv'
  <2>1. UNCHANGED <<scanned, known, subscribers, backlog, stream, phase, listeners, refused>>
        /\ listening' \in {listening \union {p}, listening \ {p}}
    BY <1>2 DEF GuestListens, GuestCloses, host
  <2>2. IsFiniteSet(listening \union {p}) /\ IsFiniteSet(listening \ {p})
    BY <1>t, FS_AddElement, FS_RemoveElement, Zenon DEF PortTypes
  <2>3. PortTypes'  BY <2>1, <2>2, <1>t, Zenon DEF PortTypes
  <2> QED  BY <2>1, <2>3, SameSessions
<1> QED  BY <1>1, <1>2

\* poll_loop tells the subscribers what has changed.
LEMMA NotifyKeeps ==
    ASSUME PortInv, Notify
    PROVE  PortInv'
<1> DEFINE new == scanned[1]
           reached == {s \in Range(subscribers) : phase[s] = "on"}
<1>t. PortTypes  BY DEF PortInv
<1>1. /\ known' = new /\ scanned' = Idle /\ scanned # Idle
      /\ UNCHANGED <<listening, backlog, phase, listeners, refused>>
  BY DEF Notify, host
<1>2. PICK opened \in Orders(new \ known), closed \in Orders(known \ new),
           dead \in SUBSET {s \in Range(subscribers) : phase[s] = "ended"} :
         /\ stream' = [s \in Sessions |->
                         IF s \in reached
                         THEN stream[s] \o (Event("opened", opened) \o Event("closed", closed))
                         ELSE stream[s]]
         /\ subscribers' = RemoveDead(subscribers, dead)
  BY DEF Notify
<1> DEFINE events == Event("opened", opened) \o Event("closed", closed)
<1>3. /\ IsFiniteSet(known) /\ known \subseteq Ports /\ IsFiniteSet(new) /\ new \subseteq Ports
  BY <1>1, <1>t, Zenon DEF PortTypes
<1> HIDE DEF new, reached
<1>4. /\ events \in Seq(EventSet)
      /\ \A s \in Seq(EventSet) : \A held, p :
           (After(s, held, p) <=> p \in known) =>
               (After(s \o events, held, p) <=> p \in new)
  <2>1. /\ opened \in Orders(new \ known) /\ closed \in Orders(known \ new)
        /\ events = Event("opened", opened) \o Event("closed", closed)
    OBVIOUS
  <2> HIDE DEF events
  <2>2. Tells(events, known, new)  BY <2>1, <1>3, ChangesTell, Zenon
  <2> QED  BY <2>2, Zenon DEF Tells
<1>5. stream' = [s \in Sessions |-> IF s \in reached THEN stream[s] \o events ELSE stream[s]]
  BY <1>2
<1> HIDE DEF events
<1>6. subscribers' \in Seq(Sessions) /\ Range(subscribers') = Range(subscribers) \ dead
  <2>1. subscribers \in Seq(Sessions) /\ subscribers' = RemoveDead(subscribers, dead)
    BY <1>2, <1>t DEF PortTypes
  <2> QED  BY <2>1, RemoveDeadExact, Zenon
<1>7. ASSUME NEW s \in Sessions
      PROVE  /\ s \in reached => stream'[s] = stream[s] \o events
             /\ s \notin reached => stream'[s] = stream[s]
             /\ stream[s] \in Seq(EventSet) /\ stream'[s] \in Seq(EventSet)
  <2>1. stream[s] \in Seq(EventSet)  BY <1>t DEF PortTypes
  <2>2. stream[s] \o events \in Seq(EventSet)  BY <2>1, <1>4, ConcatProperties, Zenon
  <2>3. stream'[s] = IF s \in reached THEN stream[s] \o events ELSE stream[s]  BY <1>5
  <2> QED  BY <2>1, <2>2, <2>3
<1>8. PortTypes'
  <2>1. stream' \in [Sessions -> Seq(EventSet)]
    <3>1. stream' = [s \in Sessions |-> stream'[s]]  BY <1>5
    <3> QED  BY <3>1, <1>7, Zenon
  <2> QED  BY <2>1, <1>1, <1>3, <1>6, <1>t DEF PortTypes
<1>9. NotYet'
  <2> SUFFICES ASSUME NEW s \in Sessions, phase[s] = "off" \/ s \in backlog
               PROVE  s \notin Range(subscribers') /\ stream'[s] = <<>> /\ Held(s)' = {}
    BY <1>1, Zenon DEF NotYet
  <2>1. s \notin Range(subscribers) /\ stream[s] = <<>> /\ Held(s) = {}
    BY Zenon DEF PortInv, NotYet
  <2>2. Held(s)' = Held(s)  BY <1>1, Zenon DEF Held
  <2>3. s \notin reached  BY <2>1, Zenon DEF reached
  <2> QED  BY <2>1, <2>2, <2>3, <1>6, <1>7, Zenon
<1>10. NotQueued'  BY <1>1, Zenon DEF PortInv, NotQueued
<1>11. ASSUME NEW s \in Sessions PROVE InStep(s)'
  <2> SUFFICES ASSUME phase[s] = "on", s \notin backlog
               PROVE  /\ s \in Range(subscribers')
                      /\ \A p : After(stream'[s], Held(s)', p) <=> p \in new
    BY <1>1, Zenon DEF InStep
  <2>1. s \in Range(subscribers) /\ \A p : After(stream[s], Held(s), p) <=> p \in known
    BY Zenon DEF PortInv, InStep
  <2>2. s \in reached  BY <2>1, Zenon DEF reached
  <2>3. s \notin dead
    <3>1. "on" # "ended"  OBVIOUS
    <3> QED  BY <3>1, <1>2, Zenon
  <2>4. stream'[s] = stream[s] \o events /\ stream[s] \in Seq(EventSet)
    BY <2>2, <1>7, Zenon
  <2>5. Held(s)' = Held(s)  BY <1>1, Zenon DEF Held
  <2> QED  BY <2>1, <2>3, <2>4, <2>5, <1>4, <1>6, Zenon
<1> QED  BY <1>8, <1>9, <1>10, <1>11, Zenon DEF PortInv

\* event_listener replays the known ports to a new subscriber.
LEMMA AcceptKeeps ==
    ASSUME PortInv, NEW s \in Sessions, Accept(s)
    PROVE  PortInv'
<1>t. PortTypes  BY DEF PortInv
<1>1. /\ s \in backlog /\ backlog' = backlog \ {s}
      /\ UNCHANGED <<listening, scanned, known, phase, listeners, refused>>
  BY Zenon DEF Accept, host
<1>2. \A u \in Sessions : Held(u)' = Held(u)  BY <1>1, Zenon DEF Held
<1>3. s \notin Range(subscribers) /\ stream[s] = <<>> /\ Held(s) = {} /\ phase[s] # "off"
  BY <1>1, Zenon DEF PortInv, NotYet, NotQueued
<1>4. \/ subscribers' = subscribers /\ phase[s] # "on"
      \/ subscribers' = Append(subscribers, s)
  <2>1. "on" # "ended"  OBVIOUS
  <2>2. CASE phase[s] = "on"  BY <2>1, <2>2 DEF Accept
  <2>3. CASE phase[s] # "on"  BY <2>1, <2>3 DEF Accept
  <2> QED  BY <2>2, <2>3
<1>5. /\ subscribers' \in Seq(Sessions)
      /\ Range(subscribers) \subseteq Range(subscribers')
      /\ Range(subscribers') \subseteq Range(subscribers) \union {s}
      /\ phase[s] = "on" => s \in Range(subscribers')
  <2>1. subscribers \in Seq(Sessions)  BY <1>t DEF PortTypes
  <2>2. CASE subscribers' = subscribers /\ phase[s] # "on"  BY <2>1, <2>2
  <2>3. CASE subscribers' = Append(subscribers, s)
    <3> DEFINE n == Len(subscribers)
               a == Append(subscribers, s)
    <3>1. n \in Nat /\ DOMAIN subscribers = 1..n  BY <2>1, LenProperties
    <3>2. /\ a \in Seq(Sessions) /\ DOMAIN a = 1..(n + 1)
          /\ \A i \in 1..n : a[i] = subscribers[i]
          /\ a[n + 1] = s
      BY <2>1, AppendProperties, LenProperties
    <3> HIDE DEF n, a
    <3>3. n + 1 \in 1..(n + 1) /\ \A i \in 1..n : i \in 1..(n + 1)  BY <3>1
    <3>4. \A i \in 1..(n + 1) : i \in 1..n \/ i = n + 1  BY <3>1
    <3>5. Range(a) = Range(subscribers) \union {s}
      BY <3>1, <3>2, <3>3, <3>4, Zenon DEF Range
    <3> QED  BY <2>3, <3>2, <3>5, Zenon DEF a
  <2> QED  BY <1>4, <2>2, <2>3
<1>6. \E new \in Seq(EventSet) :
         /\ stream' = [stream EXCEPT ![s] = new]
         /\ phase[s] = "on" => \A p : After(new, {}, p) <=> p \in known
  <2>s. stream \in [Sessions -> Seq(EventSet)]  BY <1>t DEF PortTypes
  <2>1. CASE phase[s] = "on"
    <3>1. "on" # "ended"  OBVIOUS
    <3>2. PICK ports \in Orders(known) : stream' = [stream EXCEPT ![s] = Event("opened", ports)]
      BY <2>1, <3>1, Zenon DEF Accept
    <3> DEFINE new == Event("opened", ports)
    <3>3. /\ new \in Seq(EventSet) /\ \A p : About(new, p) = {} <=> p \notin known
          /\ \A p : \A i \in About(new, p) : new[i].event = "opened"
      <4>1. IsFiniteSet(known) /\ known \subseteq Ports  BY <1>t DEF PortTypes
      <4> QED  BY <4>1, EventsTell, Zenon
    <3>4. stream' = [stream EXCEPT ![s] = new]  BY <3>2
    <3> HIDE DEF new
    <3>5. ASSUME NEW p PROVE After(new, {}, p) <=> p \in known
      <4>1. <<>> \in Seq(EventSet) /\ <<>> \o new = new  BY <3>3
      <4>2. /\ About(new, p) = {} => (After(<<>> \o new, {}, p) <=> After(<<>>, {}, p))
            /\ About(new, p) # {} => After(<<>> \o new, {}, p)
        BY <4>1, <3>3, AfterAdded, Zenon
      <4>3. ~After(<<>>, {}, p)  BY DEF After
      <4> QED  BY <4>1, <4>2, <4>3, <3>3, Zenon
    <3> QED  BY <3>3, <3>4, <3>5, Zenon
  <2>2. CASE phase[s] # "on"
    <3>1. stream' = stream  BY <2>2, Zenon DEF Accept
    <3>2. stream' = [stream EXCEPT ![s] = stream[s]] /\ stream[s] \in Seq(EventSet)
      BY <3>1, <2>s
    <3> QED  BY <3>2, <2>2, Zenon
  <2> QED  BY <2>1, <2>2
<1>7. PICK new \in Seq(EventSet) :
         /\ stream' = [stream EXCEPT ![s] = new]
         /\ phase[s] = "on" => \A p : After(new, {}, p) <=> p \in known
  BY <1>6, Zenon
<1>8. stream'[s] = new /\ \A u \in Sessions \ {s} : stream'[u] = stream[u]
  BY <1>7, <1>t DEF PortTypes
<1>9. PortTypes'
  <2>1. stream' \in [Sessions -> Seq(EventSet)]  BY <1>7, <1>t DEF PortTypes
  <2> QED  BY <2>1, <1>1, <1>5, <1>t DEF PortTypes
<1>10. NotYet'
  <2> SUFFICES ASSUME NEW u \in Sessions, phase[u] = "off" \/ u \in backlog'
               PROVE  u \notin Range(subscribers') /\ stream'[u] = <<>> /\ Held(u)' = {}
    BY <1>1, Zenon DEF NotYet
  <2>1. u # s  BY <1>1, <1>3
  <2>2. phase[u] = "off" \/ u \in backlog  BY <1>1
  <2>3. u \notin Range(subscribers) /\ stream[u] = <<>> /\ Held(u) = {}
    BY <2>2, Zenon DEF PortInv, NotYet
  <2> QED  BY <2>1, <2>3, <1>2, <1>5, <1>8, Zenon
<1>11. NotQueued'  BY <1>1, Zenon DEF PortInv, NotQueued
<1>12. ASSUME NEW u \in Sessions PROVE InStep(u)'
  <2> SUFFICES ASSUME phase[u] = "on", u \notin backlog'
               PROVE  /\ u \in Range(subscribers')
                      /\ \A p : After(stream'[u], Held(u)', p) <=> p \in known
    BY <1>1, Zenon DEF InStep
  <2>1. CASE u = s  BY <2>1, <1>2, <1>3, <1>5, <1>7, <1>8, Zenon
  <2>2. CASE u # s
    <3>1. u \notin backlog  BY <2>2, <1>1
    <3>2. u \in Range(subscribers) /\ \A p : After(stream[u], Held(u), p) <=> p \in known
      BY <3>1, Zenon DEF PortInv, InStep
    <3> QED  BY <2>2, <3>2, <1>2, <1>5, <1>8, Zenon
  <2> QED  BY <2>1, <2>2
<1> QED  BY <1>9, <1>10, <1>11, <1>12, Zenon DEF PortInv

\* A step of session s that leaves the others alone and subscribes nobody.
LEMMA SessionKeeps ==
    ASSUME PortInv, PortTypes', NEW s \in Sessions,
           UNCHANGED <<known, subscribers>>,
           \A u \in Sessions \ {s} :
               /\ phase'[u] = phase[u] /\ stream'[u] = stream[u] /\ Held(u)' = Held(u)
               /\ u \in backlog' <=> u \in backlog,
           phase'[s] # "off",
           s \in backlog' => s \notin Range(subscribers) /\ stream'[s] = <<>> /\ Held(s)' = {},
           InStep(s)'
    PROVE  PortInv'
<1>1. NotYet'
  <2> SUFFICES ASSUME NEW u \in Sessions, phase'[u] = "off" \/ u \in backlog'
               PROVE  u \notin Range(subscribers) /\ stream'[u] = <<>> /\ Held(u)' = {}
    BY Zenon DEF NotYet
  <2>1. CASE u = s  BY <2>1, Zenon
  <2>2. CASE u # s  BY <2>2, Zenon DEF PortInv, NotYet
  <2> QED  BY <2>1, <2>2
<1>2. NotQueued'
  <2> SUFFICES ASSUME NEW u \in backlog' PROVE phase'[u] # "off"
    BY Zenon DEF NotQueued
  <2>1. u \in Sessions  BY DEF PortTypes
  <2>2. CASE u = s  BY <2>2, Zenon
  <2>3. CASE u # s  BY <2>1, <2>3, Zenon DEF PortInv, NotQueued
  <2> QED  BY <2>2, <2>3
<1>3. ASSUME NEW u \in Sessions PROVE InStep(u)'
  <2>1. CASE u = s  BY <2>1, Zenon
  <2>2. CASE u # s
    <3>1. InStep(u)  BY DEF PortInv
    <3>2. /\ phase'[u] = phase[u] /\ stream'[u] = stream[u] /\ Held(u)' = Held(u)
          /\ u \in backlog' <=> u \in backlog
      BY <2>2, Zenon
    <3> QED  BY <3>1, <3>2, Zenon DEF InStep
  <2> QED  BY <2>1, <2>2
<1> QED  BY <1>1, <1>2, <1>3, Zenon DEF PortInv

\* PortForwarding::start connects.
LEMMA SubscribeKeeps ==
    ASSUME PortInv, NEW s \in Sessions, Subscribe(s)
    PROVE  PortInv'
<1>t. PortTypes  BY DEF PortInv
<1>1. /\ phase[s] = "off" /\ phase' = [phase EXCEPT ![s] = "on"] /\ backlog' = backlog \union {s}
      /\ UNCHANGED <<listening, scanned, known, subscribers, stream, listeners, refused>>
  BY Zenon DEF Subscribe
<1>2. s \notin Range(subscribers) /\ stream[s] = <<>> /\ Held(s) = {}
  BY <1>1, Zenon DEF PortInv, NotYet
<1>3. PortTypes'  BY <1>1, <1>t DEF PortTypes
<1>4. \A u \in Sessions : Held(u)' = Held(u)  BY <1>1, Zenon DEF Held
<1>5. phase'[s] = "on" /\ \A u \in Sessions \ {s} : phase'[u] = phase[u]
  BY <1>1, <1>t DEF PortTypes
<1>6. phase'[s] # "off"
  <2>1. "on" # "off"  OBVIOUS
  <2> QED  BY <2>1, <1>5, Zenon
<1>7. \A u \in Sessions \ {s} :
          /\ phase'[u] = phase[u] /\ stream'[u] = stream[u] /\ Held(u)' = Held(u)
          /\ u \in backlog' <=> u \in backlog
  BY <1>1, <1>4, <1>5
<1>8. InStep(s)'  BY <1>1, Zenon DEF InStep
<1> QED  BY <1>1, <1>2, <1>3, <1>4, <1>6, <1>7, <1>8, SessionKeeps, Zenon

\* The command of a session is over.
LEMMA EndSessionKeeps ==
    ASSUME PortInv, NEW s \in Sessions, EndSession(s)
    PROVE  PortInv'
<1>t. PortTypes  BY DEF PortInv
<1>1. /\ phase' = [phase EXCEPT ![s] = "ended"] /\ stream' = [stream EXCEPT ![s] = <<>>]
      /\ listeners' = [listeners EXCEPT ![s] = {}] /\ refused' = [refused EXCEPT ![s] = {}]
      /\ UNCHANGED <<listening, scanned, known, subscribers, backlog>>
  BY Zenon DEF EndSession
<1>2. <<>> \in Seq(EventSet)  OBVIOUS
<1>3. PortTypes'  BY <1>1, <1>2, <1>t DEF PortTypes
<1>4. /\ phase'[s] = "ended" /\ stream'[s] = <<>> /\ Held(s)' = {}
      /\ \A u \in Sessions \ {s} : phase'[u] = phase[u] /\ stream'[u] = stream[u] /\ Held(u)' = Held(u)
  BY <1>1, <1>t DEF PortTypes, Held
<1>5. phase'[s] # "off" /\ phase'[s] # "on"
  <2>1. "ended" # "off" /\ "ended" # "on"  OBVIOUS
  <2> QED  BY <2>1, <1>4, Zenon
<1>6. s \in backlog' => s \notin Range(subscribers)  BY <1>1, Zenon DEF PortInv, NotYet
<1>7. InStep(s)'  BY <1>5, Zenon DEF InStep
<1>8. \A u \in Sessions \ {s} :
          /\ phase'[u] = phase[u] /\ stream'[u] = stream[u] /\ Held(u)' = Held(u)
          /\ u \in backlog' <=> u \in backlog
  BY <1>1, <1>4, Zenon
<1> QED  BY <1>1, <1>3, <1>4, <1>5, <1>6, <1>7, <1>8, SessionKeeps, Zenon

\* What an event does to the ports a session holds.
LEMMA EventHeld ==
    ASSUME PortTypes, NEW s \in Sessions, Receive(s)
    PROVE  LET e == Head(stream[s]) IN
           /\ Held(s)' = IF e.event = "opened" THEN Held(s) \union {e.port} ELSE Held(s) \ {e.port}
           /\ \A u \in Sessions \ {s} : Held(u)' = Held(u)
           /\ e.port \in Ports =>
                listeners' \in [Sessions -> SUBSET Ports] /\ refused' \in [Sessions -> SUBSET Ports]
<1> DEFINE e == Head(stream[s])
<1>1. IF e.event = "opened" THEN Opened(s, e.port) ELSE Closed(s, e.port)
  BY Zenon DEF Receive
<1>2. listeners \in [Sessions -> SUBSET Ports] /\ refused \in [Sessions -> SUBSET Ports]
  BY DEF PortTypes
<1> HIDE DEF e
<1>3. CASE e.event = "opened"
  <2>1. Opened(s, e.port)  BY <1>1, <1>3
  <2>2. CASE e.port \in listeners[s]
    <3>1. UNCHANGED <<listeners, refused>>  BY <2>1, <2>2 DEF Opened
    <3> QED  BY <3>1, <2>2, <1>2, <1>3 DEF Held, e
  <2>3. CASE e.port \notin listeners[s] /\ HostPortFree(e.port)
    <3>1. /\ listeners' = [listeners EXCEPT ![s] = listeners[s] \union {e.port}]
          /\ refused' = [refused EXCEPT ![s] = refused[s] \ {e.port}]
      BY <2>1, <2>3 DEF Opened
    <3> QED  BY <3>1, <1>2, <1>3 DEF Held, e
  <2>4. CASE e.port \notin listeners[s] /\ ~HostPortFree(e.port)
    <3>1. /\ refused' = [refused EXCEPT ![s] = refused[s] \union {e.port}]
          /\ listeners' = listeners
      BY <2>1, <2>4 DEF Opened
    <3> QED  BY <3>1, <1>2, <1>3 DEF Held, e
  <2> QED  BY <2>2, <2>3, <2>4
<1>4. CASE e.event # "opened"
  <2>1. /\ listeners' = [listeners EXCEPT ![s] = listeners[s] \ {e.port}]
        /\ refused' = [refused EXCEPT ![s] = refused[s] \ {e.port}]
    BY <1>1, <1>4 DEF Closed
  <2> QED  BY <2>1, <1>2, <1>4 DEF Held, e
<1> QED  BY <1>3, <1>4

\* port_forward_loop reads an event.
LEMMA ReceiveKeeps ==
    ASSUME PortInv, NEW s \in Sessions, Receive(s)
    PROVE  PortInv'
<1> DEFINE e == Head(stream[s])
           events == stream[s]
<1>t. PortTypes  BY DEF PortInv
<1>1. /\ phase[s] = "on" /\ stream[s] # <<>> /\ stream' = [stream EXCEPT ![s] = Tail(stream[s])]
      /\ UNCHANGED <<listening, scanned, known, subscribers, backlog, phase>>
  BY DEF Receive
<1>2. /\ Held(s)' = IF e.event = "opened" THEN Held(s) \union {e.port} ELSE Held(s) \ {e.port}
      /\ \A u \in Sessions \ {s} : Held(u)' = Held(u)
      /\ e.port \in Ports =>
           listeners' \in [Sessions -> SUBSET Ports] /\ refused' \in [Sessions -> SUBSET Ports]
  BY <1>t, EventHeld, Zenon
<1>3. events \in Seq(EventSet) /\ events # <<>>  BY <1>1, <1>t DEF PortTypes
<1>4. e \in EventSet /\ Tail(events) \in Seq(EventSet)
  <2> HIDE DEF events
  <2>1. Head(events) \in EventSet /\ Tail(events) \in Seq(EventSet)
    BY <1>3, HeadTailProperties
  <2> QED  BY <2>1 DEF events
<1>5. PortTypes'
  <2>1. e.port \in Ports  BY <1>4 DEF EventSet
  <2>2. stream' \in [Sessions -> Seq(EventSet)]  BY <1>1, <1>4, <1>t DEF PortTypes
  <2>3. listeners' \in [Sessions -> SUBSET Ports] /\ refused' \in [Sessions -> SUBSET Ports]
    BY <1>2, <2>1, Zenon
  <2> QED  BY <2>2, <2>3, <1>1, <1>t DEF PortTypes
<1>6. stream'[s] = Tail(events) /\ \A u \in Sessions \ {s} : stream'[u] = stream[u]
  BY <1>1, <1>t DEF PortTypes
<1>7. s \notin backlog  BY <1>1, Zenon DEF PortInv, NotYet
<1>8. InStep(s)'
  <2>1. s \in Range(subscribers) /\ \A p : After(events, Held(s), p) <=> p \in known
    BY <1>1, <1>7, Zenon DEF PortInv, InStep
  <2> DEFINE now == Held(s)'
             held == Held(s)
  <2>2. now = IF Head(events).event = "opened" THEN held \union {Head(events).port}
              ELSE held \ {Head(events).port}
    BY <1>2
  <2> HIDE DEF events, now, held
  <2>3. ASSUME NEW p PROVE After(Tail(events), now, p) <=> After(events, held, p)
    BY <1>3, <2>2, AfterRead, Zenon
  <2>4. \A p : After(Tail(events), now, p) <=> p \in known
    BY <2>1, <2>3, Zenon DEF held
  <2> QED  BY <2>1, <2>4, <1>1, <1>6, Zenon DEF InStep, now
<1>9. phase'[s] # "off"
  <2>1. "on" # "off"  OBVIOUS
  <2> QED  BY <2>1, <1>1, Zenon
<1>10. \A u \in Sessions \ {s} :
          /\ phase'[u] = phase[u] /\ stream'[u] = stream[u] /\ Held(u)' = Held(u)
          /\ u \in backlog' <=> u \in backlog
  BY <1>1, <1>2, <1>6, Zenon
<1> QED  BY <1>1, <1>5, <1>7, <1>8, <1>9, <1>10, SessionKeeps, Zenon

\* Every step keeps the invariant, stuttering included.
LEMMA PortNext ==
    ASSUME PortInv, [Next]_vars
    PROVE  PortInv'
<1>1. CASE UNCHANGED vars
  <2>1. UNCHANGED <<listening, scanned, known, subscribers, backlog, stream, phase, listeners, refused>>
    BY <1>1 DEF vars
  <2>2. PortTypes'  BY <2>1 DEF PortInv, PortTypes
  <2> QED  BY <2>1, <2>2, SameSessions
<1>2. CASE Next
  BY <1>2, GuestKeeps, NotifyKeeps, AcceptKeeps, SubscribeKeeps, ReceiveKeeps,
     EndSessionKeeps, Zenon
  DEF Next
<1> QED  BY <1>1, <1>2

\* For any number of ports and sessions and any size of the streams: a session
\* that was accepted and goes on stays among the subscribers, and what it
\* forwards, with the events that port_forward_loop has yet to read, is exactly
\* known_ports, whichever scans, replays and removals of dead subscribers
\* poll_loop and event_listener came to.
THEOREM PortsInSync == Spec => []SubscribersInSync
<1>1. PortInv => SubscribersInSync
  <2> SUFFICES ASSUME PortInv, NEW s \in Sessions, phase[s] = "on", s \notin backlog
               PROVE  /\ s \in Range(subscribers)
                      /\ \A p \in Ports : Expected(s, p) <=> p \in known
    BY Zenon DEF SubscribersInSync
  <2>1. InStep(s)  BY DEF PortInv
  <2> QED  BY <2>1, Zenon DEF InStep, Held, Expected
<1>2. PortInv /\ [Next]_vars => PortInv'  BY PortNext
<1> QED  BY <1>1, <1>2, PortInit, PTL DEF Spec
=============================================================================
