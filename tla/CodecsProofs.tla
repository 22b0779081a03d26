----------------------------- MODULE CodecsProofs -----------------------------
(***************************************************************************)
(* Proofs about the codecs: each transformer gives back every buffer it    *)
(* was given, whatever its bytes, and what one end composes the other      *)
(* understands.  A function that the code computes by a loop or by         *)
(* recursion is shown to exist, and to keep what it keeps, by the lemmas   *)
(* of the first section.                                                   *)
(***************************************************************************)
EXTENDS Codecs, SequenceTheorems, WellFoundedInduction, TLAPS

-----------------------------------------------------------------------------
(* Recursion *)

LEMMA Least ==
  ASSUME NEW T \in SUBSET Nat, T # {}
  PROVE  \E n \in T : \A m \in T : n <= m
<1>1. PICK n \in T : \A m \in T : ~(<<m, n>> \in OpToRel(<, Nat))
  BY NatLessThanWellFounded, WFMin, Zenon
<1>2. \A m \in T : ~(m < n)
  BY <1>1 DEF OpToRel
<1> QED
  BY <1>2

\* What holds of 0, and of a number if of the one before it, holds of all of them.
LEMMA Upwards ==
  ASSUME NEW N \in Nat, NEW T, 0 \in T, \A i \in 1..N : i - 1 \in T => i \in T
  PROVE  \A i \in 0..N : i \in T
<1> DEFINE bad == {i \in 0..N : i \notin T}
<1> SUFFICES ASSUME bad # {} PROVE FALSE
  OBVIOUS
<1>1. bad \in SUBSET Nat
  OBVIOUS
<1>2. PICK i \in bad : \A k \in bad : i <= k
  <2> HIDE DEF bad
  <2> QED
    BY <1>1, Least
<1>3. i \in 1..N /\ i - 1 \in 0..N /\ ~(i <= i - 1)
  BY <1>2
<1> QED
  BY <1>2, <1>3

\* What holds of a number if it does of all smaller ones, holds of all of them.
LEMMA Downwards ==
  ASSUME NEW N \in Nat, NEW T,
         \A n \in 0..N : (\A k \in 0..(n - 1) : k \in T) => n \in T
  PROVE  \A n \in 0..N : n \in T
<1> DEFINE bad == {i \in 0..N : i \notin T}
<1> SUFFICES ASSUME bad # {} PROVE FALSE
  OBVIOUS
<1>1. bad \in SUBSET Nat
  OBVIOUS
<1>2. PICK i \in bad : \A k \in bad : i <= k
  <2> HIDE DEF bad
  <2> QED
    BY <1>1, Least
<1>3. \A k \in 0..(i - 1) : k \in 0..N /\ ~(i <= k)
  BY <1>2
<1> QED
  BY <1>2, <1>3

\* A loop of N rounds: T[i] contains its state after i of them.
IsLoop(N, T, start, next) ==
  /\ N \in Nat /\ start \in T[0]
  /\ \A i \in 1..N : \A x \in T[i - 1] : next[i][x] \in T[i]

\* What a loop computes exists.
LEMMA Loop ==
  ASSUME NEW N, NEW T, NEW start, NEW next, IsLoop(N, T, start, next)
  PROVE  \E f : /\ f = [i \in 0..N |-> IF i = 0 THEN start ELSE next[i][f[i - 1]]]
                /\ \A i \in 0..N : f[i] \in T[i]
<1>0. /\ N \in Nat /\ start \in T[0]
      /\ \A i \in 1..N : \A x \in T[i - 1] : next[i][x] \in T[i]
  BY DEF IsLoop
<1> USE <1>0
<1> DEFINE Goes(f, m) == /\ f = [i \in 0..m |-> IF i = 0 THEN start ELSE next[i][f[i - 1]]]
                         /\ \A i \in 0..m : f[i] \in T[i]
           good == {m \in 0..N : \E f : Goes(f, m)}
<1>1. 0 \in good
  <2>1. PICK f : f = [i \in 0..0 |-> start]
    OBVIOUS
  <2>2. f = [i \in 0..0 |-> IF i = 0 THEN start ELSE next[i][f[i - 1]]]
    BY <2>1
  <2> QED
    BY <2>1, <2>2
<1>2. ASSUME NEW m \in 1..N, m - 1 \in good PROVE m \in good
  <2>1. PICK f : Goes(f, m - 1)
    BY <1>2
  <2>2. PICK g : g = [i \in 0..m |-> IF i = m THEN next[m][f[m - 1]] ELSE f[i]]
    OBVIOUS
  <2>3. m - 1 \in 0..(m - 1) /\ m \in 0..N
    OBVIOUS
  <2>4. ASSUME NEW i \in 0..m
        PROVE  g[i] = (IF i = 0 THEN start ELSE next[i][g[i - 1]]) /\ g[i] \in T[i]
    <3>1. CASE i = m
      <4>1. g[i] = next[m][f[m - 1]] /\ g[m - 1] = f[m - 1] /\ f[m - 1] \in T[m - 1]
        BY <2>1, <2>2, <2>3, <3>1
      <4> QED
        BY <3>1, <4>1
    <3>2. CASE i # m
      <4>1. i \in 0..(m - 1) /\ (i # 0 => i - 1 \in 0..m /\ i - 1 # m)
        BY <3>2
      <4>2. g[i] = f[i] /\ (i # 0 => g[i - 1] = f[i - 1])
        BY <2>2, <3>2, <4>1
      <4> QED
        BY <2>1, <4>1, <4>2
    <3> QED
      BY <3>1, <3>2
  <2>5. Goes(g, m)
    BY <2>2, <2>4
  <2> QED
    BY <2>3, <2>5
<1> HIDE DEF Goes
<1>3. \A i \in 0..N : i \in good
  <2> HIDE DEF good
  <2> QED
    BY <1>1, <1>2, Upwards
<1>4. N \in 0..N
  OBVIOUS
<1> QED
  BY <1>3, <1>4 DEF Goes

\* A recursion on all smaller numbers: what it computes exists, for any set of values of each
\* number that contains its value whenever those of the smaller numbers contain theirs.
Smaller(T, n) ==
  {g \in [0..(n - 1) -> UNION {T[k] : k \in 0..(n - 1)}] : \A k \in 0..(n - 1) : g[k] \in T[k]}

LEMMA SmallerIs ==
  ASSUME NEW T, NEW n \in Nat, NEW f, \A k \in 0..(n - 1) : f[k] \in T[k]
  PROVE  [k \in 0..(n - 1) |-> f[k]] \in Smaller(T, n)
  BY DEF Smaller

IsRecursion(N, T, body) ==
  N \in Nat /\ \A n \in 0..N : \A g \in Smaller(T, n) : body[n][g] \in T[n]

LEMMA Recursion ==
  ASSUME NEW N, NEW T, NEW body, IsRecursion(N, T, body)
  PROVE  \E f : /\ f = [n \in 0..N |-> body[n][[k \in 0..(n - 1) |-> f[k]]]]
                /\ \A n \in 0..N : f[n] \in T[n]
<1>0. N \in Nat /\ \A n \in 0..N : \A g \in Smaller(T, n) : body[n][g] \in T[n]
  BY DEF IsRecursion
<1> USE <1>0
<1> DEFINE Part(f, n) == [k \in 0..(n - 1) |-> f[k]]
           Goes(f, m) == \A n \in 0..m : f[n] = body[n][Part(f, n)] /\ f[n] \in T[n]
           good == {m \in 0..N : \E f : Goes(f, m)}
<1>1. ASSUME NEW m \in 0..N, NEW f, \A k \in 0..(m - 1) : f[k] \in T[k]
      PROVE  body[m][Part(f, m)] \in T[m]
  <2>1. Part(f, m) \in Smaller(T, m)
    BY <1>1 DEF Smaller
  <2> QED
    BY <2>1
<1>2. ASSUME NEW f, NEW g, NEW n \in Nat, \A k \in 0..(n - 1) : f[k] = g[k]
      PROVE  Part(f, n) = Part(g, n)
  BY <1>2
<1> HIDE DEF Part
<1>3. ASSUME NEW m \in 0..N, m = 0 \/ m - 1 \in good PROVE m \in good
  <2>1. PICK f : \A n \in 0..(m - 1) : f[n] = body[n][Part(f, n)] /\ f[n] \in T[n]
    BY <1>3
  <2>2. PICK g : g = [n \in 0..m |-> IF n = m THEN body[m][Part(f, m)] ELSE f[n]]
    OBVIOUS
  <2>3. \A n \in 0..(m - 1) : g[n] = f[n]
    BY <2>2
  <2>4. ASSUME NEW n \in 0..m PROVE g[n] = body[n][Part(g, n)] /\ g[n] \in T[n]
    <3>1. Part(g, n) = Part(f, n)
      BY <1>2, <2>3
    <3>2. CASE n = m
      BY <1>1, <2>1, <2>2, <3>1, <3>2
    <3>3. CASE n # m
      BY <2>1, <2>3, <3>1, <3>3
    <3> QED
      BY <3>2, <3>3
  <2>5. Goes(g, m)
    BY <2>4
  <2> QED
    BY <2>5
<1> HIDE DEF Goes
<1>4. \A n \in 0..N : n \in good
  <2> HIDE DEF good
  <2>1. 0 \in good /\ \A n \in 1..N : n - 1 \in good => n \in good
    BY <1>3
  <2> QED
    BY <2>1, Upwards
<1>5. PICK f : Goes(f, N)
  BY <1>4
<1>6. PICK g : g = [n \in 0..N |-> f[n]]
  OBVIOUS
<1>7. \A n \in 0..N : Part(g, n) = Part(f, n)
  BY <1>2, <1>6
<1>8. \A n \in 0..N : g[n] = body[n][Part(g, n)] /\ g[n] \in T[n]
  BY <1>5, <1>6, <1>7 DEF Goes
<1>9. g = [n \in 0..N |-> body[n][Part(g, n)]]
  BY <1>6, <1>8
<1> QED
  BY <1>8, <1>9 DEF Part

-----------------------------------------------------------------------------
(* Buffers *)

\* A byte, and a number of 16 bits.
Octets == {n \in Nat : n < 256}
Shorts16 == {n \in Nat : n < 65536}

LEMMA ConcatAdds ==
  ASSUME NEW S, NEW buffers \in Seq(Seq(S)), NEW f, f[0] = <<>>,
         \A i \in 1..Len(buffers) : f[i] \in Seq(S) /\ f[i] = f[i - 1] \o buffers[i]
  PROVE  Concat(buffers) = f[Len(buffers)]
<1> DEFINE N == Len(buffers)
           Body(g, i) == IF i = 1 THEN buffers[i] ELSE g[i - 1] \o buffers[i]
           g == CHOOSE g : g = [i \in 1..N |-> Body(g, i)]
<1>1. CASE N = 0
  BY <1>1 DEF Concat, FlattenSeq
<1>2. CASE N # 0
  <2>1. N \in Nat /\ N >= 1 /\ \A i \in 1..N : buffers[i] \in Seq(S)
    BY <1>2
  <2>2. f[1] = buffers[1]
    <3>1. 1 \in 1..N /\ 1 - 1 = 0
      BY <2>1
    <3>2. f[1] = f[0] \o buffers[1] /\ buffers[1] \in Seq(S)
      BY <2>1, <3>1
    <3> QED
      BY <3>2, ConcatEmptySeq
  <2>3. PICK h : h = [i \in 1..N |-> f[i]]
    OBVIOUS
  <2>4. ASSUME NEW i \in 1..N PROVE h[i] = Body(h, i)
    <3>1. CASE i = 1
      BY <2>2, <2>3, <3>1
    <3>2. CASE i # 1
      <4>1. i - 1 \in 1..N
        BY <3>2
      <4>2. h[i] = f[i] /\ h[i - 1] = f[i - 1]
        BY <2>3, <4>1
      <4> QED
        BY <3>2, <4>2
    <3> QED
      BY <3>1, <3>2
  <2>5. h = [i \in 1..N |-> Body(h, i)]
    BY <2>3, <2>4
  <2>6. g = [i \in 1..N |-> Body(g, i)]
    BY <2>5
  <2>7. Concat(buffers) = g[N]
    BY <1>2 DEF Concat, FlattenSeq
  <2> DEFINE T == {i \in 0..N : i # 0 => g[i] = f[i]}
  <2> HIDE DEF g
  <2>8. 0 \in T
    BY <2>1
  <2>9. ASSUME NEW i \in 1..N, i - 1 \in T PROVE i \in T
    <3>1. g[i] = Body(g, i)
      BY <2>6
    <3>2. CASE i = 1
      BY <2>2, <3>1, <3>2
    <3>3. CASE i # 1
      <4>1. i - 1 \in 1..N /\ i - 1 # 0
        BY <3>3
      <4>2. g[i - 1] = f[i - 1]
        BY <2>9, <4>1
      <4>3. f[i] = f[i - 1] \o buffers[i]
        BY <2>1
      <4>4. g[i] = g[i - 1] \o buffers[i]
        BY <3>1, <3>3
      <4>5. g[i] = f[i]
        BY <4>2, <4>3, <4>4
      <4> QED
        BY <4>5
    <3> QED
      BY <3>2, <3>3
  <2>10. N \in T
    <3> HIDE DEF T
    <3>1. N \in 0..N
      BY <2>1
    <3> QED
      BY <2>1, <2>8, <2>9, <3>1, Upwards
  <2> QED
    BY <1>2, <2>7, <2>10
<1> QED
  BY <1>1, <1>2

\* The pieces of a buffer, cut at the places at.
IsCut(S, b, N, at, pieces) ==
  /\ b \in Seq(S) /\ N \in Nat /\ at \in [0..N -> Nat]
  /\ at[0] = 0 /\ at[N] = Len(b) /\ \A i \in 1..N : at[i - 1] <= at[i]
  /\ pieces \in Seq(Seq(S)) /\ Len(pieces) = N
  /\ \A i \in 1..N : pieces[i] = SubSeq(b, at[i - 1] + 1, at[i])

\* No place is beyond the last one.
LEMMA PlacesWithin ==
  ASSUME NEW N \in Nat, NEW at \in [0..N -> Nat], \A i \in 1..N : at[i - 1] <= at[i]
  PROVE  \A i \in 0..N : at[i] <= at[N]
<1> DEFINE U == {i \in 0..N : at[N - i] <= at[N]}
<1>1. 0 \in U
  OBVIOUS
<1>2. ASSUME NEW i \in 1..N, i - 1 \in U PROVE i \in U
  <2>1. N - (i - 1) \in 1..N /\ (N - (i - 1)) - 1 = N - i /\ N - i \in 0..N
    OBVIOUS
  <2>2. at[N - i] <= at[N - (i - 1)] /\ at[N - (i - 1)] <= at[N]
    BY <1>2, <2>1
  <2> QED
    BY <2>1, <2>2
<1>3. \A i \in 0..N : i \in U
  <2> HIDE DEF U
  <2> QED
    BY <1>1, <1>2, Upwards
<1>4. \A i \in 0..N : N - i \in 0..N /\ N - (N - i) = i
  OBVIOUS
<1> QED
  BY <1>3, <1>4

\* Joined, the pieces of a buffer are the buffer.
LEMMA PiecesJoined ==
  ASSUME NEW S, NEW b, NEW N, NEW at, NEW pieces, IsCut(S, b, N, at, pieces)
  PROVE  Concat(pieces) = b
<1>0. /\ b \in Seq(S) /\ N \in Nat /\ at \in [0..N -> Nat]
      /\ at[0] = 0 /\ at[N] = Len(b) /\ \A i \in 1..N : at[i - 1] <= at[i]
      /\ pieces \in Seq(Seq(S)) /\ Len(pieces) = N
      /\ \A i \in 1..N : pieces[i] = SubSeq(b, at[i - 1] + 1, at[i])
  BY DEF IsCut
<1> USE <1>0
<1> DEFINE f == [i \in 0..N |-> SubSeq(b, 1, at[i])]
<1>1. \A i \in 0..N : at[i] <= Len(b)
  BY PlacesWithin
<1>2. f[0] = <<>> /\ f[N] = b
  BY SubSeqFull, SubSeqEmpty
<1>3. ASSUME NEW i \in 1..N PROVE f[i] \in Seq(S) /\ f[i] = f[i - 1] \o pieces[i]
  <2>1. i - 1 \in 0..N /\ i \in 0..N
    OBVIOUS
  <2>2. at[i - 1] \in Nat /\ at[i] \in Nat /\ at[i - 1] <= at[i] /\ at[i] <= Len(b) /\ Len(b) \in Nat
    BY <1>1, <2>1
  <2> DEFINE p == at[i - 1]
             q == at[i]
  <2>3. pieces[i] = SubSeq(b, p + 1, q) /\ f[i - 1] = SubSeq(b, 1, p) /\ f[i] = SubSeq(b, 1, q)
    BY <2>1
  <2>4. p \in Nat /\ q \in Nat /\ p <= q /\ q <= Len(b)
    BY <2>2
  <2> HIDE DEF p, q
  <2>5. 1 \in 1..(Len(b) + 1) /\ p \in (1 - 1)..Len(b) /\ q \in p..Len(b)
    <3>1. Len(b) \in Nat
      BY <2>2
    <3> QED
      BY ONLY <2>4, <3>1
  <2>6. SubSeq(b, 1, p) \o SubSeq(b, p + 1, q) = SubSeq(b, 1, q)
    BY <2>5, ConcatAdjacentSubSeq
  <2>7. SubSeq(b, 1, q) \in Seq(S)
    <3>1. \A j \in 1..q : b[j] \in S
      BY <2>4
    <3> QED
      BY <2>4, <3>1, SubSeqProperties
  <2> QED
    BY <2>3, <2>6, <2>7
<1>4. Concat(pieces) = f[N]
  <2> HIDE DEF f
  <2> QED
    BY <1>2, <1>3, ConcatAdds
<1> QED
  BY <1>2, <1>4

LEMMA MinOf ==
  ASSUME NEW m \in Nat, NEW n \in Nat
  PROVE  Min({m, n}) = IF m <= n THEN m ELSE n
<1> DEFINE k == IF m <= n THEN m ELSE n
<1>1. \A x \in {m, n} : (\A y \in {m, n} : x <= y) <=> x = k
  OBVIOUS
<1>2. k \in {m, n}
  OBVIOUS
<1> HIDE DEF k
<1>3. (CHOOSE x \in {m, n} : \A y \in {m, n} : x <= y) = k
  BY <1>1, <1>2
<1> QED
  BY <1>3 DEF Min, k

LEMMA PartOf ==
  ASSUME NEW S, NEW b \in Seq(S), NEW m \in Nat, NEW n \in Nat, m <= n, n <= Len(b)
  PROVE  /\ SubSeq(b, m + 1, n) \in Seq(S) /\ Len(SubSeq(b, m + 1, n)) = n - m
         /\ \A i \in 1..(n - m) : SubSeq(b, m + 1, n)[i] = b[m + i]
<1>1. \A i \in (m + 1)..n : b[i] \in S
  OBVIOUS
<1> DEFINE s == SubSeq(b, m + 1, n)
<1>2. /\ s \in Seq(S) /\ Len(s) = IF m + 1 <= n THEN n - (m + 1) + 1 ELSE 0
      /\ \A i \in 1..(n - (m + 1) + 1) : s[i] = b[(m + 1) + i - 1]
  BY <1>1, SubSeqProperties
<1> HIDE DEF s
<1>3. \A i \in 1..(n - m) : (m + 1) + i - 1 = m + i
  OBVIOUS
<1>4. n - (m + 1) + 1 = n - m
  OBVIOUS
<1>5. s \in Seq(S) /\ Len(s) = n - m /\ \A i \in 1..(n - m) : s[i] = b[m + i]
  BY <1>2, <1>3, <1>4
<1> QED
  BY <1>5 DEF s

\* What split takes of a buffer, and what it leaves.
LEMMA TakeOf ==
  ASSUME NEW S, NEW b \in Seq(S), NEW n \in Nat
  PROVE  /\ Take(b, n) = SubSeq(b, 1, IF n <= Len(b) THEN n ELSE Len(b))
         /\ Take(b, n) \in Seq(S) /\ Len(Take(b, n)) = IF n <= Len(b) THEN n ELSE Len(b)
         /\ \A i \in 1..Len(Take(b, n)) : Take(b, n)[i] = b[i]
<1> DEFINE k == IF n <= Len(b) THEN n ELSE Len(b)
<1>1. Len(b) \in Nat /\ k \in Nat /\ k <= Len(b)
  OBVIOUS
<1>2. Take(b, n) = SubSeq(b, 1, k)
  BY <1>1, MinOf DEF Take
<1> HIDE DEF k
<1>3. /\ SubSeq(b, 0 + 1, k) \in Seq(S) /\ Len(SubSeq(b, 0 + 1, k)) = k - 0
      /\ \A i \in 1..(k - 0) : SubSeq(b, 0 + 1, k)[i] = b[0 + i]
  BY <1>1, PartOf
<1>4. 0 + 1 = 1 /\ k - 0 = k /\ \A i \in 1..k : 0 + i = i
  BY <1>1
<1>5. /\ SubSeq(b, 1, k) \in Seq(S) /\ Len(SubSeq(b, 1, k)) = k
      /\ \A i \in 1..k : SubSeq(b, 1, k)[i] = b[i]
  BY <1>3, <1>4
<1> QED
  BY <1>2, <1>5 DEF k

LEMMA DropOf ==
  ASSUME NEW S, NEW b \in Seq(S), NEW n \in Nat, n <= Len(b)
  PROVE  /\ Drop(b, n) \in Seq(S) /\ Len(Drop(b, n)) = Len(b) - n
         /\ \A i \in 1..(Len(b) - n) : Drop(b, n)[i] = b[n + i]
  BY PartOf DEF Drop

LEMMA PieceOf ==
  ASSUME NEW S, NEW b \in Seq(S), NEW m \in Nat, NEW n \in Nat, m + n <= Len(b)
  PROVE  Take(Drop(b, m), n) = SubSeq(b, m + 1, m + n)
<1> DEFINE d == Drop(b, m)
           t == Take(d, n)
           s == SubSeq(b, m + 1, m + n)
<1>1. m <= Len(b) /\ Len(b) \in Nat /\ n <= Len(b) - m /\ m + n \in Nat /\ m <= m + n
      /\ (m + n) - m = n
  OBVIOUS
<1>2. d \in Seq(S) /\ Len(d) = Len(b) - m /\ \A i \in 1..(Len(b) - m) : d[i] = b[m + i]
  BY <1>1, DropOf
<1> HIDE DEF d
<1>3. t \in Seq(S) /\ Len(t) = n /\ \A i \in 1..n : t[i] = d[i]
  BY <1>1, <1>2, TakeOf
<1>4. s \in Seq(S) /\ Len(s) = n /\ \A i \in 1..n : s[i] = b[m + i]
  BY <1>1, PartOf
<1> HIDE DEF t, s
<1>5. ASSUME NEW i \in 1..n PROVE t[i] = s[i]
  <2>1. i \in 1..(Len(b) - m)
    BY <1>1
  <2> QED
    BY <1>2, <1>3, <1>4, <2>1
<1>6. t = s
  BY <1>3, <1>4, <1>5, SeqEqual
<1> QED
  BY <1>6 DEF t, s, d

\* What is at the beginning of a buffer, and what follows it.
LEMMA SplitOf ==
  ASSUME NEW S, NEW s \in Seq(S), NEW t \in Seq(S)
  PROVE  Take(s \o t, Len(s)) = s /\ Drop(s \o t, Len(s)) = t
<1> DEFINE w == s \o t
<1>1. /\ w \in Seq(S) /\ Len(w) = Len(s) + Len(t) /\ Len(s) \in Nat /\ Len(t) \in Nat
      /\ \A i \in 1..(Len(s) + Len(t)) : w[i] = IF i <= Len(s) THEN s[i] ELSE t[i - Len(s)]
  BY ConcatProperties
<1> HIDE DEF w
<1>2. Take(w, Len(s)) = s
  <2>1. /\ Take(w, Len(s)) \in Seq(S) /\ Len(Take(w, Len(s))) = Len(s)
        /\ \A i \in 1..Len(s) : Take(w, Len(s))[i] = w[i]
    BY <1>1, TakeOf
  <2>2. \A i \in 1..Len(s) : w[i] = s[i]
    BY <1>1
  <2> QED
    BY <2>1, <2>2, SeqEqual
<1>3. Drop(w, Len(s)) = t
  <2>1. /\ Drop(w, Len(s)) \in Seq(S) /\ Len(Drop(w, Len(s))) = Len(w) - Len(s)
        /\ \A i \in 1..(Len(w) - Len(s)) : Drop(w, Len(s))[i] = w[Len(s) + i]
    <3> DEFINE k == Len(s)
    <3>1. w \in Seq(S) /\ k \in Nat /\ k <= Len(w)
      BY <1>1
    <3> HIDE DEF k
    <3>2. /\ Drop(w, k) \in Seq(S) /\ Len(Drop(w, k)) = Len(w) - k
          /\ \A i \in 1..(Len(w) - k) : Drop(w, k)[i] = w[k + i]
      BY <3>1, DropOf
    <3> QED
      BY <3>2 DEF k
  <2>2. ASSUME NEW i \in 1..Len(t) PROVE Drop(w, Len(s))[i] = t[i]
    <3>1. /\ i \in 1..(Len(w) - Len(s)) /\ Len(s) + i \in 1..(Len(s) + Len(t))
          /\ ~(Len(s) + i <= Len(s)) /\ (Len(s) + i) - Len(s) = i
      BY <1>1
    <3> QED
      BY <1>1, <2>1, <3>1
  <2>3. Len(w) - Len(s) = Len(t)
    BY <1>1
  <2> QED
    BY <2>1, <2>2, <2>3, SeqEqual
<1> QED
  BY <1>2, <1>3 DEF w

-----------------------------------------------------------------------------
(* The caesar cipher *)

\* What the cipher does to a buffer is undone, for every key of a byte.
THEOREM CaesarInverts ==
  \A key \in Octets, b \in Seq(Octets) :
    /\ CaesarTransform(key, b)[1] \in Seq(Octets)
    /\ CaesarRestore(key, CaesarTransform(key, b)[1]) = <<b>>
<1> SUFFICES ASSUME NEW key \in Octets, NEW b \in Seq(Octets)
             PROVE  /\ CaesarTransform(key, b)[1] \in Seq(Octets)
                    /\ CaesarRestore(key, CaesarTransform(key, b)[1]) = <<b>>
  OBVIOUS
<1> DEFINE c == [i \in 1..Len(b) |-> TransformByte(b[i], key)]
<1>1. CaesarTransform(key, b)[1] = c
  BY DEF CaesarTransform
<1>2. ASSUME NEW x \in Octets
      PROVE  TransformByte(x, key) \in Octets /\ RestoreByte(TransformByte(x, key), key) = x
  BY DEF Octets, TransformByte, RestoreByte
<1>3. Len(b) \in Nat /\ \A i \in 1..Len(b) : b[i] \in Octets
  OBVIOUS
<1>4. c \in Seq(Octets) /\ Len(c) = Len(b) /\ DOMAIN c = 1..Len(b)
  BY <1>2, <1>3
<1>5. \A i \in 1..Len(b) : RestoreByte(c[i], key) = b[i]
  BY <1>2, <1>3
<1>6. [i \in DOMAIN c |-> RestoreByte(c[i], key)] = b
  <2> HIDE DEF c
  <2>1. b = [i \in 1..Len(b) |-> b[i]]
    OBVIOUS
  <2> QED
    BY <1>4, <1>5, <2>1
<1>7. CaesarRestore(key, c) = <<b>>
  BY <1>6 DEF CaesarRestore
<1> QED
  BY <1>1, <1>4, <1>7

-----------------------------------------------------------------------------
(* The cipher *)

\* A chunk of the cipher.
Blocks == {c \in Seq(Octets) : Len(c) = 16}

LEMMA BlockIs ==
  ASSUME NEW c \in Blocks
  PROVE  /\ c \in Seq(Octets) /\ Len(c) = 16 /\ \A j \in 1..16 : c[j] \in Octets
         /\ c = [j \in 1..16 |-> c[j]]
<1>1. c \in Seq(Octets) /\ Len(c) = 16
  BY DEF Blocks
<1>0. c \in Seq(Octets)
  BY <1>1
<1>2. c = [j \in 1..Len(c) |-> c[j]]
  BY <1>1
<1>3. \A j \in 1..Len(c) : c[j] \in Octets
  BY <1>0
<1> QED
  BY <1>1, <1>2, <1>3, Zenon

LEMMA ChunkSize == CHUNK_SIZE = 16 /\ IV_SIZE = 16 /\ HEADER_SIZE = 36
  BY DEF CHUNK_SIZE, IV_SIZE, HEADER_SIZE

\* A buffer of whole chunks, in chunks and joined again.
LEMMA ChunksJoined ==
  ASSUME NEW b \in Seq(Octets), NEW N \in Nat, Len(b) = 16 * N
  PROVE  /\ Chunk(b, 16) \in Seq(Blocks) /\ Len(Chunk(b, 16)) = N
         /\ Concat(Chunk(b, 16)) = b
<1> DEFINE c == [i \in 1..N |-> Take(Drop(b, (i - 1) * 16), 16)]
           at == [i \in 0..N |-> 16 * i]
<1>1. (16 * N + 16 - 1) \div 16 = N
  OBVIOUS
<1>2. Chunk(b, 16) = c
  BY <1>1 DEF Chunk
<1>3. ASSUME NEW i \in 1..N
      PROVE  c[i] = SubSeq(b, 16 * (i - 1) + 1, 16 * i) /\ c[i] \in Blocks
  <2> DEFINE m == (i - 1) * 16
  <2>1. m \in Nat /\ m + 16 <= Len(b) /\ m = 16 * (i - 1) /\ m + 16 = 16 * i /\ m <= m + 16
        /\ (m + 16) - m = 16
    OBVIOUS
  <2>2. c[i] = Take(Drop(b, m), 16)
    OBVIOUS
  <2> HIDE DEF m, c
  <2>3. c[i] = SubSeq(b, m + 1, m + 16)
    BY <2>1, <2>2, PieceOf
  <2>4. SubSeq(b, m + 1, m + 16) \in Seq(Octets) /\ Len(SubSeq(b, m + 1, m + 16)) = 16
    BY <2>1, PartOf
  <2> QED
    BY <2>1, <2>3, <2>4 DEF Blocks
<1>4. c \in Seq(Blocks) /\ Len(c) = N
  BY <1>3
<1>5. \A x \in Blocks : x \in Seq(Octets)
  BY DEF Blocks
<1> HIDE DEF c
<1>6. c \in Seq(Seq(Octets))
  BY <1>4, <1>5
<1>7. at \in [0..N -> Nat] /\ at[0] = 0 /\ at[N] = Len(b) /\ \A i \in 1..N : at[i - 1] <= at[i]
  OBVIOUS
<1>8. \A i \in 1..N : c[i] = SubSeq(b, at[i - 1] + 1, at[i])
  BY <1>3
<1> HIDE DEF at
<1>9. Concat(c) = b
  <2>1. IsCut(Octets, b, N, at, c)
    BY <1>4, <1>6, <1>7, <1>8 DEF IsCut
  <2> QED
    BY <2>1, PiecesJoined
<1> QED
  BY <1>2, <1>4, <1>9

LEMMA Sixteenths ==
  ASSUME NEW n, NEW q \in Nat, NEW r \in Nat, r < 16, n = 16 * q + r
  PROVE  n \div 16 = q /\ n % 16 = r
OBVIOUS

\* Chunks joined, and in chunks again.
LEMMA BlocksJoined ==
  ASSUME NEW c \in Seq(Blocks)
  PROVE  /\ Concat(c) \in Seq(Octets) /\ Len(Concat(c)) = 16 * Len(c)
         /\ Chunk(Concat(c), 16) = c
<1> DEFINE N == Len(c)
           b == [p \in 1..(16 * N) |-> c[((p - 1) \div 16) + 1][((p - 1) % 16) + 1]]
           at == [i \in 0..N |-> 16 * i]
<1>0. N \in Nat /\ \A i \in 1..N : c[i] \in Seq(Octets) /\ Len(c[i]) = 16
  BY DEF Blocks
<1>1. ASSUME NEW p \in 1..(16 * N) PROVE b[p] \in Octets
  <2>1. ((p - 1) \div 16) + 1 \in 1..N /\ ((p - 1) % 16) + 1 \in 1..16
    BY <1>0
  <2> QED
    BY <1>0, <2>1
<1>2. b \in Seq(Octets) /\ Len(b) = 16 * N
  BY <1>0, <1>1
<1>3. ASSUME NEW i \in 1..N PROVE SubSeq(b, 16 * (i - 1) + 1, 16 * i) = c[i]
  <2> DEFINE m == 16 * (i - 1)
             s == SubSeq(b, m + 1, m + 16)
  <2>1. m \in Nat /\ m + 16 = 16 * i /\ m + 16 <= 16 * N /\ m <= m + 16 /\ (m + 16) - m = 16
    BY <1>0
  <2>2. ASSUME NEW j \in 1..16 PROVE b[m + j] = c[i][j]
    <3>1. m + j \in 1..(16 * N)
      BY <1>0
    <3>2. (((m + j) - 1) \div 16) + 1 = i /\ (((m + j) - 1) % 16) + 1 = j
      <4>1. m + j - 1 = 16 * (i - 1) + (j - 1) /\ i - 1 \in Nat /\ j - 1 \in Nat /\ j - 1 < 16
        OBVIOUS
      <4>2. (m + j - 1) \div 16 = i - 1 /\ (m + j - 1) % 16 = j - 1
        <5> HIDE DEF m
        <5> QED
          BY <4>1, Sixteenths
      <4> QED
        BY <4>2
    <3>3. b[m + j] = c[(((m + j) - 1) \div 16) + 1][(((m + j) - 1) % 16) + 1]
      BY <3>1
    <3> QED
      BY <3>2, <3>3
  <2> HIDE DEF m, b
  <2>3. s \in Seq(Octets) /\ Len(s) = 16 /\ \A j \in 1..16 : s[j] = b[m + j]
    BY <1>0, <1>2, <2>1, PartOf
  <2> HIDE DEF s
  <2>4. c[i] \in Seq(Octets) /\ Len(c[i]) = 16 /\ Len(s) = Len(c[i])
        /\ \A j \in 1..Len(s) : s[j] = c[i][j]
    BY <1>0, <2>2, <2>3
  <2>5. s = c[i]
    BY <2>3, <2>4, SeqEqual
  <2> QED
    BY <2>1, <2>5 DEF s, m
<1> HIDE DEF b
<1>4. at \in [0..N -> Nat] /\ at[0] = 0 /\ at[N] = Len(b) /\ \A i \in 1..N : at[i - 1] <= at[i]
  BY <1>0, <1>2
<1>5. \A i \in 1..N : c[i] = SubSeq(b, at[i - 1] + 1, at[i])
  BY <1>3
<1> HIDE DEF at
<1>6. c \in Seq(Seq(Octets))
  BY <1>0
<1>7. Concat(c) = b
  <2>1. IsCut(Octets, b, N, at, c)
    BY <1>0, <1>2, <1>4, <1>5, <1>6 DEF IsCut
  <2> QED
    BY <2>1, PiecesJoined
<1>8. Chunk(b, 16) = c
  <2>1. (16 * N + 16 - 1) \div 16 = N
    BY <1>0
  <2>2. Chunk(b, 16) = [i \in 1..N |-> Take(Drop(b, (i - 1) * 16), 16)]
    BY <1>2, <2>1 DEF Chunk
  <2>3. ASSUME NEW i \in 1..N PROVE Take(Drop(b, (i - 1) * 16), 16) = c[i]
    <3> DEFINE m == (i - 1) * 16
    <3>1. m \in Nat /\ m + 16 <= Len(b) /\ m = 16 * (i - 1) /\ m + 16 = 16 * i
      BY <1>0, <1>2
    <3> HIDE DEF m
    <3>2. Take(Drop(b, m), 16) = SubSeq(b, m + 1, m + 16)
      BY <1>2, <3>1, PieceOf
    <3> QED
      BY <1>3, <3>1, <3>2 DEF m
  <2>4. c = [i \in 1..N |-> c[i]]
    BY <1>0
  <2> QED
    BY <2>2, <2>3, <2>4
<1> QED
  BY <1>2, <1>7, <1>8

LEMMA Undone ==
  ASSUME NEW p \in Octets, NEW q \in Octets, NEW key \in Octets
  PROVE  /\ (p + q + key) % 256 \in Octets
         /\ ((((p + q + key) % 256) - q) - key) % 256 = p
  BY DEF Octets

\* Each chunk is made from the one before it, so that each can be undone.
LEMMA ChainInverts ==
  ASSUME NEW key \in Octets, NEW iv \in Blocks, NEW chunks \in Seq(Blocks)
  PROVE  /\ CbcEncrypt(key, iv, chunks) \in Seq(Blocks)
         /\ Len(CbcEncrypt(key, iv, chunks)) = Len(chunks)
         /\ CbcDecrypt(key, iv, CbcEncrypt(key, iv, chunks)) = chunks
<1> DEFINE N == Len(chunks)
           T == [i \in 0..N |-> Blocks]
           Next1(i, x) == [j \in 1..16 |-> (chunks[i][j] + x[j] + key) % 256]
           next == [i \in 1..N |-> [x \in Blocks |-> Next1(i, x)]]
           f == CHOOSE f : f = [i \in 0..N |-> IF i = 0 THEN iv ELSE Next1(i, f[i - 1])]
<1>0. N \in Nat /\ \A i \in 1..N : chunks[i] \in Blocks
  OBVIOUS
<1>1. ASSUME NEW i \in 1..N, NEW x \in Blocks PROVE Next1(i, x) \in Blocks
  <2>1. \A j \in 1..16 : x[j] \in Octets /\ chunks[i][j] \in Octets
    BY <1>0, BlockIs, Zenon
  <2>2. \A j \in 1..16 : (chunks[i][j] + x[j] + key) % 256 \in Octets
    BY <2>1, Undone
  <2>3. Next1(i, x) \in Seq(Octets) /\ Len(Next1(i, x)) = 16
    BY <2>2
  <2> QED
    BY <2>3 DEF Blocks
<1>2. \E f1 : /\ f1 = [i \in 0..N |-> IF i = 0 THEN iv ELSE next[i][f1[i - 1]]]
              /\ \A i \in 0..N : f1[i] \in T[i]
  <2>1. \A i \in 1..N : i \in 0..N /\ i - 1 \in 0..N
    OBVIOUS
  <2>2. \A i \in 0..N : T[i] = Blocks
    OBVIOUS
  <2>3. \A i \in 1..N : \A x \in Blocks : next[i][x] = Next1(i, x)
    <3> HIDE DEF Next1
    <3> QED
      OBVIOUS
  <2>4. 0 \in 0..N
    BY <1>0
  <2> HIDE DEF T, next, Next1
  <2>5. iv \in T[0]
    BY <2>2, <2>4
  <2>6. ASSUME NEW i \in 1..N, NEW x \in T[i - 1] PROVE next[i][x] \in T[i]
    BY <1>1, <2>1, <2>2, <2>3
  <2>7. IsLoop(N, T, iv, next)
    BY <1>0, <2>5, <2>6 DEF IsLoop
  <2> QED
    BY <2>7, Loop
<1>3. PICK f1 : /\ f1 = [i \in 0..N |-> IF i = 0 THEN iv ELSE next[i][f1[i - 1]]]
                /\ \A i \in 0..N : f1[i] \in T[i]
  BY <1>2
<1>4. ASSUME NEW i \in 1..N
      PROVE  f1[i - 1] \in Blocks /\ next[i][f1[i - 1]] = Next1(i, f1[i - 1])
  <2>1. i - 1 \in 0..N
    OBVIOUS
  <2>2. f1[i - 1] \in Blocks
    BY <1>3, <2>1
  <2> HIDE DEF Next1
  <2> QED
    BY <2>2
<1>5. f1 = [i \in 0..N |-> IF i = 0 THEN iv ELSE Next1(i, f1[i - 1])]
  <2> HIDE DEF next, Next1
  <2>1. \A i \in 0..N : i # 0 => i \in 1..N
    OBVIOUS
  <2>2. \A i \in 0..N : (IF i = 0 THEN iv ELSE next[i][f1[i - 1]])
                          = (IF i = 0 THEN iv ELSE Next1(i, f1[i - 1]))
    BY <1>4, <2>1
  <2> QED
    BY <1>3, <2>2
<1>6. f = [i \in 0..N |-> IF i = 0 THEN iv ELSE Next1(i, f[i - 1])]
  BY <1>5
<1>7. CbcEncrypt(key, iv, chunks) = [i \in DOMAIN chunks |-> f[i]]
  BY ChunkSize DEF CbcEncrypt
<1> HIDE DEF f
<1>8. \A i \in 0..N : f[i] \in Blocks
  <2> DEFINE U == {i \in 0..N : f[i] \in Blocks}
  <2>1. 0 \in U
    BY <1>0, <1>6
  <2>2. ASSUME NEW i \in 1..N, i - 1 \in U PROVE i \in U
    <3>0. i \in 0..N /\ i # 0
      OBVIOUS
    <3> HIDE DEF Next1
    <3>1. f[i] = Next1(i, f[i - 1]) /\ f[i - 1] \in Blocks
      BY <1>6, <2>2, <3>0
    <3> QED
      BY <1>1, <3>0, <3>1
  <2>3. \A i \in 0..N : i \in U
    <3> HIDE DEF U
    <3> QED
      BY <1>0, <2>1, <2>2, Upwards
  <2> QED
    BY <2>3
<1> DEFINE c == [i \in 1..N |-> f[i]]
<1>9. CbcEncrypt(key, iv, chunks) = c /\ c \in Seq(Blocks) /\ Len(c) = N /\ DOMAIN c = 1..N
  BY <1>0, <1>7, <1>8
<1>10. ASSUME NEW i \in 1..N, NEW j \in 1..16
       PROVE  (c[i][j] - (IF i = 1 THEN iv ELSE c[i - 1])[j] - key) % 256 = chunks[i][j]
  <2>1. (IF i = 1 THEN iv ELSE c[i - 1]) = f[i - 1]
    <3>1. CASE i = 1
      BY <1>0, <1>6, <3>1
    <3>2. CASE i # 1
      <4>1. i - 1 \in 1..N
        BY <3>2
      <4> QED
        BY <3>2, <4>1
    <3> QED
      BY <3>1, <3>2
  <2>2. c[i][j] = (chunks[i][j] + f[i - 1][j] + key) % 256
    <3>1. i \in 0..N /\ i # 0 /\ c[i] = f[i]
      OBVIOUS
    <3>2. f[i] = Next1(i, f[i - 1])
      <4> HIDE DEF Next1
      <4> QED
        BY <1>6, <3>1
    <3> QED
      BY <3>1, <3>2
  <2>3. f[i - 1][j] \in Octets /\ chunks[i][j] \in Octets
    <3>1. i - 1 \in 0..N
      OBVIOUS
    <3> QED
      BY <1>0, <1>8, <3>1, BlockIs, Zenon
  <2> QED
    BY <2>1, <2>2, <2>3, Undone
<1> HIDE DEF c
<1>11. ASSUME NEW i \in 1..N
       PROVE  [j \in 1..16 |-> (c[i][j] - (IF i = 1 THEN iv ELSE c[i - 1])[j] - key) % 256]
                = chunks[i]
  <2>1. chunks[i] = [j \in 1..16 |-> chunks[i][j]]
    BY <1>0, BlockIs, Zenon
  <2> QED
    BY <1>10, <2>1
<1>12. CbcDecrypt(key, iv, c) = [i \in 1..N |-> chunks[i]]
  BY <1>9, <1>11, ChunkSize DEF CbcDecrypt
<1>13. chunks = [i \in 1..N |-> chunks[i]]
  BY <1>0
<1> QED
  BY <1>9, <1>12, <1>13


-----------------------------------------------------------------------------
(* Encryption *)

Buffers == Seq(Octets)

LEMMA Halves ==
  ASSUME NEW n \in Nat, NEW q, q = n \div 256, NEW r, r = n % 256
  PROVE  256 * q + r = n /\ q * 256 + r = n
<1>1. 256 * q + r = n /\ q \in Nat /\ r \in Nat
  OBVIOUS
<1> QED
  BY <1>1

LEMMA BufferIs ==
  ASSUME NEW b \in Buffers
  PROVE  Len(b) \in Nat /\ (Len(b) = 0 <=> b = <<>>) /\ \A i \in 1..Len(b) : b[i] \in Octets
  BY DEF Buffers

\* Buffers one after the other.
LEMMA Both ==
  ASSUME NEW s \in Buffers, NEW t \in Buffers
  PROVE  /\ s \o t \in Buffers /\ Len(s \o t) = Len(s) + Len(t)
         /\ \A i \in 1..Len(s) : (s \o t)[i] = s[i]
         /\ \A i \in 1..Len(t) : (s \o t)[Len(s) + i] = t[i]
  BY DEF Buffers

LEMMA SplitAt ==
  ASSUME NEW s \in Buffers, NEW t \in Buffers
  PROVE  Split(s \o t, Len(s)) = <<s, t>>
  BY SplitOf DEF Split, Buffers

LEMMA Thrice ==
  ASSUME NEW s \in Buffers, NEW t \in Buffers, NEW u \in Buffers
  PROVE  (s \o t) \o u = s \o (t \o u)
  BY DEF Buffers

LEMMA EmptyIs ==
  ASSUME NEW s \in Buffers
  PROVE  <<>> \in Buffers /\ s \o <<>> = s /\ <<>> \o s = s
  BY DEF Buffers

LEMMA ShortIs ==
  ASSUME NEW n \in Shorts16
  PROVE  /\ EncodeShort(n) \in Buffers /\ Len(EncodeShort(n)) = 2
         /\ EncodeShort(n) = <<n \div 256, n % 256>>
         /\ DecodeShort(EncodeShort(n)) = n
<1>1. n \in Nat /\ n < 65536
  BY DEF Shorts16
<1> DEFINE p == n \div 256
           q == n % 256
<1>2. p \in Nat /\ p < 256 /\ q \in Nat /\ q < 256
  BY <1>1
<1>3. p * 256 + q = n
  BY <1>1, Halves
<1>4. p % 256 = p
  BY <1>2
<1>5. EncodeShort(n) = <<p, q>>
  BY <1>4 DEF EncodeShort
<1> HIDE DEF p, q
<1>6. p \in Octets /\ q \in Octets
  BY <1>2 DEF Octets
<1>7. <<p, q>> \in Buffers /\ Len(<<p, q>>) = 2
  BY <1>6 DEF Buffers
<1>8. DecodeShort(<<p, q>>) = n
  BY <1>3 DEF DecodeShort
<1> QED
  BY <1>5, <1>7, <1>8 DEF p, q

LEMMA FilledIs ==
  ASSUME NEW n \in Nat
  PROVE  /\ Filled(n) \in Buffers /\ Len(Filled(n)) = n
         /\ \A i \in 1..n : Filled(n)[i] = 165
<1>1. 165 \in Octets
  BY DEF Octets
<1> QED
  BY <1>1 DEF Filled, FILL, Buffers

\* The chunks a buffer, its length in front of it, is encrypted as.
Rounded(b) == (Len(b) + 17) \div 16

IsPlaintext(b, padding, P) ==
  /\ padding \in Buffers /\ P = EncodeShort(Len(b)) \o (b \o padding)
  /\ P \in Buffers /\ Len(P) = 16 * Rounded(b)

\* The length, the buffer and the filling are whole chunks.
LEMMA PlaintextIs ==
  ASSUME NEW b \in Buffers, Len(b) \in Shorts16
  PROVE  \E padding : IsPlaintext(b, padding, Plaintext(b))
<1> DEFINE n == Len(b)
           e == EncodeShort(n)
           framed == e \o b
           remainder == Len(framed) % 16
           fill == IF remainder = 0 THEN 0 ELSE 16 - remainder
           padding == Filled(fill)
<1>1. n \in Nat /\ n \in Shorts16
  BY BufferIs
<1>2. Plaintext(b) = IF remainder = 0 THEN framed ELSE framed \o Filled(16 - remainder)
  BY ChunkSize DEF Plaintext
<1>3. e \in Buffers /\ Len(e) = 2
  <2> HIDE DEF n
  <2> QED
    BY <1>1, ShortIs
<1> HIDE DEF e
<1>4. framed \in Buffers /\ Len(framed) = Len(e) + Len(b)
  BY <1>3, Both, Zenon
<1> HIDE DEF framed
<1>5. fill \in Nat /\ 2 + n + fill = 16 * ((n + 17) \div 16)
  <2> HIDE DEF n
  <2>1. remainder = (2 + n) % 16
    BY <1>3, <1>4 DEF n
  <2> HIDE DEF remainder
  <2> QED
    BY <1>1, <2>1
<1>6. remainder = 0 \/ fill = 16 - remainder
  <2> HIDE DEF remainder
  <2> QED
    OBVIOUS
<1>7. remainder = 0 => fill = 0
  OBVIOUS
<1> HIDE DEF remainder, fill, n
<1>8. padding \in Buffers /\ Len(padding) = fill
  BY <1>5, FilledIs
<1>9. Plaintext(b) = framed \o padding
  <2>1. CASE remainder = 0
    <3>1. padding = <<>>
      BY <1>7, <1>8, <2>1, BufferIs
    <3> HIDE DEF padding
    <3> QED
      BY <1>2, <1>4, <2>1, <3>1, EmptyIs
  <2>2. CASE remainder # 0
    BY <1>2, <1>6, <2>2
  <2> QED
    BY <2>1, <2>2
<1> HIDE DEF padding
<1>10. framed \o padding = e \o (b \o padding)
  BY <1>3, <1>8, Thrice DEF framed
<1>11. framed \o padding \in Buffers /\ Len(framed \o padding) = Len(framed) + Len(padding)
  BY <1>4, <1>8, Both, Zenon
<1>12. Plaintext(b) \in Buffers /\ Len(Plaintext(b)) = 16 * Rounded(b)
  BY <1>3, <1>4, <1>5, <1>8, <1>9, <1>11 DEF Rounded, n
<1>13. IsPlaintext(b, padding, Plaintext(b))
  BY <1>8, <1>9, <1>10, <1>12 DEF IsPlaintext, n, e
<1> QED
  BY <1>13

LEMMA Decrypted ==
  ASSUME NEW key, NEW iv, NEW E, NEW b \in Buffers, Len(b) \in Shorts16, NEW padding, NEW P,
         IsPlaintext(b, padding, P), Concat(CbcDecrypt(key, iv, Chunk(E, 16))) = P
  PROVE  Decrypt(key, iv, E) = b
<1> DEFINE rest == b \o padding
           e == EncodeShort(Len(b))
<1>2. e \in Buffers /\ Len(e) = 2 /\ DecodeShort(e) = Len(b)
  BY ShortIs
<1>3. padding \in Buffers /\ P = e \o rest
  BY DEF IsPlaintext
<1>4. rest \in Buffers /\ Len(rest) = Len(b) + Len(padding)
  BY <1>3, Both
<1>5. Split(rest, Len(b)) = <<b, padding>>
  BY <1>3, SplitAt
<1>6. padding = <<>> => rest = b
  BY EmptyIs
<1> HIDE DEF rest, e
<1>7. Split(P, 2) = <<e, rest>>
  BY <1>2, <1>3, <1>4, SplitAt, Zenon
<1>8. Decrypt(key, iv, E) = IF Len(rest) > Len(b) THEN Split(rest, Len(b))[1] ELSE rest
  BY <1>2, <1>7, ChunkSize DEF Decrypt
<1>9. CASE Len(rest) > Len(b)
  BY <1>5, <1>8, <1>9
<1>10. CASE ~(Len(rest) > Len(b))
  BY <1>3, <1>4, <1>6, <1>8, <1>10, BufferIs
<1> QED
  BY <1>9, <1>10

IsEncryption(key, b, W) ==
  /\ W \in Buffers /\ EncryptionTransform(key, b) = <<W>>
  /\ Len(W) = 16 + 16 * Rounded(b) /\ W[1] = 165
  /\ EncryptionRestore(key, W) = <<b>>

\* What is sent of a buffer: the vector and whole chunks.
LEMMA EncryptionIs ==
  ASSUME NEW key \in Octets, NEW b \in Buffers, Len(b) \in Shorts16
  PROVE  \E W : IsEncryption(key, b, W)
<1> DEFINE P == Plaintext(b)
           N == Rounded(b)
           iv == Filled(16)
           chunks == Chunk(P, 16)
           C == CbcEncrypt(key, iv, chunks)
           E == Concat(C)
           W == iv \o E
<1>1. EncryptionTransform(key, b) = <<W>>
  BY ChunkSize DEF EncryptionTransform, Encrypt
<1>2. PICK padding : IsPlaintext(b, padding, P)
  BY PlaintextIs
<1>3. N \in Nat
  BY BufferIs DEF Rounded
<1>4. iv \in Buffers /\ Len(iv) = 16 /\ iv[1] = 165
  <2>1. iv \in Buffers /\ Len(iv) = 16
    BY FilledIs, Zenon
  <2>2. iv[1] = 165
    BY FilledIs
  <2> QED
    BY <2>1, <2>2
<1>5. iv \in Blocks
  BY <1>4 DEF Blocks, Buffers
<1> HIDE DEF P, N, iv
<1>6. chunks \in Seq(Blocks) /\ Len(chunks) = N /\ Concat(chunks) = P
  <2>1. P \in Seq(Octets) /\ Len(P) = 16 * N
    BY <1>2 DEF IsPlaintext, Buffers, N
  <2> QED
    BY <1>3, <2>1, ChunksJoined, Zenon
<1> HIDE DEF chunks
<1>7. C \in Seq(Blocks) /\ Len(C) = N /\ CbcDecrypt(key, iv, C) = chunks
  BY <1>5, <1>6, ChainInverts
<1> HIDE DEF C
<1>8. E \in Buffers /\ Len(E) = 16 * N /\ Chunk(E, 16) = C
  BY <1>7, BlocksJoined DEF Buffers
<1> HIDE DEF E
<1>9. W \in Buffers /\ Len(W) = Len(iv) + Len(E) /\ W[1] = iv[1]
  <2>0. iv \in Buffers /\ E \in Buffers
    BY <1>4, <1>8
  <2>1. W \in Buffers /\ Len(W) = Len(iv) + Len(E)
    BY <2>0, Both, Zenon
  <2>2. 1 \in 1..Len(iv)
    BY <1>4
  <2>3. W[1] = iv[1]
    BY <2>0, <2>2, Both, Zenon
  <2> QED
    BY <2>1, <2>3
<1>10. Split(W, Len(iv)) = <<iv, E>>
  BY <1>4, <1>8, SplitAt, Zenon
<1>11. Decrypt(key, iv, E) = b
  BY <1>2, <1>6, <1>7, <1>8, Decrypted
<1> HIDE DEF W
<1>12. EncryptionRestore(key, W) = <<b>>
  BY <1>4, <1>10, <1>11, ChunkSize DEF EncryptionRestore
<1>13. Len(W) = 16 + 16 * N /\ W[1] = 165
  BY <1>3, <1>4, <1>8, <1>9
<1>14. IsEncryption(key, b, W)
  BY <1>1, <1>9, <1>12, <1>13 DEF IsEncryption, N
<1> QED
  BY <1>14

\* What the shaper has encrypted it decrypts, for every key and every buffer whose length two
\* bytes hold: the filling of the last chunk is cut off again.
THEOREM EncryptionInverts ==
  \A key \in Octets, b \in Seq(Octets) :
    Len(b) < 65536 => EncryptionRestore(key, EncryptionTransform(key, b)[1]) = <<b>>
<1> SUFFICES ASSUME NEW key \in Octets, NEW b \in Seq(Octets), Len(b) < 65536
             PROVE  EncryptionRestore(key, EncryptionTransform(key, b)[1]) = <<b>>
  OBVIOUS
<1>1. PICK W : IsEncryption(key, b, W)
  <2>1. b \in Buffers /\ Len(b) \in Shorts16
    BY DEF Buffers, Shorts16
  <2> QED
    BY <2>1, EncryptionIs
<1> QED
  BY <1>1 DEF IsEncryption

-----------------------------------------------------------------------------
(* The sums of the arithmetic coder *)

LEMMA TimesAdds ==
  ASSUME NEW a \in Nat, NEW m \in Nat, NEW n \in Nat, NEW k, k = m + n
  PROVE  a * m + a * n = a * k /\ a * m \in Nat /\ a * n \in Nat
OBVIOUS

\* So many items, of 1 to high each, make that many to that many times high.
Between(high, n) == {v \in Nat : n <= v /\ v <= high * n}

LEMMA BetweenAdds ==
  ASSUME NEW high \in Nat, NEW m \in Nat, NEW n \in Nat, NEW k, k = m + n,
         NEW v \in Between(high, m), NEW w \in Between(high, n)
  PROVE  v + w \in Between(high, k)
<1>1. v \in Nat /\ m <= v /\ v <= high * m /\ w \in Nat /\ n <= w /\ w <= high * n
  BY DEF Between
<1>2. high * m + high * n = high * k /\ high * m \in Nat /\ high * n \in Nat
  BY TimesAdds
<1> DEFINE p == high * m
           q == high * n
           r == high * k
<1>3. p \in Nat /\ q \in Nat /\ p + q = r /\ v <= p /\ w <= q
  BY <1>1, <1>2
<1> HIDE DEF p, q, r
<1>4. v + w \in Nat /\ k <= v + w /\ v + w <= r
  BY <1>1, <1>3
<1> QED
  BY <1>4 DEF Between, r

LEMMA SumOfIs ==
  ASSUME NEW items \in Seq(Nat), NEW N \in Nat, Len(items) = N, NEW high \in Nat,
         \A i \in 1..N : 1 <= items[i] /\ items[i] <= high
  PROVE  SumOf(items) \in Between(high, N)
<1> DEFINE T == [n \in 0..N |-> [1..(N - n + 1) -> Between(high, n)]]
           Cell(g, n, from) ==
             CASE n = 0 -> 0
               [] n = 1 -> items[from]
               [] OTHER -> g[n \div 2][from] + g[n - (n \div 2)][from + (n \div 2)]
           Row(g, n) == [from \in 1..(N - n + 1) |-> Cell(g, n, from)]
           sum == CHOOSE sum : sum = [n \in 0..N |-> Row(sum, n)]
<1>1. SumOf(items) = sum[N][1]
  BY DEF SumOf
<1>2. ASSUME NEW n \in 0..N, NEW g, \A k \in 0..(n - 1) : g[k] \in T[k]
      PROVE  Row(g, n) \in T[n]
  <2>1. ASSUME NEW from \in 1..(N - n + 1) PROVE Cell(g, n, from) \in Between(high, n)
    <3>1. CASE n = 0
      <4>1. Cell(g, n, from) = 0
        BY <3>1
      <4> QED
        BY <3>1, <4>1 DEF Between
    <3>2. CASE n = 1
      <4>1. Cell(g, n, from) = items[from]
        BY <3>2
      <4>2. from \in 1..N
        BY <3>2
      <4>3. items[from] \in Nat /\ 1 <= items[from] /\ items[from] <= high * 1
        BY <4>2
      <4> HIDE DEF Cell
      <4> QED
        BY <3>2, <4>1, <4>3 DEF Between
    <3>3. CASE n # 0 /\ n # 1
      <4> DEFINE half == n \div 2
                 other == n - half
      <4>1. Cell(g, n, from) = g[half][from] + g[other][from + half]
        BY <3>3
      <4>2. half \in Nat /\ 1 <= half /\ half < n /\ other \in Nat /\ other < n /\ n = half + other
        BY <3>3
      <4> HIDE DEF half, other, Cell
      <4>3. half \in 0..(n - 1) /\ other \in 0..(n - 1) /\ half \in 0..N /\ other \in 0..N
        BY <4>2
      <4>4. from \in 1..(N - half + 1) /\ from + half \in 1..(N - other + 1)
        BY <4>2
      <4>5. g[half] \in [1..(N - half + 1) -> Between(high, half)]
        BY <1>2, <4>3
      <4>6. g[other] \in [1..(N - other + 1) -> Between(high, other)]
        BY <1>2, <4>3
      <4>7. g[half][from] \in Between(high, half) /\ g[other][from + half] \in Between(high, other)
        BY <4>4, <4>5, <4>6
      <4>8. g[half][from] + g[other][from + half] \in Between(high, n)
        BY <4>2, <4>7, BetweenAdds
      <4> QED
        BY <4>1, <4>8
    <3> QED
      BY <3>1, <3>2, <3>3
  <2>2. T[n] = [1..(N - n + 1) -> Between(high, n)]
    OBVIOUS
  <2> HIDE DEF Cell, T
  <2>3. Row(g, n) \in [1..(N - n + 1) -> Between(high, n)]
    BY <2>1
  <2> QED
    BY <2>2, <2>3
<1>3. ASSUME NEW f, NEW g, NEW n \in 0..N, \A k \in 0..(n - 1) : f[k] = g[k]
      PROVE  Row(f, n) = Row(g, n)
  <2>1. ASSUME NEW from \in 1..(N - n + 1) PROVE Cell(f, n, from) = Cell(g, n, from)
    <3>1. CASE n = 0 \/ n = 1
      BY <3>1
    <3>2. CASE n # 0 /\ n # 1
      <4>1. n \div 2 \in 0..(n - 1) /\ n - (n \div 2) \in 0..(n - 1)
        BY <3>2
      <4> QED
        BY <1>3, <3>2, <4>1
    <3> QED
      BY <3>1, <3>2
  <2> HIDE DEF Cell
  <2> QED
    BY <2>1
<1> HIDE DEF Row, T, sum
<1>4. \E f : /\ f = [n \in 0..N |-> Row(f, n)] /\ \A n \in 0..N : f[n] \in T[n]
  <2> DEFINE body == [n \in 0..N |-> [g \in Smaller(T, n) |-> Row(g, n)]]
  <2>1. ASSUME NEW n \in 0..N, NEW g \in Smaller(T, n)
        PROVE  body[n][g] = Row(g, n) /\ Row(g, n) \in T[n]
    <3>1. body[n][g] = Row(g, n)
      OBVIOUS
    <3>2. \A k \in 0..(n - 1) : g[k] \in T[k]
      BY DEF Smaller
    <3> QED
      BY <1>2, <3>1, <3>2
  <2> HIDE DEF body
  <2>2. IsRecursion(N, T, body)
    BY <2>1 DEF IsRecursion
  <2>3. PICK f : /\ f = [n \in 0..N |-> body[n][[k \in 0..(n - 1) |-> f[k]]]]
                 /\ \A n \in 0..N : f[n] \in T[n]
    BY <2>2, Recursion
  <2>4. ASSUME NEW n \in 0..N PROVE body[n][[k \in 0..(n - 1) |-> f[k]]] = Row(f, n)
    <3> DEFINE g == [k \in 0..(n - 1) |-> f[k]]
    <3>1. \A k \in 0..(n - 1) : g[k] = f[k] /\ k \in 0..N
      OBVIOUS
    <3>2. g \in Smaller(T, n)
      <4>1. n \in Nat /\ \A k \in 0..(n - 1) : f[k] \in T[k]
        BY <2>3, <3>1
      <4> QED
        BY <4>1, SmallerIs
    <3> HIDE DEF g
    <3>3. Row(g, n) = Row(f, n)
      BY <1>3, <3>1
    <3>4. body[n][g] = Row(g, n)
      BY <2>1, <3>2
    <3> QED
      BY <3>3, <3>4 DEF g
  <2>5. f = [n \in 0..N |-> Row(f, n)]
    BY <2>3, <2>4
  <2> QED
    BY <2>3, <2>5
<1>5. sum = [n \in 0..N |-> Row(sum, n)]
  BY <1>4 DEF sum
<1>6. \A n \in 0..N : sum[n] \in T[n]
  <2> DEFINE U == {n \in 0..N : sum[n] \in T[n]}
  <2>1. ASSUME NEW n \in 0..N, \A k \in 0..(n - 1) : k \in U PROVE n \in U
    <3>1. \A k \in 0..(n - 1) : sum[k] \in T[k]
      BY <2>1
    <3>2. Row(sum, n) \in T[n]
      BY <1>2, <3>1
    <3> QED
      BY <1>5, <3>2
  <2>2. \A n \in 0..N : n \in U
    <3> HIDE DEF U
    <3> QED
      BY <2>1, Downwards
  <2> QED
    BY <2>2
<1>7. sum[N] \in [1..(N - N + 1) -> Between(high, N)]
  <2>1. N \in 0..N
    OBVIOUS
  <2> QED
    BY <1>6, <2>1 DEF T
<1>8. 1 \in 1..(N - N + 1)
  OBVIOUS
<1> QED
  BY <1>1, <1>7, <1>8

\* The interval of a symbol of the uniform table begins at the symbol.
LEMMA IntervalIs ==
  \A symbol \in Octets : IntervalLow[symbol] = symbol
<1> SUFFICES ASSUME NEW symbol \in Octets PROVE IntervalLow[symbol] = symbol
  OBVIOUS
<1>1. symbol \in Nat /\ symbol <= 255
  BY DEF Octets
<1> DEFINE items == SubSeq(SampleFrequencies, 1, symbol)
<1>2. IntervalLow[symbol] = SumOf(items)
  BY <1>1 DEF IntervalLow
<1>3. SampleFrequencies \in Seq(Nat) /\ Len(SampleFrequencies) = 256
  BY DEF SampleFrequencies
<1>4. \A i \in 1..256 : SampleFrequencies[i] = 1
  BY DEF SampleFrequencies
<1>5. items \in Seq(Nat) /\ Len(items) = symbol /\ \A i \in 1..symbol : items[i] = 1
  <2> DEFINE s == SampleFrequencies
             zero == 0
  <2>1. zero \in Nat /\ zero + 1 = 1 /\ symbol - zero = symbol /\ zero <= symbol /\ symbol <= 256
    BY <1>1
  <2>2. s \in Seq(Nat) /\ Len(s) = 256 /\ \A i \in 1..256 : s[i] = 1
    BY <1>3, <1>4
  <2>3. items = SubSeq(s, zero + 1, symbol)
    OBVIOUS
  <2>4. \A i \in 1..symbol : zero + i \in 1..256
    BY <1>1
  <2> HIDE DEF s, zero, items
  <2>5. symbol <= Len(s) /\ symbol \in Nat
    BY <1>1, <2>1, <2>2
  <2>6. /\ SubSeq(s, zero + 1, symbol) \in Seq(Nat) /\ Len(SubSeq(s, zero + 1, symbol)) = symbol - zero
        /\ \A i \in 1..(symbol - zero) : SubSeq(s, zero + 1, symbol)[i] = s[zero + i]
    <3>1. s \in Seq(Nat) /\ zero \in Nat /\ symbol \in Nat /\ zero <= symbol /\ symbol <= Len(s)
      BY <2>1, <2>2, <2>5
    <3> QED
      BY ONLY <3>1, PartOf
  <2>7. items \in Seq(Nat) /\ Len(items) = symbol /\ \A i \in 1..symbol : items[i] = s[zero + i]
    BY <2>1, <2>3, <2>6
  <2> QED
    BY <2>2, <2>4, <2>7
<1> HIDE DEF items
<1>6. SumOf(items) \in Between(1, symbol)
  BY <1>1, <1>5, SumOfIs
<1> QED
  BY <1>1, <1>2, <1>6 DEF Between

-----------------------------------------------------------------------------
(* The arithmetic coder with the uniform table: what it writes *)

First(b, n) == SubSeq(b, 1, n)

LEMMA FirstIs ==
  ASSUME NEW b \in Buffers, NEW n \in Nat, n < Len(b)
  PROVE  /\ First(b, n) \in Buffers /\ Len(First(b, n)) = n /\ b[n + 1] \in Octets
         /\ First(b, n + 1) = First(b, n) \o <<b[n + 1]>>
<1> DEFINE s == First(b, n)
           t == First(b, n + 1)
<1>1. b \in Seq(Octets) /\ n + 1 \in 1..Len(b) /\ Len(b) \in Nat /\ b[n + 1] \in Octets
  BY DEF Buffers
<1>2. s \in Seq(Octets) /\ Len(s) = n /\ \A i \in 1..n : s[i] = b[i]
  BY <1>1 DEF First
<1>3. t \in Seq(Octets) /\ Len(t) = n + 1 /\ \A i \in 1..(n + 1) : t[i] = b[i]
  BY <1>1 DEF First
<1> HIDE DEF s, t
<1>4. t = s \o <<b[n + 1]>>
  <2> DEFINE u == s \o <<b[n + 1]>>
  <2>1. u \in Seq(Octets) /\ Len(u) = n + 1
    BY <1>1, <1>2
  <2>2. \A i \in 1..(n + 1) : u[i] = b[i]
    BY <1>1, <1>2
  <2> HIDE DEF u
  <2> QED
    BY <1>3, <2>1, <2>2, SeqEqual DEF u
<1> QED
  BY <1>1, <1>2, <1>4 DEF s, t, Buffers

LEMMA WholeIs ==
  ASSUME NEW b \in Buffers
  PROVE  First(b, 0) = <<>> /\ First(b, Len(b)) = b /\ Drop(b, 0) = b /\ Drop(b, Len(b)) = <<>>
  BY DEF First, Drop, Buffers

\* The rest of a buffer.
LEMMA RestIs ==
  ASSUME NEW b \in Buffers, NEW n \in Nat, n < Len(b)
  PROVE  /\ Drop(b, n) \in Buffers /\ Drop(b, n) # <<>>
         /\ Head(Drop(b, n)) = b[n + 1] /\ Tail(Drop(b, n)) = Drop(b, n + 1)
<1> DEFINE s == Drop(b, n)
           t == Drop(b, n + 1)
<1>1. b \in Seq(Octets) /\ Len(b) \in Nat /\ n <= Len(b) /\ n + 1 <= Len(b) /\ n + 1 \in Nat
  BY DEF Buffers
<1>2. s \in Seq(Octets) /\ Len(s) = Len(b) - n /\ \A i \in 1..(Len(b) - n) : s[i] = b[n + i]
  BY <1>1, DropOf
<1>3. /\ t \in Seq(Octets) /\ Len(t) = Len(b) - (n + 1)
      /\ \A i \in 1..(Len(b) - (n + 1)) : t[i] = b[(n + 1) + i]
  BY <1>1, DropOf
<1> HIDE DEF s, t
<1>4. s # <<>> /\ Head(s) = b[n + 1]
  BY <1>1, <1>2
<1>5. Tail(s) \in Seq(Octets) /\ Len(Tail(s)) = Len(b) - (n + 1)
      /\ \A i \in 1..(Len(b) - (n + 1)) : Tail(s)[i] = b[(n + 1) + i]
  <2>1. Tail(s) \in Seq(Octets) /\ Len(Tail(s)) = Len(s) - 1 /\ \A i \in 1..Len(Tail(s)) : Tail(s)[i] = s[i + 1]
    BY <1>1, <1>2
  <2>2. ASSUME NEW i \in 1..(Len(b) - (n + 1)) PROVE Tail(s)[i] = b[(n + 1) + i]
    <3>1. i \in 1..Len(Tail(s)) /\ i + 1 \in 1..(Len(b) - n) /\ n + (i + 1) = (n + 1) + i
      BY <1>1, <1>2, <2>1
    <3> QED
      BY <1>2, <2>1, <3>1
  <2> QED
    BY <1>1, <1>2, <2>1, <2>2
<1>6. Tail(s) = t
  BY <1>3, <1>5, SeqEqual
<1> QED
  BY <1>2, <1>4, <1>6 DEF s, t, Buffers

Unit == 2^23

LEMMA UnitIs == Unit \in Nat /\ 255 * Unit < 2^31 /\ Unit = 8388608 /\ 2^8 = 256 /\ 2^30 = 1073741824
  BY DEF Unit

\* The digit of a symbol, and what is below it.
LEMMA DigitIs ==
  ASSUME NEW s \in Octets, NEW low, low = Unit * s
  PROVE  /\ low \in Nat /\ low % 2^SHIFT_BITS = 0 /\ Bits(low, SHIFT_BITS, 8) = s
         /\ (low < 255 * 2^SHIFT_BITS <=> s # 255) /\ ~(low \div 2^30 >= 2)
<1>1. s \in Nat /\ s <= 255 /\ low = 8388608 * s /\ low \in Nat
  BY UnitIs DEF Octets
<1>2. low % 8388608 = 0 /\ low \div 8388608 = s /\ s % 256 = s
  BY <1>1
<1>3. (low < 255 * 8388608 <=> s # 255) /\ ~(low \div 1073741824 >= 2)
  BY <1>1
<1> QED
  BY <1>1, <1>2, <1>3, UnitIs DEF Bits, SHIFT_BITS, Unit

\* What is written, the byte worked on and those held back.
Held(e) == e.output \o (<<e.working>> \o Repeated(255, e.underflow))

EncoderStates ==
  [low : Nat, high : Nat, working : Octets, underflow : Nat, input : Buffers, output : Buffers]

\* After n bytes of the input: with the bits for another one, and without.
EncoderReady(b, n, e) ==
  /\ e \in EncoderStates /\ e.high = 31 /\ e.low = 0
  /\ Held(e) = << 202 >> \o First(b, n) /\ e.input = Drop(b, n)

EncoderCoded(b, n, e) ==
  /\ e \in EncoderStates /\ e.high = 23 /\ e.low = Unit * b[n]
  /\ Held(e) = << 202 >> \o First(b, n - 1) /\ e.input = Drop(b, n)

LEMMA RepeatedIs ==
  ASSUME NEW byte \in Octets, NEW n \in Nat
  PROVE  /\ Repeated(byte, n) \in Buffers /\ Len(Repeated(byte, n)) = n /\ Repeated(byte, 0) = <<>>
         /\ Repeated(byte, n + 1) = Repeated(byte, n) \o <<byte>>
<1> DEFINE s == Repeated(byte, n)
           t == Repeated(byte, n + 1)
<1>1. s \in Seq(Octets) /\ Len(s) = n /\ \A i \in 1..n : s[i] = byte
  BY DEF Repeated
<1>2. t \in Seq(Octets) /\ Len(t) = n + 1 /\ \A i \in 1..(n + 1) : t[i] = byte
  BY DEF Repeated
<1>3. Repeated(byte, 0) = <<>>
  BY DEF Repeated
<1> HIDE DEF s, t
<1>4. t = s \o <<byte>>
  <2> DEFINE u == s \o <<byte>>
  <2>1. u \in Seq(Octets) /\ Len(u) = n + 1 /\ \A i \in 1..(n + 1) : u[i] = byte
    BY <1>1
  <2> HIDE DEF u
  <2> QED
    BY <1>2, <2>1, SeqEqual DEF u
<1> QED
  BY <1>1, <1>3, <1>4 DEF s, t, Buffers

LEMMA OneIs ==
  ASSUME NEW x \in Octets, NEW s \in Buffers
  PROVE  /\ <<x>> \in Buffers /\ Len(<<x>>) = 1 /\ Append(s, x) = s \o <<x>>
  BY DEF Buffers

LEMMA HeldIs ==
  ASSUME NEW written \in Buffers, NEW working \in Octets, NEW underflow \in Nat
  PROVE  written \o (<<working>> \o Repeated(255, underflow)) \in Buffers
<1>1. 255 \in Octets
  BY DEF Octets
<1>2. <<working>> \in Buffers /\ Repeated(255, underflow) \in Buffers
  BY <1>1, OneIs, RepeatedIs
<1>3. <<working>> \o Repeated(255, underflow) \in Buffers
  BY <1>2, Both
<1> QED
  BY <1>3, Both

\* A shift writes the digit of the last symbol, or holds it back.
LEMMA ShiftEncodes ==
  ASSUME NEW b \in Buffers, NEW n \in Nat, n > 0, n <= Len(b), NEW e, EncoderCoded(b, n, e)
  PROVE  EncoderReady(b, n, ShiftEncoder(e))
<1>1. /\ e \in EncoderStates /\ e.high = 23 /\ e.low = Unit * b[n]
      /\ Held(e) = << 202 >> \o First(b, n - 1) /\ e.input = Drop(b, n)
  BY DEF EncoderCoded
<1>2. /\ e.low \in Nat /\ e.high \in Nat /\ e.working \in Octets /\ e.underflow \in Nat
      /\ e.input \in Buffers /\ e.output \in Buffers
      /\ e = [low |-> e.low, high |-> e.high, working |-> e.working, underflow |-> e.underflow,
              input |-> e.input, output |-> e.output]
  BY <1>1 DEF EncoderStates
<1> DEFINE s == b[n]
           o == e.output
           w == e.working
           u == e.underflow
           one == << 202 >>
           before == First(b, n - 1)
           held == <<w>> \o Repeated(255, u)
<1>3. s \in Octets /\ before \in Buffers /\ First(b, n) = before \o <<s>>
  <2>1. n - 1 \in Nat /\ n - 1 < Len(b) /\ (n - 1) + 1 = n
    BY BufferIs
  <2> QED
    BY <2>1, FirstIs
<1>4. 255 \in Octets /\ one \in Buffers
  <2>1. 202 \in Octets /\ 255 \in Octets
    BY DEF Octets
  <2> QED
    BY <2>1 DEF Buffers
<1>5. /\ e.low % 2^SHIFT_BITS = 0 /\ Bits(e.low, SHIFT_BITS, 8) = s
      /\ (e.low < 255 * 2^SHIFT_BITS <=> s # 255) /\ ~(e.low \div 2^30 >= 2)
  BY <1>1, <1>3, DigitIs
<1>6. e.high + 8 = 31 /\ 0 * 2^8 = 0
  BY <1>1, UnitIs
<1>7. <<w>> \in Buffers /\ <<s>> \in Buffers /\ Repeated(255, u) \in Buffers
  BY <1>2, <1>3, <1>4, OneIs, RepeatedIs
<1>11. held \in Buffers /\ o \o held = one \o before
  BY <1>1, <1>7, Both DEF Held
<1>8. one \o First(b, n) = (o \o held) \o <<s>>
  <2> DEFINE p == o \o held
             last == <<s>>
  <2>1. p = one \o before /\ First(b, n) = before \o last
    BY <1>3, <1>11
  <2>2. last \in Buffers /\ one \in Buffers /\ before \in Buffers
    BY <1>3, <1>4, <1>7
  <2> HIDE DEF one, before, p, last
  <2>3. (one \o before) \o last = one \o (before \o last)
    BY <2>2, Thrice
  <2>4. one \o First(b, n) = p \o last
    BY <2>1, <2>3
  <2> QED
    BY <2>4 DEF p, last
<1>9. CASE s # 255
  <2> DEFINE x == [low |-> 0, high |-> 31, working |-> s, underflow |-> 0, input |-> e.input,
                   output |-> Append(o, w) \o Repeated(255, u)]
  <2>1. ShiftEncoder(e) = x
    BY <1>2, <1>5, <1>6, <1>9 DEF ShiftEncoder
  <2>2. Append(o, w) \o Repeated(255, u) = o \o held
    <3>1. Append(o, w) = o \o <<w>>
      BY <1>2, OneIs
    <3>2. (o \o <<w>>) \o Repeated(255, u) = o \o (<<w>> \o Repeated(255, u))
      <4> DEFINE p == <<w>>
                 q == Repeated(255, u)
      <4>1. p \in Buffers /\ q \in Buffers /\ o \in Buffers
        BY <1>2, <1>7
      <4> HIDE DEF p, q, o
      <4>2. (o \o p) \o q = o \o (p \o q)
        BY <4>1, Thrice
      <4> QED
        BY <4>2 DEF p, q, o
    <3> QED
      BY <3>1, <3>2
  <2>3. o \o held \in Buffers
    BY <1>2, <1>11, Both
  <2>4. x \in EncoderStates
    BY <1>2, <1>3, <2>2, <2>3 DEF EncoderStates
  <2>5. Held(x) = one \o First(b, n)
    <3>1. Repeated(255, 0) = <<>>
      BY <1>4, RepeatedIs
    <3>2. <<s>> \o <<>> = <<s>>
      BY <1>7, EmptyIs
    <3> QED
      BY <1>8, <2>2, <3>1, <3>2 DEF Held
  <2>6. x.high = 31 /\ x.low = 0 /\ x.input = Drop(b, n)
    BY <1>1
  <2> HIDE DEF x
  <2>7. EncoderReady(b, n, x)
    BY <2>4, <2>5, <2>6 DEF EncoderReady
  <2> QED
    BY <2>1, <2>7
<1>10. CASE s = 255
  <2> DEFINE x == [low |-> 0, high |-> 31, working |-> w, underflow |-> u + 1, input |-> e.input,
                   output |-> o]
  <2>1. ShiftEncoder(e) = x
    BY <1>2, <1>5, <1>6, <1>10 DEF ShiftEncoder
  <2>2. x \in EncoderStates
    BY <1>2 DEF EncoderStates
  <2>3. Held(x) = one \o First(b, n)
    <3>1. Repeated(255, u + 1) = Repeated(255, u) \o <<s>>
      BY <1>2, <1>4, <1>10, RepeatedIs
    <3>2. <<w>> \o (Repeated(255, u) \o <<s>>) = held \o <<s>>
      BY <1>7, Thrice
    <3>3. o \o (held \o <<s>>) = (o \o held) \o <<s>>
      <4> DEFINE last == <<s>>
      <4>1. o \in Buffers /\ held \in Buffers /\ last \in Buffers
        BY <1>2, <1>7, <1>11
      <4> HIDE DEF o, held, last
      <4>2. o \o (held \o last) = (o \o held) \o last
        BY <4>1, Thrice
      <4> QED
        BY <4>2 DEF o, held, last
    <3> QED
      BY <1>8, <3>1, <3>2, <3>3 DEF Held
  <2> QED
    BY <1>1, <2>1, <2>2, <2>3 DEF EncoderReady
<1> QED
  BY <1>9, <1>10

\* As many shifts as the range needs: none, or one.
LEMMA RenormalizeEncoderIs ==
  ASSUME NEW e, NEW x, x = IF e.high > 23 THEN e ELSE ShiftEncoder(e), x.high > 23
  PROVE  RenormalizeEncoder(e) = x
<1> DEFINE After(f, n) == IF n = 0 THEN e
                          ELSE IF f[n - 1].high > 23 THEN f[n - 1] ELSE ShiftEncoder(f[n - 1])
           after == CHOOSE f : f = [n \in 0..3 |-> After(f, n)]
           f == [n \in 0..3 |-> IF n = 0 THEN e ELSE x]
<1>1. RenormalizeEncoder(e) = after[3]
  BY DEF RenormalizeEncoder, SHIFTS, BOTTOM, TOP
<1>2. ASSUME NEW n \in 0..3 PROVE f[n] = After(f, n)
  <2>1. CASE n = 0
    BY <2>1
  <2>2. CASE n = 1
    <3>1. f[0] = e /\ f[1] = x /\ 1 - 1 = 0
      OBVIOUS
    <3> HIDE DEF f
    <3> QED
      BY <2>2, <3>1
  <2>3. CASE n = 2 \/ n = 3
    <3>1. f[n - 1] = x /\ f[n] = x
      BY <2>3
    <3> HIDE DEF f
    <3> QED
      BY <2>3, <3>1
  <2> QED
    BY <2>1, <2>2, <2>3
<1>3. f = [n \in 0..3 |-> After(f, n)]
  <2>1. f = [n \in 0..3 |-> f[n]]
    OBVIOUS
  <2> HIDE DEF f, After
  <2> QED
    BY <1>2, <2>1, Zenon
<1>4. after = [n \in 0..3 |-> After(after, n)]
  <2> HIDE DEF f, After
  <2> QED
    BY <1>3, Zenon
<1> HIDE DEF after
<1>5. \A n \in 0..3 : after[n] = After(after, n)
  <2> HIDE DEF After
  <2> QED
    BY <1>4, Zenon
<1>6. after[0] = e
  BY <1>5
<1>7. after[1] = x
  <2>1. 1 \in 0..3 /\ 1 - 1 = 0 /\ 1 # 0
    OBVIOUS
  <2> QED
    BY <1>5, <1>6, <2>1
<1>8. after[2] = x
  <2>1. 2 \in 0..3 /\ 2 - 1 = 1 /\ 2 # 0
    OBVIOUS
  <2> QED
    BY <1>5, <1>7, <2>1
<1>9. after[3] = x
  <2>1. 3 \in 0..3 /\ 3 - 1 = 2 /\ 3 # 0
    OBVIOUS
  <2> QED
    BY <1>5, <1>8, <2>1
<1> QED
  BY <1>1, <1>9

LEMMA EncoderMoves ==
  ASSUME NEW e \in EncoderStates, NEW low, NEW high, NEW rest
  PROVE  [e EXCEPT !.low = low, !.high = high, !.input = rest]
           = [low |-> low, high |-> high, working |-> e.working, underflow |-> e.underflow,
              input |-> rest, output |-> e.output]
<1>1. e = [low |-> e.low, high |-> e.high, working |-> e.working, underflow |-> e.underflow,
           input |-> e.input, output |-> e.output]
  BY DEF EncoderStates
<1> DEFINE a == e.low
           b == e.high
           c == e.working
           d == e.underflow
           f == e.input
           g == e.output
<1>2. e = [low |-> a, high |-> b, working |-> c, underflow |-> d, input |-> f, output |-> g]
  BY <1>1
<1>3. e.working = c /\ e.underflow = d /\ e.output = g
  OBVIOUS
<1> HIDE DEF a, b, c, d, f, g
<1> DEFINE e1 == [e EXCEPT !.low = low]
           e2 == [e1 EXCEPT !.high = high]
           e3 == [e2 EXCEPT !.input = rest]
<1>4. [e EXCEPT !.low = low, !.high = high, !.input = rest] = e3
  OBVIOUS
<1>5. e1 = [low |-> low, high |-> b, working |-> c, underflow |-> d, input |-> f, output |-> g]
  BY <1>2
<1> HIDE DEF e1
<1>6. e2 = [low |-> low, high |-> high, working |-> c, underflow |-> d, input |-> f, output |-> g]
  BY <1>5
<1> HIDE DEF e2
<1>7. e3 = [low |-> low, high |-> high, working |-> c, underflow |-> d, input |-> rest, output |-> g]
  BY <1>6
<1> HIDE DEF e3
<1> QED
  BY <1>3, <1>4, <1>7

LEMMA EncodesSymbol ==
  ASSUME NEW b \in Buffers, NEW n \in Nat, n < Len(b), NEW e,
         EncoderReady(b, n, e) \/ (n > 0 /\ EncoderCoded(b, n, e))
  PROVE  EncoderCoded(b, n + 1, EncodeSymbol(e))
<1> DEFINE r == IF e.high > 23 THEN e ELSE ShiftEncoder(e)
           s == b[n + 1]
           x == [low |-> Unit * s, high |-> 23, working |-> r.working, underflow |-> r.underflow,
                 input |-> Drop(b, n + 1), output |-> r.output]
<1>1. EncoderReady(b, n, r)
  <2>1. CASE EncoderReady(b, n, e)
    <3>1. e.high = 31
      BY <2>1 DEF EncoderReady
    <3> QED
      BY <2>1, <3>1
  <2>2. CASE n > 0 /\ EncoderCoded(b, n, e)
    <3>1. e.high = 23 /\ n <= Len(b)
      BY <2>2, BufferIs DEF EncoderCoded
    <3>2. EncoderReady(b, n, ShiftEncoder(e))
      BY <2>2, <3>1, ShiftEncodes
    <3> QED
      BY <3>1, <3>2
  <2> QED
    BY <2>1, <2>2
<1>2. RenormalizeEncoder(e) = r
  <2>1. r.high > 23
    BY <1>1 DEF EncoderReady
  <2> QED
    BY <2>1, RenormalizeEncoderIs
<1> HIDE DEF r
<1>3. /\ r \in EncoderStates /\ r.high = 31 /\ r.low = 0
      /\ Held(r) = << 202 >> \o First(b, n) /\ r.input = Drop(b, n)
  BY <1>1 DEF EncoderReady
<1>4. Head(r.input) = s /\ Tail(r.input) = Drop(b, n + 1) /\ s \in Octets
  <2>1. Head(Drop(b, n)) = s /\ Tail(Drop(b, n)) = Drop(b, n + 1)
    BY RestIs
  <2>2. s \in Octets
    BY FirstIs
  <2> QED
    BY <1>3, <2>1, <2>2
<1>5. r = [low |-> r.low, high |-> r.high, working |-> r.working, underflow |-> r.underflow,
           input |-> r.input, output |-> r.output]
  BY <1>3 DEF EncoderStates
<1>6. 0 + 2^(31 - 8) * IntervalLow[s] = Unit * s /\ 31 - 8 = 23 /\ Unit * s \in Nat
  <2>1. IntervalLow[s] = s /\ s \in Nat
    BY <1>4, IntervalIs DEF Octets
  <2>2. 31 - 8 = 23
    OBVIOUS
  <2>3. Unit * s \in Nat
    BY <2>1, UnitIs
  <2> QED
    BY <2>1, <2>2, <2>3 DEF Unit
<1>7. EncodeSymbol(e) = x
  <2>1. EncodeSymbol(e) = [r EXCEPT !.low = @ + 2^(r.high - 8) * IntervalLow[Head(r.input)],
                                    !.high = @ - 8, !.input = Tail(@)]
    BY <1>2 DEF EncodeSymbol
  <2>2. /\ r.low + 2^(r.high - 8) * IntervalLow[Head(r.input)] = Unit * s /\ r.high - 8 = 23
        /\ Tail(r.input) = Drop(b, n + 1)
    BY <1>3, <1>4, <1>6
  <2>3. [r EXCEPT !.low = Unit * s, !.high = 23, !.input = Drop(b, n + 1)] = x
    <3> DEFINE low == Unit * s
               rest == Drop(b, n + 1)
    <3> HIDE DEF low, rest
    <3>1. [r EXCEPT !.low = low, !.high = 23, !.input = rest]
            = [low |-> low, high |-> 23, working |-> r.working, underflow |-> r.underflow,
               input |-> rest, output |-> r.output]
      <4>1. r \in EncoderStates
        BY <1>3
      <4> QED
        BY <4>1, EncoderMoves, Zenon
    <3> QED
      BY <3>1 DEF low, rest
  <2> HIDE DEF x, s
  <2>4. EncodeSymbol(e) = [r EXCEPT !.low = Unit * s, !.high = 23, !.input = Drop(b, n + 1)]
    BY <1>5, <2>1, <2>2
  <2> QED
    BY <2>3, <2>4
<1>8. Drop(b, n + 1) \in Buffers
  <2>1. b \in Seq(Octets) /\ n + 1 \in Nat /\ n + 1 <= Len(b)
    BY BufferIs DEF Buffers
  <2> QED
    BY <2>1, DropOf DEF Buffers
<1>9. x \in EncoderStates
  BY <1>3, <1>6, <1>8 DEF EncoderStates
<1>10. Held(x) = << 202 >> \o First(b, (n + 1) - 1)
  <2>1. (n + 1) - 1 = n
    OBVIOUS
  <2>2. Held(x) = Held(r)
    BY DEF Held
  <2> QED
    BY <1>3, <2>1, <2>2
<1>11. x.high = 23 /\ x.low = Unit * b[n + 1] /\ x.input = Drop(b, n + 1)
  OBVIOUS
<1> HIDE DEF x
<1> QED
  BY <1>7, <1>9, <1>10, <1>11 DEF EncoderCoded

\* The states of the coder after so many bytes.
EncoderAt(b, n) ==
  {e \in EncoderStates : IF n = 0 THEN EncoderReady(b, 0, e) ELSE EncoderCoded(b, n, e)}

LEMMA EncodesAll ==
  ASSUME NEW b \in Buffers, NEW e \in EncoderAt(b, 0)
  PROVE  EncodeSymbols(e) \in EncoderAt(b, Len(b))
<1> DEFINE N == Len(b)
           T == [n \in 0..N |-> EncoderAt(b, n)]
           Step(before) == IF before.input = <<>> THEN before ELSE EncodeSymbol(before)
           after == CHOOSE f : f = [n \in 0..N |-> IF n = 0 THEN e ELSE Step(f[n - 1])]
           next == [n \in 1..N |-> [x \in EncoderAt(b, n - 1) |-> Step(x)]]
<1>1. N \in Nat
  BY BufferIs
<1>2. e.input = b
  BY WholeIs DEF EncoderAt, EncoderReady
<1>3. EncodeSymbols(e) = after[N]
  BY <1>2 DEF EncodeSymbols
<1>4. ASSUME NEW n \in 1..N, NEW x \in EncoderAt(b, n - 1) PROVE Step(x) \in EncoderAt(b, n)
  <2> DEFINE m == n - 1
  <2>1. m \in Nat /\ m < N /\ n = m + 1 /\ n # 0 /\ (m = 0 \/ m > 0)
    BY <1>1
  <2>2. x \in EncoderAt(b, m)
    OBVIOUS
  <2> HIDE DEF m
  <2>3. EncoderReady(b, m, x) \/ (m > 0 /\ EncoderCoded(b, m, x))
    BY <2>1, <2>2 DEF EncoderAt
  <2>4. x.input = Drop(b, m)
    BY <2>3 DEF EncoderReady, EncoderCoded
  <2>5. x.input # <<>>
    BY <2>1, <2>4, RestIs
  <2>6. EncoderCoded(b, n, EncodeSymbol(x))
    BY <2>1, <2>3, EncodesSymbol
  <2>7. EncodeSymbol(x) \in EncoderStates
    BY <2>6 DEF EncoderCoded
  <2> QED
    BY <2>1, <2>5, <2>6, <2>7 DEF EncoderAt
<1> HIDE DEF Step
<1>5. \E f : f = [n \in 0..N |-> IF n = 0 THEN e ELSE Step(f[n - 1])]
  <2>1. \A n \in 0..N : T[n] = EncoderAt(b, n)
    OBVIOUS
  <2>2. \A n \in 1..N : n \in 0..N /\ n - 1 \in 0..N
    BY <1>1
  <2>3. ASSUME NEW n \in 1..N, NEW x \in EncoderAt(b, n - 1) PROVE next[n][x] = Step(x)
    OBVIOUS
  <2>4. 0 \in 0..N
    BY <1>1
  <2> HIDE DEF T, next, N
  <2>5. e \in T[0]
    BY <2>1, <2>4
  <2>6. ASSUME NEW n \in 1..N, NEW x \in T[n - 1] PROVE next[n][x] \in T[n]
    <3>1. x \in EncoderAt(b, n - 1)
      BY <2>1, <2>2
    <3> QED
      BY <1>4, <2>1, <2>2, <2>3, <3>1
  <2>7. IsLoop(N, T, e, next)
    BY <1>1, <2>5, <2>6 DEF IsLoop
  <2>8. PICK f : /\ f = [n \in 0..N |-> IF n = 0 THEN e ELSE next[n][f[n - 1]]]
                 /\ \A n \in 0..N : f[n] \in T[n]
    BY <2>7, Loop
  <2>9. ASSUME NEW n \in 0..N
        PROVE  (IF n = 0 THEN e ELSE next[n][f[n - 1]]) = (IF n = 0 THEN e ELSE Step(f[n - 1]))
    <3>1. CASE n = 0
      BY <3>1
    <3>2. CASE n # 0
      <4>1. n \in 1..N /\ n - 1 \in 0..N
        BY <1>1, <3>2
      <4>2. f[n - 1] \in EncoderAt(b, n - 1)
        BY <2>1, <2>8, <4>1
      <4> QED
        BY <2>3, <3>2, <4>1, <4>2
    <3> QED
      BY <3>1, <3>2
  <2> QED
    BY <2>8, <2>9
<1>6. after = [n \in 0..N |-> IF n = 0 THEN e ELSE Step(after[n - 1])]
  BY <1>5
<1> HIDE DEF after
<1>7. \A n \in 0..N : after[n] \in EncoderAt(b, n)
  <2> DEFINE U == {n \in 0..N : after[n] \in EncoderAt(b, n)}
  <2>1. 0 \in U
    BY <1>1, <1>6
  <2>2. ASSUME NEW n \in 1..N, n - 1 \in U PROVE n \in U
    <3>1. n \in 0..N /\ n # 0 /\ after[n - 1] \in EncoderAt(b, n - 1)
      BY <2>2
    <3>2. after[n] = Step(after[n - 1])
      BY <1>6, <3>1
    <3> QED
      BY <1>4, <3>1, <3>2
  <2>3. \A n \in 0..N : n \in U
    <3> HIDE DEF U
    <3> QED
      BY <1>1, <2>1, <2>2, Upwards
  <2> QED
    BY <2>3
<1>8. N \in 0..N
  BY <1>1
<1> QED
  BY <1>3, <1>7, <1>8

LEMMA MiddleIs ==
  ASSUME NEW p \in Buffers, NEW b \in Buffers, NEW q \in Buffers
  PROVE  SubSeq((p \o b) \o q, Len(p) + 1, Len(p) + Len(b)) = b
<1> DEFINE w == (p \o b) \o q
           s == SubSeq(w, Len(p) + 1, Len(p) + Len(b))
<1>1. p \in Seq(Octets) /\ b \in Seq(Octets) /\ q \in Seq(Octets)
  BY DEF Buffers
<1>2. w \in Seq(Octets) /\ Len(w) = Len(p) + Len(b) + Len(q)
  BY <1>1
<1>3. \A i \in 1..Len(b) : w[Len(p) + i] = b[i]
  BY <1>1
<1> HIDE DEF w
<1> DEFINE m == Len(p)
           n == Len(p) + Len(b)
<1>4. m \in Nat /\ n \in Nat /\ m <= n /\ n <= Len(w) /\ n - m = Len(b) /\ Len(b) \in Nat
  BY <1>1, <1>2
<1>5. s = SubSeq(w, m + 1, n)
  OBVIOUS
<1> HIDE DEF m, s
<1>6. s \in Seq(Octets) /\ Len(s) = n - m /\ \A i \in 1..(n - m) : s[i] = w[m + i]
  <2> HIDE DEF n
  <2> QED
    BY <1>2, <1>4, <1>5, PartOf
<1>7. \A i \in 1..Len(b) : s[i] = b[i]
  BY <1>3, <1>4, <1>6 DEF m
<1>8. s = b
  <2> HIDE DEF n
  <2> QED
    BY <1>1, <1>4, <1>6, <1>7, SeqEqual
<1> QED
  BY <1>8 DEF s, w, m

TwoOctets(x, y) == <<x, y>>

LEMMA TwoIs ==
  ASSUME NEW x \in Octets, NEW y \in Octets
  PROVE  TwoOctets(x, y) \in Buffers /\ Len(TwoOctets(x, y)) = 2
  BY DEF TwoOctets, Buffers

\* What the coder writes of a buffer: a byte it discards, the buffer, two bytes of the state
\* and the two of the length.
IsCode(b, w) ==
  \E x \in Octets, y \in Octets : w = ((<< 202 >> \o b) \o TwoOctets(0, 0)) \o TwoOctets(x, y)

\* What ends the code: what is held back, two bytes of the state, and the length.
LEMMA FlushIs ==
  ASSUME NEW b \in Buffers, NEW e \in EncoderAt(b, Len(b))
  PROVE  IsCode(b, FlushEncoder(e))
<1> DEFINE N == Len(b)
           r == IF e.high > 23 THEN e ELSE ShiftEncoder(e)
           held == <<r.working>> \o Repeated(255, r.underflow)
           written == (r.output \o held) \o TwoOctets(0, 0)
           x == Bits(Len(written), 8, 8)
           y == Truncated(Len(written) + 1)
<1>1. N \in Nat
  BY BufferIs
<1>2. EncoderReady(b, N, r)
  <2>1. CASE N = 0
    <3>1. EncoderReady(b, N, e)
      BY <2>1 DEF EncoderAt
    <3>2. e.high = 31
      BY <3>1 DEF EncoderReady
    <3> QED
      BY <3>1, <3>2
  <2>2. CASE N # 0
    <3>1. EncoderCoded(b, N, e) /\ N > 0 /\ N <= Len(b)
      BY <1>1, <2>2 DEF EncoderAt
    <3>2. e.high = 23
      BY <3>1 DEF EncoderCoded
    <3>3. EncoderReady(b, N, ShiftEncoder(e))
      <4> HIDE DEF N
      <4> QED
        BY <1>1, <3>1, ShiftEncodes
    <3> QED
      BY <3>2, <3>3
  <2> QED
    BY <2>1, <2>2
<1>3. RenormalizeEncoder(e) = r
  <2>1. r.high > 23
    BY <1>2 DEF EncoderReady
  <2> QED
    BY <2>1, RenormalizeEncoderIs
<1> HIDE DEF r
<1>4. r \in EncoderStates /\ r.low = 0 /\ Held(r) = << 202 >> \o First(b, N)
  BY <1>2 DEF EncoderReady
<1>5. 0 \div 2^SHIFT_BITS = 0 /\ Truncated(0) = 0 /\ Bits(0, SHIFT_BITS - 8, 8) = 0
  <2>1. 2^23 = 8388608 /\ 2^15 = 32768 /\ 2^8 = 256 /\ SHIFT_BITS = 23 /\ 23 - 8 = 15
    BY DEF SHIFT_BITS
  <2>2. 0 \div 8388608 = 0 /\ (0 \div 32768) % 256 = 0 /\ 0 % 256 = 0
    OBVIOUS
  <2> QED
    BY <2>1, <2>2 DEF Truncated, Bits
<1>6. FlushEncoder(e) = written \o TwoOctets(x, y)
  <2> DEFINE digit == r.low \div 2^SHIFT_BITS
             some == r.output \o (IF digit > 255
                                  THEN <<Truncated(r.working + 1)>> \o Repeated(0, r.underflow)
                                  ELSE <<r.working>> \o Repeated(255, r.underflow))
             all == some \o <<Truncated(digit), Bits(r.low, SHIFT_BITS - 8, 8)>>
  <2>1. FlushEncoder(e) = all \o <<Bits(Len(all), 8, 8), Truncated(Len(all) + 1)>>
    BY <1>3 DEF FlushEncoder
  <2>2. digit = 0 /\ Bits(r.low, SHIFT_BITS - 8, 8) = 0
    BY <1>4, <1>5
  <2> HIDE DEF digit
  <2>3. some = r.output \o held
    BY <2>2
  <2> HIDE DEF some, held
  <2>4. all = written
    BY <1>5, <2>2, <2>3 DEF TwoOctets
  <2> HIDE DEF all, written
  <2> QED
    BY <2>1, <2>4 DEF TwoOctets
<1>7. r.output \o held = << 202 >> \o b
  BY <1>4, WholeIs DEF Held
<1>8. r.output \o held \in Buffers
  BY <1>4, HeldIs DEF EncoderStates
<1>9. 0 \in Octets
  BY DEF Octets
<1> DEFINE k == Len(written)
<1>10. k \in Nat
  <2> DEFINE o == r.output \o held
  <2>1. o \in Buffers
    BY <1>8
  <2>2. TwoOctets(0, 0) \in Buffers
    BY <1>9, TwoIs
  <2> HIDE DEF o
  <2>3. o \o TwoOctets(0, 0) \in Buffers
    BY <2>1, <2>2, Both
  <2> QED
    BY <2>3, BufferIs DEF o
<1>11. x \in Octets /\ y \in Octets
  <2> HIDE DEF k
  <2>1. 2^8 = 256
    OBVIOUS
  <2>2. (k \div 256) % 256 \in Octets /\ (k + 1) % 256 \in Octets
    BY <1>10 DEF Octets
  <2> QED
    BY <2>1, <2>2 DEF Bits, Truncated, k
<1> HIDE DEF x, y
<1>12. FlushEncoder(e) = ((<< 202 >> \o b) \o TwoOctets(0, 0)) \o TwoOctets(x, y)
  BY <1>6, <1>7
<1> QED
  BY <1>11, <1>12 DEF IsCode

LEMMA EncodeIs ==
  ASSUME NEW b \in Buffers
  PROVE  IsCode(b, Encode(b))
<1> DEFINE e == [low |-> 0, high |-> 31, working |-> 202, underflow |-> 0, input |-> b, output |-> <<>>]
<1>1. 202 \in Octets /\ 255 \in Octets
  BY DEF Octets
<1>2. <<>> \in Buffers
  BY EmptyIs
<1>3. e \in EncoderStates
  BY <1>1, <1>2 DEF EncoderStates
<1>4. Held(e) = << 202 >> \o <<>>
  <2>1. Repeated(255, 0) = <<>>
    BY <1>1, RepeatedIs
  <2>2. << 202 >> \in Buffers
    BY <1>1, <1>2, OneIs
  <2>3. <<>> \o (<< 202 >> \o <<>>) = <<202>> \o <<>>
    BY <2>2, EmptyIs
  <2> QED
    BY <2>1, <2>3 DEF Held
<1>5. First(b, 0) = <<>> /\ Drop(b, 0) = b
  BY WholeIs
<1>6. EncoderReady(b, 0, e)
  BY <1>3, <1>4, <1>5 DEF EncoderReady
<1>7. Encode(b) = FlushEncoder(EncodeSymbols(e))
  BY DEF Encode, TOP
<1> HIDE DEF e
<1>8. e \in EncoderAt(b, 0)
  BY <1>3, <1>6 DEF EncoderAt
<1>9. EncodeSymbols(e) \in EncoderAt(b, Len(b))
  BY <1>8, EncodesAll
<1> QED
  BY <1>7, <1>9, FlushIs

LEMMA RestoreIs ==
  ASSUME NEW b \in Buffers
  PROVE  DecompressionRestore(b) = <<b>>
<1>1. PICK x \in Octets, y \in Octets :
        Encode(b) = ((<< 202 >> \o b) \o TwoOctets(0, 0)) \o TwoOctets(x, y)
  BY EncodeIs DEF IsCode
<1> DEFINE p == << 202 >>
           s == TwoOctets(0, 0)
           t == TwoOctets(x, y)
           e == (p \o b) \o (s \o t)
<1>2. p \in Buffers /\ Len(p) = 1 /\ s \in Buffers /\ t \in Buffers /\ Len(s) = 2 /\ Len(t) = 2
  <2>1. 0 \in Octets /\ 202 \in Octets
    BY DEF Octets
  <2>2. <<>> \in Buffers
    BY EmptyIs
  <2>3. p \in Buffers /\ Len(p) = 1
    BY <2>1, <2>2, OneIs
  <2> QED
    BY <2>1, <2>3, TwoIs
<1>3. Encode(b) = ((p \o b) \o s) \o t
  BY <1>1
<1> HIDE DEF p, s, t
<1>4. p \o b \in Buffers /\ Len(p \o b) = 1 + Len(b) /\ s \o t \in Buffers /\ Len(s \o t) = 4
  <2>1. /\ p \o b \in Buffers /\ Len(p \o b) = Len(p) + Len(b)
        /\ s \o t \in Buffers /\ Len(s \o t) = Len(s) + Len(t)
    BY <1>2, Both, Zenon
  <2> QED
    BY <1>2, <2>1
<1>5. Encode(b) = e
  <2> DEFINE o == p \o b
  <2>1. o \in Buffers
    BY <1>4
  <2> HIDE DEF o
  <2>2. (o \o s) \o t = o \o (s \o t)
    BY <1>2, <2>1, Thrice
  <2> QED
    BY <1>3, <2>2 DEF o
<1>6. Len(e) = 1 + Len(b) + 4
  <2> DEFINE o == p \o b
             u == s \o t
  <2>1. o \in Buffers /\ u \in Buffers /\ Len(o) = 1 + Len(b) /\ Len(u) = 4
    BY <1>4
  <2> HIDE DEF o, u
  <2>2. Len(o \o u) = 1 + Len(b) + 4
    <3>1. Len(o \o u) = Len(o) + Len(u)
      BY <2>1, Both, Zenon
    <3> QED
      BY <2>1, <3>1
  <2> QED
    BY <2>2 DEF o, u
<1> DEFINE u == s \o t
<1>7. SubSeq(e, Len(p) + 1, Len(p) + Len(b)) = b
  <2>1. u \in Buffers
    BY <1>4
  <2> HIDE DEF u
  <2>2. SubSeq((p \o b) \o u, Len(p) + 1, Len(p) + Len(b)) = b
    BY <1>2, <2>1, MiddleIs
  <2> QED
    BY <2>2 DEF u
<1>8. Len(b) \in Nat
  BY BufferIs
<1> HIDE DEF e
<1>9. Len(p) + 1 = 2 /\ Len(p) + Len(b) = Len(e) - 4
  BY <1>2, <1>6, <1>8
<1> QED
  BY <1>5, <1>7, <1>9 DEF DecompressionRestore

-----------------------------------------------------------------------------
(* The arithmetic coder with the uniform table: what it reads *)

Coder(low, high, working, input_, output_) ==
  [low |-> low, high |-> high, working |-> working, underflow |-> 0, input |-> input_,
   output |-> output_]

\* The two updates of the decoder.
Shifted(d, low, high, working, i) ==
  [d EXCEPT !.high = high, !.working = working, !.input = i, !.low = low]
Reading(d, low, high, o) == [d EXCEPT !.output = o, !.high = high, !.low = low]

LEMMA CoderShifts ==
  ASSUME NEW low, NEW high, NEW working, NEW i, NEW o, NEW low1, NEW high1, NEW working1, NEW i1
  PROVE  Shifted(Coder(low, high, working, i, o), low1, high1, working1, i1)
           = Coder(low1, high1, working1, i1, o)
<1> DEFINE e == Coder(low, high, working, i, o)
           e1 == [e EXCEPT !.high = high1]
           e2 == [e1 EXCEPT !.working = working1]
           e3 == [e2 EXCEPT !.input = i1]
           e4 == [e3 EXCEPT !.low = low1]
<1>1. e1 = Coder(low, high1, working, i, o)
  BY DEF Coder
<1>2. [e EXCEPT !.high = high1, !.working = working1, !.input = i1, !.low = low1] = e4
  <2> HIDE DEF e
  <2> QED
    OBVIOUS
<1> HIDE DEF e1
<1>3. e2 = Coder(low, high1, working1, i, o)
  BY <1>1 DEF Coder
<1> HIDE DEF e2
<1>4. e3 = Coder(low, high1, working1, i1, o)
  BY <1>3 DEF Coder
<1> HIDE DEF e3
<1>5. e4 = Coder(low1, high1, working1, i1, o)
  BY <1>4 DEF Coder
<1> HIDE DEF e4, e
<1> QED
  BY <1>2, <1>5 DEF e, Shifted

LEMMA CoderReads ==
  ASSUME NEW low, NEW high, NEW working, NEW i, NEW o, NEW low1, NEW high1, NEW o1
  PROVE  Reading(Coder(low, high, working, i, o), low1, high1, o1)
           = Coder(low1, high1, working, i, o1)
<1> DEFINE e == Coder(low, high, working, i, o)
           e1 == [e EXCEPT !.output = o1]
           e2 == [e1 EXCEPT !.high = high1]
           e3 == [e2 EXCEPT !.low = low1]
<1>1. e1 = Coder(low, high, working, i, o1)
  BY DEF Coder
<1>2. [e EXCEPT !.output = o1, !.high = high1, !.low = low1] = e3
  <2> HIDE DEF e
  <2> QED
    OBVIOUS
<1> HIDE DEF e1
<1>3. e2 = Coder(low, high1, working, i, o1)
  BY <1>1 DEF Coder
<1> HIDE DEF e2
<1>4. e3 = Coder(low1, high1, working, i, o1)
  BY <1>3 DEF Coder
<1> HIDE DEF e3, e
<1> QED
  BY <1>2, <1>4 DEF e, Reading

LEMMA CoderFields ==
  ASSUME NEW low, NEW high, NEW working, NEW i, NEW o
  PROVE  /\ Coder(low, high, working, i, o).low = low /\ Coder(low, high, working, i, o).high = high
         /\ Coder(low, high, working, i, o).working = working
         /\ Coder(low, high, working, i, o).input = i /\ Coder(low, high, working, i, o).output = o
  BY DEF Coder

\* The bytes of a code, and zeros.
Byte(z, i) == IF i <= Len(z) THEN z[i] ELSE 0

LEMMA ByteIs ==
  ASSUME NEW z \in Buffers, NEW i \in Nat, i > 0
  PROVE  Byte(z, i) \in Octets
<1>1. 0 \in Octets
  BY DEF Octets
<1> QED
  BY <1>1, BufferIs DEF Byte

\* What is left of a code after so many bytes.
Left(z, m) == IF m < Len(z) THEN Drop(z, m) ELSE <<>>

LEMMA LeftIs ==
  ASSUME NEW z \in Buffers, NEW m \in Nat
  PROVE  /\ Left(z, m) = <<>> <=> m >= Len(z)
         /\ (IF Left(z, m) = <<>> THEN 0 ELSE Head(Left(z, m))) = Byte(z, m + 1)
         /\ (IF Left(z, m) = <<>> THEN Left(z, m) ELSE Tail(Left(z, m))) = Left(z, m + 1)
<1>1. Len(z) \in Nat
  BY BufferIs
<1>2. CASE m < Len(z)
  <2>1. Left(z, m) = Drop(z, m)
    BY <1>2 DEF Left
  <2>2. Drop(z, m) # <<>> /\ Head(Drop(z, m)) = z[m + 1] /\ Tail(Drop(z, m)) = Drop(z, m + 1)
    BY <1>2, RestIs
  <2>3. Byte(z, m + 1) = z[m + 1]
    BY <1>1, <1>2 DEF Byte
  <2>4. Left(z, m + 1) = Drop(z, m + 1)
    <3>1. CASE m + 1 < Len(z)
      BY <3>1 DEF Left
    <3>2. CASE ~(m + 1 < Len(z))
      <4>1. m + 1 = Len(z)
        BY <1>1, <1>2, <3>2
      <4> QED
        BY <3>2, <4>1, WholeIs DEF Left
    <3> QED
      BY <3>1, <3>2
  <2>5. ~(m >= Len(z))
    BY <1>1, <1>2
  <2> QED
    BY <2>1, <2>2, <2>3, <2>4, <2>5
<1>3. CASE ~(m < Len(z))
  <2>1. ~(m + 1 < Len(z)) /\ ~(m + 1 <= Len(z)) /\ m >= Len(z)
    BY <1>1, <1>3
  <2> QED
    BY <1>3, <2>1 DEF Left, Byte
<1> QED
  BY <1>2, <1>3

\* One byte of the range: seven bits of it, and one of the byte before.
LEMMA BitsJoin ==
  ASSUME NEW w \in Octets, NEW v \in Octets, NEW r, r = w \div 2
  PROVE  /\ 256 * r + ((w * 128) % 256) = 128 * w /\ r \in Nat /\ r < 128
         /\ (w * 128) % 256 \in Nat /\ v \div 2 \in Nat /\ v \div 2 < 128
<1>1. w \in Nat /\ w < 256 /\ v \in Nat /\ v < 256
  BY DEF Octets
<1>2. r \in Nat /\ r < 128 /\ v \div 2 \in Nat /\ v \div 2 < 128
  BY <1>1
<1>3. w = 2 * r \/ w = 2 * r + 1
  BY <1>1
<1>4. (w * 128) % 256 = 128 * (w - 2 * r)
  <2>1. CASE w = 2 * r
    <3>1. w * 128 = 256 * r
      BY <1>2, <2>1
    <3>2. (256 * r) % 256 = 0
      BY <1>2
    <3> QED
      BY <1>2, <2>1, <3>1, <3>2
  <2>2. CASE w = 2 * r + 1
    <3>1. w * 128 = 256 * r + 128
      BY <1>2, <2>2
    <3>2. (256 * r + 128) % 256 = 128
      BY <1>2
    <3> QED
      BY <1>2, <2>2, <3>1, <3>2
  <2> QED
    BY <1>3, <2>1, <2>2
<1> QED
  BY <1>1, <1>2, <1>3, <1>4

LEMMA ShiftDecodes ==
  ASSUME NEW z \in Buffers, NEW m \in Nat, m > 0, NEW p \in Nat, NEW high, NEW o, NEW high1,
         high1 = high + 8, NEW d, d = Coder(p + (Byte(z, m) \div 2), high, Byte(z, m), Left(z, m), o)
  PROVE  ShiftDecoder(d) = Coder(256 * p + 128 * Byte(z, m) + (Byte(z, m + 1) \div 2), high1,
                                 Byte(z, m + 1), Left(z, m + 1), o)
<1> DEFINE w == Byte(z, m)
           v == Byte(z, m + 1)
           low == p + (w \div 2)
           low1 == 256 * p + 128 * w + (v \div 2)
           rest == Left(z, m)
           next == IF d.input = <<>> THEN 0 ELSE Head(d.input)
<1>1. w \in Octets /\ v \in Octets
  <2>1. m + 1 \in Nat /\ m + 1 > 0
    OBVIOUS
  <2> QED
    BY <2>1, ByteIs
<1>2. d.low = low /\ d.high = high /\ d.working = w /\ d.input = rest
  BY CoderFields
<1>3. next = v /\ (IF rest = <<>> THEN rest ELSE Tail(rest)) = Left(z, m + 1)
  BY <1>2, LeftIs
<1> HIDE DEF w, v
<1>4. low * 2^8 + Truncated(w * 2^EXTRA_BITS) + (v \div 2^(8 - EXTRA_BITS)) = low1
  <2> DEFINE r == w \div 2
             t == (w * 128) % 256
             u == v \div 2
  <2>1. 2^8 = 256 /\ 2^EXTRA_BITS = 128 /\ 2^(8 - EXTRA_BITS) = 2
    <3>1. 2^8 = 256 /\ 2^7 = 128 /\ 2^1 = 2 /\ 8 - 7 = 1
      OBVIOUS
    <3> QED
      BY <3>1 DEF EXTRA_BITS
  <2>2. 256 * r + t = 128 * w /\ r \in Nat /\ t \in Nat /\ u \in Nat
    BY <1>1, BitsJoin
  <2>3. w \in Nat
    BY <1>1 DEF Octets
  <2> HIDE DEF r, t, u
  <2>4. (p + r) * 256 + t + u = 256 * p + 128 * w + u
    BY <2>2, <2>3
  <2> QED
    BY <2>1, <2>4 DEF Truncated, r, t, u
<1> HIDE DEF rest
<1>5. ShiftDecoder(d) = [d EXCEPT !.high = @ + 8, !.working = next,
                                  !.input = IF @ = <<>> THEN @ ELSE Tail(@),
                                  !.low = @ * 2^8 + Truncated(d.working * 2^EXTRA_BITS)
                                          + (next \div 2^(8 - EXTRA_BITS))]
  BY DEF ShiftDecoder
<1> HIDE DEF next
<1>6. ShiftDecoder(d) = [d EXCEPT !.high = high1, !.working = v, !.input = Left(z, m + 1),
                                  !.low = low1]
  BY <1>2, <1>3, <1>4, <1>5
<1>7. d = Coder(low, high, w, rest, o)
  BY DEF w, rest
<1> HIDE DEF low, low1
<1>8. Shifted(d, low1, high1, v, Left(z, m + 1)) = Coder(low1, high1, v, Left(z, m + 1), o)
  <2>1. Shifted(Coder(low, high, w, rest, o), low1, high1, v, Left(z, m + 1))
          = Coder(low1, high1, v, Left(z, m + 1), o)
    BY ONLY CoderShifts
  <2> QED
    BY <1>7, <2>1, Zenon
<1>9. Shifted(d, low1, high1, v, Left(z, m + 1)) = ShiftDecoder(d)
  BY <1>6 DEF Shifted
<1> QED
  BY <1>8, <1>9 DEF low1, w, v

LEMMA RenormalizeDecoderIs ==
  ASSUME NEW d, NEW x, NEW y, NEW z,
         x = IF d.high > 23 THEN d ELSE ShiftDecoder(d),
         y = IF x.high > 23 THEN x ELSE ShiftDecoder(x),
         z = IF y.high > 23 THEN y ELSE ShiftDecoder(y)
  PROVE  RenormalizeDecoder(d) = z
<1> DEFINE After(f, n) == IF n = 0 THEN d
                          ELSE IF f[n - 1].high > 23 THEN f[n - 1] ELSE ShiftDecoder(f[n - 1])
           after == CHOOSE f : f = [n \in 0..3 |-> After(f, n)]
           f == [n \in 0..3 |-> IF n = 0 THEN d ELSE IF n = 1 THEN x ELSE IF n = 2 THEN y ELSE z]
<1>1. RenormalizeDecoder(d) = after[3]
  BY DEF RenormalizeDecoder, SHIFTS, BOTTOM, TOP
<1>2. f[0] = d /\ f[1] = x /\ f[2] = y /\ f[3] = z
  OBVIOUS
<1>3. f = [n \in 0..3 |-> f[n]]
  OBVIOUS
<1>4. 1 - 1 = 0 /\ 2 - 1 = 1 /\ 3 - 1 = 2
  OBVIOUS
<1> HIDE DEF f
<1>5. ASSUME NEW n \in 0..3 PROVE f[n] = After(f, n)
  <2>1. n = 0 \/ n = 1 \/ n = 2 \/ n = 3
    OBVIOUS
  <2> QED
    BY <1>2, <1>4, <2>1
<1>6. f = [n \in 0..3 |-> After(f, n)]
  <2> HIDE DEF After
  <2> QED
    BY <1>3, <1>5, Zenon
<1>7. after = [n \in 0..3 |-> After(after, n)]
  <2> HIDE DEF After
  <2> QED
    BY <1>6, Zenon
<1> HIDE DEF after
<1>8. \A n \in 0..3 : after[n] = After(after, n)
  <2> HIDE DEF After
  <2> QED
    BY <1>7, Zenon
<1>9. after[0] = d
  BY <1>8
<1>10. after[1] = x
  <2>1. 1 \in 0..3 /\ 1 - 1 = 0 /\ 1 # 0
    OBVIOUS
  <2> QED
    BY <1>8, <1>9, <2>1
<1>11. after[2] = y
  <2>1. 2 \in 0..3 /\ 2 - 1 = 1 /\ 2 # 0
    OBVIOUS
  <2> QED
    BY <1>8, <1>10, <2>1
<1>12. after[3] = z
  <2>1. 3 \in 0..3 /\ 3 - 1 = 2 /\ 3 # 0
    OBVIOUS
  <2> QED
    BY <1>8, <1>11, <2>1
<1> QED
  BY <1>1, <1>12

\* After n symbols of a code.
Decoding(z, n) ==
  IF n = 0 THEN Coder(Byte(z, 1) \div 2, 7, Byte(z, 1), Left(z, 1), <<>>)
  ELSE Coder(32768 * Byte(z, n + 1) + 128 * Byte(z, n + 2) + (Byte(z, n + 3) \div 2), 23,
             Byte(z, n + 3), Left(z, n + 3), First(z, n))

\* A range of one byte more.
Widened(z, n) ==
  Coder(8388608 * Byte(z, n + 1) + 32768 * Byte(z, n + 2) + 128 * Byte(z, n + 3)
        + (Byte(z, n + 4) \div 2), 31, Byte(z, n + 4), Left(z, n + 4), First(z, n))

LEMMA Widens ==
  ASSUME NEW z \in Buffers, NEW n \in Nat
  PROVE  RenormalizeDecoder(Decoding(z, n)) = Widened(z, n)
<1>0. n + 1 \in Nat /\ n + 2 \in Nat /\ n + 3 \in Nat /\ n + 3 > 0 /\ (n + 3) + 1 = n + 4
      /\ n + 1 > 0 /\ n + 2 > 0
  OBVIOUS
<1> DEFINE d == Decoding(z, n)
           o == First(z, n)
           b1 == Byte(z, n + 1)
           b2 == Byte(z, n + 2)
           b3 == Byte(z, n + 3)
           b4 == Byte(z, n + 4)
<1>1. b1 \in Nat /\ b2 \in Nat /\ b3 \in Nat
  BY <1>0, ByteIs DEF Octets
<1>2. CASE n # 0
  <2> DEFINE p == 32768 * b1 + 128 * b2
             m == n + 3
  <2> HIDE DEF b1, b2, b3
  <2>1. p \in Nat /\ 256 * p = 8388608 * b1 + 32768 * b2
    BY <1>1
  <2>2. d = Coder(p + (Byte(z, m) \div 2), 23, Byte(z, m), Left(z, m), o)
    BY <1>2 DEF Decoding, b1, b2
  <2>3. m \in Nat /\ m > 0 /\ m + 1 = n + 4 /\ 31 = 23 + 8
    BY <1>0
  <2> HIDE DEF p, m, d, o
  <2>4. ShiftDecoder(d) = Coder(256 * p + 128 * Byte(z, m) + (Byte(z, m + 1) \div 2), 31,
                                Byte(z, m + 1), Left(z, m + 1), o)
    BY <2>1, <2>2, <2>3, ShiftDecodes
  <2>5. ShiftDecoder(d) = Widened(z, n)
    BY <2>1, <2>3, <2>4 DEF Widened, b1, b2, b3, m, o
  <2>6. d.high = 23 /\ Widened(z, n).high = 31
    BY <2>2, CoderFields DEF Widened
  <2>7. RenormalizeDecoder(d) = Widened(z, n)
    <3> DEFINE x == Widened(z, n)
    <3>1. x = IF d.high > 23 THEN d ELSE ShiftDecoder(d)
      BY <2>5, <2>6
    <3>2. x = IF x.high > 23 THEN x ELSE ShiftDecoder(x)
      BY <2>6
    <3> HIDE DEF x
    <3>3. RenormalizeDecoder(d) = x
      BY <3>1, <3>2, RenormalizeDecoderIs
    <3> QED
      BY <3>3 DEF x
  <2> QED
    BY <2>7 DEF d
<1>3. CASE n = 0
  <2> DEFINE x == Coder(128 * b1 + (b2 \div 2), 15, b2, Left(z, 2), <<>>)
             y == Coder(32768 * b1 + 128 * b2 + (b3 \div 2), 23, b3, Left(z, 3), <<>>)
             c == Widened(z, n)
  <2>0. 0 + 1 = 1 /\ 0 + 2 = 2 /\ 0 + 3 = 3 /\ 0 + 4 = 4 /\ o = <<>>
    BY <1>3, WholeIs
  <2>1. b1 = Byte(z, 1) /\ b2 = Byte(z, 2) /\ b3 = Byte(z, 3) /\ b4 = Byte(z, 4)
    BY <1>3, <2>0
  <2>2. d = Coder(0 + (Byte(z, 1) \div 2), 7, Byte(z, 1), Left(z, 1), <<>>)
    <3>1. 0 + (b1 \div 2) = b1 \div 2
      BY <1>1
    <3> QED
      BY <1>3, <2>1, <3>1 DEF Decoding
  <2>3. ShiftDecoder(d) = x
    <3>1. 1 \in Nat /\ 1 > 0 /\ 1 + 1 = 2 /\ 15 = 7 + 8 /\ 0 \in Nat
      OBVIOUS
    <3> HIDE DEF d
    <3>2. ShiftDecoder(d) = Coder(256 * 0 + 128 * Byte(z, 1) + (Byte(z, 1 + 1) \div 2), 15,
                                  Byte(z, 1 + 1), Left(z, 1 + 1), <<>>)
      BY <2>2, <3>1, ShiftDecodes
    <3> HIDE DEF b1, b2, b3
    <3>3. 256 * 0 + 128 * b1 = 128 * b1
      BY <1>1
    <3> QED
      BY <2>1, <3>1, <3>2, <3>3
  <2>4. ShiftDecoder(x) = y
    <3> DEFINE p == 128 * b1
    <3>1. 2 \in Nat /\ 2 > 0 /\ 2 + 1 = 3 /\ 23 = 15 + 8
      OBVIOUS
    <3> HIDE DEF b1, b2, b3
    <3>2. p \in Nat /\ 256 * p = 32768 * b1
      BY <1>1
    <3>3. x = Coder(p + (Byte(z, 2) \div 2), 15, Byte(z, 2), Left(z, 2), <<>>)
      BY <2>1
    <3> HIDE DEF x, p
    <3>4. ShiftDecoder(x) = Coder(256 * p + 128 * Byte(z, 2) + (Byte(z, 2 + 1) \div 2), 23,
                                  Byte(z, 2 + 1), Left(z, 2 + 1), <<>>)
      BY <3>1, <3>2, <3>3, ShiftDecodes
    <3> QED
      BY <2>1, <3>1, <3>2, <3>4
  <2>5. ShiftDecoder(y) = c
    <3> DEFINE p == 32768 * b1 + 128 * b2
    <3>1. 3 \in Nat /\ 3 > 0 /\ 3 + 1 = 4 /\ 31 = 23 + 8
      OBVIOUS
    <3> HIDE DEF b1, b2, b3
    <3>2. p \in Nat /\ 256 * p = 8388608 * b1 + 32768 * b2
      BY <1>1
    <3>3. y = Coder(p + (Byte(z, 3) \div 2), 23, Byte(z, 3), Left(z, 3), <<>>)
      BY <2>1
    <3> HIDE DEF y, p
    <3>4. ShiftDecoder(y) = Coder(256 * p + 128 * Byte(z, 3) + (Byte(z, 3 + 1) \div 2), 31,
                                  Byte(z, 3 + 1), Left(z, 3 + 1), <<>>)
      BY <3>1, <3>2, <3>3, ShiftDecodes
    <3>5. c = Coder(8388608 * b1 + 32768 * b2 + 128 * b3 + (b4 \div 2), 31, b4, Left(z, 4), <<>>)
      BY <1>3, <2>0 DEF Widened, b1, b2, b3
    <3> QED
      BY <2>1, <3>1, <3>2, <3>4, <3>5
  <2>6. d.high = 7 /\ x.high = 15 /\ y.high = 23
    BY <2>2, CoderFields
  <2>7. RenormalizeDecoder(d) = c
    <3> HIDE DEF d, x, y, c
    <3>1. x = IF d.high > 23 THEN d ELSE ShiftDecoder(d)
      BY <2>3, <2>6
    <3>2. y = IF x.high > 23 THEN x ELSE ShiftDecoder(x)
      BY <2>4, <2>6
    <3>3. c = IF y.high > 23 THEN y ELSE ShiftDecoder(y)
      BY <2>5, <2>6
    <3> QED
      BY <3>1, <3>2, <3>3, RenormalizeDecoderIs
  <2> QED
    BY <2>7 DEF c, d
<1> QED
  BY <1>2, <1>3

\* A symbol read is the byte it was written for.
LEMMA DecodesSymbol ==
  ASSUME NEW z \in Buffers, NEW n \in Nat, n < Len(z)
  PROVE  DecodeSymbol(Decoding(z, n)) = Decoding(z, n + 1)
<1> DEFINE r == Widened(z, n)
           s == Byte(z, n + 1)
           b2 == Byte(z, n + 2)
           b3 == Byte(z, n + 3)
           b4 == Byte(z, n + 4)
           q == b4 \div 2
           low == 8388608 * s + 32768 * b2 + 128 * b3 + q
           rest == 32768 * b2 + 128 * b3 + q
           o == First(z, n)
           i == Left(z, n + 4)
           symbol == Min({255, r.low \div 2^(r.high - 8)})
<1>1. s \in Octets /\ b2 \in Octets /\ b3 \in Octets /\ b4 \in Octets
  <2>1. n + 1 \in Nat /\ n + 2 \in Nat /\ n + 3 \in Nat /\ n + 4 \in Nat
        /\ n + 1 > 0 /\ n + 2 > 0 /\ n + 3 > 0 /\ n + 4 > 0
    OBVIOUS
  <2> QED
    BY <2>1, ByteIs
<1>2. q \in Nat /\ q < 128
  BY <1>1, BitsJoin
<1>3. r = Coder(low, 31, b4, i, o)
  BY DEF Widened
<1> HIDE DEF s, b2, b3, b4, q, i, o
<1>4. s \in Nat /\ s < 256 /\ b2 \in Nat /\ b2 < 256 /\ b3 \in Nat /\ b3 < 256
  BY <1>1 DEF Octets
<1>5. rest \in Nat /\ rest < 8388608 /\ low = 8388608 * s + rest
  BY <1>2, <1>4, SMT
<1>6. low \div 8388608 = s
  <2> HIDE DEF rest, low
  <2> QED
    BY <1>4, <1>5, SMT
<1> HIDE DEF low, rest, r
<1>7. r.low = low /\ r.high = 31 /\ r.output = o
  BY <1>3, CoderFields
<1>8. r.high - 8 = 23 /\ 2^(r.high - 8) = Unit
  <2>1. r.high - 8 = 23
    BY <1>7
  <2>2. 2^(r.high - 8) = 2^23
    BY <2>1, Zenon
  <2> QED
    BY <2>1, <2>2 DEF Unit
<1>9. symbol = s
  <2>1. symbol = Min({255, s})
    <3>1. low \div Unit = s
      BY <1>6, UnitIs, SMT
    <3> QED
      BY <1>7, <1>8, <3>1
  <2>2. Min({255, s}) = s
    <3>1. 255 \in Nat
      OBVIOUS
    <3> QED
      BY <1>4, <3>1, MinOf
  <2> QED
    BY <2>1, <2>2
<1>10. low - Unit * IntervalLow[s] = rest
  BY <1>1, <1>4, <1>5, IntervalIs, UnitIs, SMT
<1>11. DecodeSymbol(Decoding(z, n)) =
         [r EXCEPT !.output = Append(@, symbol), !.high = @ - 8,
                   !.low = @ - 2^(r.high - 8) * IntervalLow[symbol]]
  BY Widens DEF DecodeSymbol, r
<1> HIDE DEF symbol
<1>12. Append(o, s) = First(z, n + 1)
  <2>1. s = z[n + 1]
    BY BufferIs DEF s, Byte
  <2>2. o \in Buffers /\ First(z, n + 1) = o \o <<s>>
    BY <2>1, FirstIs DEF o
  <2> QED
    BY <1>1, <2>2, OneIs
<1>13. DecodeSymbol(Decoding(z, n)) = Reading(r, rest, 23, First(z, n + 1))
  BY <1>7, <1>8, <1>9, <1>10, <1>11, <1>12 DEF Reading
<1>14. Reading(r, rest, 23, First(z, n + 1)) = Coder(rest, 23, b4, i, First(z, n + 1))
  <2>1. Reading(Coder(low, 31, b4, i, o), rest, 23, First(z, n + 1))
          = Coder(rest, 23, b4, i, First(z, n + 1))
    BY ONLY CoderReads
  <2> QED
    BY <1>3, <2>1
<1>15. Decoding(z, n + 1) = Coder(rest, 23, b4, i, First(z, n + 1))
  <2>1. n + 1 # 0 /\ (n + 1) + 1 = n + 2 /\ (n + 1) + 2 = n + 3 /\ (n + 1) + 3 = n + 4
    OBVIOUS
  <2> QED
    BY <2>1 DEF Decoding, rest, b2, b3, b4, q, i
<1> QED
  BY <1>13, <1>14, <1>15

\* Symbols are read until the input is at its end.
LEMMA DecodesAll ==
  ASSUME NEW z \in Buffers, Len(z) > 3
  PROVE  DecodeSymbols(Decoding(z, 0)) = Decoding(z, Len(z) - 3)
<1> DEFINE d == Decoding(z, 0)
           M == Len(z)
           K == Len(d.input)
           Step(x) == IF x.input = <<>> THEN x ELSE DecodeSymbol(x)
           after == CHOOSE f : f = [n \in 0..K |-> IF n = 0 THEN d ELSE Step(f[n - 1])]
           At(n) == IF n < M - 3 THEN n ELSE M - 3
           f == [n \in 0..K |-> Decoding(z, At(n))]
<1>1. DecodeSymbols(d) = after[K]
  BY DEF DecodeSymbols
<1>2. M \in Nat /\ M > 3
  BY BufferIs
<1>3. K = M - 1 /\ K \in Nat
  <2>1. d.input = Left(z, 1)
    BY CoderFields DEF Decoding
  <2>2. Left(z, 1) = Drop(z, 1)
    BY <1>2 DEF Left
  <2>3. z \in Seq(Octets) /\ 1 \in Nat /\ 1 <= Len(z)
    BY <1>2 DEF Buffers
  <2>4. Len(Drop(z, 1)) = M - 1
    BY <2>3, DropOf
  <2> QED
    BY <1>2, <2>1, <2>2, <2>4
<1> HIDE DEF d, K
<1>4. ASSUME NEW n \in Nat, n <= M - 3
      PROVE  Step(Decoding(z, n)) = IF n < M - 3 THEN Decoding(z, n + 1) ELSE Decoding(z, n)
  <2>1. Decoding(z, n).input = Left(z, IF n = 0 THEN 1 ELSE n + 3)
    BY CoderFields DEF Decoding
  <2>2. Left(z, IF n = 0 THEN 1 ELSE n + 3) = <<>> <=> n = M - 3
    <3> DEFINE m == IF n = 0 THEN 1 ELSE n + 3
    <3>1. m \in Nat /\ (m >= M <=> n = M - 3)
      BY <1>2, <1>4
    <3> HIDE DEF m
    <3>2. Left(z, m) = <<>> <=> m >= Len(z)
      BY <3>1, LeftIs
    <3> QED
      BY <3>1, <3>2 DEF m
  <2>3. n < M - 3 => DecodeSymbol(Decoding(z, n)) = Decoding(z, n + 1)
    <3>1. n < M - 3 => n < Len(z)
      BY <1>2
    <3> QED
      BY <3>1, DecodesSymbol
  <2>4. n < M - 3 <=> n # M - 3
    BY <1>2, <1>4
  <2> QED
    BY <2>1, <2>2, <2>3, <2>4
<1> HIDE DEF Step
<1>5. ASSUME NEW n \in 1..K PROVE Step(Decoding(z, At(n - 1))) = Decoding(z, At(n))
  <2> DEFINE m == At(n - 1)
  <2>1. m \in Nat /\ m <= M - 3 /\ At(n) = IF m < M - 3 THEN m + 1 ELSE m
    BY <1>2, <1>3
  <2> HIDE DEF m, At
  <2>2. Step(Decoding(z, m)) = IF m < M - 3 THEN Decoding(z, m + 1) ELSE Decoding(z, m)
    BY <1>4, <2>1
  <2> QED
    BY <2>1, <2>2 DEF m
<1>6. At(0) = 0 /\ At(K) = M - 3
  BY <1>2, <1>3
<1> HIDE DEF At
<1>7. ASSUME NEW n \in 0..K PROVE f[n] = IF n = 0 THEN d ELSE Step(f[n - 1])
  <2>1. CASE n = 0
    BY <1>6, <2>1 DEF d
  <2>2. CASE n # 0
    <3>1. n \in 1..K /\ n - 1 \in 0..K
      BY <1>3, <2>2
    <3> QED
      BY <1>5, <2>2, <3>1
  <2> QED
    BY <2>1, <2>2
<1>8. f = [n \in 0..K |-> IF n = 0 THEN d ELSE Step(f[n - 1])]
  <2>1. f = [n \in 0..K |-> f[n]]
    OBVIOUS
  <2> HIDE DEF f
  <2> QED
    BY <1>7, <2>1, Zenon
<1>9. after = [n \in 0..K |-> IF n = 0 THEN d ELSE Step(after[n - 1])]
  <2> HIDE DEF f
  <2> QED
    BY <1>8, Zenon
<1> HIDE DEF after, f
<1>10. \A n \in 0..K : after[n] = Decoding(z, At(n))
  <2> DEFINE U == {n \in 0..K : after[n] = Decoding(z, At(n))}
  <2>1. 0 \in U
    <3>1. 0 \in 0..K
      BY <1>3
    <3> QED
      BY <1>6, <1>9, <3>1 DEF d
  <2>2. ASSUME NEW n \in 1..K, n - 1 \in U PROVE n \in U
    <3>1. n \in 0..K /\ n # 0 /\ after[n - 1] = Decoding(z, At(n - 1))
      BY <1>3, <2>2
    <3>2. after[n] = Step(after[n - 1])
      BY <1>9, <3>1
    <3> QED
      BY <1>5, <3>1, <3>2
  <2>3. \A n \in 0..K : n \in U
    <3> HIDE DEF U
    <3> QED
      BY <1>3, <2>1, <2>2, Upwards
  <2> QED
    BY <2>3
<1>11. K \in 0..K
  BY <1>3
<1> QED
  BY <1>1, <1>6, <1>10, <1>11 DEF d

-----------------------------------------------------------------------------
(* Buffers joined one by one *)

Lists == Seq(Buffers)

LEMMA PrefixesExist ==
  ASSUME NEW buffers \in Lists
  PROVE  \E f : f[0] = <<>> /\ \A i \in 1..Len(buffers) : f[i] \in Buffers /\ f[i] = f[i - 1] \o buffers[i]
<1> DEFINE N == Len(buffers)
           T == [i \in 0..N |-> Buffers]
           next == [i \in 1..N |-> [x \in Buffers |-> x \o buffers[i]]]
<1>1. N \in Nat /\ \A i \in 1..N : buffers[i] \in Buffers
  BY DEF Lists
<1>2. \A i \in 0..N : T[i] = Buffers
  OBVIOUS
<1>3. \A i \in 1..N, x \in Buffers : next[i][x] = x \o buffers[i]
  OBVIOUS
<1>4. 0 \in 0..N /\ \A i \in 1..N : i \in 0..N /\ i - 1 \in 0..N
  BY <1>1
<1>5. <<>> \in Buffers
  BY DEF Buffers
<1> HIDE DEF T, next, N
<1>6. ASSUME NEW i \in 1..N, NEW x \in T[i - 1] PROVE next[i][x] \in T[i]
  <2>1. x \in Buffers
    BY <1>2, <1>4
  <2>2. x \o buffers[i] \in Buffers
    BY <1>1, <2>1, Both
  <2>3. next[i][x] = x \o buffers[i]
    BY <1>3, <2>1
  <2>4. T[i] = Buffers
    BY <1>2, <1>4
  <2> QED
    BY <2>2, <2>3, <2>4, Zenon
<1>7. <<>> \in T[0]
  BY <1>2, <1>4, <1>5
<1>8. IsLoop(N, T, <<>>, next)
  BY <1>1, <1>6, <1>7 DEF IsLoop
<1>9. PICK f : /\ f = [i \in 0..N |-> IF i = 0 THEN <<>> ELSE next[i][f[i - 1]]]
               /\ \A i \in 0..N : f[i] \in T[i]
  BY <1>8, Loop
<1>10. f[0] = <<>>
  BY <1>4, <1>9
<1>11. ASSUME NEW i \in 1..N PROVE f[i] \in Buffers /\ f[i] = f[i - 1] \o buffers[i]
  <2>1. i \in 0..N /\ i - 1 \in 0..N /\ i # 0
    BY <1>1, <1>4
  <2>2. f[i] \in Buffers /\ f[i - 1] \in Buffers
    BY <1>2, <1>9, <2>1
  <2>3. f[i] = next[i][f[i - 1]]
    BY <1>9, <2>1
  <2> QED
    BY <1>3, <2>2, <2>3
<1> QED
  BY <1>10, <1>11 DEF N

LEMMA ConcatIs ==
  ASSUME NEW buffers \in Lists, NEW f, f[0] = <<>>,
         \A i \in 1..Len(buffers) : f[i] \in Buffers /\ f[i] = f[i - 1] \o buffers[i]
  PROVE  Concat(buffers) = f[Len(buffers)]
<1>1. buffers \in Seq(Seq(Octets))
  BY DEF Lists, Buffers
<1>2. \A i \in 1..Len(buffers) : f[i] \in Seq(Octets) /\ f[i] = f[i - 1] \o buffers[i]
  BY DEF Buffers
<1> QED
  BY <1>1, <1>2, ConcatAdds

LEMMA ConcatAppends ==
  ASSUME NEW buffers \in Lists, NEW x \in Buffers
  PROVE  /\ Append(buffers, x) \in Lists
         /\ Concat(buffers) \in Buffers
         /\ Concat(Append(buffers, x)) = Concat(buffers) \o x
<1> DEFINE N == Len(buffers)
           more == Append(buffers, x)
<1>1. more \in Lists /\ Len(more) = N + 1 /\ N \in Nat /\ more[N + 1] = x
      /\ \A i \in 1..N : more[i] = buffers[i]
  BY DEF Lists
<1> HIDE DEF more
<1>2. PICK f : f[0] = <<>> /\ \A i \in 1..Len(more) : f[i] \in Buffers /\ f[i] = f[i - 1] \o more[i]
  BY <1>1, PrefixesExist
<1>3. Concat(more) = f[Len(more)]
  BY <1>1, <1>2, ConcatIs
<1>4. ASSUME NEW i \in 1..N PROVE f[i] \in Buffers /\ f[i] = f[i - 1] \o buffers[i]
  <2>1. i \in 1..Len(more)
    BY <1>1
  <2> QED
    BY <1>1, <1>2, <2>1
<1>5. Concat(buffers) = f[N]
  BY <1>2, <1>4, ConcatIs
<1>6. f[N] \in Buffers
  <2>1. CASE N = 0
    BY <1>2, <2>1, EmptyIs DEF Buffers
  <2>2. CASE N # 0
    <3>1. N \in 1..N
      BY <1>1, <2>2
    <3> QED
      BY <1>4, <3>1
  <2> QED
    BY <2>1, <2>2
<1>7. f[N + 1] = f[N] \o x
  <2>1. N + 1 \in 1..Len(more) /\ (N + 1) - 1 = N
    BY <1>1
  <2> QED
    BY <1>1, <1>2, <2>1
<1> QED
  BY <1>1, <1>3, <1>5, <1>6, <1>7 DEF more

LEMMA NoneJoined == <<>> \in Lists /\ Concat(<<>>) = <<>>
<1>1. <<>> \in Lists
  BY DEF Lists
<1>2. Len(<<>>) = 0
  OBVIOUS
<1> QED
  BY <1>1, <1>2 DEF Concat, FlattenSeq

JoinsFour(a, b, c, d) == Concat(<<a, b, c, d>>) = ((a \o b) \o c) \o d

LEMMA FourJoined ==
  ASSUME NEW a \in Buffers, NEW b \in Buffers, NEW c \in Buffers, NEW d \in Buffers
  PROVE  JoinsFour(a, b, c, d)
<1>1. <<a>> = Append(<<>>, a) /\ <<a, b>> = Append(<<a>>, b)
      /\ <<a, b, c>> = Append(<<a, b>>, c) /\ <<a, b, c, d>> = Append(<<a, b, c>>, d)
  OBVIOUS
<1> DEFINE s1 == <<a>>
           s2 == <<a, b>>
           s3 == <<a, b, c>>
           s4 == <<a, b, c, d>>
<1>2. s1 = Append(<<>>, a) /\ s2 = Append(s1, b) /\ s3 = Append(s2, c) /\ s4 = Append(s3, d)
  BY <1>1
<1> HIDE DEF s1, s2, s3, s4
<1>3. s1 \in Lists /\ Concat(s1) = a
  <2>1. s1 \in Lists /\ Concat(s1) = <<>> \o a
    BY <1>2, NoneJoined, ConcatAppends
  <2> QED
    BY <2>1, EmptyIs
<1>4. s2 \in Lists /\ Concat(s2) = a \o b
  BY <1>2, <1>3, ConcatAppends
<1>5. s3 \in Lists /\ Concat(s3) = (a \o b) \o c
  BY <1>2, <1>4, ConcatAppends
<1>6. s4 \in Lists /\ Concat(s4) = ((a \o b) \o c) \o d
  BY <1>2, <1>5, ConcatAppends
<1> QED
  BY <1>6 DEF s4, JoinsFour

-----------------------------------------------------------------------------
(* The decompression shaper *)

LEMMA ShortBuffer ==
  ASSUME NEW n \in Nat
  PROVE  EncodeShort(n) \in Buffers /\ Len(EncodeShort(n)) = 2
<1>1. (n \div 256) % 256 \in Octets /\ n % 256 \in Octets
  BY DEF Octets
<1> DEFINE p == (n \div 256) % 256
           q == n % 256
<1>2. EncodeShort(n) = <<p, q>>
  BY DEF EncodeShort
<1> HIDE DEF p, q
<1>3. p \in Octets /\ q \in Octets
  BY <1>1 DEF p, q
<1> QED
  BY <1>2, <1>3 DEF Buffers

\* All the symbols of a code but the last two are read, and one after them.
LEMMA DecodeIs ==
  ASSUME NEW z \in Buffers, Len(z) > 3, NEW w, w = << 202 >> \o z
  PROVE  Decode(w) = First(z, Len(z) - 2)
<1> DEFINE M == Len(z)
           d == Decoding(z, 0)
<1>1. M \in Nat /\ M > 3 /\ z \in Seq(Octets) /\ z[1] \in Octets
  BY DEF Buffers
<1>2. w \in Seq(Octets) /\ Len(w) = M + 1 /\ \A i \in 1..M : w[i + 1] = z[i]
  <2>1. 202 \in Octets
    BY DEF Octets
  <2> QED
    BY <1>1, <2>1
<1>3. w[2] = z[1]
  <2>1. 1 \in 1..M /\ 1 + 1 = 2
    BY <1>1
  <2> QED
    BY <1>2, <2>1
<1>4. SubSeq(w, 3, Len(w)) = Drop(z, 1)
  <2> DEFINE s == Drop(w, 2)
             t == Drop(z, 1)
  <2>1. 2 \in Nat /\ 2 <= Len(w) /\ 1 \in Nat /\ 1 <= Len(z) /\ 2 + 1 = 3
    BY <1>1, <1>2
  <2>2. s \in Seq(Octets) /\ Len(s) = Len(w) - 2 /\ \A i \in 1..(Len(w) - 2) : s[i] = w[2 + i]
    <3> DEFINE k == 2
    <3>1. k \in Nat /\ k <= Len(w) /\ w \in Seq(Octets)
      BY <1>2, <2>1
    <3> HIDE DEF k
    <3>2. /\ Drop(w, k) \in Seq(Octets) /\ Len(Drop(w, k)) = Len(w) - k
          /\ \A i \in 1..(Len(w) - k) : Drop(w, k)[i] = w[k + i]
      BY ONLY <3>1, DropOf
    <3> QED
      BY <3>2 DEF k
  <2>3. t \in Seq(Octets) /\ Len(t) = Len(z) - 1 /\ \A i \in 1..(Len(z) - 1) : t[i] = z[1 + i]
    BY <1>1, <2>1, DropOf
  <2>4. s = SubSeq(w, 3, Len(w))
    BY <2>1 DEF Drop
  <2> HIDE DEF s, t
  <2>5. Len(s) = M - 1 /\ Len(t) = M - 1
    BY <1>1, <1>2, <2>2, <2>3
  <2>6. ASSUME NEW i \in 1..(M - 1) PROVE s[i] = t[i]
    <3>1. i \in 1..(Len(w) - 2) /\ 2 + i = (1 + i) + 1 /\ 1 + i \in 1..M
      BY <1>1, <1>2
    <3> QED
      BY <1>2, <2>2, <2>3, <3>1
  <2>7. s = t
    BY <2>2, <2>3, <2>5, <2>6, SeqEqual
  <2> QED
    BY <2>4, <2>7 DEF t
<1>5. d = Coder(z[1] \div 2, 7, z[1], Drop(z, 1), <<>>)
  <2>1. Byte(z, 1) = z[1] /\ Left(z, 1) = Drop(z, 1)
    BY <1>1 DEF Byte, Left
  <2> QED
    BY <2>1 DEF Decoding
<1>6. Decode(w) = RenormalizeDecoder(DecodeSymbol(DecodeSymbols(d))).output
  <2>1. 2^(8 - EXTRA_BITS) = 2 /\ EXTRA_BITS = 7
    <3>1. 2^1 = 2 /\ 8 - 7 = 1
      OBVIOUS
    <3> QED
      BY <3>1 DEF EXTRA_BITS
  <2>2. d = [low |-> w[2] \div 2^(8 - EXTRA_BITS), high |-> EXTRA_BITS, working |-> w[2],
             underflow |-> 0, input |-> SubSeq(w, 3, Len(w)), output |-> <<>>]
    BY <1>3, <1>4, <1>5, <2>1 DEF Coder
  <2> HIDE DEF d
  <2> QED
    BY <2>2 DEF Decode
<1>7. DecodeSymbols(d) = Decoding(z, M - 3)
  BY DecodesAll
<1>8. DecodeSymbol(Decoding(z, M - 3)) = Decoding(z, M - 2)
  <2> DEFINE n == M - 3
  <2>1. n \in Nat /\ n < Len(z) /\ n + 1 = M - 2
    BY <1>1
  <2> HIDE DEF n
  <2>2. DecodeSymbol(Decoding(z, n)) = Decoding(z, n + 1)
    BY <2>1, DecodesSymbol
  <2> QED
    BY <2>1, <2>2 DEF n
<1>9. RenormalizeDecoder(Decoding(z, M - 2)) = Widened(z, M - 2)
  <2> DEFINE n == M - 2
  <2>1. n \in Nat
    BY <1>1
  <2> HIDE DEF n
  <2>2. RenormalizeDecoder(Decoding(z, n)) = Widened(z, n)
    BY <2>1, Widens
  <2> QED
    BY <2>2 DEF n
<1>10. Widened(z, M - 2).output = First(z, M - 2)
  BY CoderFields DEF Widened
<1> QED
  BY <1>6, <1>7, <1>8, <1>9, <1>10

\* What the shaper decodes is what it was given.
LEMMA TransformIs ==
  ASSUME NEW b \in Buffers
  PROVE  DecompressionTransform(b) = <<b>>
<1> DEFINE N == Len(b)
           one == << 202 >>
           zero == TwoOctets(0, 0)
           e == EncodeShort(N)
           t == zero \o e
           z == b \o t
           w == one \o z
           decoded == Decode(w)
<1>1. N \in Nat
  BY BufferIs
<1>2. one \in Buffers /\ zero \in Buffers /\ Len(zero) = 2
  <2>1. 202 \in Octets /\ 0 \in Octets
    BY DEF Octets
  <2>2. <<>> \in Buffers
    BY DEF Buffers
  <2> QED
    BY <2>1, <2>2, OneIs, TwoIs
<1>3. e \in Buffers /\ Len(e) = 2
  BY <1>1, ShortBuffer
<1>4. Concat(<<one, b, zero, e>>) = ((one \o b) \o zero) \o e
  <2> HIDE DEF one, zero, e
  <2>1. one \in Buffers /\ zero \in Buffers /\ e \in Buffers
    BY <1>2, <1>3
  <2>2. JoinsFour(one, b, zero, e)
    BY <2>1, FourJoined
  <2> QED
    BY <2>2 DEF JoinsFour
<1>5. DecompressionTransform(b) =
        LET all == Decode(Concat(<<one, b, zero, e>>)) IN <<Take(all, Len(all) - 2)>>
  BY DEF DecompressionTransform, TwoOctets
<1> HIDE DEF one, zero, e
<1>6. t \in Buffers /\ Len(t) = 4
  <2>1. t \in Buffers /\ Len(t) = Len(zero) + Len(e)
    BY <1>2, <1>3, Both, Zenon
  <2> QED
    BY <1>2, <1>3, <2>1
<1>7. ((one \o b) \o zero) \o e = w
  <2>1. (one \o b) \o zero = one \o (b \o zero) /\ b \o zero \in Buffers
    BY <1>2, Thrice, Both
  <2>2. (one \o (b \o zero)) \o e = one \o ((b \o zero) \o e)
    <3> DEFINE p == b \o zero
    <3>1. p \in Buffers
      BY <2>1
    <3> HIDE DEF p
    <3>2. (one \o p) \o e = one \o (p \o e)
      BY <1>2, <1>3, <3>1, Thrice
    <3> QED
      BY <3>2 DEF p
  <2>3. (b \o zero) \o e = b \o (zero \o e)
    BY <1>2, <1>3, Thrice
  <2> QED
    BY <2>1, <2>2, <2>3
<1> HIDE DEF t
<1>8. z \in Buffers /\ Len(z) = N + 4
  <2>1. z \in Buffers /\ Len(z) = Len(b) + Len(t)
    BY <1>6, Both, Zenon
  <2> QED
    BY <1>6, <2>1
<1>9. First(z, N) = b
  <2>1. Take(z, Len(b)) = b
    BY <1>6, SplitOf DEF Buffers
  <2>2. Take(z, N) = SubSeq(z, 1, IF N <= Len(z) THEN N ELSE Len(z))
    BY <1>1, <1>8, TakeOf DEF Buffers
  <2> QED
    BY <1>1, <1>8, <2>1, <2>2 DEF First
<1> HIDE DEF z
<1>10. decoded = First(z, N + 2)
  <2>1. Len(z) > 3 /\ Len(z) - 2 = N + 2
    BY <1>1, <1>8
  <2>2. w = << 202 >> \o z
    BY DEF one
  <2> HIDE DEF w
  <2>3. Decode(w) = First(z, Len(z) - 2)
    BY <1>8, <2>1, <2>2, DecodeIs
  <2> QED
    BY <2>1, <2>3
<1>11. decoded \in Buffers /\ Len(decoded) = N + 2
  <2> DEFINE m == N + 2
  <2>1. m \in Nat /\ m < Len(z)
    BY <1>1, <1>8
  <2> HIDE DEF m
  <2>2. First(z, m) \in Buffers /\ Len(First(z, m)) = m
    BY <1>8, <2>1, FirstIs
  <2> QED
    BY <1>10, <2>2 DEF m
<1>12. Take(decoded, N) = First(z, N)
  <2>1. decoded \in Seq(Octets) /\ z \in Seq(Octets)
    BY <1>8, <1>11 DEF Buffers
  <2> HIDE DEF decoded
  <2>2. /\ Take(decoded, N) \in Seq(Octets) /\ Len(Take(decoded, N)) = N
        /\ \A i \in 1..N : Take(decoded, N)[i] = decoded[i]
    BY <1>1, <1>11, <2>1, TakeOf
  <2>3. \A i \in 1..N : decoded[i] = z[i]
    BY <1>1, <1>8, <1>10, <2>1 DEF First
  <2>4. First(z, N) \in Seq(Octets) /\ Len(First(z, N)) = N /\ \A i \in 1..N : First(z, N)[i] = z[i]
    BY <1>1, <1>8, <2>1 DEF First
  <2> QED
    BY <2>2, <2>3, <2>4, SeqEqual
<1>13. Len(decoded) - 2 = N
  BY <1>1, <1>11
<1>14. DecompressionTransform(b) = <<Take(decoded, Len(decoded) - 2)>>
  BY <1>4, <1>5, <1>7
<1> HIDE DEF decoded
<1> QED
  BY <1>9, <1>12, <1>13, <1>14

\* What the shaper decompresses it compresses again, and the coder, whose table is uniform, gives
\* back every byte: none is lost in those it works on, holds back or discards.
THEOREM DecompressionInverts ==
  \A b \in Seq(Octets) :
    /\ DecompressionTransform(b) = <<b>>
    /\ DecompressionRestore(DecompressionTransform(b)[1]) = <<b>>
<1> SUFFICES ASSUME NEW b \in Buffers
             PROVE  /\ DecompressionTransform(b) = <<b>>
                    /\ DecompressionRestore(DecompressionTransform(b)[1]) = <<b>>
  BY DEF Buffers
<1>1. DecompressionTransform(b) = <<b>> /\ DecompressionRestore(b) = <<b>>
  BY TransformIs, RestoreIs
<1> QED
  BY <1>1

-----------------------------------------------------------------------------
(* A fragment *)

JoinsSix(a, b, c, d, e, f) ==
  Concat(<<a, b, c, d, e, f>>) = ((((a \o b) \o c) \o d) \o e) \o f

LEMMA SixJoined ==
  ASSUME NEW a \in Buffers, NEW b \in Buffers, NEW c \in Buffers, NEW d \in Buffers,
         NEW e \in Buffers, NEW f \in Buffers
  PROVE  JoinsSix(a, b, c, d, e, f)
<1> DEFINE s4 == <<a, b, c, d>>
           s5 == <<a, b, c, d, e>>
           s6 == <<a, b, c, d, e, f>>
           j3 == (a \o b) \o c
           j4 == j3 \o d
           j5 == j4 \o e
<1>1. s5 = Append(s4, e) /\ s6 = Append(s5, f)
  OBVIOUS
<1>2. s4 \in Lists
  BY DEF Lists
<1>3. Concat(s4) = j4
  <2>1. JoinsFour(a, b, c, d)
    BY FourJoined
  <2> QED
    BY <2>1 DEF JoinsFour
<1> HIDE DEF s4, s5, s6
<1>4. s5 \in Lists /\ Concat(s5) = j4 \o e
  <2> HIDE DEF j4
  <2> QED
    BY <1>1, <1>2, <1>3, ConcatAppends
<1>5. s6 \in Lists /\ Concat(s6) = j5 \o f
  <2> HIDE DEF j5
  <2>1. Concat(s5) = j5
    BY <1>4 DEF j5
  <2> QED
    BY <1>1, <1>4, <2>1, ConcatAppends
<1> QED
  BY <1>5 DEF s6, JoinsSix

\* What parse does with the next of the lengths.
ParseNext(before, n) ==
  IF before = <<>> \/ Len(Last(before)) < n THEN <<>>
  ELSE Front(before) \o Split(Last(before), n)

ParsesTo(front, s, t, n) == ParseNext(Append(front, s \o t), n) = Append(Append(front, s), t)

LEMMA ParsesNext ==
  ASSUME NEW front \in Lists, NEW s \in Buffers, NEW t \in Buffers, NEW n, n = Len(s)
  PROVE  ParsesTo(front, s, t, n)
<1> DEFINE w == s \o t
           before == Append(front, w)
<1>1. w \in Buffers /\ Len(w) = Len(s) + Len(t) /\ Len(s) \in Nat /\ Len(t) \in Nat
  BY Both, BufferIs
<1>2. Split(w, n) = <<s, t>>
  BY SplitAt
<1> HIDE DEF w
<1>3. Len(before) = Len(front) + 1 /\ before # <<>> /\ Len(front) \in Nat
  <2>1. front \in Seq(Buffers)
    BY DEF Lists
  <2>2. Len(before) = Len(front) + 1 /\ Len(front) \in Nat
    BY <2>1
  <2>3. Len(<<>>) = 0
    OBVIOUS
  <2> QED
    BY <2>2, <2>3
<1>4. Last(before) = w
  BY <1>1 DEF Last, Lists
<1>5. Front(before) = front
  <2>1. Len(before) - 1 = Len(front)
    BY <1>3
  <2>2. SubSeq(before, 1, Len(front)) = front
    BY <1>1 DEF Lists
  <2> QED
    BY <2>1, <2>2 DEF Front
<1> HIDE DEF before
<1>6. ~(Len(w) < n)
  BY <1>1
<1>7. front \o <<s, t>> = Append(Append(front, s), t)
  BY DEF Lists
<1> QED
  BY <1>2, <1>3, <1>4, <1>5, <1>6, <1>7 DEF ParseNext, ParsesTo, before, w

\* Four parts and a rest.
LEMMA ParseIs ==
  ASSUME NEW e, NEW x1, NEW x2, NEW x3, NEW x4,
         x1 = ParseNext(<<e>>, 2), x2 = ParseNext(x1, 32), x3 = ParseNext(x2, 1),
         x4 = ParseNext(x3, 1)
  PROVE  Parse(e, <<2, 32, 1, 1>>) = x4
<1> DEFINE lengths == <<2, 32, 1, 1>>
           M == Len(lengths)
           Part(f, i) == IF i = 0 THEN <<e>> ELSE ParseNext(f[i - 1], lengths[i])
           parts == CHOOSE f : f = [i \in 0..M |-> Part(f, i)]
           f == [i \in 0..4 |-> IF i = 0 THEN <<e>> ELSE IF i = 1 THEN x1 ELSE IF i = 2 THEN x2
                                ELSE IF i = 3 THEN x3 ELSE x4]
<1>1. Parse(e, lengths) = parts[M]
  BY DEF Parse, ParseNext
<1>2. M = 4 /\ lengths[1] = 2 /\ lengths[2] = 32 /\ lengths[3] = 1 /\ lengths[4] = 1
  OBVIOUS
<1> HIDE DEF lengths, M
<1>3. f[0] = <<e>> /\ f[1] = x1 /\ f[2] = x2 /\ f[3] = x3 /\ f[4] = x4
  OBVIOUS
<1>4. f = [i \in 0..M |-> f[i]]
  BY <1>2
<1>5. 1 - 1 = 0 /\ 2 - 1 = 1 /\ 3 - 1 = 2 /\ 4 - 1 = 3
  OBVIOUS
<1> HIDE DEF f
<1>6. ASSUME NEW i \in 0..M PROVE f[i] = Part(f, i)
  <2>1. i = 0 \/ i = 1 \/ i = 2 \/ i = 3 \/ i = 4
    BY <1>2
  <2> QED
    BY <1>2, <1>3, <1>5, <2>1
<1>7. f = [i \in 0..M |-> Part(f, i)]
  <2> HIDE DEF Part
  <2> QED
    BY <1>4, <1>6, Zenon
<1>8. parts = [i \in 0..M |-> Part(parts, i)]
  <2> HIDE DEF Part
  <2> QED
    BY <1>7, Zenon
<1> HIDE DEF parts
<1>9. \A i \in 0..M : parts[i] = Part(parts, i)
  <2> HIDE DEF Part
  <2> QED
    BY <1>8, Zenon
<1>10. /\ 0 \in 0..M /\ 1 \in 0..M /\ 2 \in 0..M /\ 3 \in 0..M /\ 4 \in 0..M
       /\ 1 # 0 /\ 2 # 0 /\ 3 # 0 /\ 4 # 0
  BY <1>2
<1>11. parts[0] = <<e>>
  BY <1>9, <1>10
<1>12. parts[1] = x1
  BY <1>2, <1>5, <1>9, <1>10, <1>11
<1>13. parts[2] = x2
  BY <1>2, <1>5, <1>9, <1>10, <1>12
<1>14. parts[3] = x3
  BY <1>2, <1>5, <1>9, <1>10, <1>13
<1>15. parts[4] = x4
  BY <1>2, <1>5, <1>9, <1>10, <1>14
<1> QED
  BY <1>1, <1>2, <1>15 DEF lengths

LEMMA ParsesFour ==
  ASSUME NEW s \in Buffers, NEW t \in Buffers, NEW u \in Buffers, NEW v \in Buffers,
         NEW r \in Buffers, Len(s) = 2, Len(t) = 32, Len(u) = 1, Len(v) = 1
  PROVE  Parse(s \o (t \o (u \o (v \o r))), <<2, 32, 1, 1>>) = <<s, t, u, v, r>>
<1> DEFINE r3 == v \o r
           r2 == u \o r3
           r1 == t \o r2
           e == s \o r1
           f1 == <<s>>
           f2 == <<s, t>>
           f3 == <<s, t, u>>
           all == <<s, t, u, v, r>>
           x1 == Append(f1, r1)
           x2 == Append(f2, r2)
           x3 == Append(f3, r3)
<1>1. f1 \in Lists /\ f2 \in Lists /\ f3 \in Lists /\ <<>> \in Lists
  BY DEF Lists
<1>2. /\ f1 = Append(<<>>, s) /\ f2 = Append(f1, t) /\ f3 = Append(f2, u)
      /\ all = Append(Append(f3, v), r) /\ <<e>> = Append(<<>>, e)
  OBVIOUS
<1>3. r3 \in Buffers
  BY Both
<1> HIDE DEF r3
<1>4. r2 \in Buffers
  BY <1>3, Both
<1> HIDE DEF r2
<1>5. r1 \in Buffers
  BY <1>4, Both
<1> HIDE DEF r1, f1, f2, f3, all
<1> HIDE DEF e, x1, x2, x3
<1>6. /\ ParsesTo(<<>>, s, r1, 2) /\ ParsesTo(f1, t, r2, 32) /\ ParsesTo(f2, u, r3, 1)
      /\ ParsesTo(f3, v, r, 1)
  BY <1>1, <1>3, <1>4, <1>5, ParsesNext
<1>7. ParseNext(<<e>>, 2) = x1
  BY <1>2, <1>6 DEF ParsesTo, e, x1
<1>8. ParseNext(x1, 32) = x2
  BY <1>2, <1>6 DEF ParsesTo, r1, x1, x2
<1>9. ParseNext(x2, 1) = x3
  BY <1>2, <1>6 DEF ParsesTo, r2, x2, x3
<1>10. ParseNext(x3, 1) = all
  BY <1>2, <1>6 DEF ParsesTo, r3, x3
<1>11. Parse(e, <<2, 32, 1, 1>>) = all
  BY <1>7, <1>8, <1>9, <1>10, ParseIs
<1> QED
  BY <1>11 DEF e, r1, r2, r3, all

\* A fragment of makeFragments_, and what it is on the wire.
Piece(l, i, c, p) ==
  [length |-> l, id |-> Filled(32), index |-> i, count |-> c, payload |-> p,
   padding |-> Filled(FillSize(l))]

LEMMA PieceIs ==
  ASSUME NEW l, NEW i, NEW c, NEW p
  PROVE  /\ Piece(l, i, c, p).length = l /\ Piece(l, i, c, p).id = Filled(32)
         /\ Piece(l, i, c, p).index = i /\ Piece(l, i, c, p).count = c
         /\ Piece(l, i, c, p).payload = p /\ Piece(l, i, c, p).padding = Filled(FillSize(l))
  BY DEF Piece

LEMMA FillIsPositive ==
  ASSUME NEW l \in Nat
  PROVE  FillSize(l) \in 1..16 /\ PacketSize(l) = l + 52 + FillSize(l)
<1>1. (l + HEADER_SIZE + IV_SIZE) % CHUNK_SIZE \in 0..15
  BY DEF HEADER_SIZE, IV_SIZE, CHUNK_SIZE
<1>2. FillSize(l) \in 1..16
  BY <1>1 DEF FillSize, CHUNK_SIZE
<1> QED
  BY <1>2 DEF PacketSize, HEADER_SIZE, IV_SIZE

IsFragment(l, i, c, p, e) ==
  /\ e \in Buffers /\ Len(e) + 16 = PacketSize(l)
  /\ DecodeFragment(e) = <<Piece(l, i, c, p)>>

Fields(l, i, c, p) ==
  l \in Shorts16 /\ i \in Octets /\ c \in Octets /\ p \in Buffers /\ Len(p) = l

LEMMA FragmentDecodes ==
  ASSUME NEW l, NEW i, NEW c, NEW p, Fields(l, i, c, p)
  PROVE  IsFragment(l, i, c, p, EncodeFragment(Piece(l, i, c, p)))
<1> DEFINE s == EncodeShort(l)
           t == Filled(32)
           u == <<i>>
           v == <<c>>
           f == Filled(FillSize(l))
           r == p \o f
           w4 == v \o r
           w3 == u \o w4
           w2 == t \o w3
           e == s \o w2
<1>1. l \in Nat /\ l \in Shorts16 /\ i \in Octets /\ c \in Octets /\ p \in Buffers /\ Len(p) = l
  BY DEF Fields, Shorts16
<1>2. s \in Buffers /\ Len(s) = 2 /\ DecodeShort(s) = l
  BY <1>1, ShortIs
<1>3. t \in Buffers /\ Len(t) = 32
  BY FilledIs
<1>4. u \in Buffers /\ Len(u) = 1 /\ u[1] = i /\ v \in Buffers /\ Len(v) = 1 /\ v[1] = c
  BY <1>1 DEF Buffers
<1>5. f \in Buffers /\ Len(f) = FillSize(l) /\ FillSize(l) \in 1..16 /\ PacketSize(l) = l + 52 + FillSize(l)
  <2>1. FillSize(l) \in 1..16 /\ PacketSize(l) = l + 52 + FillSize(l)
    BY <1>1, FillIsPositive
  <2> DEFINE n == FillSize(l)
  <2>2. n \in Nat
    BY <2>1
  <2> HIDE DEF n
  <2>3. Filled(n) \in Buffers /\ Len(Filled(n)) = n
    BY <2>2, FilledIs
  <2> QED
    BY <2>1, <2>3 DEF n
<1>6. Truncated(i) = i /\ Truncated(c) = c
  BY <1>1 DEF Octets, Truncated
<1>7. EncodeFragment(Piece(l, i, c, p)) = Concat(<<s, t, u, v, p, f>>)
  <2> HIDE DEF s, t, f
  <2> QED
    BY <1>6, PieceIs DEF EncodeFragment, s, t, f
<1> HIDE DEF s, t, u, v, f
<1>8. JoinsSix(s, t, u, v, p, f)
  BY <1>1, <1>2, <1>3, <1>4, <1>5, SixJoined
<1>9. r \in Buffers /\ Len(r) = l + FillSize(l)
  <2>1. r \in Buffers /\ Len(r) = Len(p) + Len(f)
    BY <1>1, <1>5, Both, Zenon
  <2> QED
    BY <1>1, <1>5, <2>1
<1>10. Split(r, l) = <<p, f>>
  BY <1>1, <1>5, SplitAt
<1>11. ((((s \o t) \o u) \o v) \o p) \o f = e
  <2>1. v \o r = (v \o p) \o f /\ v \o p \in Buffers
    BY <1>1, <1>4, <1>5, Thrice, Both
  <2>2. u \o ((v \o p) \o f) = (u \o (v \o p)) \o f /\ u \o (v \o p) = (u \o v) \o p
        /\ u \o (v \o p) \in Buffers /\ u \o v \in Buffers
    <3> DEFINE q == v \o p
    <3>1. q \in Buffers
      BY <2>1
    <3> HIDE DEF q
    <3>2. u \o (q \o f) = (u \o q) \o f
      BY <1>4, <1>5, <3>1, Thrice
    <3>4. u \o q \in Buffers
      BY <1>4, <3>1, Both, Zenon
    <3>3. u \o (v \o p) = (u \o v) \o p /\ u \o v \in Buffers
      BY <1>1, <1>4, Thrice, Both
    <3> QED
      BY <3>2, <3>3, <3>4 DEF q
  <2> DEFINE q3 == (u \o v) \o p
  <2>3. w3 = q3 \o f /\ q3 \in Buffers
    BY <2>1, <2>2
  <2>4. t \o q3 = ((t \o u) \o v) \o p /\ t \o q3 \in Buffers /\ t \o u \in Buffers
        /\ (t \o u) \o v \in Buffers
    <3>1. t \o q3 = (t \o (u \o v)) \o p
      BY <1>1, <1>3, <2>2, Thrice
    <3>2. t \o (u \o v) = (t \o u) \o v /\ t \o u \in Buffers
      BY <1>3, <1>4, Thrice, Both
    <3>3. (t \o u) \o v \in Buffers
      BY <1>4, <3>2, Both
    <3> QED
      BY <1>3, <2>3, <3>1, <3>2, <3>3, Both
  <2> DEFINE q2 == ((t \o u) \o v) \o p
  <2>5. w2 = q2 \o f /\ q2 \in Buffers
    <3> HIDE DEF q3
    <3>1. t \o (q3 \o f) = (t \o q3) \o f
      BY <1>3, <1>5, <2>3, Thrice
    <3> QED
      BY <2>3, <2>4, <3>1
  <2>6. s \o q2 = (((s \o t) \o u) \o v) \o p
    <3>1. s \o q2 = (s \o ((t \o u) \o v)) \o p
      BY <1>1, <1>2, <2>4, Thrice
    <3>2. s \o ((t \o u) \o v) = (s \o (t \o u)) \o v
      BY <1>2, <1>4, <2>4, Thrice
    <3>3. s \o (t \o u) = (s \o t) \o u
      BY <1>2, <1>3, <1>4, Thrice
    <3> QED
      BY <3>1, <3>2, <3>3
  <2>7. s \o (q2 \o f) = (s \o q2) \o f
    <3> HIDE DEF q2
    <3> QED
      BY <1>2, <1>5, <2>5, Thrice
  <2> HIDE DEF q2, q3, w3
  <2> QED
    BY <2>5, <2>6, <2>7
<1>12. EncodeFragment(Piece(l, i, c, p)) = e
  BY <1>7, <1>8, <1>11 DEF JoinsSix
<1> HIDE DEF r
<1>13. w4 \in Buffers /\ Len(w4) = 1 + Len(r)
  <2>1. w4 \in Buffers /\ Len(w4) = Len(v) + Len(r)
    BY <1>4, <1>9, Both, Zenon
  <2> QED
    BY <1>4, <1>9, <2>1
<1> HIDE DEF w4
<1>14. w3 \in Buffers /\ Len(w3) = 1 + Len(w4)
  <2>1. w3 \in Buffers /\ Len(w3) = Len(u) + Len(w4)
    BY <1>4, <1>13, Both, Zenon
  <2> QED
    BY <1>4, <1>13, <2>1
<1> HIDE DEF w3
<1>15. w2 \in Buffers /\ Len(w2) = 32 + Len(w3)
  <2>1. w2 \in Buffers /\ Len(w2) = Len(t) + Len(w3)
    BY <1>3, <1>14, Both, Zenon
  <2> QED
    BY <1>3, <1>14, <2>1
<1> HIDE DEF w2
<1>16. e \in Buffers /\ Len(e) = 2 + Len(w2)
  <2>1. e \in Buffers /\ Len(e) = Len(s) + Len(w2)
    BY <1>2, <1>15, Both, Zenon
  <2> QED
    BY <1>2, <1>15, <2>1
<1>17. Len(e) + 16 = PacketSize(l)
  <2> HIDE DEF e
  <2> DEFINE fill == FillSize(l)
  <2>1. fill \in 1..16 /\ PacketSize(l) = l + 52 + fill /\ Len(r) = l + fill
    BY <1>5, <1>9
  <2> HIDE DEF fill
  <2> QED
    BY <1>1, <1>13, <1>14, <1>15, <1>16, <2>1
<1>18. Parse(e, <<2, 32, 1, 1>>) = <<s, t, u, v, r>>
  BY <1>2, <1>3, <1>4, <1>9, ParsesFour DEF w2, w3, w4
<1> HIDE DEF e
<1>19. DecodeFragment(e) = <<Piece(l, i, c, p)>>
  <2> DEFINE parts == Parse(e, <<2, 32, 1, 1>>)
             cut == IF Len(r) > l THEN Split(r, l) ELSE <<r, <<>>>>
  <2>1. parts # <<>> /\ parts[1] = s /\ parts[2] = t /\ parts[3] = u /\ parts[4] = v /\ parts[5] = r
    BY <1>18
  <2>2. Len(r) > l /\ ~(Len(r) <= l)
    BY <1>1, <1>5, <1>9
  <2>3. cut[1] = p /\ cut[2] = f
    BY <1>10, <2>2
  <2> HIDE DEF parts, cut
  <2>4. DecodeFragment(e) =
          IF parts = <<>> \/ (Len(r) <= l /\ Len(e) # l) THEN <<>>
          ELSE <<[length |-> l, id |-> t, index |-> u[1], count |-> v[1],
                  payload |-> cut[1], padding |-> cut[2]]>>
    BY <1>2, <2>1 DEF DecodeFragment, parts, cut
  <2>5. DecodeFragment(e) = <<[length |-> l, id |-> t, index |-> i, count |-> c,
                               payload |-> p, padding |-> f]>>
    BY <1>4, <2>1, <2>2, <2>3, <2>4
  <2> QED
    BY <2>5 DEF Piece, t, f
<1> QED
  BY <1>12, <1>16, <1>17, <1>19 DEF IsFragment

-----------------------------------------------------------------------------
(* The lengths of the fragments *)

\* The body of makeFragments_, where f has the results for shorter packets.
Longest(l) == maxLength - (HEADER_SIZE + IV_SIZE + FillSize(l))
Cut(f, l) == IF PacketSize(l) <= maxLength THEN <<l>>
             ELSE f[Longest(l)] \o f[l - Longest(l)]

\* It is called again for shorter packets only, and comes to an end.
LEMMA CutsShorter ==
  ASSUME NEW l \in Nat, ~(PacketSize(l) <= maxLength)
  PROVE  Longest(l) \in 1..(l - 1) /\ l - Longest(l) \in 1..(l - 1)
<1>1. maxLength \in Nat /\ maxLength > 68
  BY CodecsAssumption DEF HEADER_SIZE, IV_SIZE, CHUNK_SIZE
<1>2. Longest(l) = maxLength - (52 + FillSize(l))
  BY DEF Longest, HEADER_SIZE, IV_SIZE
<1> QED
  BY <1>1, <1>2, FillIsPositive

LEMMA CutsExist ==
  ASSUME NEW limit \in Nat
  PROVE  \E f : f = [l \in 0..limit |-> Cut(f, l)]
<1> DEFINE Has(m) == \E f : f = [l \in 0..m |-> Cut(f, l)]
           bad == {m \in 0..limit : ~Has(m)}
<1>1. Has(0)
  <2>1. PICK f : f = [l \in 0..0 |-> <<l>>]
    OBVIOUS
  <2>2. PacketSize(0) <= maxLength
    BY CutsShorter
  <2>3. \A l \in 0..0 : f[l] = Cut(f, l)
    BY <2>1, <2>2 DEF Cut
  <2> QED
    BY <2>1, <2>3
<1>2. ASSUME NEW m \in 1..limit, Has(m - 1) PROVE Has(m)
  <2>1. PICK f : f = [l \in 0..(m - 1) |-> Cut(f, l)]
    BY <1>2
  <2>2. PICK g : g = [l \in 0..m |-> IF l = m THEN Cut(f, m) ELSE f[l]]
    OBVIOUS
  <2>3. ASSUME NEW l \in 0..m PROVE g[l] = Cut(g, l)
    <3>1. Cut(g, l) = Cut(f, l)
      <4>1. CASE PacketSize(l) <= maxLength
        BY <4>1 DEF Cut
      <4>2. CASE ~(PacketSize(l) <= maxLength)
        <5>1. Longest(l) \in 1..(l - 1) /\ l - Longest(l) \in 1..(l - 1)
          BY <4>2, CutsShorter
        <5>2. \A k \in 1..(l - 1) : k \in 0..m /\ k # m
          OBVIOUS
        <5>3. g[Longest(l)] = f[Longest(l)] /\ g[l - Longest(l)] = f[l - Longest(l)]
          BY <2>2, <5>1, <5>2
        <5> QED
          BY <5>3 DEF Cut
      <4> QED
        BY <4>1, <4>2
    <3>2. CASE l = m
      BY <2>2, <3>1, <3>2
    <3>3. CASE l \in 0..(m - 1)
      <4>1. l # m
        BY <3>3
      <4>2. g[l] = f[l]
        BY <2>2, <4>1
      <4>3. f[l] = Cut(f, l)
        BY <2>1, <3>3
      <4> QED
        BY <3>1, <4>2, <4>3
    <3> QED
      BY <3>2, <3>3
  <2>4. g = [l \in 0..m |-> Cut(g, l)]
    BY <2>2, <2>3
  <2> QED
    BY <2>4
<1> HIDE DEF Has
<1>3. bad = {}
  <2>1. SUFFICES ASSUME bad # {} PROVE FALSE
    OBVIOUS
  <2>2. bad \in SUBSET Nat
    OBVIOUS
  <2>3. PICK m \in bad : \A k \in bad : m <= k
    <3> HIDE DEF bad
    <3> QED
      BY <2>1, <2>2, Least
  <2>4. m \in 1..limit /\ m - 1 \in 0..limit /\ ~(m <= m - 1)
    BY <1>1, <2>3
  <2> QED
    BY <1>2, <2>3, <2>4
<1> QED
  BY <1>3 DEF Has

\* The lengths parts fill a packet of the length l, without gap: at has where each begins.
Fill(parts, l) ==
  \E at \in [0..Len(parts) -> Nat] :
    /\ at[0] = 0 /\ at[Len(parts)] = l
    /\ \A n \in 1..Len(parts) : at[n] = at[n - 1] + parts[n]

\* What makeFragments_ does to a packet.
Fit(parts, l) ==
  /\ parts \in Seq(Nat) /\ parts # <<>>
  /\ \A n \in 1..Len(parts) : PacketSize(parts[n]) <= maxLength
  /\ Fill(parts, l)

LEMMA FitConcat ==
  ASSUME NEW a \in Nat, NEW b \in Nat, NEW s, NEW t, Fit(s, a), Fit(t, b)
  PROVE  Fit(s \o t, a + b)
<1> DEFINE w == s \o t
           m == Len(s)
           k == Len(t)
<1>1. /\ s \in Seq(Nat) /\ t \in Seq(Nat) /\ s # <<>> /\ m \in Nat /\ k \in Nat /\ m > 0
  BY DEF Fit
<1>2. /\ w \in Seq(Nat) /\ Len(w) = m + k
      /\ \A n \in 1..(m + k) : w[n] = IF n <= m THEN s[n] ELSE t[n - m]
  BY <1>1, ConcatProperties
<1>3. PICK f \in [0..m -> Nat] : /\ f[0] = 0 /\ f[m] = a
                                 /\ \A n \in 1..m : f[n] = f[n - 1] + s[n]
  BY DEF Fit, Fill
<1>4. PICK g \in [0..k -> Nat] : /\ g[0] = 0 /\ g[k] = b
                                 /\ \A n \in 1..k : g[n] = g[n - 1] + t[n]
  BY DEF Fit, Fill
<1> DEFINE h == [n \in 0..(m + k) |-> IF n <= m THEN f[n] ELSE a + g[n - m]]
<1> HIDE DEF w, m, k
<1>5. h \in [0..(m + k) -> Nat] /\ h[0] = 0 /\ h[m + k] = a + b
  <2>1. ASSUME NEW n \in 0..(m + k) PROVE h[n] \in Nat
    <3>1. CASE n <= m
      BY <1>1, <1>3, <3>1
    <3>2. CASE ~(n <= m)
      <4>1. n - m \in 0..k
        BY <1>1, <3>2
      <4>2. g[n - m] \in Nat
        BY <4>1
      <4> QED
        BY <3>2, <4>2
    <3> QED
      BY <3>1, <3>2
  <2>2. h[m + k] = a + b
    <3>1. CASE k = 0
      BY <1>1, <1>3, <1>4, <3>1
    <3>2. CASE k # 0
      <4>1. ~(m + k <= m) /\ (m + k) - m = k /\ m + k \in 0..(m + k)
        BY <1>1, <3>2
      <4> QED
        BY <1>4, <4>1
    <3> QED
      BY <3>1, <3>2
  <2> QED
    BY <1>1, <1>3, <2>1, <2>2
<1>6. ASSUME NEW n \in 1..(m + k) PROVE h[n] = h[n - 1] + w[n]
  <2>1. CASE n <= m
    <3>1. n \in 1..m /\ n - 1 \in 0..m /\ n \in 0..(m + k) /\ n - 1 \in 0..(m + k) /\ n - 1 <= m
      BY <1>1, <2>1
    <3>2. h[n] = f[n] /\ h[n - 1] = f[n - 1] /\ w[n] = s[n]
      BY <1>2, <2>1, <3>1
    <3> QED
      BY <1>3, <3>1, <3>2
  <2>2. CASE n = m + 1
    <3>1. n \in 0..(m + k) /\ ~(n <= m) /\ n - 1 = m /\ n - m = 1 /\ 1 \in 1..k /\ m \in 0..(m + k)
      BY <1>1, <2>2
    <3>2. h[n] = a + g[1] /\ h[n - 1] = f[m] /\ w[n] = t[1]
      <4>1. w[n] = t[1]
        BY <1>2, <3>1
      <4>2. h[n] = a + g[n - m] /\ h[m] = f[m]
        BY <1>1, <3>1
      <4> QED
        BY <3>1, <4>1, <4>2
    <3>3. g[1] = g[0] + t[1] /\ t[1] \in Nat
      <4>1. g[1] = g[1 - 1] + t[1]
        BY <1>4, <3>1
      <4>2. t[1] \in Nat
        BY <1>1, <3>1 DEF k
      <4> QED
        BY <4>1, <4>2
    <3> QED
      BY <1>3, <1>4, <3>2, <3>3
  <2>3. CASE n > m + 1
    <3>1. /\ n \in 0..(m + k) /\ n - 1 \in 0..(m + k) /\ ~(n <= m) /\ ~(n - 1 <= m)
          /\ n - m \in 1..k /\ (n - 1) - m = (n - m) - 1 /\ n - m \in 0..k
          /\ (n - m) - 1 \in 0..k
      BY <1>1, <2>3
    <3>2. h[n] = a + g[n - m] /\ h[n - 1] = a + g[(n - m) - 1] /\ w[n] = t[n - m]
      BY <1>2, <3>1
    <3>3. g[n - m] = g[(n - m) - 1] + t[n - m] /\ t[n - m] \in Nat /\ g[(n - m) - 1] \in Nat
      <4>1. \A i \in 1..k : g[i] = g[i - 1] + t[i] /\ t[i] \in Nat
        BY <1>1, <1>4 DEF k
      <4>2. \A i \in 0..k : g[i] \in Nat
        BY <1>4
      <4> QED
        BY <3>1, <4>1, <4>2
    <3> QED
      BY <3>2, <3>3
  <2> QED
    BY <1>1, <2>1, <2>2, <2>3
<1>7. Fill(w, a + b)
  <2> HIDE DEF h
  <2> QED
    BY <1>1, <1>2, <1>5, <1>6 DEF Fill
<1>8. ASSUME NEW n \in 1..(m + k) PROVE PacketSize(w[n]) <= maxLength
  <2>1. \A i \in 1..m : PacketSize(s[i]) <= maxLength
    BY DEF Fit, m
  <2>2. \A i \in 1..k : PacketSize(t[i]) <= maxLength
    BY DEF Fit, k
  <2>3. CASE n <= m
    <3>1. n \in 1..m /\ w[n] = s[n]
      BY <1>1, <1>2, <2>3
    <3> QED
      BY <2>1, <3>1
  <2>4. CASE ~(n <= m)
    <3>1. n \in Nat /\ n > m /\ n <= m + k
      BY <1>1, <2>4
    <3>2. n - m \in 1..k
      BY <1>1, <3>1
    <3>3. w[n] = t[n - m]
      BY <1>2, <2>4
    <3> QED
      BY <2>2, <3>2, <3>3
  <2> QED
    BY <2>3, <2>4
<1>9. w # <<>>
  BY <1>1, <1>2
<1> QED
  BY <1>2, <1>7, <1>8, <1>9 DEF Fit, w

LEMMA FitOne ==
  ASSUME NEW l \in Nat, PacketSize(l) <= maxLength
  PROVE  Fit(<<l>>, l)
<1> DEFINE at == [n \in 0..1 |-> IF n = 0 THEN 0 ELSE l]
<1>1. at \in [0..1 -> Nat] /\ at[0] = 0 /\ at[1] = l
  OBVIOUS
<1>2. \A n \in 1..1 : n = 1
  OBVIOUS
<1>3. <<l>> \in Seq(Nat) /\ Len(<<l>>) = 1 /\ <<l>>[1] = l /\ <<l>> # <<>>
  OBVIOUS
<1> HIDE DEF at
<1>4. \A n \in 1..1 : at[n] = at[n - 1] + <<l>>[n]
  BY <1>1, <1>2, <1>3
<1>5. Fill(<<l>>, l)
  BY <1>1, <1>3, <1>4 DEF Fill
<1> QED
  BY <1>2, <1>3, <1>5 DEF Fit

LEMMA MakeFragmentsFit ==
  ASSUME NEW limit \in Nat, NEW l \in 0..limit
  PROVE  Fit(MakeFragments(maxLength, limit)[l], l)
<1> DEFINE f == CHOOSE g : g = [n \in 0..limit |-> Cut(g, n)]
           bad == {n \in 0..limit : ~Fit(f[n], n)}
<1>1. f = [n \in 0..limit |-> Cut(f, n)]
  BY CutsExist
<1>2. MakeFragments(maxLength, limit) = f
  BY DEF MakeFragments, Cut, Longest
<1> HIDE DEF f
<1>3. bad = {}
  <2>1. SUFFICES ASSUME bad # {} PROVE FALSE
    OBVIOUS
  <2>2. bad \in SUBSET Nat
    OBVIOUS
  <2>3. PICK n \in bad : \A k \in bad : n <= k
    <3> HIDE DEF bad
    <3> QED
      BY <2>1, <2>2, Least
  <2>4. f[n] = Cut(f, n) /\ n \in Nat
    BY <1>1, <2>3
  <2>5. ~(PacketSize(n) <= maxLength)
    BY <2>3, <2>4, FitOne DEF Cut
  <2> DEFINE a == Longest(n)
             b == n - Longest(n)
  <2>6. a \in 1..(n - 1) /\ b \in 1..(n - 1) /\ a + b = n
    BY <2>4, <2>5, CutsShorter
  <2>7. f[n] = f[a] \o f[b]
    BY <2>4, <2>5 DEF Cut
  <2> HIDE DEF a, b
  <2>8. a \in 0..limit /\ b \in 0..limit /\ ~(n <= a) /\ ~(n <= b) /\ a \in Nat /\ b \in Nat
    BY <2>3, <2>6
  <2>9. Fit(f[a], a) /\ Fit(f[b], b)
    BY <2>3, <2>8
  <2>10. Fit(f[n], n)
    BY <2>6, <2>7, <2>8, <2>9, FitConcat
  <2> QED
    BY <2>3, <2>10
<1> QED
  BY <1>2, <1>3

-----------------------------------------------------------------------------
(* A packet in fragments *)

Lengths(b) == MakeFragments(maxLength, Len(b))[Len(b)]

\* The payloads of the fragments of a packet, in their order.
IsFragmented(b, N, payloads) ==
  /\ N \in Nat /\ N > 0 /\ N = Len(Lengths(b)) /\ payloads \in Lists /\ Len(payloads) = N
  /\ Concat(payloads) = b
  /\ \A i \in 1..N : Len(payloads[i]) \in Nat /\ PacketSize(Len(payloads[i])) <= maxLength

Pieces(N, payloads) == [i \in 1..N |-> Piece(Len(payloads[i]), i - 1, N, payloads[i])]

LEMMA FragmentsAre ==
  ASSUME NEW b \in Buffers
  PROVE  \E N, payloads : IsFragmented(b, N, payloads)
                          /\ Fragments(maxLength, b) = Pieces(N, payloads)
<1> DEFINE lengths == Lengths(b)
           N == Len(lengths)
           Place(f, i) == IF i = 0 THEN 0 ELSE f[i - 1] + lengths[i]
           cut == CHOOSE f : f = [i \in 0..N |-> Place(f, i)]
           payload(i) == Take(Drop(b, cut[i - 1]), lengths[i])
           payloads == [i \in 1..N |-> payload(i)]
<1>1. b \in Seq(Octets) /\ Len(b) \in Nat
  BY BufferIs DEF Buffers
<1>2. Fit(lengths, Len(b))
  <2>1. Len(b) \in 0..Len(b)
    BY <1>1
  <2> QED
    BY <1>1, <2>1, MakeFragmentsFit DEF Lengths
<1>3. Fragments(maxLength, b) =
        [i \in DOMAIN lengths |->
          [length |-> lengths[i], id |-> Filled(32), index |-> i - 1, count |-> N,
           payload |-> payload(i), padding |-> Filled(FillSize(lengths[i]))]]
  BY DEF Fragments, Lengths
<1> HIDE DEF lengths, cut
<1>4. /\ lengths \in Seq(Nat) /\ N \in Nat /\ N > 0 /\ DOMAIN lengths = 1..N
      /\ \A i \in 1..N : lengths[i] \in Nat /\ PacketSize(lengths[i]) <= maxLength
  BY <1>2 DEF Fit
<1>5. PICK at \in [0..N -> Nat] : /\ at[0] = 0 /\ at[N] = Len(b)
                                  /\ \A i \in 1..N : at[i] = at[i - 1] + lengths[i]
  BY <1>2 DEF Fit, Fill
<1> HIDE DEF N
<1>6. cut = at
  <2>1. at = [i \in 0..N |-> at[i]]
    OBVIOUS
  <2>2. ASSUME NEW i \in 0..N PROVE at[i] = Place(at, i)
    <3>1. i = 0 \/ i \in 1..N
      BY <1>4
    <3> QED
      BY <1>5, <3>1
  <2>3. at = [i \in 0..N |-> Place(at, i)]
    <3> HIDE DEF Place
    <3> QED
      BY <2>1, <2>2, Zenon
  <2>4. cut = [i \in 0..N |-> Place(cut, i)]
    <3> HIDE DEF Place
    <3> QED
      BY <2>3, Zenon DEF cut
  <2> DEFINE T == {i \in 0..N : cut[i] = at[i]}
  <2>5. 0 \in T
    <3>1. 0 \in 0..N
      BY <1>4
    <3> QED
      BY <1>5, <2>4, <3>1
  <2>6. ASSUME NEW i \in 1..N, i - 1 \in T PROVE i \in T
    <3>1. i \in 0..N /\ i # 0
      BY <1>4
    <3>2. cut[i] = cut[i - 1] + lengths[i]
      BY <2>4, <3>1
    <3> QED
      BY <1>5, <2>6, <3>1, <3>2
  <2>7. \A i \in 0..N : i \in T
    <3> HIDE DEF T
    <3> QED
      BY <1>4, <2>5, <2>6, Upwards
  <2> QED
    BY <2>1, <2>4, <2>7
<1>7. ASSUME NEW i \in 1..N
      PROVE  /\ payload(i) = SubSeq(b, at[i - 1] + 1, at[i])
             /\ payload(i) \in Buffers /\ Len(payload(i)) = lengths[i]
             /\ at[i - 1] <= at[i]
  <2> DEFINE m == at[i - 1]
             n == lengths[i]
             M == Len(b)
  <2>1. m \in Nat /\ n \in Nat /\ at[i] = m + n /\ m + n <= M
    <3>1. i - 1 \in 0..N /\ i \in 0..N
      BY <1>4
    <3>2. \A j \in 1..N : at[j - 1] <= at[j]
      <4>1. ASSUME NEW j \in 1..N PROVE at[j - 1] <= at[j]
        <5>1. j - 1 \in 0..N /\ lengths[j] \in Nat /\ at[j] = at[j - 1] + lengths[j]
          BY <1>4, <1>5
        <5>2. at[j - 1] \in Nat
          BY <5>1
        <5> QED
          BY <5>1, <5>2
      <4> QED
        BY <4>1
    <3>3. at[i] <= at[N]
      BY <1>4, <3>1, <3>2, PlacesWithin
    <3> QED
      BY <1>4, <1>5, <3>1, <3>3
  <2>2. payload(i) = Take(Drop(b, m), n)
    BY <1>6
  <2> HIDE DEF m, n, payload
  <2>3. Take(Drop(b, m), n) = SubSeq(b, m + 1, m + n)
    BY <1>1, <2>1, PieceOf DEF M
  <2>4. SubSeq(b, m + 1, m + n) \in Seq(Octets) /\ Len(SubSeq(b, m + 1, m + n)) = (m + n) - m
    <3> DEFINE k == m + n
    <3>1. k \in Nat /\ m <= k /\ k <= Len(b)
      BY <2>1 DEF M
    <3> HIDE DEF k
    <3>2. SubSeq(b, m + 1, k) \in Seq(Octets) /\ Len(SubSeq(b, m + 1, k)) = k - m
      BY <1>1, <2>1, <3>1, PartOf
    <3> QED
      BY <3>2 DEF k
  <2>5. (m + n) - m = n /\ m <= m + n
    BY <2>1
  <2> QED
    BY <2>1, <2>2, <2>3, <2>4, <2>5 DEF m, n, Buffers
<1> HIDE DEF payload
<1>8. payloads \in Lists /\ Len(payloads) = N
  <2>1. payloads \in [1..N -> Buffers]
    BY <1>7
  <2> QED
    BY <1>4, <2>1 DEF Lists
<1>9. \A i \in 1..N : payloads[i] = payload(i)
  OBVIOUS
<1> HIDE DEF payloads
<1>10. Concat(payloads) = b
  <2>1. payloads \in Seq(Seq(Octets))
    BY <1>8 DEF Lists, Buffers
  <2>2. IsCut(Octets, b, N, at, payloads)
    BY <1>1, <1>4, <1>5, <1>7, <1>8, <1>9, <2>1 DEF IsCut
  <2> QED
    BY <2>2, PiecesJoined
<1>11. IsFragmented(b, N, payloads)
  BY <1>4, <1>7, <1>8, <1>9, <1>10 DEF IsFragmented, N, lengths
<1>12. Fragments(maxLength, b) = Pieces(N, payloads)
  <2>1. ASSUME NEW i \in 1..N
        PROVE  [length |-> lengths[i], id |-> Filled(32), index |-> i - 1, count |-> N,
                payload |-> payload(i), padding |-> Filled(FillSize(lengths[i]))]
                 = Piece(Len(payloads[i]), i - 1, N, payloads[i])
    <3>1. Len(payloads[i]) = lengths[i] /\ payloads[i] = payload(i)
      BY <1>7, <1>9
    <3> QED
      BY <3>1 DEF Piece
  <2> QED
    BY <1>3, <1>4, <2>1 DEF Pieces
<1> QED
  BY <1>11, <1>12

\* What is sent of a packet.
IsWire(b, N, payloads, w) ==
  /\ IsFragmented(b, N, payloads) /\ N < 256 /\ w \in Lists /\ Len(w) = N
  /\ \A i \in 1..N : IsFragment(Len(payloads[i]), i - 1, N, payloads[i], w[i])

LEMMA ShortEnough ==
  ASSUME NEW l \in Nat, PacketSize(l) <= maxLength
  PROVE  l \in Shorts16
<1>1. maxLength \in Nat /\ maxLength < 65536
  BY CodecsAssumption, SMT
<1> DEFINE fill == FillSize(l)
<1>2. fill \in 1..16 /\ PacketSize(l) = l + 52 + fill
  BY FillIsPositive
<1> HIDE DEF fill
<1>3. l < maxLength
  BY <1>1, <1>2, SMT
<1> QED
  BY <1>1, <1>3, SMT DEF Shorts16

LEMMA WireIs ==
  ASSUME NEW b \in Buffers, Len(Lengths(b)) < 256
  PROVE  \E N, payloads : IsWire(b, N, payloads, FragmentationTransform(maxLength, b))
<1> DEFINE fs == Fragments(maxLength, b)
           w == FragmentationTransform(maxLength, b)
<1>1. PICK N, payloads : IsFragmented(b, N, payloads) /\ fs = Pieces(N, payloads)
  BY FragmentsAre
<1>2. /\ N \in Nat /\ N > 0 /\ N < 256 /\ payloads \in Lists /\ Len(payloads) = N
      /\ \A i \in 1..N : Len(payloads[i]) \in Nat /\ PacketSize(Len(payloads[i])) <= maxLength
  BY <1>1 DEF IsFragmented
<1>3. w = [i \in 1..N |-> EncodeFragment(fs[i])]
  <2>1. DOMAIN fs = 1..N
    BY <1>1 DEF Pieces
  <2> HIDE DEF fs
  <2> QED
    BY <2>1 DEF FragmentationTransform, fs
<1> HIDE DEF fs, w
<1>4. ASSUME NEW i \in 1..N
      PROVE  IsFragment(Len(payloads[i]), i - 1, N, payloads[i], w[i])
  <2> DEFINE l == Len(payloads[i])
             p == payloads[i]
             k == i - 1
  <2>1. fs[i] = Piece(l, k, N, p)
    BY <1>1 DEF Pieces
  <2>2. p \in Buffers
    BY <1>2 DEF Lists
  <2>3. l \in Nat /\ PacketSize(l) <= maxLength
    BY <1>2
  <2> HIDE DEF l, p
  <2>4. k \in Octets /\ N \in Octets
    BY <1>2 DEF Octets
  <2>5. l \in Shorts16
    BY <2>3, ShortEnough
  <2> HIDE DEF k
  <2>6. Fields(l, k, N, p)
    BY <2>2, <2>4, <2>5 DEF Fields, l, p
  <2>7. IsFragment(l, k, N, p, EncodeFragment(Piece(l, k, N, p)))
    BY <2>6, FragmentDecodes
  <2>8. w[i] = EncodeFragment(Piece(l, k, N, p))
    BY <1>3, <2>1
  <2> QED
    BY <2>7, <2>8, Zenon DEF l, k, p
<1>5. w \in Lists /\ Len(w) = N
  <2>1. \A i \in 1..N : w[i] \in Buffers
    BY <1>4 DEF IsFragment
  <2>2. w \in [1..N -> Buffers]
    BY <1>3, <2>1
  <2> QED
    BY <1>2, <2>2 DEF Lists
<1> QED
  BY <1>1, <1>2, <1>4, <1>5 DEF IsWire, w

\* The orders in which N buffers may arrive.
Orders(N) ==
  {o \in [1..N -> 1..N] : /\ \A k \in 1..N : \E i \in 1..N : o[i] = k
                          /\ \A i, j \in 1..N : o[i] = o[j] => i = j}

Arrived(w, o) == [i \in 1..Len(w) |-> w[o[i]]]

LEMMA WireRestored ==
  ASSUME NEW b, NEW N, NEW payloads, NEW w, IsWire(b, N, payloads, w), NEW o \in Orders(N)
  PROVE  FragmentationRestore(Arrived(w, o)) = <<b>>
<1>1. /\ N \in Nat /\ N > 0 /\ payloads \in Lists /\ Len(payloads) = N /\ Concat(payloads) = b
      /\ Len(w) = N /\ \A i \in 1..N : IsFragment(Len(payloads[i]), i - 1, N, payloads[i], w[i])
  BY DEF IsWire, IsFragmented
<1> DEFINE piece(i) == Piece(Len(payloads[i]), i - 1, N, payloads[i])
           bs == Arrived(w, o)
           fs == [i \in DOMAIN bs |-> DecodeFragment(bs[i])]
           pieces == [i \in DOMAIN fs |-> fs[i][1]]
<1>2. \A i \in 1..N : o[i] \in 1..N
  BY DEF Orders
<1>3. DOMAIN bs = 1..N /\ \A i \in 1..N : bs[i] = w[o[i]]
  BY <1>1 DEF Arrived
<1>4. \A i \in 1..N : DecodeFragment(w[i]) = <<piece(i)>>
  BY <1>1 DEF IsFragment
<1>5. FragmentationRestore(bs) =
        (IF \E i \in DOMAIN fs : fs[i] = <<>> THEN <<>>
         ELSE IF Len(fs) # fs[1][1].count THEN <<>> ELSE <<Reassemble(pieces)>>)
  <2> HIDE DEF bs
  <2> QED
    BY DEF FragmentationRestore
<1> HIDE DEF piece, bs
<1>6. fs = [i \in 1..N |-> <<piece(o[i])>>]
  BY <1>2, <1>3, <1>4
<1> HIDE DEF fs
<1>7. DOMAIN fs = 1..N /\ Len(fs) = N /\ \A i \in 1..N : fs[i] = <<piece(o[i])>>
  BY <1>1, <1>6
<1>8. pieces = [i \in 1..N |-> piece(o[i])]
  BY <1>7
<1> HIDE DEF pieces
<1>9. ~\E i \in DOMAIN fs : fs[i] = <<>>
  <2>1. \A x : <<x>> # <<>>
    OBVIOUS
  <2> QED
    BY <1>7, <2>1, Zenon
<1>10. Len(fs) = fs[1][1].count
  <2>1. 1 \in 1..N
    BY <1>1
  <2>2. fs[1][1] = piece(o[1])
    BY <1>7, <2>1
  <2>3. piece(o[1]).count = N
    BY PieceIs DEF piece
  <2> QED
    BY <1>7, <2>2, <2>3
<1>11. Len(pieces) = N /\ Range(pieces) = {piece(i) : i \in 1..N}
  <2>1. Len(pieces) = N /\ DOMAIN pieces = 1..N /\ \A i \in 1..N : pieces[i] = piece(o[i])
    BY <1>1, <1>8
  <2>2. ASSUME NEW k \in 1..N PROVE \E i \in 1..N : pieces[i] = piece(k)
    <3>1. PICK i \in 1..N : o[i] = k
      BY DEF Orders
    <3> QED
      BY <2>1, <3>1
  <2>3. \A f \in Range(pieces) : f \in {piece(i) : i \in 1..N}
    BY <1>2, <2>1 DEF Range
  <2>4. \A k \in 1..N : piece(k) \in Range(pieces)
    BY <2>1, <2>2, Zenon DEF Range
  <2> QED
    BY <2>1, <2>3, <2>4
<1>12. \A i \in 1..N : piece(i).index = i - 1 /\ piece(i).payload = payloads[i]
  BY PieceIs DEF piece
<1>13. ASSUME NEW i \in 1..N
       PROVE  (CHOOSE f \in Range(pieces) : f.index = i - 1).payload = payloads[i]
  <2>1. \A f \in Range(pieces) : f.index = i - 1 <=> f = piece(i)
    <3>1. ASSUME NEW k \in 1..N, piece(k).index = i - 1 PROVE k = i
      BY <1>12, <3>1
    <3> QED
      BY <1>11, <1>12, <3>1
  <2>2. piece(i) \in Range(pieces)
    BY <1>11
  <2>3. (CHOOSE f \in Range(pieces) : f.index = i - 1) = piece(i)
    BY <2>1, <2>2
  <2> QED
    BY <1>12, <2>3
<1>14. [i \in 1..Len(pieces) |-> (CHOOSE f \in Range(pieces) : f.index = i - 1).payload] = payloads
  <2>1. payloads = [i \in 1..N |-> payloads[i]]
    BY <1>1 DEF Lists
  <2> QED
    BY <1>11, <1>13, <2>1
<1>15. Reassemble(pieces) = b
  BY <1>1, <1>14 DEF Reassemble
<1> QED
  BY <1>5, <1>9, <1>10, <1>15 DEF bs

\* Whatever the bytes of a packet, and in whatever order its fragments arrive: each of them, with
\* the vector of the cipher, is at most as long as the longest packet allowed, and put together
\* they are the packet.  The byte for the count must have room for it.
THEOREM FragmentationInverts ==
  \A b \in Seq(Octets) : Len(Lengths(b)) < 256 =>
    LET w == FragmentationTransform(maxLength, b)
    IN  /\ \A i \in DOMAIN w : w[i] \in Seq(Octets) /\ Len(w[i]) + IV_SIZE <= maxLength
        /\ \A o \in Orders(Len(w)) : FragmentationRestore(Arrived(w, o)) = <<b>>
<1> SUFFICES ASSUME NEW b \in Buffers, Len(Lengths(b)) < 256, NEW w, w = FragmentationTransform(maxLength, b)
             PROVE  /\ \A i \in DOMAIN w : w[i] \in Buffers /\ Len(w[i]) + IV_SIZE <= maxLength
                    /\ \A o \in Orders(Len(w)) : FragmentationRestore(Arrived(w, o)) = <<b>>
  BY Zenon DEF Buffers
<1>1. PICK N, payloads : IsWire(b, N, payloads, w)
  BY WireIs
<1>2. Len(w) = N /\ w \in Lists
  BY <1>1 DEF IsWire
<1>3. ASSUME NEW i \in DOMAIN w PROVE w[i] \in Buffers /\ Len(w[i]) + IV_SIZE <= maxLength
  <2>1. i \in 1..N
    BY <1>2 DEF Lists
  <2>2. w[i] \in Buffers /\ Len(w[i]) + 16 = PacketSize(Len(payloads[i]))
    BY <1>1, <2>1 DEF IsWire, IsFragment
  <2>3. PacketSize(Len(payloads[i])) <= maxLength
    BY <1>1, <2>1 DEF IsWire, IsFragmented
  <2> QED
    BY <2>2, <2>3, ChunkSize
<1>4. \A o \in Orders(Len(w)) : FragmentationRestore(Arrived(w, o)) = <<b>>
  BY <1>1, <1>2, WireRestored
<1> QED
  BY <1>3, <1>4

-----------------------------------------------------------------------------
(* Lists of buffers *)

LEMMA OnePiece ==
  ASSUME NEW S, NEW f \in Seq(S), NEW i \in 1..Len(f)
  PROVE  SubSeq(f, i, i) = <<f[i]>>
<1> DEFINE m == i - 1
           s == SubSeq(f, m + 1, i)
           t == <<f[i]>>
<1>1. m \in Nat /\ i \in Nat /\ m <= i /\ i <= Len(f) /\ m + 1 = i /\ i - m = 1
  OBVIOUS
<1>2. t \in Seq(S) /\ Len(t) = 1 /\ t[1] = f[i]
  OBVIOUS
<1> HIDE DEF m, t
<1>3. s \in Seq(S) /\ Len(s) = i - m /\ \A j \in 1..(i - m) : s[j] = f[m + j]
  BY <1>1, PartOf
<1> HIDE DEF s
<1>4. Len(s) = 1 /\ s[1] = f[i]
  <2>1. 1 \in 1..(i - m)
    BY <1>1
  <2> QED
    BY <1>1, <1>3, <2>1
<1>5. \A j \in 1..1 : s[j] = t[j]
  BY <1>2, <1>4
<1>6. s = t
  BY <1>2, <1>3, <1>4, <1>5, SeqEqual
<1> QED
  BY <1>1, <1>6 DEF s, t

\* Where each of a list becomes one, as many remain.
LEMMA Singletons ==
  ASSUME NEW S, NEW f \in Seq(S)
  PROVE  Concat([i \in 1..Len(f) |-> <<f[i]>>]) = f
<1> DEFINE N == Len(f)
           at == [i \in 0..N |-> i]
           pieces == [i \in 1..N |-> <<f[i]>>]
<1>1. N \in Nat /\ \A i \in 1..N : f[i] \in S
  OBVIOUS
<1>2. at \in [0..N -> Nat] /\ at[0] = 0 /\ at[N] = N
  BY <1>1
<1>3. ASSUME NEW i \in 1..N
      PROVE  at[i - 1] = i - 1 /\ at[i] = i /\ pieces[i] = <<f[i]>> /\ <<f[i]>> \in Seq(S)
  <2>1. i - 1 \in 0..N /\ i \in 0..N /\ f[i] \in S
    BY <1>1
  <2> QED
    BY <2>1
<1>4. pieces \in Seq(Seq(S)) /\ Len(pieces) = N
  <2>1. pieces \in [1..N -> Seq(S)]
    BY <1>3
  <2> QED
    BY <1>1, <2>1
<1> HIDE DEF at, pieces, N
<1>5. ASSUME NEW i \in 1..N
      PROVE  at[i - 1] <= at[i] /\ pieces[i] = SubSeq(f, at[i - 1] + 1, at[i])
  <2>1. i \in Nat /\ i - 1 <= i /\ (i - 1) + 1 = i
    BY <1>1
  <2>2. SubSeq(f, i, i) = <<f[i]>>
    BY <1>1, OnePiece DEF N
  <2> QED
    BY <1>3, <2>1, <2>2
<1>6. IsCut(S, f, N, at, pieces)
  BY <1>1, <1>2, <1>4, <1>5 DEF IsCut, N
<1> QED
  BY <1>6, PiecesJoined DEF pieces, N

\* The order of all but the first, once it has arrived at the place k.
Without(o, N, k) == [j \in 1..N |-> o[IF j < k THEN j ELSE j + 1] - 1]

LEMMA WithoutIs ==
  ASSUME NEW N \in Nat, NEW o \in Orders(N + 1), NEW k \in 1..(N + 1), o[k] = 1
  PROVE  Without(o, N, k) \in Orders(N)
<1> DEFINE p == Without(o, N, k)
           from(j) == IF j < k THEN j ELSE j + 1
<1>1. /\ \A i \in 1..(N + 1) : o[i] \in 1..(N + 1)
      /\ \A m \in 1..(N + 1) : \E i \in 1..(N + 1) : o[i] = m
      /\ \A i, j \in 1..(N + 1) : o[i] = o[j] => i = j
  BY DEF Orders
<1>2. ASSUME NEW j \in 1..N PROVE from(j) \in 1..(N + 1) /\ from(j) # k
  OBVIOUS
<1>3. \A i, j \in 1..N : from(i) = from(j) => i = j
  OBVIOUS
<1>4. ASSUME NEW i \in 1..(N + 1), i # k PROVE \E j \in 1..N : from(j) = i
  <2>1. CASE i < k
    <3>1. i \in 1..N /\ from(i) = i
      BY <2>1
    <3> QED
      BY <3>1
  <2>2. CASE ~(i < k)
    <3>1. i - 1 \in 1..N /\ ~(i - 1 < k) /\ (i - 1) + 1 = i
      BY <1>4, <2>2
    <3> QED
      BY <3>1
  <2> QED
    BY <2>1, <2>2
<1>5. p = [j \in 1..N |-> o[from(j)] - 1]
  BY DEF Without
<1> HIDE DEF from, p
<1>6. \A j \in 1..N : p[j] = o[from(j)] - 1
  BY <1>5
<1>7. ASSUME NEW j \in 1..N PROVE p[j] \in 1..N /\ o[from(j)] = p[j] + 1
  <2>1. o[from(j)] \in 1..(N + 1) /\ o[from(j)] # 1
    BY <1>1, <1>2
  <2> QED
    BY <1>6, <2>1
<1>8. p \in [1..N -> 1..N]
  BY <1>5, <1>7
<1>9. ASSUME NEW m \in 1..N PROVE \E j \in 1..N : p[j] = m
  <2>1. m + 1 \in 1..(N + 1) /\ m + 1 # 1
    OBVIOUS
  <2>2. PICK i \in 1..(N + 1) : o[i] = m + 1
    BY <1>1, <2>1
  <2>3. PICK j \in 1..N : from(j) = i
    BY <1>4, <2>1, <2>2
  <2> QED
    BY <1>6, <2>2, <2>3
<1>10. ASSUME NEW i \in 1..N, NEW j \in 1..N, p[i] = p[j] PROVE i = j
  <2>1. o[from(i)] = o[from(j)]
    BY <1>7, <1>10
  <2> QED
    BY <1>1, <1>2, <1>3, <2>1
<1> QED
  BY <1>8, <1>9, <1>10 DEF Orders, p

-----------------------------------------------------------------------------
(* The byte sequence shaper *)

\* A buffer that is not taken for the sequence.
Unlike(b) == b # <<>> => b[1] # 79

LEMMA SampleIs ==
  /\ SampleSequence.offset = 0 /\ SampleSequence.length = 256 /\ Len(SampleSequence.sequence) = 8
  /\ SampleSequence.sequence \in Buffers /\ SampleSequence.sequence[1] = 79
<1> DEFINE s == <<79, 72, 32, 72, 69, 76, 76, 79>>
<1>1. 79 \in Octets /\ 72 \in Octets /\ 32 \in Octets /\ 69 \in Octets /\ 76 \in Octets
  BY DEF Octets
<1>2. Len(s) = 8 /\ s \in Buffers /\ s[1] = 79
  BY <1>1 DEF Buffers
<1> HIDE DEF s
<1>3. SampleSequence = [offset |-> 0, length |-> 256, sequence |-> s]
  BY DEF SampleSequence, s
<1> QED
  BY <1>2, <1>3

LEMMA UnlikeKept ==
  ASSUME NEW b \in Buffers, Unlike(b)
  PROVE  OfSequence(b) = <<b>>
<1> DEFINE t == Take(b, 8)
           s == SampleSequence.sequence
<1>1. t \in Buffers /\ Len(t) = (IF 8 <= Len(b) THEN 8 ELSE Len(b)) /\ \A i \in 1..Len(t) : t[i] = b[i]
  <2> DEFINE k == 8
  <2>1. k \in Nat
    OBVIOUS
  <2> HIDE DEF k
  <2>2. /\ Take(b, k) \in Seq(Octets) /\ Len(Take(b, k)) = IF k <= Len(b) THEN k ELSE Len(b)
        /\ \A i \in 1..Len(Take(b, k)) : Take(b, k)[i] = b[i]
    BY <2>1, TakeOf DEF Buffers
  <2> QED
    BY <2>2 DEF k, Buffers
<1>2. Len(s) = 8 /\ s[1] = 79
  BY SampleIs
<1>3. Matches(b, SampleSequence) <=> t = s
  BY SampleIs DEF Matches, Take
<1> HIDE DEF t, s
<1>4. t # s
  <2>1. CASE b = <<>>
    <3>1. Len(b) = 0
      BY <2>1
    <3>2. Len(t) = 0
      BY <1>1, <3>1
    <3> QED
      BY <1>2, <3>2
  <2>2. CASE b # <<>>
    <3>1. Len(b) \in Nat /\ Len(b) # 0
      BY <2>2, BufferIs
    <3>2. 1 \in 1..Len(t)
      BY <1>1, <3>1
    <3>3. t[1] # 79
      BY <1>1, <2>2, <3>2 DEF Unlike
    <3> QED
      BY <1>2, <3>3
  <2> QED
    BY <2>1, <2>2
<1>5. \A m \in {SampleSequence} : ~Matches(b, m)
  BY <1>3, <1>4
<1> QED
  BY <1>5 DEF OfSequence, SequenceRestore

LEMMA PacketDropped ==
  OfSequence(MakePacket(SampleSequence)) = <<>> /\ MakePacket(SampleSequence) \in Buffers
<1> DEFINE s == SampleSequence.sequence
           f == Filled(248)
           w == s \o f
<1>1. s \in Buffers /\ Len(s) = 8 /\ f \in Buffers
  BY SampleIs, FilledIs
<1>2. Filled(0) = <<>>
  <2>1. Filled(0) \in Buffers /\ Len(Filled(0)) = 0
    BY FilledIs
  <2> QED
    BY <2>1, BufferIs
<1>3. MakePacket(SampleSequence) = w
  <2>1. SampleSequence.offset < SampleSequence.length
        /\ SampleSequence.length - (SampleSequence.offset + Len(s)) = 248
    BY SampleIs
  <2>2. MakePacket(SampleSequence) = (Filled(0) \o s) \o f
    BY <2>1, SampleIs DEF MakePacket
  <2>3. <<>> \o s = s
    BY <1>1, EmptyIs
  <2> QED
    BY <1>2, <2>2, <2>3
<1> HIDE DEF f, s
<1>4. w \in Buffers /\ Take(w, Len(s)) = s
  BY <1>1, Both, SplitOf DEF Buffers
<1> HIDE DEF w
<1>5. Matches(w, SampleSequence)
  <2>1. SubSeq(w, 1, Min({Len(s), Len(w)})) = s
    BY <1>4 DEF Take
  <2>2. 0 + 1 = 1
    OBVIOUS
  <2> QED
    BY <2>1, <2>2, SampleIs, Zenon DEF Matches, s
<1> QED
  BY <1>3, <1>4, <1>5 DEF OfSequence, SequenceRestore

\* The list of buffers that is sent: a sequence, and what is to be taken for none.
Sent(E) == <<MakePacket(SampleSequence)>> \o E

IsSent(E, N) == E \in Lists /\ N = Len(E) /\ \A i \in 1..N : Unlike(E[i])

LEMMA SentIs ==
  ASSUME NEW E \in Lists
  PROVE  /\ Sent(E) \in Lists /\ Len(Sent(E)) = Len(E) + 1 /\ Sent(E)[1] = MakePacket(SampleSequence)
         /\ \A i \in 1..Len(E) : Sent(E)[i + 1] = E[i]
<1> DEFINE x == MakePacket(SampleSequence)
<1>1. x \in Buffers /\ E \in Seq(Buffers)
  BY PacketDropped DEF Lists
<1> HIDE DEF x
<1>2. /\ <<x>> \o E \in Seq(Buffers) /\ Len(<<x>> \o E) = Len(E) + 1 /\ (<<x>> \o E)[1] = x
      /\ \A i \in 1..Len(E) : (<<x>> \o E)[i + 1] = E[i]
  BY <1>1
<1> QED
  BY <1>2 DEF Sent, Lists, x

\* The sequence is dropped, at whatever place it arrives.
LEMMA SequenceDropped ==
  ASSUME NEW E, NEW N, IsSent(E, N), NEW o \in Orders(N + 1), NEW k \in 1..(N + 1), o[k] = 1
  PROVE  LET a == Arrived(Sent(E), o)
         IN  Concat([i \in DOMAIN a |-> OfSequence(a[i])]) = Arrived(E, Without(o, N, k))
<1> DEFINE a == Arrived(Sent(E), o)
           p == Without(o, N, k)
           q == Arrived(E, p)
           at == [i \in 0..(N + 1) |-> IF i < k THEN i ELSE i - 1]
           pieces == [i \in DOMAIN a |-> OfSequence(a[i])]
<1>1. E \in Lists /\ N = Len(E) /\ N \in Nat /\ \A i \in 1..N : E[i] \in Buffers /\ Unlike(E[i])
  BY DEF IsSent, Lists
<1>2. p \in Orders(N) /\ \A j \in 1..N : p[j] = o[IF j < k THEN j ELSE j + 1] - 1
  BY <1>1, WithoutIs DEF Without
<1>3. \A i \in 1..(N + 1) : o[i] \in 1..(N + 1) /\ (o[i] = 1 <=> i = k)
  BY DEF Orders
<1> HIDE DEF p
<1>4. \A j \in 1..N : p[j] \in 1..N
  BY <1>2 DEF Orders
<1>5. q \in Seq(Buffers) /\ Len(q) = N /\ \A j \in 1..N : q[j] = E[p[j]]
  BY <1>1, <1>4 DEF Arrived
<1>6. DOMAIN a = 1..(N + 1) /\ \A i \in 1..(N + 1) : a[i] = Sent(E)[o[i]]
  BY <1>1, SentIs DEF Arrived
<1> HIDE DEF a, q
<1>7. pieces = [i \in 1..(N + 1) |-> OfSequence(a[i])] /\ \A i \in 1..(N + 1) : pieces[i] = OfSequence(a[i])
  BY <1>6
<1> HIDE DEF pieces
<1>8. pieces[k] = <<>>
  BY <1>1, <1>6, <1>7, SentIs, PacketDropped
<1>9. ASSUME NEW i \in 1..(N + 1), i # k
      PROVE  o[i] - 1 \in 1..N /\ pieces[i] = <<E[o[i] - 1]>>
  <2>1. o[i] - 1 \in 1..N /\ (o[i] - 1) + 1 = o[i]
    BY <1>1, <1>3, <1>9
  <2>2. a[i] = E[o[i] - 1]
    BY <1>1, <1>6, <2>1, SentIs
  <2> QED
    BY <1>1, <1>7, <2>1, <2>2, UnlikeKept
<1>10. at \in [0..(N + 1) -> Nat] /\ at[0] = 0 /\ at[N + 1] = N
       /\ \A i \in 0..(N + 1) : at[i] = IF i < k THEN i ELSE i - 1
  BY <1>1
<1> HIDE DEF at
<1>11. ASSUME NEW i \in 1..(N + 1)
       PROVE  /\ at[i - 1] <= at[i] /\ pieces[i] = SubSeq(q, at[i - 1] + 1, at[i])
              /\ pieces[i] \in Seq(Buffers)
  <2>1. i - 1 \in 0..(N + 1) /\ i \in 0..(N + 1) /\ i \in Nat /\ k \in Nat
    BY <1>1
  <2>2. CASE i = k
    <3>1. at[i - 1] = i - 1 /\ at[i] = i - 1 /\ (i - 1) + 1 = i /\ i - 1 < i
      BY <1>10, <2>1, <2>2
    <3>2. SubSeq(q, i, i - 1) = <<>>
      BY <2>1, SubSeqEmpty
    <3>3. <<>> \in Seq(Buffers)
      OBVIOUS
    <3> QED
      <4>1. at[i - 1] + 1 = i /\ at[i - 1] <= at[i]
        BY <2>1, <3>1
      <4>2. pieces[i] = SubSeq(q, at[i - 1] + 1, at[i])
        BY <1>8, <2>2, <3>1, <3>2, <4>1, Zenon
      <4> QED
        BY <1>8, <2>2, <3>3, <4>1, <4>2, Zenon
  <2>3. CASE i < k
    <3>1. at[i - 1] = i - 1 /\ at[i] = i /\ (i - 1) + 1 = i /\ i - 1 <= i
      BY <1>10, <2>1, <2>3
    <3>2. i \in 1..N /\ p[i] = o[i] - 1
      BY <1>1, <1>2, <2>3
    <3>3. SubSeq(q, i, i) = <<q[i]>> /\ q[i] = E[o[i] - 1]
      BY <1>5, <3>2, OnePiece
    <3>4. pieces[i] = <<q[i]>> /\ q[i] \in Buffers
      BY <1>1, <1>9, <2>3, <3>3
    <3> QED
      <4>1. at[i - 1] + 1 = i /\ at[i - 1] <= at[i]
        BY <2>1, <3>1
      <4>2. pieces[i] = SubSeq(q, at[i - 1] + 1, at[i])
        BY <3>1, <3>3, <3>4, <4>1, Zenon
      <4>3. <<q[i]>> \in Seq(Buffers)
        BY <3>4
      <4> QED
        BY <3>4, <4>1, <4>2, <4>3, Zenon
  <2>4. CASE i > k
    <3> DEFINE j == i - 1
    <3>1. at[i - 1] = j - 1 /\ at[i] = j /\ (j - 1) + 1 = j /\ j - 1 <= j
      BY <1>10, <2>1, <2>4
    <3>2. j \in 1..N /\ ~(j < k) /\ j + 1 = i
      BY <1>1, <2>4
    <3> HIDE DEF j
    <3>3. p[j] = o[i] - 1
      BY <1>2, <3>2
    <3>4. SubSeq(q, j, j) = <<q[j]>> /\ q[j] = E[o[i] - 1]
      BY <1>5, <3>2, <3>3, OnePiece
    <3>5. pieces[i] = <<q[j]>> /\ q[j] \in Buffers
      BY <1>1, <1>9, <2>4, <3>4
    <3> QED
      <4>1. at[i - 1] + 1 = j /\ at[i - 1] <= at[i]
        BY <3>1, <3>2
      <4>2. pieces[i] = SubSeq(q, at[i - 1] + 1, at[i])
        BY <3>1, <3>4, <3>5, <4>1, Zenon
      <4>3. <<q[j]>> \in Seq(Buffers)
        BY <3>5
      <4> QED
        BY <3>5, <4>1, <4>2, <4>3, Zenon
  <2> QED
    BY <2>1, <2>2, <2>3, <2>4
<1>12. pieces \in Seq(Seq(Buffers)) /\ Len(pieces) = N + 1
  <2>1. pieces \in [1..(N + 1) -> Seq(Buffers)]
    BY <1>7, <1>11
  <2>2. N + 1 \in Nat
    BY <1>1
  <2> QED
    BY <2>1, <2>2
<1>13. IsCut(Buffers, q, N + 1, at, pieces)
  BY <1>1, <1>5, <1>10, <1>11, <1>12 DEF IsCut
<1>14. Concat(pieces) = q
  BY <1>13, PiecesJoined
<1> QED
  BY <1>14 DEF pieces, a, q, p

\* The sequence is recognized and dropped and the packet kept, whichever of them arrives first.
THEOREM SequenceInverts ==
  \A b \in Seq(Octets) : Unlike(b) =>
    \A o \in Orders(2) : FlatMap(Arrived(Sent(<<b>>), o), OfSequence) = <<b>>
<1> SUFFICES ASSUME NEW b \in Buffers, Unlike(b), NEW o \in Orders(2)
             PROVE  FlatMap(Arrived(Sent(<<b>>), o), OfSequence) = <<b>>
  BY Zenon DEF Buffers
<1> DEFINE E == <<b>>
           a == Arrived(Sent(E), o)
<1>1. IsSent(E, 1) /\ E[1] = b /\ Len(E) = 1
  BY DEF IsSent, Lists
<1>2. PICK k \in 1..2 : o[k] = 1
  BY DEF Orders
<1> DEFINE p == Without(o, 1, k)
<1>3. 1 + 1 = 2 /\ 1 \in Nat
  OBVIOUS
<1> HIDE DEF E
<1>4. Concat([i \in DOMAIN a |-> OfSequence(a[i])]) = Arrived(E, p)
  <2> DEFINE n == 1
  <2>1. n \in Nat /\ IsSent(E, n) /\ o \in Orders(n + 1) /\ k \in 1..(n + 1)
    BY <1>1, <1>3
  <2> HIDE DEF n
  <2>2. Concat([i \in DOMAIN a |-> OfSequence(a[i])]) = Arrived(E, Without(o, n, k))
    BY <1>2, <2>1, SequenceDropped
  <2> QED
    BY <2>2 DEF n
<1>5. p \in Orders(1)
  BY <1>2, <1>3, WithoutIs
<1> HIDE DEF p
<1>6. p[1] = 1
  BY <1>5 DEF Orders
<1>7. Arrived(E, p) = <<b>>
  BY <1>1, <1>6 DEF Arrived
<1> QED
  BY <1>4, <1>7 DEF FlatMap, E

-----------------------------------------------------------------------------
(* Protean: the fragments encrypted, decompressed, and a sequence before them *)

\* Each of w has been encrypted, and the results are E.
IsSealed(key, w, N, E) ==
  E \in Lists /\ N = Len(w) /\ N = Len(E) /\ \A i \in 1..N : IsEncryption(key, w[i], E[i])

LEMMA SealedIs ==
  ASSUME NEW key \in Octets, NEW w \in Lists, \A i \in 1..Len(w) : Len(w[i]) \in Shorts16
  PROVE  \E E : IsSealed(key, w, Len(w), E)
<1> DEFINE N == Len(w)
           E == [i \in 1..N |-> CHOOSE W : IsEncryption(key, w[i], W)]
<1>1. N \in Nat /\ \A i \in 1..N : w[i] \in Buffers
  BY DEF Lists
<1>2. ASSUME NEW i \in 1..N PROVE IsEncryption(key, w[i], E[i])
  <2>1. \E W : IsEncryption(key, w[i], W)
    BY <1>1, EncryptionIs
  <2> QED
    BY <2>1
<1>3. E \in [1..N -> Buffers]
  BY <1>2 DEF IsEncryption
<1> HIDE DEF E
<1>4. E \in Lists /\ Len(E) = N
  BY <1>1, <1>3 DEF Lists
<1> QED
  BY <1>2, <1>4 DEF IsSealed

LEMMA SealedUnlike ==
  ASSUME NEW key, NEW w, NEW N, NEW E, IsSealed(key, w, N, E)
  PROVE  IsSent(E, N)
<1>1. ASSUME NEW i \in 1..N PROVE Unlike(E[i])
  <2>1. E[i][1] = 165
    BY DEF IsSealed, IsEncryption
  <2> QED
    BY <2>1 DEF Unlike
<1> QED
  BY <1>1 DEF IsSealed, IsSent

LEMMA ProteanSends ==
  ASSUME NEW key, NEW b, NEW w, w = FragmentationTransform(maxLength, b), NEW N, NEW E,
         w \in Lists, IsSealed(key, w, N, E)
  PROVE  ProteanTransform(key, maxLength, b) = E
<1>1. /\ E \in Seq(Buffers) /\ Len(E) = N /\ DOMAIN w = 1..N /\ DOMAIN E = 1..N
      /\ \A i \in 1..N : E[i] \in Buffers
  <2>1. E \in Seq(Buffers) /\ w \in Seq(Buffers) /\ N = Len(w) /\ N = Len(E)
    BY DEF IsSealed, Lists
  <2>2. \A s \in Seq(Buffers) : DOMAIN s = 1..Len(s) /\ \A i \in 1..Len(s) : s[i] \in Buffers
    OBVIOUS
  <2> QED
    BY <2>1, <2>2, Zenon
<1>2. \A i \in 1..N : EncryptionTransform(key, w[i]) = <<E[i]>> /\ DecompressionTransform(E[i]) = <<E[i]>>
  BY <1>1, TransformIs DEF IsSealed, IsEncryption
<1>3. Concat([i \in 1..N |-> <<E[i]>>]) = E
  BY <1>1, Singletons
<1>4. [i \in DOMAIN w |-> EncryptionTransform(key, w[i])] = [i \in 1..N |-> <<E[i]>>]
  BY <1>1, <1>2
<1>5. [i \in DOMAIN E |-> DecompressionTransform(E[i])] = [i \in 1..N |-> <<E[i]>>]
  BY <1>1, <1>2
<1> DEFINE A == [i \in DOMAIN w |-> EncryptionTransform(key, w[i])]
           B == [i \in DOMAIN E |-> DecompressionTransform(E[i])]
<1>6. Concat(A) = E /\ Concat(B) = E
  BY <1>3, <1>4, <1>5
<1>7. ProteanTransform(key, maxLength, b) = FlatMap(Concat(A), DecompressionTransform)
  BY DEF ProteanTransform, FlatMap
<1>8. FlatMap(E, DecompressionTransform) = Concat(B)
  BY DEF FlatMap
<1> HIDE DEF A, B
<1> QED
  BY <1>6, <1>7, <1>8

Understands(key, b, N, E) ==
  \A o \in Orders(N + 1) : ProteanRestore(key, {SampleSequence}, Arrived(Sent(E), o)) = <<b>>

LEMMA ProteanReceives ==
  ASSUME NEW key, NEW b, NEW w, NEW N, NEW payloads, NEW E, N \in Nat,
         IsWire(b, N, payloads, w), IsSealed(key, w, N, E)
  PROVE  Understands(key, b, N, E)
<1> SUFFICES ASSUME NEW o \in Orders(N + 1)
             PROVE  ProteanRestore(key, {SampleSequence}, Arrived(Sent(E), o)) = <<b>>
  BY DEF Understands
<1>1. /\ E \in Seq(Buffers) /\ Len(E) = N /\ Len(w) = N
      /\ \A i \in 1..N : E[i] \in Buffers /\ EncryptionRestore(key, E[i]) = <<w[i]>>
  BY DEF IsSealed, IsEncryption, Lists
<1>2. PICK k \in 1..(N + 1) : o[k] = 1
  <2>1. 1 \in 1..(N + 1)
    OBVIOUS
  <2> QED
    BY <2>1 DEF Orders
<1> DEFINE p == Without(o, N, k)
           a == Arrived(Sent(E), o)
           q == Arrived(E, p)
           v == Arrived(w, p)
           A == [i \in DOMAIN a |-> OfSequence(a[i])]
           B == [i \in DOMAIN q |-> DecompressionRestore(q[i])]
           C == [i \in DOMAIN q |-> EncryptionRestore(key, q[i])]
<1>3. IsSent(E, N)
  BY SealedUnlike
<1>4. Concat(A) = q
  BY <1>2, <1>3, SequenceDropped
<1>5. p \in Orders(N)
  BY <1>2, WithoutIs
<1>6. FragmentationRestore(v) = <<b>>
  BY <1>5, WireRestored
<1> HIDE DEF p
<1>7. \A i \in 1..N : p[i] \in 1..N
  BY <1>5 DEF Orders
<1>8. q \in Seq(Buffers) /\ Len(q) = N /\ DOMAIN q = 1..N /\ \A i \in 1..N : q[i] = E[p[i]] /\ q[i] \in Buffers
  BY <1>1, <1>7 DEF Arrived
<1>9. v = [i \in 1..N |-> w[p[i]]] /\ v \in Seq(Buffers) /\ Len(v) = N
  <2>1. \A i \in 1..N : w[i] \in Buffers
    BY DEF IsWire, IsFragment
  <2> QED
    BY <1>1, <1>7, <2>1 DEF Arrived
<1> HIDE DEF q
<1>10. Concat(B) = q
  <2>1. \A i \in 1..N : DecompressionRestore(q[i]) = <<q[i]>>
    BY <1>8, RestoreIs
  <2>2. B = [i \in 1..Len(q) |-> <<q[i]>>]
    BY <1>8, <2>1
  <2> QED
    BY <1>8, <2>2, Singletons
<1>11. Concat(C) = v
  <2>1. \A i \in 1..N : EncryptionRestore(key, q[i]) = <<v[i]>>
    BY <1>1, <1>7, <1>8, <1>9
  <2> HIDE DEF v
  <2>2. C = [i \in 1..Len(v) |-> <<v[i]>>]
    BY <1>8, <1>9, <2>1
  <2> QED
    BY <1>9, <2>2, Singletons
<1>12. ProteanRestore(key, {SampleSequence}, a)
         = FragmentationRestore(FlatMap(FlatMap(Concat(A), DecompressionRestore),
                                        LAMBDA x : EncryptionRestore(key, x)))
  <2> HIDE DEF a
  <2> QED
    BY DEF ProteanRestore, FlatMap, OfSequence
<1>13. FlatMap(q, DecompressionRestore) = Concat(B)
  BY DEF FlatMap
<1>14. FlatMap(q, LAMBDA x : EncryptionRestore(key, x)) = Concat(C)
  BY DEF FlatMap
<1> HIDE DEF A, B, C, v, a
<1> QED
  BY <1>4, <1>6, <1>10, <1>11, <1>12, <1>13, <1>14 DEF a

\* The fragments and the vector are whole chunks.
LEMMA WholeChunks ==
  ASSUME NEW l \in Nat
  PROVE  \E m \in Nat : m > 0 /\ PacketSize(l) = 16 * m
<1> DEFINE n == l + 52
           q == n \div 16
           r == n % 16
<1>1. q \in Nat /\ r \in 0..15 /\ n = 16 * q + r
  OBVIOUS
<1>2. PacketSize(l) = l + 52 + (16 - r)
  <2>1. l + HEADER_SIZE + IV_SIZE = n
    BY ChunkSize
  <2>2. FillSize(l) = 16 - r
    BY <2>1, ChunkSize DEF FillSize
  <2> QED
    BY <2>2, FillIsPositive
<1>3. n = l + 52
  OBVIOUS
<1> HIDE DEF n, q, r
<1>4. PacketSize(l) = 16 * (q + 1) /\ q + 1 \in Nat /\ q + 1 > 0
  BY <1>1, <1>2, <1>3
<1> QED
  BY <1>4

LEMMA SealedSize ==
  ASSUME NEW key, NEW l \in Nat, NEW w \in Buffers, Len(w) + 16 = PacketSize(l), NEW E,
         IsEncryption(key, w, E)
  PROVE  Len(E) = PacketSize(l) + 16
<1>1. PICK m \in Nat : m > 0 /\ PacketSize(l) = 16 * m
  BY WholeChunks
<1> DEFINE n == Len(w)
<1>2. n \in Nat /\ n + 17 = 16 * m + 1
  BY <1>1, BufferIs
<1>3. Len(E) = 16 + 16 * ((n + 17) \div 16)
  BY DEF IsEncryption, Rounded
<1> HIDE DEF n
<1>4. (n + 17) \div 16 = m
  BY <1>2
<1> QED
  BY <1>1, <1>3, <1>4

\* Whatever the bytes of a packet, the key, and the order in which what is sent of it arrives, the
\* sequence put before it included: it is given back as it was, and every buffer is at most one
\* chunk longer than allowed.
THEOREM ProteanInverts ==
  \A key \in Octets, b \in Seq(Octets) : Len(Lengths(b)) < 256 =>
    LET E == ProteanTransform(key, maxLength, b)
    IN  /\ E \in Seq(Seq(Octets)) /\ \A i \in DOMAIN E : Len(E[i]) <= maxLength + CHUNK_SIZE
        /\ \A o \in Orders(Len(E) + 1) :
             ProteanRestore(key, {SampleSequence}, Arrived(Sent(E), o)) = <<b>>
<1> SUFFICES ASSUME NEW key \in Octets, NEW b \in Buffers, Len(Lengths(b)) < 256,
                    NEW E, E = ProteanTransform(key, maxLength, b)
             PROVE  /\ E \in Lists /\ \A i \in DOMAIN E : Len(E[i]) <= maxLength + CHUNK_SIZE
                    /\ \A o \in Orders(Len(E) + 1) :
                         ProteanRestore(key, {SampleSequence}, Arrived(Sent(E), o)) = <<b>>
  BY Zenon DEF Buffers, Lists
<1> DEFINE w == FragmentationTransform(maxLength, b)
<1>1. PICK N, payloads : IsWire(b, N, payloads, w)
  BY WireIs
<1> HIDE DEF w
<1>2. /\ N \in Nat /\ w \in Lists /\ Len(w) = N
      /\ \A i \in 1..N : /\ Len(payloads[i]) \in Nat /\ PacketSize(Len(payloads[i])) <= maxLength
                         /\ w[i] \in Buffers /\ Len(w[i]) + 16 = PacketSize(Len(payloads[i]))
  BY <1>1 DEF IsWire, IsFragmented, IsFragment
<1>3. \A i \in 1..N : Len(w[i]) \in Shorts16
  <2>1. ASSUME NEW i \in 1..N PROVE Len(w[i]) \in Shorts16
    <3> DEFINE l == Len(payloads[i])
               n == Len(w[i])
    <3>1. l \in Nat /\ PacketSize(l) <= maxLength /\ n + 16 = PacketSize(l) /\ n \in Nat
      BY <1>2, BufferIs
    <3>2. PacketSize(l) \in Nat
      BY <3>1
    <3> HIDE DEF l, n
    <3>3. maxLength \in Nat /\ maxLength < 65536
      BY CodecsAssumption, SMT
    <3>4. n < 65536
      BY <3>1, <3>2, <3>3, SMT
    <3>5. n \in Shorts16
      BY <3>1, <3>4, SMT DEF Shorts16
    <3> QED
      BY <3>5 DEF n
  <2> QED
    BY <2>1
<1>4. PICK F : IsSealed(key, w, N, F)
  BY <1>2, <1>3, SealedIs
<1>5. E = F
  BY <1>2, <1>4, ProteanSends DEF w
<1>6. E \in Lists /\ Len(E) = N /\ DOMAIN E = 1..N
  <2>1. E \in Lists /\ Len(E) = N
    BY <1>4, <1>5 DEF IsSealed
  <2> QED
    BY <2>1 DEF Lists
<1>7. ASSUME NEW i \in 1..N PROVE Len(E[i]) <= maxLength + CHUNK_SIZE
  <2>1. IsEncryption(key, w[i], E[i])
    BY <1>4, <1>5 DEF IsSealed
  <2> DEFINE l == Len(payloads[i])
  <2>2. l \in Nat /\ w[i] \in Buffers /\ Len(w[i]) + 16 = PacketSize(l) /\ PacketSize(l) <= maxLength
    BY <1>2
  <2> HIDE DEF l
  <2>3. Len(E[i]) = PacketSize(l) + 16
    BY <2>1, <2>2, SealedSize
  <2>4. PacketSize(l) \in Nat /\ maxLength \in Nat
    <3>1. maxLength \in Nat
      BY CodecsAssumption, SMT
    <3>2. PICK m \in Nat : PacketSize(l) = 16 * m
      BY <2>2, WholeChunks
    <3> QED
      BY <3>1, <3>2
  <2> QED
    BY <2>2, <2>3, <2>4, ChunkSize
<1>8. \A o \in Orders(N + 1) : ProteanRestore(key, {SampleSequence}, Arrived(Sent(E), o)) = <<b>>
  <2>1. Understands(key, b, N, F)
    BY <1>1, <1>2, <1>4, ProteanReceives
  <2> QED
    BY <1>5, <2>1 DEF Understands
<1> QED
  BY <1>6, <1>7, <1>8

-----------------------------------------------------------------------------
(* The frequencies of the arithmetic coder *)

LEMMA BoundExists ==
  ASSUME NEW N \in Nat, NEW s \in [1..N -> Nat]
  PROVE  \E bound \in Nat : \A i \in 1..N : s[i] <= bound
<1> DEFINE Bounded(m) == \E bound \in Nat : \A i \in 1..m : s[i] <= bound
           T == {m \in 0..N : Bounded(m)}
<1>1. 0 \in T
  OBVIOUS
<1>2. ASSUME NEW m \in 1..N, m - 1 \in T PROVE m \in T
  <2>1. PICK bound \in Nat : \A i \in 1..(m - 1) : s[i] <= bound
    BY <1>2
  <2> DEFINE more == bound + s[m]
  <2>2. s[m] \in Nat /\ more \in Nat /\ bound <= more /\ s[m] <= more
    OBVIOUS
  <2>3. \A i \in 1..m : s[i] \in Nat /\ (i = m \/ i \in 1..(m - 1))
    OBVIOUS
  <2> HIDE DEF more
  <2>4. \A i \in 1..m : s[i] <= more
    BY <2>1, <2>2, <2>3
  <2>5. Bounded(m) /\ m \in 0..N
    BY <2>2, <2>4
  <2> HIDE DEF Bounded
  <2> QED
    BY <2>5
<1> HIDE DEF Bounded
<1>3. N \in T
  <2> HIDE DEF T
  <2>1. N \in 0..N
    OBVIOUS
  <2> QED
    BY <1>1, <1>2, <2>1, Upwards
<1> QED
  BY <1>3 DEF Bounded

LEMMA HighestIs ==
  ASSUME NEW N \in Nat, N > 0, NEW s \in [1..N -> Nat]
  PROVE  Max(Range(s)) \in Nat /\ \A i \in 1..N : s[i] <= Max(Range(s))
<1> DEFINE R == Range(s)
           D == {bound \in Nat : \A x \in R : x <= bound}
<1>1. R = {s[i] : i \in 1..N} /\ R \in SUBSET Nat /\ s[1] \in R /\ \A i \in 1..N : s[i] \in R
  BY DEF Range
<1>2. D # {}
  <2>1. PICK bound \in Nat : \A i \in 1..N : s[i] <= bound
    BY BoundExists
  <2> QED
    BY <1>1, <2>1
<1>3. D \in SUBSET Nat
  OBVIOUS
<1>4. PICK d \in D : \A e \in D : d <= e
  <2> HIDE DEF D
  <2> QED
    BY <1>2, <1>3, Least
<1> HIDE DEF R
<1>5. d \in R
  <2> SUFFICES ASSUME d \notin R PROVE FALSE
    OBVIOUS
  <2>1. d \in Nat /\ \A x \in R : x \in Nat /\ x <= d /\ x # d
    BY <1>1
  <2>2. d # 0
    <3>1. s[1] \in Nat /\ s[1] <= d /\ s[1] # d
      BY <1>1, <2>1
    <3> QED
      BY <2>1, <3>1
  <2>3. d - 1 \in D /\ ~(d <= d - 1)
    BY <2>1, <2>2
  <2> QED
    BY <1>4, <2>3
<1>6. \A y \in R : d >= y
  BY <1>1
<1>7. Max(R) \in R /\ \A y \in R : Max(R) >= y
  BY <1>5, <1>6 DEF Max
<1> QED
  BY <1>1, <1>7 DEF R

\* A table of 256 frequencies from 1 to high.
Table(high) == {s \in [1..256 -> Nat] : \A i \in 1..256 : 1 <= s[i] /\ s[i] <= high}

LEMMA TableSum ==
  ASSUME NEW s \in Table(32)
  PROVE  SumOf(s) < 16384
<1> DEFINE N == 256
           high == 32
<1>1. N \in Nat /\ high \in Nat /\ s \in [1..N -> Nat] /\ \A i \in 1..N : 1 <= s[i] /\ s[i] <= high
  BY DEF Table
<1> HIDE DEF N, high
<1>2. s \in Seq(Nat) /\ Len(s) = N
  BY <1>1
<1>3. SumOf(s) \in Between(high, N)
  BY <1>1, <1>2, SumOfIs
<1> QED
  BY ONLY <1>3, SMT DEF Between, N, high

LEMMA QuotientIs ==
  ASSUME NEW p \in Nat, NEW h \in Nat, h > 0, p <= h
  PROVE  (p * 256) \div h \in Nat /\ (p * 256) \div h <= 256
<1> DEFINE n == p * 256
           q == n \div h
           r == n % h
<1>1. n \in Nat /\ q \in Nat /\ r \in Nat /\ n = h * q + r
  OBVIOUS
<1>2. n <= h * 256
  OBVIOUS
<1> HIDE DEF n, q, r
<1>3. ASSUME q > 256 PROVE FALSE
  <2> DEFINE d == q - 257
  <2>1. d \in Nat /\ q = 257 + d
    BY <1>1, <1>3
  <2> HIDE DEF d
  <2>2. h * 257 + h * d = h * q /\ h * 257 \in Nat /\ h * d \in Nat
    BY <2>1, TimesAdds
  <2>3. h * 257 = h * 256 + h
    OBVIOUS
  <2> DEFINE a == h * 256
             b == h * q
             c == h * d
             e == h * 257
  <2>4. /\ e + c = b /\ e = a + h /\ n = b + r /\ n <= a /\ c \in Nat /\ e \in Nat
        /\ a \in Nat /\ b \in Nat
    BY <1>1, <1>2, <2>2, <2>3
  <2> HIDE DEF a, b, c, e
  <2> QED
    BY <1>1, <2>4
<1>4. q \in Nat /\ q <= 256
  BY <1>1, <1>3
<1> QED
  BY <1>4 DEF q, n

\* The quotients of the entries by a fraction.
Scales(s, over, under, high) ==
  \A i \in 1..256 : (s[i] * under) \div over \in Nat /\ (s[i] * under) \div over <= high

LEMMA ScaleIs ==
  ASSUME NEW s \in [1..256 -> Nat], NEW over, NEW under, NEW high \in Nat, high >= 1,
         Scales(s, over, under, high)
  PROVE  Scale(s, over, under) \in Table(high)
<1> DEFINE scaled(i) == (s[i] * under) \div over
           cell(i) == IF scaled(i) = 0 THEN 1 ELSE scaled(i)
           t == [i \in 1..256 |-> cell(i)]
<1>1. Scale(s, over, under) = t
  BY DEF Scale
<1>2. \A i \in 1..256 : scaled(i) \in Nat /\ scaled(i) <= high
  BY DEF Scales
<1> HIDE DEF scaled
<1>3. \A i \in 1..256 : cell(i) \in Nat /\ 1 <= cell(i) /\ cell(i) <= high
  BY <1>2
<1> HIDE DEF cell
<1>4. t \in [1..256 -> Nat] /\ \A i \in 1..256 : t[i] = cell(i)
  BY <1>3
<1> HIDE DEF t
<1> QED
  BY <1>1, <1>3, <1>4 DEF Table

\* The frequencies after n rounds of the loop: they fit the coder, or are halved once more.
Halvings(n) == IF n = 0 THEN 256 ELSE IF n = 1 THEN 128 ELSE IF n = 2 THEN 64 ELSE 32

HalvedTables(n) == {s \in Table(256) : SumOf(s) < 16384 \/ s \in Table(Halvings(n))}

HalveOnce(s) == IF SumOf(s) < 16384 THEN s ELSE Scale(s, 2, 1)

LEMMA HalveOnceIs ==
  ASSUME NEW n \in 1..8, NEW s \in HalvedTables(n - 1)
  PROVE  HalveOnce(s) \in HalvedTables(n)
<1>1. s \in Table(256)
  BY DEF HalvedTables
<1>2. CASE SumOf(s) < 16384
  BY <1>1, <1>2, SMT DEF HalveOnce, HalvedTables
<1>3. CASE ~(SumOf(s) < 16384)
  <2> DEFINE high == Halvings(n - 1)
             half == Halvings(n)
             t == Scale(s, 2, 1)
  <2>1. s \in Table(high)
    BY <1>3, SMT DEF HalvedTables
  <2>2. ~(high = 32)
    BY <1>3, <2>1, TableSum, SMT
  <2>3. high \in Nat /\ half \in Nat /\ high = 2 * half /\ half >= 1 /\ half <= 256
    BY <2>2 DEF Halvings
  <2> HIDE DEF high, half
  <2>4. s \in [1..256 -> Nat] /\ \A i \in 1..256 : s[i] \in Nat /\ s[i] <= high
    BY <2>1 DEF Table
  <2>5. \A v \in Nat : v <= high => (v * 1) \div 2 \in Nat /\ (v * 1) \div 2 <= half
    BY <2>3
  <2>6. Scales(s, 2, 1, half)
    BY <2>4, <2>5 DEF Scales
  <2>7. t \in Table(half)
    BY <2>3, <2>4, <2>6, ScaleIs
  <2>8. t \in Table(256)
    <3> HIDE DEF t
    <3>1. t \in [1..256 -> Nat] /\ \A i \in 1..256 : 1 <= t[i] /\ t[i] <= half
      BY <2>7 DEF Table
    <3>2. \A i \in 1..256 : t[i] <= 256
      BY <2>3, <3>1
    <3> QED
      BY <3>1, <3>2 DEF Table
  <2> QED
    BY <1>3, <2>7, <2>8, SMT DEF HalveOnce, HalvedTables, half
<1> QED
  BY <1>2, <1>3

LEMMA HalveIs ==
  ASSUME NEW s \in Table(256)
  PROVE  Halve(s) \in HalvedTables(8)
<1> DEFINE N == 8
           Round(f, n) == IF n = 0 THEN s ELSE HalveOnce(f[n - 1])
           halved == CHOOSE f : f = [n \in 0..N |-> Round(f, n)]
           T == [n \in 0..N |-> HalvedTables(n)]
           next == [n \in 1..N |-> [x \in HalvedTables(n - 1) |-> HalveOnce(x)]]
<1>1. Halve(s) = halved[N]
  BY DEF Halve, HalveOnce
<1>2. \A n \in 0..N : T[n] = HalvedTables(n)
  OBVIOUS
<1>3. \A n \in 1..N : \A x \in HalvedTables(n - 1) : next[n][x] = HalveOnce(x)
  OBVIOUS
<1>4. /\ N \in Nat /\ N \in 0..N /\ 0 \in 0..N
      /\ \A n \in 1..N : n \in 0..N /\ n - 1 \in 0..N /\ n # 0
  OBVIOUS
<1>5. s \in T[0]
  BY <1>2, SMT DEF HalvedTables, Halvings
<1> HIDE DEF T, next
<1>6. ASSUME NEW n \in 1..N, NEW x \in HalvedTables(n - 1)
      PROVE  HalveOnce(x) \in HalvedTables(n)
  BY HalveOnceIs
<1> HIDE DEF N
<1>7. ASSUME NEW n \in 1..N, NEW x \in T[n - 1] PROVE next[n][x] \in T[n]
  <2>1. x \in HalvedTables(n - 1) /\ T[n] = HalvedTables(n)
    BY <1>2, <1>4
  <2>2. HalveOnce(x) \in HalvedTables(n)
    BY <1>6, <2>1
  <2> QED
    BY <1>3, <2>1, <2>2
<1>8. IsLoop(N, T, s, next)
  BY <1>4, <1>5, <1>7 DEF IsLoop
<1>9. PICK f : /\ f = [n \in 0..N |-> IF n = 0 THEN s ELSE next[n][f[n - 1]]]
               /\ \A n \in 0..N : f[n] \in T[n]
  BY <1>8, Loop
<1>10. ASSUME NEW n \in 0..N PROVE f[n] = Round(f, n)
  <2>1. CASE n = 0
    BY <1>9, <2>1
  <2>2. CASE n # 0
    <3>1. n \in 1..N /\ n - 1 \in 0..N
      BY <1>4, <2>2
    <3>2. f[n - 1] \in HalvedTables(n - 1)
      BY <1>2, <1>9, <3>1
    <3>3. f[n] = next[n][f[n - 1]]
      BY <1>9, <2>2
    <3> QED
      BY <1>3, <2>2, <3>1, <3>2, <3>3
  <2> QED
    BY <2>1, <2>2
<1>11. f = [n \in 0..N |-> f[n]]
  BY <1>9
<1>12. f = [n \in 0..N |-> Round(f, n)]
  <2> HIDE DEF Round
  <2> QED
    BY <1>10, <1>11, Zenon
<1>13. halved = [n \in 0..N |-> Round(halved, n)]
  <2> HIDE DEF Round
  <2> QED
    BY <1>12, Zenon
<1> HIDE DEF halved
<1> DEFINE U == {n \in 0..N : halved[n] = f[n]}
<1>14. 0 \in U
  BY <1>4, <1>10, <1>13
<1>15. ASSUME NEW n \in 1..N, n - 1 \in U PROVE n \in U
  <2>1. halved[n] = Round(halved, n) /\ f[n] = Round(f, n)
    BY <1>4, <1>10, <1>13
  <2>2. halved[n - 1] = f[n - 1]
    BY <1>15
  <2> QED
    BY <1>4, <2>1, <2>2
<1>16. N \in U
  <2> HIDE DEF U
  <2> QED
    BY <1>4, <1>14, <1>15, Upwards
<1>17. halved[N] = f[N] /\ f[N] \in HalvedTables(N)
  BY <1>2, <1>4, <1>9, <1>16
<1> QED
  BY <1>1, <1>17 DEF N

LEMMA AdjustedTable ==
  ASSUME NEW probs \in [1..256 -> Nat \ {0}]
  PROVE  AdjustProbs(probs) \in Table(256) /\ SumOf(AdjustProbs(probs)) < 16384
<1> DEFINE highest == Max(Range(probs))
           scaled == IF highest > 255 THEN Scale(probs, highest, 256) ELSE probs
<1>1. /\ probs \in [1..256 -> Nat] /\ highest \in Nat
      /\ \A i \in 1..256 : probs[i] \in Nat /\ probs[i] >= 1 /\ probs[i] <= highest
  <2>1. probs \in [1..256 -> Nat] /\ \A i \in 1..256 : probs[i] \in Nat /\ probs[i] >= 1
    OBVIOUS
  <2> DEFINE N == 256
  <2>2. N \in Nat /\ N > 0 /\ probs \in [1..N -> Nat]
    BY <2>1
  <2> HIDE DEF N, highest
  <2>3. highest \in Nat /\ \A i \in 1..N : probs[i] <= highest
    BY <2>2, HighestIs DEF highest
  <2> QED
    BY <2>1, <2>3 DEF N
<1> HIDE DEF highest
<1>2. scaled \in Table(256)
  <2>1. CASE highest > 255
    <3>1. \A v \in Nat : v <= highest => (v * 256) \div highest \in Nat /\ (v * 256) \div highest <= 256
      <4>1. highest > 0
        BY <1>1, <2>1
      <4> QED
        BY <1>1, <4>1, QuotientIs
    <3>2. Scales(probs, highest, 256, 256)
      BY <1>1, <3>1 DEF Scales
    <3>3. Scale(probs, highest, 256) \in Table(256)
      BY <1>1, <3>2, ScaleIs
    <3> QED
      BY <2>1, <3>3
  <2>2. CASE ~(highest > 255)
    BY <1>1, <2>2 DEF Table
  <2> QED
    BY <2>1, <2>2
<1>3. AdjustProbs(probs) = Halve(scaled)
  BY DEF AdjustProbs, highest
<1> HIDE DEF scaled
<1>4. AdjustProbs(probs) \in HalvedTables(8)
  BY <1>2, <1>3, HalveIs
<1> DEFINE t == AdjustProbs(probs)
<1>5. t \in Table(256) /\ (SumOf(t) < 16384 \/ t \in Table(32))
  <2>1. Halvings(8) = 32
    BY SMT DEF Halvings
  <2> HIDE DEF t
  <2> QED
    BY <1>4, <2>1, SMT DEF HalvedTables, t
<1> HIDE DEF t
<1> QED
  BY <1>5, TableSum, SMT DEF t

\* Whatever was counted: the frequencies adjustProbs_ leaves are between 1 and 256 (not 255, as its
\* comment has it), and together they are few enough for the bits of the coder.
THEOREM FrequenciesFit ==
  \A probs \in [1..256 -> Nat \ {0}] :
    Range(AdjustProbs(probs)) \subseteq 1..256 /\ SumOf(AdjustProbs(probs)) < 16384
<1> SUFFICES ASSUME NEW probs \in [1..256 -> Nat \ {0}]
             PROVE  Range(AdjustProbs(probs)) \subseteq 1..256 /\ SumOf(AdjustProbs(probs)) < 16384
  OBVIOUS
<1> DEFINE t == AdjustProbs(probs)
           N == 256
<1>1. N \in Nat /\ t \in Table(N) /\ SumOf(t) < 16384
  BY AdjustedTable
<1> HIDE DEF t
<1>2. t \in [1..N -> Nat] /\ \A i \in 1..N : 1 <= t[i] /\ t[i] <= N
  BY <1>1 DEF Table
<1> HIDE DEF N
<1>3. Range(t) \subseteq 1..N
  <2>1. \A i \in 1..N : t[i] \in 1..N
    <3>1. ASSUME NEW i \in 1..N PROVE t[i] \in Nat /\ 1 <= t[i] /\ t[i] <= N
      BY <1>2
    <3> QED
      BY <1>1, <3>1
  <2>2. Range(t) = {t[i] : i \in 1..N}
    BY <1>2 DEF Range
  <2> QED
    BY <2>1, <2>2
<1> QED
  BY <1>1, <1>3 DEF t, N

-----------------------------------------------------------------------------
(* What the runs send *)

Steps == {"encode", "decode", "reordered", "done"}
Inputs == [key : Keys, data : Payloads]

LEMMA RampIs ==
  ASSUME NEW size \in Nat, size < 65536, NEW from \in {0, 255}, NEW slope \in {0, 1, 37}
  PROVE  /\ Ramp(size, from, slope) \in Buffers /\ Len(Ramp(size, from, slope)) = size
         /\ Unlike(Ramp(size, from, slope))
<1> DEFINE b == Ramp(size, from, slope)
<1>1. ASSUME NEW i \in 1..size PROVE (from + i * slope) % 256 \in Octets
  <2>1. i * slope \in Nat
    OBVIOUS
  <2> DEFINE n == from + i * slope
  <2>2. n \in Nat
    BY <2>1
  <2> HIDE DEF n
  <2>3. (n % 256) \in Octets
    BY <2>2, SMT DEF Octets
  <2> QED
    BY <2>3 DEF n
<1>2. b = [i \in 1..size |-> (from + i * slope) % 256]
  BY DEF Ramp
<1>3. b \in [1..size -> Octets]
  <2> DEFINE at(i) == (from + i * slope) % 256
  <2>1. \A i \in 1..size : at(i) \in Octets
    BY <1>1
  <2>2. b = [i \in 1..size |-> at(i)]
    BY <1>2
  <2> HIDE DEF b, at
  <2> QED
    BY <2>1, <2>2
<1>4. b \in Buffers /\ Len(b) = size
  <2> HIDE DEF b
  <2> QED
    BY <1>3 DEF Buffers
<1>5. Unlike(b)
  <2> SUFFICES ASSUME b # <<>> PROVE b[1] # 79
    BY DEF Unlike
  <2>1. size > 0
    <3> HIDE DEF b
    <3> QED
      BY <1>4 DEF Buffers
  <2>2. b[1] = (from + 1 * slope) % 256
    BY <1>2, <2>1
  <2> HIDE DEF b
  <2> QED
    BY <2>2, SMT
<1> QED
  BY <1>4, <1>5

LEMMA PayloadIs ==
  ASSUME NEW b \in Payloads
  PROVE  b \in Buffers /\ Len(b) < 65536 /\ Len(Lengths(b)) < 256 /\ Unlike(b)
<1>1. PICK size \in Sizes, from \in {0, 255}, slope \in {0, 1, 37} : b = Ramp(size, from, slope)
  BY DEF Payloads
<1>2. size \in Nat /\ size < 65536 /\ Len(MakeFragments(maxLength, size)[size]) < 256
  <2>1. size \in Nat
    BY <1>1, NumbersAssumption
  <2>2. Fits(size)
    BY <1>1, SizesAssumption
  <2> QED
    BY <2>1, <2>2, SMT DEF Fits
<1>3. b \in Buffers /\ Len(b) = size /\ Unlike(b)
  BY <1>1, <1>2, RampIs
<1>4. Len(Lengths(b)) = Len(MakeFragments(maxLength, size)[size])
  BY <1>3, Zenon DEF Lengths
<1> QED
  BY <1>2, <1>3, <1>4, SMT

LEMMA KeyIs ==
  ASSUME NEW key \in Keys
  PROVE  key \in Octets
BY KeysAssumption, SMT DEF Octets

\* A single buffer arrives in one order only.
LEMMA OneArrives ==
  ASSUME NEW x, NEW o \in Orders(1)
  PROVE  Arrived(<<x>>, o)[1] = x /\ Len(<<x>>) = 1
BY DEF Arrived, Orders

LEMMA TheReverse ==
  ASSUME NEW w \in Lists
  PROVE  \E o \in Orders(Len(w)) : Reverse(w) = Arrived(w, o)
<1> DEFINE N == Len(w)
           o == [i \in 1..N |-> (N - i) + 1]
<1>1. N \in Nat
  BY DEF Lists
<1>2. o \in Orders(N)
  <2> HIDE DEF N
  <2>1. \A i \in 1..N : (N - i) + 1 \in 1..N /\ o[i] = (N - i) + 1
    BY <1>1
  <2>2. o \in [1..N -> 1..N]
    BY <2>1
  <2> HIDE DEF o
  <2>3. ASSUME NEW k \in 1..N PROVE \E i \in 1..N : o[i] = k
    <3>1. (N - k) + 1 \in 1..N /\ o[(N - k) + 1] = k
      BY <1>1, <2>1
    <3> QED
      BY <3>1
  <2>4. \A i, j \in 1..N : o[i] = o[j] => i = j
    BY <1>1, <2>1
  <2> QED
    BY <2>2, <2>3, <2>4 DEF Orders
<1>3. \A i \in 1..N : o[i] = (N - i) + 1
  OBVIOUS
<1>4. Reverse(w) = [i \in 1..N |-> w[(N - i) + 1]]
  BY DEF Reverse
<1> HIDE DEF N, o
<1>5. [i \in 1..N |-> w[(N - i) + 1]] = [i \in 1..N |-> w[o[i]]]
  BY <1>3, Zenon
<1> QED
  BY <1>2, <1>4, <1>5 DEF Arrived, N

LEMMA TheOrder ==
  ASSUME NEW w \in Lists
  PROVE  \E o \in Orders(Len(w)) : w = Arrived(w, o)
<1> DEFINE N == Len(w)
           o == [i \in 1..N |-> i]
<1>1. N \in Nat /\ w = [i \in 1..N |-> w[i]]
  BY DEF Lists
<1> HIDE DEF N
<1>2. o \in Orders(N) /\ \A i \in 1..N : o[i] = i
  BY <1>1 DEF Orders
<1> HIDE DEF o
<1>3. [i \in 1..N |-> w[i]] = [i \in 1..N |-> w[o[i]]]
  BY <1>2, Zenon
<1> QED
  BY <1>1, <1>2, <1>3 DEF Arrived, N


-----------------------------------------------------------------------------
(* What arrives of it *)

Given == codec \in Transforming /\ input \in Inputs

LEMMA InputIs ==
  ASSUME Given
  PROVE  /\ codec \in Transforming /\ input.key \in Octets /\ input.data \in Buffers
         /\ Len(input.data) < 65536 /\ Len(Lengths(input.data)) < 256 /\ Unlike(input.data)
<1>1. codec \in Transforming /\ input.key \in Keys /\ input.data \in Payloads
  BY DEF Given, Inputs
<1> QED
  BY <1>1, PayloadIs, KeyIs

LEMMA OneListed ==
  ASSUME NEW x \in Buffers
  PROVE  <<x>> \in Lists /\ Len(<<x>>) = 1 /\ \A o \in Orders(1) : Arrived(<<x>>, o)[1] = x
<1>1. <<x>> \in Lists /\ Len(<<x>>) = 1
  BY DEF Lists
<1> QED
  BY <1>1, OneArrives

LEMMA CaesarArrives ==
  ASSUME Given, codec = "caesar"
  PROVE  /\ Encoded \in Lists
         /\ \A o \in Orders(Len(Encoded)) : wire = Arrived(Encoded, o) => Decoded = <<input.data>>
<1> DEFINE x == CaesarTransform(input.key, input.data)[1]
<1>1. x \in Buffers /\ CaesarRestore(input.key, x) = <<input.data>>
  BY InputIs, CaesarInverts DEF Buffers
<1>2. Encoded = <<x>>
  BY DEF Encoded, CaesarTransform
<1>3. Decoded = CaesarRestore(input.key, wire[1])
  BY DEF Decoded
<1> HIDE DEF x
<1> QED
  BY <1>1, <1>2, <1>3, OneListed

LEMMA EncryptionArrives ==
  ASSUME Given, codec = "encryption"
  PROVE  /\ Encoded \in Lists
         /\ \A o \in Orders(Len(Encoded)) : wire = Arrived(Encoded, o) => Decoded = <<input.data>>
<1> DEFINE x == EncryptionTransform(input.key, input.data)[1]
<1>1. x \in Buffers /\ EncryptionRestore(input.key, x) = <<input.data>>
  <2>1. PICK W : IsEncryption(input.key, input.data, W)
    BY InputIs, EncryptionIs, SMT DEF Shorts16
  <2>2. input.data \in Seq(Octets) /\ Len(input.data) < 65536 /\ input.key \in Octets
    BY InputIs, SMT DEF Buffers
  <2> QED
    BY <2>1, <2>2, EncryptionInverts, SMT DEF IsEncryption
<1>2. Encoded = <<x>>
  BY DEF Encoded, EncryptionTransform
<1>3. Decoded = EncryptionRestore(input.key, wire[1])
  BY DEF Decoded
<1> HIDE DEF x
<1> QED
  BY <1>1, <1>2, <1>3, OneListed

LEMMA DecompressionArrives ==
  ASSUME Given, codec = "decompression"
  PROVE  /\ Encoded \in Lists
         /\ \A o \in Orders(Len(Encoded)) : wire = Arrived(Encoded, o) => Decoded = <<input.data>>
<1> DEFINE b == input.data
<1>1. b \in Buffers /\ DecompressionTransform(b) = <<b>> /\ DecompressionRestore(b) = <<b>>
  BY InputIs, TransformIs, RestoreIs
<1>2. Encoded = <<b>>
  BY <1>1 DEF Encoded
<1>3. Decoded = DecompressionRestore(wire[1])
  BY DEF Decoded
<1> HIDE DEF b
<1> QED
  BY <1>1, <1>2, <1>3, OneListed DEF b

LEMMA FragmentationArrives ==
  ASSUME Given, codec = "fragmentation"
  PROVE  /\ Encoded \in Lists
         /\ \A i \in DOMAIN Encoded : Len(Encoded[i]) + IV_SIZE <= maxLength
         /\ \A o \in Orders(Len(Encoded)) : wire = Arrived(Encoded, o) => Decoded = <<input.data>>
<1> DEFINE b == input.data
           w == FragmentationTransform(maxLength, b)
<1>1. b \in Buffers /\ Len(Lengths(b)) < 256
  BY InputIs
<1>2. Encoded = w
  BY DEF Encoded
<1>3. Decoded = FragmentationRestore(wire)
  BY DEF Decoded
<1> HIDE DEF b
<1>4. PICK N, payloads : IsWire(b, N, payloads, w)
  BY <1>1, WireIs
<1>5. w \in Lists
  BY <1>4 DEF IsWire
<1>6. /\ \A i \in DOMAIN w : Len(w[i]) + IV_SIZE <= maxLength
      /\ \A o \in Orders(Len(w)) : FragmentationRestore(Arrived(w, o)) = <<b>>
  BY <1>1, FragmentationInverts, Zenon DEF Buffers
<1> HIDE DEF w
<1> QED
  BY <1>2, <1>3, <1>5, <1>6 DEF b

LEMMA SequenceArrives ==
  ASSUME Given, codec = "sequence"
  PROVE  /\ Encoded \in Lists
         /\ \A o \in Orders(Len(Encoded)) : wire = Arrived(Encoded, o) => Decoded = <<input.data>>
<1> DEFINE b == input.data
           s == Sent(<<b>>)
<1>1. b \in Buffers /\ Unlike(b)
  BY InputIs
<1>2. Encoded = <<MakePacket(SampleSequence), b>>
  BY DEF Encoded
<1>3. Decoded = FlatMap(wire, OfSequence)
  BY DEF Decoded
<1> HIDE DEF b
<1>4. <<MakePacket(SampleSequence), b>> = <<MakePacket(SampleSequence)>> \o <<b>>
  OBVIOUS
<1>5. Encoded = s
  BY <1>2, <1>4 DEF Sent
<1>6. s \in Lists /\ Len(s) = 2
  <2>1. <<b>> \in Lists /\ Len(<<b>>) = 1
    BY <1>1, OneListed
  <2> DEFINE E == <<b>>
  <2> HIDE DEF E
  <2>2. Sent(E) \in Lists /\ Len(Sent(E)) = Len(E) + 1
    BY <2>1, SentIs DEF E
  <2> QED
    BY <2>1, <2>2 DEF E
<1>7. \A o \in Orders(2) : FlatMap(Arrived(s, o), OfSequence) = <<b>>
  BY <1>1, SequenceInverts DEF Buffers
<1> HIDE DEF s
<1> QED
  BY <1>3, <1>5, <1>6, <1>7 DEF b

LEMMA ProteanArrives ==
  ASSUME Given, codec = "protean"
  PROVE  /\ Encoded \in Lists
         /\ \A i \in 2..Len(Encoded) : Len(Encoded[i]) <= maxLength + CHUNK_SIZE
         /\ \A o \in Orders(Len(Encoded)) : wire = Arrived(Encoded, o) => Decoded = <<input.data>>
<1> DEFINE b == input.data
           key == input.key
           E == ProteanTransform(key, maxLength, b)
           s == Sent(E)
<1>1. b \in Buffers /\ Len(Lengths(b)) < 256 /\ key \in Octets
  BY InputIs
<1>2. Encoded = s
  BY DEF Encoded, Sent
<1>3. Decoded = ProteanRestore(key, {SampleSequence}, wire)
  BY DEF Decoded
<1> HIDE DEF b, key
<1>4. /\ E \in Seq(Seq(Octets)) /\ \A i \in DOMAIN E : Len(E[i]) <= maxLength + CHUNK_SIZE
      /\ \A o \in Orders(Len(E) + 1) : ProteanRestore(key, {SampleSequence}, Arrived(Sent(E), o)) = <<b>>
  BY <1>1, ProteanInverts, Zenon DEF Buffers
<1>5. E \in Lists
  BY <1>4, Zenon DEF Lists, Buffers
<1> HIDE DEF E
<1>6. /\ s \in Lists /\ Len(s) = Len(E) + 1 /\ \A i \in 1..Len(E) : s[i + 1] = E[i]
      /\ Len(E) \in Nat /\ DOMAIN E = 1..Len(E)
  BY <1>5, SentIs DEF Lists
<1>7. \A o \in Orders(Len(s)) : ProteanRestore(key, {SampleSequence}, Arrived(s, o)) = <<b>>
  BY <1>4, <1>6
<1> HIDE DEF s
<1>8. ASSUME NEW i \in 2..Len(s) PROVE Len(s[i]) <= maxLength + CHUNK_SIZE
  <2>1. i - 1 \in 1..Len(E) /\ (i - 1) + 1 = i
    BY <1>6
  <2>2. s[i] = E[i - 1]
    BY <1>6, <2>1
  <2> QED
    BY <1>4, <1>6, <2>1, <2>2
<1> QED
  BY <1>2, <1>3, <1>6, <1>7, <1>8 DEF b


-----------------------------------------------------------------------------
(* The runs *)

\* What is on its way is what is sent, in its order or the reverse of it; the last step gives
\* what it is restored to.
CodecsInv ==
  /\ step \in Steps
  /\ codec \in Transforming => input \in Inputs
  /\ codec = "frequencies" => input \in Tables
  /\ step = "decode" => wire = Encoded
  /\ step # "encode" => wire \in {Encoded, Reverse(Encoded)}
  /\ step = "done" => output = Decoded

LEMMA InitCodecs == Init => CodecsInv
<1> SUFFICES ASSUME Init PROVE CodecsInv
  OBVIOUS
<1>1. step = "encode"
  BY DEF Init
<1>2. codec \in Transforming => input \in Inputs
  BY DEF Init, Transforming, Inputs
<1>3. codec = "frequencies" => input \in Tables
  BY DEF Init, Transforming
<1> QED
  BY <1>1, <1>2, <1>3 DEF CodecsInv, Steps

LEMMA SameInput ==
  ASSUME codec' = codec, input' = input
  PROVE  Encoded' = Encoded /\ (wire' = wire => Decoded' = Decoded)
<1>1. Encoded' = Encoded
  BY Zenon DEF Encoded
<1>2. ASSUME wire' = wire PROVE Decoded' = Decoded
  BY <1>2, Zenon DEF Decoded
<1> QED
  BY <1>1, <1>2

LEMMA NextCodecs == CodecsInv /\ [Next]_vars => CodecsInv'
<1> SUFFICES ASSUME CodecsInv, [Next]_vars PROVE CodecsInv'
  OBVIOUS
<1>1. codec' = codec /\ input' = input
  BY DEF Next, Send, Reorder, Receive, vars
<1>2. Encoded' = Encoded /\ (wire' = wire => Decoded' = Decoded)
  BY <1>1, SameInput, Zenon
<1>3. /\ codec' \in Transforming => input' \in Inputs
      /\ codec' = "frequencies" => input' \in Tables
  BY <1>1 DEF CodecsInv
<1>4. CASE Send
  <2>1. step' = "decode" /\ wire' = Encoded
    BY <1>4 DEF Send
  <2> QED
    BY <1>1, <1>2, <1>3, <2>1 DEF CodecsInv, Steps, Inputs, Tables
<1>5. CASE Reorder
  <2>1. step = "decode" /\ step' = "reordered" /\ wire' = Reverse(wire)
    BY <1>5 DEF Reorder
  <2>2. wire = Encoded
    BY <2>1 DEF CodecsInv
  <2> QED
    BY <1>1, <1>2, <1>3, <2>1, <2>2 DEF CodecsInv, Steps, Inputs, Tables
<1>6. CASE Receive
  <2>1. step # "encode" /\ step' = "done" /\ wire' = wire /\ output' = Decoded
    BY <1>6 DEF Receive
  <2> QED
    BY <1>1, <1>2, <1>3, <2>1 DEF CodecsInv, Steps, Inputs, Tables
<1>7. CASE UNCHANGED vars
  <2>1. step' = step /\ wire' = wire /\ output' = output
    BY <1>7 DEF vars
  <2> QED
    BY <1>1, <1>2, <1>3, <2>1 DEF CodecsInv, Inputs, Tables
<1> QED
  BY <1>4, <1>5, <1>6, <1>7 DEF Next

LEMMA Arrives ==
  ASSUME Given, wire \in {Encoded, Reverse(Encoded)}
  PROVE  Decoded = <<input.data>>
<1>1. /\ Encoded \in Lists
      /\ \A o \in Orders(Len(Encoded)) : wire = Arrived(Encoded, o) => Decoded = <<input.data>>
  <2>1. codec \in Transforming
    BY InputIs
  <2> QED
    BY <2>1, CaesarArrives, EncryptionArrives, DecompressionArrives, FragmentationArrives,
       SequenceArrives, ProteanArrives DEF Transforming
<1>2. PICK o \in Orders(Len(Encoded)) : wire = Arrived(Encoded, o)
  BY <1>1, TheOrder, TheReverse
<1> QED
  BY <1>1, <1>2

LEMMA TableIs ==
  ASSUME NEW t \in Tables
  PROVE  t \in [1..256 -> Nat \ {0}]
<1> DEFINE N == 256
<1>1. \A n \in Numbers \ {0} : n \in Nat \ {0}
  BY NumbersAssumption
<1>2. N \in Nat
  OBVIOUS
<1> HIDE DEF N
<1>3. ASSUME NEW n \in Nat \ {0} PROVE Repeated(n, N) \in [1..N -> Nat \ {0}]
  BY <1>2 DEF Repeated
<1>4. ASSUME NEW n \in Nat \ {0} PROVE [i \in 1..N |-> i * n] \in [1..N -> Nat \ {0}]
  BY <1>2
<1>5. ASSUME NEW n \in Nat \ {0} PROVE [i \in 1..N |-> IF i = 1 THEN n ELSE 1] \in [1..N -> Nat \ {0}]
  OBVIOUS
<1>6. \/ \E n \in Numbers \ {0} : t = Repeated(n, N)
      \/ \E n \in Numbers \ {0} : t = [i \in 1..N |-> i * n]
      \/ \E n \in Numbers \ {0} : t = [i \in 1..N |-> IF i = 1 THEN n ELSE 1]
  BY DEF Tables, N
<1>7. t \in [1..N -> Nat \ {0}]
  BY <1>1, <1>3, <1>4, <1>5, <1>6
<1> QED
  BY <1>7 DEF N

LEMMA Inverted == CodecsInv => TransformersInvert
<1> SUFFICES ASSUME CodecsInv PROVE TransformersInvert
  OBVIOUS
<1>1. ASSUME step = "done", codec \in Transforming PROVE output = <<input.data>>
  <2>1. Given /\ wire \in {Encoded, Reverse(Encoded)} /\ output = Decoded
    BY <1>1 DEF CodecsInv, Given
  <2> QED
    BY <2>1, Arrives
<1>2. ASSUME step = "decode", codec = "fragmentation"
      PROVE  \A i \in DOMAIN wire : Len(wire[i]) + IV_SIZE <= maxLength
  <2>1. Given /\ wire = Encoded
    BY <1>2 DEF CodecsInv, Given, Transforming
  <2> QED
    BY <1>2, <2>1, FragmentationArrives
<1>3. ASSUME step = "decode", codec = "protean"
      PROVE  \A i \in 2..Len(wire) : Len(wire[i]) <= maxLength + CHUNK_SIZE
  <2>1. Given /\ wire = Encoded
    BY <1>3 DEF CodecsInv, Given, Transforming
  <2> QED
    BY <1>3, <2>1, ProteanArrives
<1>4. ASSUME step = "decode", codec = "frequencies"
      PROVE  Range(wire[1]) \subseteq 1..256 /\ SumOf(wire[1]) < 16384
  <2>1. input \in [1..256 -> Nat \ {0}]
    BY <1>4, TableIs DEF CodecsInv
  <2>2. wire = <<AdjustProbs(input)>>
    BY <1>4 DEF CodecsInv, Encoded
  <2>3. wire[1] = AdjustProbs(input)
    BY <2>2
  <2> QED
    BY <2>1, <2>3, FrequenciesFit
<1> QED
  BY <1>1, <1>2, <1>3, <1>4, SMT DEF TransformersInvert

\* Each of the transformers gives back what it was given, fragments are no longer than allowed,
\* and the frequencies fit the coder: for every set of sizes that the fields of the fragments
\* have room for, every set of keys and every maxLength with room for a fragment.
THEOREM TransformersAlwaysInvert == Spec => []TransformersInvert
<1>1. Init => CodecsInv
  BY InitCodecs
<1>2. CodecsInv /\ [Next]_vars => CodecsInv'
  BY NextCodecs
<1>3. CodecsInv => TransformersInvert
  BY Inverted
<1> QED
  BY <1>1, <1>2, <1>3, PTL DEF Spec

-----------------------------------------------------------------------------
(* The messages of SOCKS *)

\* A number of 16 bits is two bytes, and comes back from them.
LEMMA ShortDecoded ==
  ASSUME NEW n \in Shorts16
  PROVE  /\ EncodeShort(n) \in Seq(Octets) /\ Len(EncodeShort(n)) = 2
         /\ EncodeShort(n)[1] * 256 + EncodeShort(n)[2] = n
<1>1. (n \div 256) \in Octets /\ n % 256 \in Octets /\ (n \div 256) * 256 + (n % 256) = n
  BY DEF Shorts16, Octets
<1>2. (n \div 256) % 256 = n \div 256
  <2>1. \A k \in Octets : k % 256 = k
    BY DEF Octets
  <2> QED
    BY <1>1, <2>1
<1> QED
  BY <1>1, <1>2 DEF EncodeShort

\* The numbers of 16 bits of an address come back from its bytes.
LEMMA ShortBytesAre ==
  ASSUME NEW a \in Seq(Shorts16)
  PROVE  /\ ShortBytes(a) \in Seq(Octets) /\ Len(ShortBytes(a)) = 2 * Len(a)
         /\ Shorts(ShortBytes(a)) = a
<1> DEFINE s == ShortBytes(a)
<1>1. \A i \in 1..(2 * Len(a)) : (i + 1) \div 2 \in 1..Len(a) /\ 2 - (i % 2) \in {1, 2}
  OBVIOUS
<1>2. \A i \in 1..(2 * Len(a)) : /\ a[(i + 1) \div 2] \in Shorts16
                               /\ s[i] = EncodeShort(a[(i + 1) \div 2])[2 - (i % 2)]
  BY <1>1 DEF ShortBytes
<1>3. \A n \in Shorts16 : EncodeShort(n)[1] \in Octets /\ EncodeShort(n)[2] \in Octets
  BY ShortDecoded
<1>4. \A i \in 1..(2 * Len(a)) : s[i] \in Octets
  BY <1>1, <1>2, <1>3
<1>5. s \in Seq(Octets) /\ Len(s) = 2 * Len(a)
  BY <1>4 DEF ShortBytes
<1>6. \A i \in 1..Len(a) : DecodeShort(SubSeq(s, 2 * i - 1, 2 * i)) = a[i]
  <2> SUFFICES ASSUME NEW i \in 1..Len(a) PROVE DecodeShort(SubSeq(s, 2 * i - 1, 2 * i)) = a[i]
    OBVIOUS
  <2>1. 2 * i - 1 \in 1..(2 * Len(a)) /\ 2 * i \in 1..(2 * Len(a))
    OBVIOUS
  <2>2. ((2 * i - 1) + 1) \div 2 = i /\ (2 * i + 1) \div 2 = i /\ 2 - ((2 * i - 1) % 2) = 1
        /\ 2 - ((2 * i) % 2) = 2
    OBVIOUS
  <2>3. s[2 * i - 1] = EncodeShort(a[i])[1] /\ s[2 * i] = EncodeShort(a[i])[2] /\ a[i] \in Shorts16
    BY <1>2, <2>1, <2>2
  <2> HIDE DEF s
  <2>4. SubSeq(s, 2 * i - 1, 2 * i)[1] = s[2 * i - 1] /\ SubSeq(s, 2 * i - 1, 2 * i)[2] = s[2 * i]
    BY <1>5, <2>1, SubSeqProperties
  <2> QED
    BY <2>3, <2>4, ShortDecoded DEF DecodeShort
<1> HIDE DEF s
<1>7. Shorts(s) = [i \in 1..((2 * Len(a)) \div 2) |-> DecodeShort(SubSeq(s, 2 * i - 1, 2 * i))]
  BY <1>5 DEF Shorts
<1>8. (2 * Len(a)) \div 2 = Len(a) /\ a = [i \in 1..Len(a) |-> a[i]]
  OBVIOUS
<1>9. Shorts(s) = a
  BY <1>6, <1>7, <1>8
<1> QED
  BY <1>5, <1>9 DEF s

\* Two buffers joined, byte by byte.
LEMMA OctetsJoined ==
  ASSUME NEW s \in Seq(Octets), NEW t \in Seq(Octets)
  PROVE  /\ s \o t \in Seq(Octets) /\ Len(s \o t) = Len(s) + Len(t)
         /\ \A i \in 1..(Len(s) + Len(t)) : (s \o t)[i] = IF i <= Len(s) THEN s[i] ELSE t[i - Len(s)]
  BY ConcatProperties

\* The types of addresses are three.
LEMMA ThreeTypes == IP_V4 # IP_V6 /\ IP_V4 # DNS /\ IP_V6 # DNS /\ {IP_V4, IP_V6, DNS} \subseteq Octets
  BY DEF IP_V4, IP_V6, DNS, Octets

\* A destination, in front of what follows it: what tells the length of the address, the
\* address and the port.
Laid(x, y, p, rest) == ((x \o y) \o EncodeShort(p)) \o rest

Has(b, x, y, p, rest) ==
  /\ b \in Seq(Octets) /\ Len(b) = Len(x) + Len(y) + 2 + Len(rest)
  /\ \A i \in 1..Len(x) : b[i] = x[i]
  /\ \A i \in 1..Len(y) : b[Len(x) + i] = y[i]
  /\ b[Len(x) + Len(y) + 1] * 256 + b[Len(x) + Len(y) + 2] = p
  /\ \A i \in 1..Len(rest) : b[Len(x) + Len(y) + 2 + i] = rest[i]

\* Where in a destination its parts are.
LEMMA LaidOut ==
  ASSUME NEW x \in Seq(Octets), NEW y \in Seq(Octets), NEW p \in Shorts16,
         NEW rest \in Seq(Octets)
  PROVE  Has(Laid(x, y, p, rest), x, y, p, rest)
<1> DEFINE z == EncodeShort(p)
           w == x \o y
           v == w \o z
           b == v \o rest
<1>1. z \in Seq(Octets) /\ Len(z) = 2 /\ z[1] * 256 + z[2] = p
  BY ShortDecoded
<1> HIDE DEF z
<1>2. /\ w \in Seq(Octets) /\ Len(w) = Len(x) + Len(y)
      /\ \A i \in 1..(Len(x) + Len(y)) : w[i] = IF i <= Len(x) THEN x[i] ELSE y[i - Len(x)]
  BY OctetsJoined
<1> HIDE DEF w
<1>3. /\ v \in Seq(Octets) /\ Len(v) = Len(w) + Len(z)
      /\ \A i \in 1..(Len(w) + Len(z)) : v[i] = IF i <= Len(w) THEN w[i] ELSE z[i - Len(w)]
  BY <1>1, <1>2, OctetsJoined
<1> HIDE DEF v
<1>4. /\ b \in Seq(Octets) /\ Len(b) = Len(v) + Len(rest)
      /\ \A i \in 1..(Len(v) + Len(rest)) : b[i] = IF i <= Len(v) THEN v[i] ELSE rest[i - Len(v)]
  BY <1>3, OctetsJoined
<1>5. b = Laid(x, y, p, rest)
  BY DEF b, v, w, z, Laid
<1> HIDE DEF b
<1>6. Len(x) \in Nat /\ Len(y) \in Nat /\ Len(rest) \in Nat
  OBVIOUS
<1>7. Len(v) = Len(x) + Len(y) + 2 /\ Len(b) = Len(x) + Len(y) + 2 + Len(rest)
  BY <1>1, <1>2, <1>3, <1>4, <1>6
<1>8. \A i \in 1..Len(x) : b[i] = x[i]
  BY <1>2, <1>3, <1>4, <1>6, <1>1
<1>9. \A i \in 1..Len(y) : b[Len(x) + i] = y[i]
  <2> SUFFICES ASSUME NEW i \in 1..Len(y) PROVE b[Len(x) + i] = y[i]
    OBVIOUS
  <2> DEFINE j == Len(x) + i
  <2>1. j \in 1..(Len(x) + Len(y)) /\ ~(j <= Len(x)) /\ j - Len(x) = i
    BY <1>6
  <2> HIDE DEF j
  <2>2. w[j] = y[i]
    BY <1>2, <2>1
  <2>3. v[j] = w[j]
    BY <1>1, <1>2, <1>3, <1>6, <2>1
  <2>4. b[j] = v[j]
    BY <1>4, <1>6, <1>7, <2>1
  <2> QED
    BY <2>2, <2>3, <2>4 DEF j
<1>10. b[Len(x) + Len(y) + 1] = z[1] /\ b[Len(x) + Len(y) + 2] = z[2]
  <2> DEFINE n == Len(x) + Len(y)
  <2>1. n \in Nat /\ Len(w) = n /\ Len(v) = n + 2
    BY <1>2, <1>6, <1>7
  <2> HIDE DEF n
  <2>2. v[n + 1] = z[1] /\ v[n + 2] = z[2]
    BY <1>1, <1>3, <2>1
  <2>3. b[n + 1] = v[n + 1] /\ b[n + 2] = v[n + 2]
    BY <1>4, <1>6, <2>1
  <2> QED
    BY <2>2, <2>3 DEF n
<1>11. \A i \in 1..Len(rest) : b[Len(x) + Len(y) + 2 + i] = rest[i]
  <2>1. ASSUME NEW i \in 1..Len(rest) PROVE b[Len(v) + i] = rest[i]
    <3>1. Len(v) \in Nat
      BY <1>6, <1>7
    <3>2. /\ Len(v) + i \in 1..(Len(v) + Len(rest)) /\ ~(Len(v) + i <= Len(v))
          /\ Len(v) + i - Len(v) = i
      BY <1>6, <3>1
    <3> QED
      BY <1>4, <3>2
  <2> QED
    BY <1>7, <2>1
<1>12. b[Len(x) + Len(y) + 1] * 256 + b[Len(x) + Len(y) + 2] = p
  BY <1>1, <1>10
<1> QED
  BY <1>4, <1>5, <1>7, <1>8, <1>9, <1>11, <1>12, Zenon DEF Has

\* It is read as it was laid out, if the length of the address is.
LEMMA LaidRead ==
  ASSUME NEW x \in Seq(Octets), NEW y \in Seq(Octets), NEW p \in Shorts16,
         NEW rest \in Seq(Octets), Len(x) \in {1, 2}, y # <<>>
  PROVE  /\ SubSeq(Laid(x, y, p, rest), Len(x) + 1, Len(x) + 1 + Len(y) - 1) = y
         /\ DecodeShort(SubSeq(Laid(x, y, p, rest), Len(x) + 1 + Len(y), Len(x) + 1 + Len(y) + 1)) = p
         /\ Drop(Laid(x, y, p, rest), Len(x) + 1 + Len(y) + 1) = rest
<1> DEFINE b == Laid(x, y, p, rest)
           n == Len(x)
           k == Len(y)
           l == Len(rest)
<1>0. Has(b, x, y, p, rest)
  BY LaidOut
<1> HIDE DEF b
<1>1. /\ b \in Seq(Octets) /\ Len(b) = n + k + 2 + l
      /\ \A i \in 1..k : b[n + i] = y[i]
      /\ b[n + k + 1] * 256 + b[n + k + 2] = p
      /\ \A i \in 1..l : b[n + k + 2 + i] = rest[i]
  BY <1>0 DEF Has
<1>2. n \in {1, 2} /\ k \in Nat /\ k > 0 /\ l \in Nat
  OBVIOUS
<1> HIDE DEF b, n, k, l
<1>3. SubSeq(b, n + 1, n + k) = y
  <2>1. /\ SubSeq(b, n + 1, n + k) \in Seq(Octets) /\ Len(SubSeq(b, n + 1, n + k)) = k
        /\ \A i \in 1..k : SubSeq(b, n + 1, n + k)[i] = b[n + i]
    BY <1>1, <1>2, SubSeqProperties
  <2>2. \A i \in 1..Len(y) : SubSeq(b, n + 1, n + k)[i] = y[i]
    BY <1>1, <2>1 DEF k
  <2> QED
    BY <2>1, <2>2, SeqEqual DEF k
<1>4. DecodeShort(SubSeq(b, n + k + 1, n + k + 2)) = p
  <2>1. /\ SubSeq(b, n + k + 1, n + k + 2)[1] = b[n + k + 1]
        /\ SubSeq(b, n + k + 1, n + k + 2)[2] = b[n + k + 2]
    BY <1>1, <1>2, SubSeqProperties
  <2> QED
    BY <1>1, <2>1 DEF DecodeShort
<1>5. SubSeq(b, n + k + 3, Len(b)) = rest
  <2> DEFINE t == SubSeq(b, n + k + 3, Len(b))
  <2>1. t \in Seq(Octets) /\ Len(t) = l /\ \A i \in 1..l : t[i] = b[n + k + 2 + i]
    <3>1. CASE l = 0
      BY <1>1, <1>2, <3>1, SubSeqProperties, SubSeqEmpty
    <3>2. CASE l > 0
      BY <1>1, <1>2, <3>2, SubSeqProperties
    <3> QED
      BY <1>2, <3>1, <3>2
  <2> HIDE DEF t
  <2>2. \A i \in 1..Len(rest) : t[i] = rest[i]
    BY <1>1, <2>1 DEF l
  <2>3. t = rest
    BY <2>1, <2>2, SeqEqual DEF l
  <2> QED
    BY <2>3 DEF t
<1>6. /\ n + 1 + k - 1 = n + k /\ n + 1 + k = n + k + 1 /\ n + 1 + k + 1 = n + k + 2
      /\ n + 1 + k + 1 + 1 = n + k + 3
  BY <1>2
<1> QED
  BY <1>3, <1>4, <1>5, <1>6 DEF b, n, k, Drop

\* What is read when the address is y.
ReadAs(t, y, p, n) ==
  <<[endpoint |-> [type |-> t, address |-> IF t = IP_V6 THEN Shorts(y) ELSE y, port |-> p],
     addressByteLength |-> n]>>

\* The type of an address, with the length of a name behind it, and the bytes of the address.
Addresses(t, x, y) ==
  /\ t \in {IP_V4, IP_V6, DNS} /\ x \in Seq(Octets) /\ y \in Seq(Octets) /\ y # <<>>
  /\ x[1] = t /\ Len(x) = IF t = DNS THEN 2 ELSE 1
  /\ (t = IP_V4 => Len(y) = 4) /\ (t = IP_V6 => Len(y) = 16) /\ (t = DNS => x[2] = Len(y))

\* What InterpretDestination makes of it: the address and the port, and where they end.
LEMMA LaidInterpreted ==
  ASSUME NEW t, NEW x, NEW y, Addresses(t, x, y), NEW p \in Shorts16, NEW rest \in Seq(Octets)
  PROVE  InterpretDestination(Laid(x, y, p, rest)) = ReadAs(t, y, p, Len(x) + Len(y) + 2)
<1> DEFINE b == Laid(x, y, p, rest)
           size == Len(y)
           from == Len(x) + 1
<1>0. /\ t \in {IP_V4, IP_V6, DNS} /\ x \in Seq(Octets) /\ y \in Seq(Octets) /\ y # <<>>
      /\ x[1] = t /\ Len(x) = (IF t = DNS THEN 2 ELSE 1)
      /\ (t = IP_V4 => Len(y) = 4) /\ (t = IP_V6 => Len(y) = 16) /\ (t = DNS => x[2] = Len(y))
  BY DEF Addresses
<1>1. Len(x) \in {1, 2} /\ from = (IF t = DNS THEN 3 ELSE 2) /\ size \in Nat
  BY <1>0
<1>2. Has(b, x, y, p, rest)
  BY <1>0, LaidOut
<1>3. /\ SubSeq(b, from, from + size - 1) = y
      /\ DecodeShort(SubSeq(b, from + size, from + size + 1)) = p
  BY <1>0, <1>1, LaidRead
<1> HIDE DEF b
<1>4. b[1] = t /\ (t = DNS => b[2] = size)
  BY <1>0, <1>1, <1>2 DEF Has
<1> HIDE DEF size
<1>5. AddressSize(b) = size
  <2>1. (t = IP_V4 => size = 4) /\ (t = IP_V6 => size = 16)
    BY <1>0 DEF size
  <2> QED
    BY <1>0, <1>4, <2>1, ThreeTypes, Zenon DEF AddressSize
<1>6. from + size + 1 = Len(x) + Len(y) + 2
  BY <1>1 DEF size
<1> HIDE DEF from
<1>7. InterpretDestination(b) = ReadAs(t, y, p, from + size + 1)
  <2>1. from = IF t = DNS THEN 3 ELSE 2
    BY <1>1
  <2>2. b[1] = t
    BY <1>4
  <2>3. t \in {IP_V4, DNS, IP_V6}
    BY <1>0
  <2>4. SubSeq(b, from, from + size - 1) = y
    BY <1>3
  <2>5. DecodeShort(SubSeq(b, from + size, from + size + 1)) = p
    BY <1>3
  <2> QED
    BY <1>5, <2>1, <2>2, <2>3, <2>4, <2>5, Zenon DEF InterpretDestination, ReadAs
<1> QED
  BY <1>6, <1>7, Zenon DEF b

\* A message with endpoint e in it, that takes n bytes: e is understood whatever follows,
\* and so is where it ends.
Carries(e, n) ==
  /\ n \in Nat /\ ComposeDestination(e) \in Seq(Octets) /\ Len(ComposeDestination(e)) = n
  /\ \A rest \in Seq(Octets) :
       /\ InterpretDestination(ComposeDestination(e) \o rest) =
            <<[endpoint |-> e, addressByteLength |-> n]>>
       /\ Drop(ComposeDestination(e) \o rest, n) = rest

\* An endpoint that is composed of such parts is carried.
LEMMA LaidCarries ==
  ASSUME NEW t, NEW x, NEW y, Addresses(t, x, y), NEW e, NEW p \in Shorts16,
         ComposeDestination(e) = (x \o y) \o EncodeShort(p),
         e = [type |-> t, address |-> IF t = IP_V6 THEN Shorts(y) ELSE y, port |-> p]
  PROVE  Carries(e, Len(x) + Len(y) + 2)
<1> DEFINE d == ComposeDestination(e)
           n == Len(x) + Len(y) + 2
<1>0. x \in Seq(Octets) /\ y \in Seq(Octets) /\ y # <<>>
  BY DEF Addresses
<1>1. Len(x) \in {1, 2} /\ Len(y) \in Nat
  BY <1>0 DEF Addresses
<1>2. \A rest \in Seq(Octets) : Laid(x, y, p, rest) = d \o rest
  BY DEF Laid
<1>3. ASSUME NEW rest \in Seq(Octets)
      PROVE  InterpretDestination(d \o rest) = <<[endpoint |-> e, addressByteLength |-> n]>>
  <2>1. InterpretDestination(Laid(x, y, p, rest)) = ReadAs(t, y, p, n)
    BY LaidInterpreted
  <2>2. ReadAs(t, y, p, n) = <<[endpoint |-> e, addressByteLength |-> n]>>
    BY Zenon DEF ReadAs
  <2> QED
    BY <1>2, <2>1, <2>2, Zenon
<1>4. ASSUME NEW rest \in Seq(Octets) PROVE Drop(d \o rest, n) = rest
  <2>1. Drop(Laid(x, y, p, rest), Len(x) + 1 + Len(y) + 1) = rest
    BY <1>0, <1>1, LaidRead
  <2>2. Len(x) + 1 + Len(y) + 1 = n
    BY <1>1
  <2> QED
    BY <1>2, <2>1, <2>2
<1>5. d \in Seq(Octets) /\ Len(d) = n
  <2> DEFINE w == x \o y
             z == EncodeShort(p)
  <2>1. z \in Seq(Octets) /\ Len(z) = 2
    BY ShortDecoded
  <2>2. w \in Seq(Octets) /\ Len(w) = Len(x) + Len(y)
    BY <1>0, OctetsJoined
  <2>3. d = w \o z
    OBVIOUS
  <2> HIDE DEF w, z, d
  <2>4. d \in Seq(Octets) /\ Len(d) = Len(w) + Len(z)
    BY <2>1, <2>2, <2>3, OctetsJoined
  <2> QED
    BY <1>1, <2>1, <2>2, <2>4
<1>6. n \in Nat
  BY <1>1
<1> QED
  BY <1>3, <1>4, <1>5, <1>6 DEF Carries

\* A buffer of one byte.
LEMMA OneByte ==
  ASSUME NEW m \in Octets
  PROVE  <<m>> \in Seq(Octets) /\ Len(<<m>>) = 1 /\ <<m>>[1] = m
OBVIOUS

\* A buffer of two bytes.
LEMMA TwoBytes ==
  ASSUME NEW m \in Octets, NEW n \in Octets
  PROVE  /\ <<m, n>> \in Seq(Octets) /\ Len(<<m, n>>) = 2 /\ <<m, n>>[1] = m /\ <<m, n>>[2] = n
         /\ <<m>> \o <<n>> = <<m, n>>
<1>1. <<m, n>> \in Seq(Octets)
  OBVIOUS
<1>2. Len(<<m, n>>) = 2 /\ <<m, n>>[1] = m /\ <<m, n>>[2] = n
  OBVIOUS
<1>3. <<m>> \o <<n>> = <<m, n>>
  <2> DEFINE x == <<m>>
             y == <<n>>
             z == <<m, n>>
  <2>1. x \in Seq(Octets) /\ y \in Seq(Octets) /\ Len(x) = 1 /\ Len(y) = 1 /\ x[1] = m /\ y[1] = n
    BY OneByte
  <2>2. z \in Seq(Octets) /\ Len(z) = 2 /\ z[1] = m /\ z[2] = n
    BY <1>1, <1>2
  <2> HIDE DEF x, y, z
  <2>3. /\ x \o y \in Seq(Octets) /\ Len(x \o y) = 2
        /\ \A i \in 1..2 : (x \o y)[i] = IF i <= 1 THEN x[i] ELSE y[i - 1]
    <3>1. /\ x \o y \in Seq(Octets) /\ Len(x \o y) = Len(x) + Len(y)
          /\ \A i \in 1..(Len(x) + Len(y)) : (x \o y)[i] = IF i <= Len(x) THEN x[i] ELSE y[i - Len(x)]
      BY <2>1, OctetsJoined
    <3> QED
      BY <2>1, <3>1
  <2>4. \A i \in 1..2 : (x \o y)[i] = z[i]
    BY <2>1, <2>2, <2>3
  <2>5. x \o y = z
    BY <2>2, <2>3, <2>4, SeqEqual
  <2> QED
    BY <2>5 DEF x, y, z
<1> QED
  BY <1>1, <1>2, <1>3

\* Endpoints with an IPv4 address are carried,
LEMMA AddressV4 ==
  ASSUME NEW a \in Seq(Octets), Len(a) = 4, NEW p \in Shorts16
  PROVE  Carries([type |-> IP_V4, address |-> a, port |-> p], 7)
<1> DEFINE e == [type |-> IP_V4, address |-> a, port |-> p]
           x == <<IP_V4>>
<1>1. x \in Seq(Octets) /\ Len(x) = 1 /\ x[1] = IP_V4 /\ a # <<>>
  BY ThreeTypes, OneByte
<1>2. ComposeDestination(e) = (x \o a) \o EncodeShort(p)
  <2>1. e.type = IP_V4 /\ e.address = a /\ e.port = p
    OBVIOUS
  <2> HIDE DEF e
  <2> QED
    BY <2>1, ThreeTypes, Zenon DEF ComposeDestination
<1>3. e = [type |-> IP_V4, address |-> IF IP_V4 = IP_V6 THEN Shorts(a) ELSE a, port |-> p]
  BY ThreeTypes
<1>4. IP_V4 \in {IP_V4, IP_V6, DNS} /\ IP_V4 # DNS /\ IP_V4 # IP_V6
  BY ThreeTypes
<1> HIDE DEF x, e
<1>5. Carries(e, Len(x) + Len(a) + 2)
  <2>1. Addresses(IP_V4, x, a)
    BY <1>1, <1>4 DEF Addresses
  <2> QED
    BY <1>2, <1>3, <2>1, LaidCarries, Zenon
<1>6. Len(x) + Len(a) + 2 = 7
  BY <1>1
<1> QED
  BY <1>5, <1>6 DEF e

\* those with an IPv6 address,
LEMMA AddressV6 ==
  ASSUME NEW a \in Seq(Shorts16), Len(a) = 8, NEW p \in Shorts16
  PROVE  Carries([type |-> IP_V6, address |-> a, port |-> p], 19)
<1> DEFINE e == [type |-> IP_V6, address |-> a, port |-> p]
           x == <<IP_V6>>
           y == ShortBytes(a)
<1>1. x \in Seq(Octets) /\ Len(x) = 1 /\ x[1] = IP_V6
  <2>1. IP_V6 \in Octets
    BY ThreeTypes
  <2> QED
    BY <2>1, OneByte
<1>2. y \in Seq(Octets) /\ Len(y) = 16 /\ Shorts(y) = a
  <2>1. y \in Seq(Octets) /\ Len(y) = 2 * Len(a) /\ Shorts(y) = a
    BY ShortBytesAre, Zenon
  <2> HIDE DEF y
  <2>2. Len(y) = 16
    BY <2>1
  <2> QED
    BY <2>1, <2>2
<1>3. ComposeDestination(e) = (x \o y) \o EncodeShort(p)
  <2>1. e.type = IP_V6 /\ e.address = a /\ e.port = p
    OBVIOUS
  <2> HIDE DEF e
  <2> QED
    BY <2>1, ThreeTypes, Zenon DEF ComposeDestination
<1> HIDE DEF y
<1>4. e = [type |-> IP_V6, address |-> IF IP_V6 = IP_V6 THEN Shorts(y) ELSE y, port |-> p]
  <2>1. (IF IP_V6 = IP_V6 THEN Shorts(y) ELSE y) = a
    BY <1>2, Zenon
  <2> QED
    BY <2>1, Zenon DEF e
<1>5. IP_V6 \in {IP_V4, IP_V6, DNS} /\ IP_V6 # DNS /\ IP_V6 # IP_V4
  BY ThreeTypes
<1> HIDE DEF x, e
<1>6. Carries(e, Len(x) + Len(y) + 2)
  <2>1. y # <<>>
    <3>1. ASSUME y = <<>> PROVE FALSE
      <4>1. Len(y) = 0
        BY <3>1
      <4> QED
        BY <1>2, <4>1
    <3> QED
      BY <3>1
  <2>2. Addresses(IP_V6, x, y)
    BY <1>1, <1>2, <1>5, <2>1 DEF Addresses
  <2> QED
    BY <1>3, <1>4, <2>2, LaidCarries, Zenon
<1>7. Len(x) + Len(y) + 2 = 19
  BY <1>1, <1>2
<1> QED
  BY <1>6, <1>7 DEF e

\* and those with a name of at most 255 characters.
LEMMA AddressName ==
  ASSUME NEW a \in Seq(Octets), Len(a) \in 1..255, NEW p \in Shorts16
  PROVE  Carries([type |-> DNS, address |-> a, port |-> p], Len(a) + 4)
<1> DEFINE e == [type |-> DNS, address |-> a, port |-> p]
           x == <<DNS, Len(a)>>
           k == Len(a)
<1>0. k \in Octets /\ k \in 1..255 /\ DNS \in Octets
  <2>1. k \in 1..255
    OBVIOUS
  <2> HIDE DEF k
  <2> QED
    BY <2>1, ThreeTypes DEF Octets
<1>1. x \in Seq(Octets) /\ Len(x) = 2 /\ x[1] = DNS /\ x[2] = Len(a) /\ a # <<>>
  <2> HIDE DEF k
  <2>1. a # <<>>
    <3>1. CASE a = <<>>
      <4>1. k = 0
        BY <3>1 DEF k
      <4> QED
        BY <1>0, <4>1
    <3> QED
      BY <3>1
  <2>2. <<DNS, k>> \in Seq(Octets) /\ Len(<<DNS, k>>) = 2 /\ <<DNS, k>>[1] = DNS /\ <<DNS, k>>[2] = k
    BY <1>0, TwoBytes
  <2> QED
    BY <2>1, <2>2 DEF k
<1>2. Truncated(k) = k
  <2> HIDE DEF k
  <2> QED
    BY <1>0 DEF Truncated
<1>3. <<DNS>> \o (<<k>> \o a) = x \o a
  <2> HIDE DEF k
  <2>1. <<DNS>> \in Seq(Octets) /\ <<k>> \in Seq(Octets) /\ <<DNS>> \o <<k>> = <<DNS, k>>
    BY <1>0, OneByte, TwoBytes
  <2>2. <<DNS>> \o (<<k>> \o a) = (<<DNS>> \o <<k>>) \o a
    BY <2>1, ConcatAssociative
  <2> QED
    BY <2>1, <2>2 DEF k
<1>4. ComposeDestination(e) = (x \o a) \o EncodeShort(p)
  <2>1. e.type = DNS /\ e.address = a /\ e.port = p
    OBVIOUS
  <2> HIDE DEF e
  <2>2. ComposeDestination(e) = <<DNS>> \o (<<Truncated(Len(a))>> \o a) \o EncodeShort(p)
    BY <2>1, ThreeTypes, Zenon DEF ComposeDestination
  <2> QED
    BY <1>2, <1>3, <2>2
<1>5. e = [type |-> DNS, address |-> IF DNS = IP_V6 THEN Shorts(a) ELSE a, port |-> p]
  BY ThreeTypes
<1>6. DNS \in {IP_V4, IP_V6, DNS} /\ DNS # IP_V4 /\ DNS # IP_V6
  BY ThreeTypes
<1> HIDE DEF x, e
<1>7. Carries(e, Len(x) + Len(a) + 2)
  <2>1. Addresses(DNS, x, a)
    BY <1>1, <1>6, Zenon DEF Addresses
  <2> QED
    BY <1>4, <1>5, <2>1, LaidCarries, Zenon
<1>8. Len(x) + Len(a) + 2 = Len(a) + 4
  BY <1>1
<1> QED
  BY <1>7, <1>8 DEF e

\* The endpoints a message can hold; names have 1 to 255 characters.
SocksEndpoints ==
  [type : {IP_V4}, address : {a \in Seq(Octets) : Len(a) = 4}, port : Shorts16]
  \cup [type : {IP_V6}, address : {a \in Seq(Shorts16) : Len(a) = 8}, port : Shorts16]
  \cup [type : {DNS}, address : {a \in Seq(Octets) : Len(a) \in 1..255}, port : Shorts16]

\* The shortest of them: a name of one character.
Shortest(e) == e.type = DNS /\ Len(e.address) = 1

\* How many bytes an endpoint takes.
Extent(e) == IF e.type = IP_V4 THEN 7 ELSE IF e.type = IP_V6 THEN 19 ELSE Len(e.address) + 4

\* e is carried, in as many bytes as its extent tells.
Carried(e) ==
  /\ Carries(e, Extent(e)) /\ Extent(e) \in Nat /\ Extent(e) >= 5
  /\ (Shortest(e) <=> Extent(e) < 6) /\ e.port \in Shorts16

\* Every endpoint is.
LEMMA EndpointCarried == ASSUME NEW e \in SocksEndpoints PROVE Carried(e)
<1>1. CASE e \in [type : {IP_V4}, address : {a \in Seq(Octets) : Len(a) = 4}, port : Shorts16]
  <2>1. PICK a \in Seq(Octets), p \in Shorts16 :
          Len(a) = 4 /\ e = [type |-> IP_V4, address |-> a, port |-> p]
    <3>1. e.address \in Seq(Octets) /\ Len(e.address) = 4 /\ e.port \in Shorts16
          /\ e = [type |-> IP_V4, address |-> e.address, port |-> e.port]
      BY <1>1
    <3> QED
      BY <3>1
  <2>2. e.type = IP_V4 /\ e.port = p
    BY <2>1
  <2>3. Extent(e) = 7 /\ ~Shortest(e)
    BY <2>2, ThreeTypes DEF Extent, Shortest
  <2>4. Carries(e, 7)
    BY <2>1, AddressV4
  <2> QED
    BY <2>2, <2>3, <2>4 DEF Carried
<1>2. CASE e \in [type : {IP_V6}, address : {a \in Seq(Shorts16) : Len(a) = 8}, port : Shorts16]
  <2>1. PICK a \in Seq(Shorts16), p \in Shorts16 :
          Len(a) = 8 /\ e = [type |-> IP_V6, address |-> a, port |-> p]
    <3>1. e.address \in Seq(Shorts16) /\ Len(e.address) = 8 /\ e.port \in Shorts16
          /\ e = [type |-> IP_V6, address |-> e.address, port |-> e.port]
      BY <1>2
    <3> QED
      BY <3>1
  <2>2. e.type = IP_V6 /\ e.port = p
    BY <2>1
  <2>3. Extent(e) = 19 /\ ~Shortest(e)
    BY <2>2, ThreeTypes DEF Extent, Shortest
  <2>4. Carries(e, 19)
    BY <2>1, AddressV6
  <2> QED
    BY <2>2, <2>3, <2>4 DEF Carried
<1>3. CASE e \in [type : {DNS}, address : {a \in Seq(Octets) : Len(a) \in 1..255}, port : Shorts16]
  <2>1. PICK a \in Seq(Octets), p \in Shorts16 :
          Len(a) \in 1..255 /\ e = [type |-> DNS, address |-> a, port |-> p]
    <3>1. e.address \in Seq(Octets) /\ Len(e.address) \in 1..255 /\ e.port \in Shorts16
          /\ e = [type |-> DNS, address |-> e.address, port |-> e.port]
      BY <1>3
    <3> QED
      BY <3>1
  <2>2. e.type = DNS /\ e.port = p /\ e.address = a
    BY <2>1
  <2>3. Extent(e) = Len(a) + 4 /\ (Shortest(e) <=> Len(a) = 1)
    BY <2>2, ThreeTypes, Zenon DEF Extent, Shortest
  <2>4. Carries(e, Len(a) + 4)
    BY <2>1, AddressName
  <2>5. Len(a) \in 1..255
    BY <2>1
  <2> DEFINE k == Len(a)
  <2> HIDE DEF k
  <2>6. k \in 1..255 /\ Extent(e) = k + 4 /\ (Shortest(e) <=> k = 1)
    BY <2>3, <2>5, Zenon DEF k
  <2>7. Extent(e) \in Nat /\ Extent(e) >= 5 /\ (Extent(e) < 6 <=> k = 1)
    BY <2>6
  <2>8. Carries(e, Extent(e)) /\ (Shortest(e) <=> Extent(e) < 6)
    BY <2>3, <2>4, <2>6, <2>7, Zenon
  <2>9. e.port \in Shorts16
    BY <2>2
  <2> QED
    <3>1. Extent(e) \in Nat /\ Extent(e) >= 5
      BY <2>7
    <3>2. Carries(e, Extent(e)) /\ (Shortest(e) <=> Extent(e) < 6)
      BY <2>8
    <3> QED
      BY <2>9, <3>1, <3>2, Zenon DEF Carried
<1> QED
  BY <1>1, <1>2, <1>3 DEF SocksEndpoints

\* What is behind the three bytes of a header.
LEMMA Behind ==
  ASSUME NEW x \in Octets, NEW y \in Octets, NEW z \in Octets, NEW d \in Seq(Octets)
  PROVE  /\ <<x, y, z>> \o d \in Seq(Octets) /\ Len(<<x, y, z>> \o d) = 3 + Len(d)
         /\ Drop(<<x, y, z>> \o d, 3) = d
         /\ (<<x, y, z>> \o d)[1] = x /\ (<<x, y, z>> \o d)[2] = y /\ (<<x, y, z>> \o d)[3] = z
<1> DEFINE h == <<x, y, z>>
           b == h \o d
<1>1. h \in Seq(Octets) /\ Len(h) = 3 /\ h[1] = x /\ h[2] = y /\ h[3] = z
  OBVIOUS
<1> HIDE DEF h
<1>2. /\ b \in Seq(Octets) /\ Len(b) = 3 + Len(d)
      /\ \A i \in 1..(3 + Len(d)) : b[i] = IF i <= 3 THEN h[i] ELSE d[i - 3]
  <2>1. /\ b \in Seq(Octets) /\ Len(b) = Len(h) + Len(d)
        /\ \A i \in 1..(Len(h) + Len(d)) : b[i] = IF i <= Len(h) THEN h[i] ELSE d[i - Len(h)]
    BY <1>1, OctetsJoined, Zenon
  <2> HIDE DEF b
  <2> QED
    BY <1>1, <2>1
<1>3. b[1] = x /\ b[2] = y /\ b[3] = z
  BY <1>1, <1>2
<1> HIDE DEF b
<1>4. SubSeq(b, 4, Len(b)) = d
  <2>1. /\ SubSeq(b, 4, Len(b)) \in Seq(Octets) /\ Len(SubSeq(b, 4, Len(b))) = Len(d)
        /\ \A i \in 1..Len(d) : SubSeq(b, 4, Len(b))[i] = b[4 + i - 1]
    <3>1. CASE Len(d) = 0
      BY <1>2, <3>1, SubSeqProperties, SubSeqEmpty
    <3>2. CASE Len(d) > 0
      BY <1>2, <3>2, SubSeqProperties
    <3> QED
      BY <3>1, <3>2
  <2>2. \A i \in 1..Len(d) : SubSeq(b, 4, Len(b))[i] = d[i]
    BY <1>2, <2>1
  <2> QED
    BY <2>1, <2>2, SeqEqual
<1>5. Drop(b, 3) = d
  BY <1>4 DEF Drop
<1> QED
  BY <1>2, <1>3, <1>5 DEF b, h

\* isValidEndpoint takes every port.
LEMMA ValidPort ==
  ASSUME NEW e, e.port \in Shorts16
  PROVE  IsValidEndpoint(e)
<1>1. e.port \in Nat /\ e.port < 65536
  BY DEF Shorts16
<1> QED
  BY <1>1 DEF IsValidEndpoint

\* To drop from what is left is to drop more.
LEMMA DroppedTwice ==
  ASSUME NEW s \in Seq(Octets), NEW m \in Nat, NEW n \in Nat, m + n <= Len(s)
  PROVE  Drop(Drop(s, m), n) = Drop(s, m + n)
<1> DEFINE t == SubSeq(s, m + 1, Len(s))
           u == SubSeq(t, n + 1, Len(t))
           v == SubSeq(s, m + n + 1, Len(s))
           k == Len(s)
<1>1. k \in Nat /\ m + n <= k
  OBVIOUS
<1>2. t \in Seq(Octets) /\ Len(t) = k - m /\ \A i \in 1..(k - m) : t[i] = s[m + i]
  <2>1. CASE m = k
    BY <2>1, <1>1, SubSeqProperties, SubSeqEmpty
  <2>2. CASE m < k
    BY <2>2, <1>1, SubSeqProperties
  <2> QED
    BY <1>1, <2>1, <2>2
<1>3. v \in Seq(Octets) /\ Len(v) = k - m - n /\ \A i \in 1..(k - m - n) : v[i] = s[m + n + i]
  <2>1. CASE m + n = k
    BY <2>1, <1>1, SubSeqProperties, SubSeqEmpty
  <2>2. CASE m + n < k
    BY <2>2, <1>1, SubSeqProperties
  <2> QED
    BY <1>1, <2>1, <2>2
<1> HIDE DEF t, v
<1>4. u \in Seq(Octets) /\ Len(u) = k - m - n /\ \A i \in 1..(k - m - n) : u[i] = t[n + i]
  <2>1. CASE m + n = k
    BY <2>1, <1>1, <1>2, SubSeqProperties, SubSeqEmpty
  <2>2. CASE m + n < k
    BY <2>2, <1>1, <1>2, SubSeqProperties
  <2> QED
    BY <1>1, <2>1, <2>2
<1> HIDE DEF u, k
<1>5. \A i \in 1..(k - m - n) : n + i \in 1..(k - m) /\ m + (n + i) = m + n + i
  BY <1>1
<1>6. \A i \in 1..(k - m - n) : u[i] = v[i]
  BY <1>2, <1>3, <1>4, <1>5
<1>7. u = v
  BY <1>3, <1>4, <1>6, SeqEqual
<1> QED
  BY <1>7 DEF u, v, t, Drop

\* An endpoint with nothing behind it.
LEMMA CarriedUnderstood ==
  ASSUME NEW e \in SocksEndpoints
  PROVE  /\ ComposeDestination(e) \in Seq(Octets) /\ Len(ComposeDestination(e)) = Extent(e)
         /\ InterpretDestination(ComposeDestination(e)) =
              <<[endpoint |-> e, addressByteLength |-> Extent(e)]>>
         /\ Extent(e) \in Nat /\ Extent(e) >= 5 /\ (Shortest(e) <=> Extent(e) < 6)
         /\ e.port \in Shorts16
<1> DEFINE d == ComposeDestination(e)
           n == Extent(e)
<1>1. Carries(e, n) /\ n \in Nat /\ n >= 5 /\ (Shortest(e) <=> n < 6) /\ e.port \in Shorts16
  BY EndpointCarried DEF Carried
<1>2. d \in Seq(Octets) /\ Len(d) = n
  BY <1>1 DEF Carries
<1>3. <<>> \in Seq(Octets)
  OBVIOUS
<1>4. InterpretDestination(d \o <<>>) = <<[endpoint |-> e, addressByteLength |-> n]>>
  BY <1>1, <1>3, Zenon DEF Carries
<1> HIDE DEF d, n
<1>5. d \o <<>> = d
  BY <1>2, ConcatEmptySeq
<1>6. InterpretDestination(d) = <<[endpoint |-> e, addressByteLength |-> n]>>
  BY <1>4, <1>5
<1> QED
  BY <1>1, <1>2, <1>6 DEF d, n

\* Requests of SOCKS clients, for every address and port: what is asked for is what was
\* meant, or the request is refused: a command nobody serves, and a name of one character,
\* which makes it shorter than any interpretRequest takes.
THEOREM RequestUnderstood ==
  \A e \in SocksEndpoints, command \in {1, 2, 3} :
    InterpretRequest(ComposeRequest([command |-> command, endpoint |-> e])) =
      IF command = Commands.TCP_BIND \/ Shortest(e) THEN Fails
      ELSE <<[command |-> command, endpoint |-> e]>>
<1> SUFFICES ASSUME NEW e \in SocksEndpoints, NEW command \in {1, 2, 3}
             PROVE  InterpretRequest(ComposeRequest([command |-> command, endpoint |-> e])) =
                      IF command = Commands.TCP_BIND \/ Shortest(e)
                      THEN Fails ELSE <<[command |-> command, endpoint |-> e]>>
  OBVIOUS
<1> DEFINE r == [command |-> command, endpoint |-> e]
           d == ComposeDestination(e)
           b == <<VERSION5, command, 0>> \o d
           n == Extent(e)
<1>1. ComposeRequest(r) = b
  BY DEF ComposeRequest
<1>2. VERSION5 \in Octets /\ command \in Octets /\ 0 \in Octets
  BY DEF VERSION5, Octets
<1>3. /\ d \in Seq(Octets) /\ Len(d) = n
      /\ InterpretDestination(d) = <<[endpoint |-> e, addressByteLength |-> n]>>
      /\ n \in Nat /\ n >= 5 /\ (Shortest(e) <=> n < 6) /\ e.port \in Shorts16
  BY CarriedUnderstood
<1> HIDE DEF d, n
<1>4. /\ Len(b) = 3 + n /\ Drop(b, 3) = d /\ b[1] = VERSION5 /\ b[2] = command
  BY <1>2, <1>3, Behind
<1> HIDE DEF b
<1>5. Len(b) < 9 <=> Shortest(e)
  BY <1>3, <1>4
<1>6. /\ Commands.TCP_CONNECT = 1 /\ Commands.TCP_BIND = 2 /\ Commands.UDP_ASSOCIATE = 3
  BY DEF Commands
<1>7. IsValidRequest(r)
  <2>1. Range(<<1, 2, 3>>) = {1, 2, 3}
    BY DEF Range
  <2>2. r.command = command /\ r.endpoint = e
    OBVIOUS
  <2> HIDE DEF r
  <2>3. IsValidEndpoint(e)
    <3>1. e.port \in Shorts16
      BY <1>3
    <3> QED
      BY <3>1, ValidPort
  <2>4. r.command \in Range(<<1, 2, 3>>)
    BY <2>1, <2>2
  <2> QED
    BY <2>2, <2>3, <2>4, Zenon DEF IsValidRequest
<1>8. InterpretDestination(d)[1].endpoint = e /\ InterpretDestination(d) # Fails
  BY <1>3 DEF Fails
<1>9. [command |-> b[2], endpoint |-> InterpretDestination(d)[1].endpoint] = r
  BY <1>4, <1>8
<1> HIDE DEF r
<1>10. CASE Len(b) < 9 \/ command \notin {1, 3}
  <2>1. InterpretRequest(b) = Fails
    BY <1>4, <1>6, <1>10, Zenon DEF InterpretRequest
  <2>2. command = Commands.TCP_BIND \/ Shortest(e)
    BY <1>5, <1>6, <1>10
  <2> QED
    BY <1>1, <2>1, <2>2, Zenon DEF r
<1>11. CASE ~(Len(b) < 9) /\ command \in {1, 3}
  <2>1. InterpretRequest(b) = <<r>>
    BY <1>4, <1>6, <1>7, <1>8, <1>9, <1>11, Zenon DEF InterpretRequest
  <2>2. ~(command = Commands.TCP_BIND \/ Shortest(e))
    BY <1>5, <1>6, <1>11
  <2> QED
    BY <1>1, <2>1, <2>2, Zenon DEF r
<1> QED
  BY <1>10, <1>11

\* Responses of the getter, for every reply, address and port: the client reads the reply and
\* the endpoint that were meant; an endpoint that is left out is 0.0.0.0, port 0.
THEOREM ResponseUnderstood ==
  \A reply \in Replies, endpoint \in {<<>>} \cup {<<e>> : e \in SocksEndpoints} :
    InterpretResponse(ComposeResponse([reply |-> reply, endpoint |-> endpoint])) =
      <<[reply |-> reply, endpoint |-> IF endpoint = <<>> THEN NoEndpoint ELSE endpoint[1]]>>
<1> SUFFICES ASSUME NEW reply \in Replies, NEW endpoint \in {<<>>} \cup {<<e>> : e \in SocksEndpoints}
             PROVE  InterpretResponse(ComposeResponse([reply |-> reply, endpoint |-> endpoint])) =
                      <<[reply |-> reply,
                         endpoint |-> IF endpoint = <<>> THEN NoEndpoint ELSE endpoint[1]]>>
  OBVIOUS
<1> DEFINE e == IF endpoint = <<>> THEN NoEndpoint ELSE endpoint[1]
           r == [reply |-> reply, endpoint |-> endpoint]
           q == [reply |-> reply, endpoint |-> e]
           d == ComposeDestination(e)
           b == <<VERSION5, reply, 0>> \o d
           n == Extent(e)
<1>1. e \in SocksEndpoints
  <2>1. CASE endpoint = <<>>
    <3>1. NoEndpoint \in SocksEndpoints
      <4>1. <<0, 0, 0, 0>> \in Seq(Octets) /\ Len(<<0, 0, 0, 0>>) = 4
        BY DEF Octets
      <4>2. 0 \in Shorts16
        BY DEF Shorts16
      <4> QED
        BY <4>1, <4>2 DEF NoEndpoint, SocksEndpoints
    <3> QED
      BY <2>1, <3>1
  <2>2. CASE endpoint # <<>>
    <3>1. PICK f \in SocksEndpoints : endpoint = <<f>>
      BY <2>2
    <3> QED
      BY <2>2, <3>1
  <2> QED
    BY <2>1, <2>2
<1>2. r.endpoint = endpoint /\ r.reply = reply
  OBVIOUS
<1>3. ComposeResponse(r) = b
  <2> HIDE DEF r
  <2> QED
    BY <1>2, Zenon DEF ComposeResponse
<1> HIDE DEF e, r
<1>4. VERSION5 \in Octets /\ reply \in Octets /\ 0 \in Octets
  BY DEF VERSION5, Octets, Replies, SUCCEEDED
<1>5. /\ d \in Seq(Octets) /\ e.port \in Shorts16
      /\ InterpretDestination(d) = <<[endpoint |-> e, addressByteLength |-> n]>>
  BY <1>1, CarriedUnderstood
<1> HIDE DEF d, n
<1>6. Drop(b, 3) = d /\ b[1] = VERSION5 /\ b[2] = reply
  BY <1>4, <1>5, Behind
<1> HIDE DEF b
<1>7. InterpretDestination(d)[1].endpoint = e /\ InterpretDestination(d) # Fails
  BY <1>5 DEF Fails
<1>8. IsValidResponse(q)
  <2>1. q.reply = reply /\ q.endpoint = e
    OBVIOUS
  <2> HIDE DEF q
  <2>2. IsValidEndpoint(e)
    <3>1. e.port \in Shorts16
      BY <1>5
    <3> QED
      BY <3>1, ValidPort
  <2> QED
    BY <2>1, <2>2, Zenon DEF IsValidResponse
<1> HIDE DEF q
<1>9. [reply |-> b[2], endpoint |-> InterpretDestination(d)[1].endpoint] = q
  BY <1>6, <1>7, Zenon DEF q
<1>10. InterpretResponse(b) = <<q>>
  BY <1>6, <1>7, <1>8, <1>9, Zenon DEF InterpretResponse
<1> QED
  BY <1>3, <1>10, Zenon DEF q, e, r

\* Datagrams of SOCKS clients, for every address, port and payload: the payload comes out
\* whole, with its endpoint; a fragment, and what is too short to be a datagram, is refused.
THEOREM UdpMessageUnderstood ==
  \A e \in SocksEndpoints, data \in Seq(Octets), frag \in Octets :
    InterpretUdpMessage(<<0, 0, frag>> \o (ComposeDestination(e) \o data)) =
      IF frag # 0 \/ Extent(e) + Len(data) < 7 THEN Fails
      ELSE <<[endpoint |-> e, data |-> data]>>
<1> SUFFICES ASSUME NEW e \in SocksEndpoints, NEW data \in Seq(Octets), NEW frag \in Octets
             PROVE  InterpretUdpMessage(<<0, 0, frag>> \o (ComposeDestination(e) \o data)) =
                      IF frag # 0 \/ Extent(e) + Len(data) < 7 THEN Fails
                      ELSE <<[endpoint |-> e, data |-> data]>>
  OBVIOUS
<1> DEFINE d == ComposeDestination(e)
           t == d \o data
           b == <<0, 0, frag>> \o t
           n == Extent(e)
           l == Len(data)
<1>1. /\ d \in Seq(Octets) /\ Len(d) = n /\ n \in Nat
      /\ InterpretDestination(t) = <<[endpoint |-> e, addressByteLength |-> n]>>
      /\ Drop(t, n) = data
  <2>1. Carries(e, n)
    BY EndpointCarried DEF Carried
  <2> QED
    BY <2>1 DEF Carries
<1>2. l \in Nat
  OBVIOUS
<1> HIDE DEF d, n
<1>3. t \in Seq(Octets) /\ Len(t) = n + l
  BY <1>1, OctetsJoined
<1> HIDE DEF t, l
<1>4. b \in Seq(Octets) /\ Len(b) = 3 + (n + l) /\ Drop(b, 3) = t /\ b[3] = frag
  <2>1. 0 \in Octets
    BY DEF Octets
  <2> QED
    BY <1>3, <2>1, Behind
<1> HIDE DEF b
<1>5. Drop(b, 3 + n) = data
  <2>1. Drop(Drop(b, 3), n) = Drop(b, 3 + n)
    BY <1>1, <1>2, <1>4, DroppedTwice
  <2> QED
    BY <1>1, <1>4, <2>1
<1>6. /\ InterpretDestination(t)[1].endpoint = e /\ InterpretDestination(t) # Fails
      /\ InterpretDestination(t)[1].addressByteLength = n
  BY <1>1 DEF Fails
<1>7. Len(b) < 10 <=> n + l < 7
  BY <1>1, <1>2, <1>4
<1>8. CASE Len(b) < 10 \/ frag # 0
  <2>1. InterpretUdpMessage(b) = Fails
    BY <1>4, <1>8, Zenon DEF InterpretUdpMessage
  <2> QED
    BY <1>7, <1>8, <2>1, Zenon DEF b, t, d, n, l
<1>9. CASE ~(Len(b) < 10) /\ frag = 0
  <2>1. InterpretUdpMessage(b) = <<[endpoint |-> e, data |-> data]>>
    BY <1>4, <1>5, <1>6, <1>9, Zenon DEF InterpretUdpMessage
  <2> QED
    BY <1>7, <1>9, <2>1, Zenon DEF b, t, d, n, l
<1> QED
  BY <1>8, <1>9

\* Handshakes of SOCKS clients, for every list of methods: the getter reads the list that was
\* meant, and refuses it only when the client insists on authentication.
THEOREM HandshakeUnderstood ==
  \A auths \in Seq(Octets) : Len(auths) \in 1..255 =>
    /\ ComposeAuthHandshake(auths) = <<ComposeAuthHandshake(auths)[1]>>
    /\ InterpretAuthHandshake(ComposeAuthHandshake(auths)[1]) =
         IF NOAUTH \in Range(auths) THEN <<auths>> ELSE Fails
<1> SUFFICES ASSUME NEW auths \in Seq(Octets), Len(auths) \in 1..255
             PROVE  /\ ComposeAuthHandshake(auths) = <<ComposeAuthHandshake(auths)[1]>>
                    /\ InterpretAuthHandshake(ComposeAuthHandshake(auths)[1]) =
                         IF NOAUTH \in Range(auths) THEN <<auths>> ELSE Fails
  OBVIOUS
<1> DEFINE k == Len(auths)
           h == <<VERSION5, k>>
           b == h \o auths
<1>1. k \in 1..255
  OBVIOUS
<1> HIDE DEF k
<1>2. k \in Octets /\ VERSION5 \in Octets
  BY <1>1 DEF Octets, VERSION5
<1>3. h \in Seq(Octets) /\ Len(h) = 2 /\ h[1] = VERSION5 /\ h[2] = k
  BY <1>2, TwoBytes
<1>4. auths # <<>>
  <2>1. ASSUME auths = <<>> PROVE FALSE
    <3>1. k = 0
      BY <2>1 DEF k
    <3> QED
      BY <1>1, <3>1
  <2> QED
    BY <2>1
<1>5. b = <<VERSION5, Len(auths)>> \o auths
  BY DEF k
<1> HIDE DEF h
<1>6. /\ b \in Seq(Octets) /\ Len(b) = 2 + k
      /\ \A i \in 1..(2 + k) : b[i] = IF i <= 2 THEN h[i] ELSE auths[i - 2]
  <2>1. /\ b \in Seq(Octets) /\ Len(b) = Len(h) + Len(auths)
        /\ \A i \in 1..(Len(h) + Len(auths)) : b[i] = IF i <= Len(h) THEN h[i] ELSE auths[i - Len(h)]
    BY <1>3, OctetsJoined
  <2> HIDE DEF b
  <2> QED
    BY <1>3, <2>1 DEF k
<1> HIDE DEF b
<1>7. b[1] = VERSION5 /\ b[2] = k
  BY <1>1, <1>3, <1>6
<1>8. ComposeAuthHandshake(auths) = <<b>>
  BY <1>4, <1>5, Zenon DEF ComposeAuthHandshake
<1>9. SubSeq(b, 3, 2 + k) = auths
  <2>1. /\ SubSeq(b, 3, 2 + k) \in Seq(Octets) /\ Len(SubSeq(b, 3, 2 + k)) = k
        /\ \A i \in 1..k : SubSeq(b, 3, 2 + k)[i] = b[3 + i - 1]
    <3> DEFINE m == 2 + k
    <3>1. m \in Nat /\ 3 <= m /\ m - 3 + 1 = k
      BY <1>1
    <3>a. Len(b) = m /\ b \in Seq(Octets)
      BY <1>6, Zenon
    <3> HIDE DEF m
    <3>2. /\ SubSeq(b, 3, m) \in Seq(Octets) /\ Len(SubSeq(b, 3, m)) = m - 3 + 1
          /\ \A i \in 1..(m - 3 + 1) : SubSeq(b, 3, m)[i] = b[3 + i - 1]
      BY <3>1, <3>a, SubSeqProperties
    <3> QED
      BY <3>1, <3>2 DEF m
  <2>2. \A i \in 1..k : 3 + i - 1 \in 1..(2 + k) /\ ~(3 + i - 1 <= 2) /\ 3 + i - 1 - 2 = i
    BY <1>1
  <2>3. \A i \in 1..k : SubSeq(b, 3, 2 + k)[i] = auths[i]
    BY <1>6, <2>1, <2>2
  <2> QED
    BY <2>1, <2>3, SeqEqual DEF k
<1>10. InterpretAuthHandshake(b) = IF NOAUTH \in Range(auths) THEN <<auths>> ELSE Fails
  BY <1>7, <1>9, Zenon DEF InterpretAuthHandshake
<1>11. <<b>>[1] = b
  OBVIOUS
<1> QED
  BY <1>8, <1>10, <1>11, Zenon

-----------------------------------------------------------------------------
(* Numbers and their digits *)

Mixed(number, base, digit) == number * base + digit

LEMMA OfDigitsIs ==
  ASSUME NEW base \in Nat, NEW s \in Seq(Nat), NEW f, f[0] = 0,
         \A i \in 1..Len(s) : f[i] = Mixed(f[i - 1], base, s[i])
  PROVE  OfDigits(s, base) = f[Len(s)]
<1> DEFINE N == Len(s)
           Round(g, i) == IF i = 0 THEN 0 ELSE Mixed(g[i - 1], base, s[i])
           number == CHOOSE g : g = [i \in 0..N |-> Round(g, i)]
           h == [i \in 0..N |-> f[i]]
<1>1. OfDigits(s, base) = number[N]
  BY DEF OfDigits, Mixed
<1>2. N \in Nat /\ N \in 0..N /\ 0 \in 0..N
  OBVIOUS
<1>3. \A i \in 1..N : i \in 0..N /\ i - 1 \in 0..N /\ i # 0
  BY <1>2
<1>4. \A i \in 0..N : i = 0 \/ i \in 1..N
  BY <1>2
<1> HIDE DEF N
<1>5. ASSUME NEW i \in 0..N PROVE f[i] = Round(h, i)
  <2>1. CASE i = 0
    BY <2>1
  <2>2. CASE i # 0
    <3>1. i \in 1..N /\ h[i - 1] = f[i - 1]
      BY <1>3, <1>4, <2>2
    <3> QED
      BY <2>2, <3>1 DEF N
  <2> QED
    BY <2>1, <2>2
<1>6. h = [i \in 0..N |-> Round(h, i)]
  <2>1. h = [i \in 0..N |-> f[i]]
    OBVIOUS
  <2> HIDE DEF Round, h
  <2> QED
    BY <1>5, <2>1, Zenon
<1>7. number = [i \in 0..N |-> Round(number, i)]
  <2> HIDE DEF Round, h
  <2> QED
    BY <1>6, Zenon
<1> HIDE DEF number
<1> DEFINE U == {i \in 0..N : number[i] = f[i]}
<1>8. 0 \in U
  BY <1>2, <1>7
<1>9. ASSUME NEW i \in 1..N, i - 1 \in U PROVE i \in U
  <2>1. number[i] = Mixed(number[i - 1], base, s[i])
    BY <1>3, <1>7
  <2>2. number[i - 1] = f[i - 1] /\ f[i] = Mixed(f[i - 1], base, s[i])
    BY <1>9 DEF N
  <2> QED
    BY <1>3, <2>1, <2>2
<1>10. N \in U
  <2> HIDE DEF U
  <2> QED
    BY <1>2, <1>8, <1>9, Upwards
<1> QED
  BY <1>1, <1>10 DEF N

LEMMA NumbersOfDigits ==
  ASSUME NEW base \in Nat, NEW s \in Seq(Nat)
  PROVE  \E f : /\ f[0] = 0
                /\ \A i \in 1..Len(s) : f[i] = Mixed(f[i - 1], base, s[i])
                /\ \A i \in 0..Len(s) : f[i] \in Nat
<1> DEFINE N == Len(s)
           T == [i \in 0..N |-> Nat]
           next == [i \in 1..N |-> [x \in Nat |-> Mixed(x, base, s[i])]]
<1>1. N \in Nat /\ \A i \in 1..N : s[i] \in Nat /\ i \in 0..N /\ i - 1 \in 0..N /\ i # 0
  OBVIOUS
<1>2. \A i \in 0..N : T[i] = Nat
  OBVIOUS
<1>3. \A i \in 1..N, x \in Nat : next[i][x] = Mixed(x, base, s[i])
  OBVIOUS
<1>4. 0 \in 0..N
  BY <1>1
<1> HIDE DEF T, next, N
<1>5. ASSUME NEW i \in 1..N, NEW x \in Nat PROVE Mixed(x, base, s[i]) \in Nat
  BY <1>1 DEF Mixed
<1>6. ASSUME NEW i \in 1..N, NEW x \in T[i - 1] PROVE next[i][x] \in T[i]
  <2>1. x \in Nat
    BY <1>1, <1>2
  <2>2. Mixed(x, base, s[i]) \in Nat
    BY <1>5, <2>1
  <2> QED
    BY <1>1, <1>2, <1>3, <2>1, <2>2
<1>7. IsLoop(N, T, 0, next)
  BY <1>1, <1>2, <1>4, <1>6 DEF IsLoop
<1>8. PICK f : /\ f = [i \in 0..N |-> IF i = 0 THEN 0 ELSE next[i][f[i - 1]]]
               /\ \A i \in 0..N : f[i] \in T[i]
  BY <1>7, Loop
<1>9. f[0] = 0 /\ \A i \in 0..N : f[i] \in Nat
  BY <1>2, <1>4, <1>8
<1>10. ASSUME NEW i \in 1..N PROVE f[i] = Mixed(f[i - 1], base, s[i])
  <2>1. f[i] = next[i][f[i - 1]]
    BY <1>1, <1>8
  <2>2. f[i - 1] \in Nat
    BY <1>1, <1>9
  <2> QED
    BY <1>3, <2>1, <2>2
<1> QED
  BY <1>9, <1>10 DEF N

\* One digit more.
LEMMA OfDigitsAppends ==
  ASSUME NEW base \in Nat, NEW s \in Seq(Nat), NEW d \in Nat
  PROVE  /\ OfDigits(s, base) \in Nat
         /\ OfDigits(Append(s, d), base) = Mixed(OfDigits(s, base), base, d)
<1> DEFINE N == Len(s)
           t == Append(s, d)
<1>1. N \in Nat /\ t \in Seq(Nat) /\ Len(t) = N + 1 /\ t[N + 1] = d /\ \A i \in 1..N : t[i] = s[i]
  OBVIOUS
<1>2. PICK f : /\ f[0] = 0 /\ \A i \in 1..N : f[i] = Mixed(f[i - 1], base, s[i])
               /\ \A i \in 0..N : f[i] \in Nat
  BY NumbersOfDigits
<1>3. OfDigits(s, base) = f[N] /\ f[N] \in Nat
  BY <1>1, <1>2, OfDigitsIs
<1> HIDE DEF N, t
<1> DEFINE g == [i \in 0..(N + 1) |-> IF i = N + 1 THEN Mixed(f[N], base, d) ELSE f[i]]
<1>4. /\ g[0] = 0 /\ g[N + 1] = Mixed(f[N], base, d) /\ g[N] = f[N]
      /\ \A i \in 1..N : g[i] = f[i] /\ g[i - 1] = f[i - 1]
  BY <1>1, <1>2
<1> HIDE DEF g
<1>5. ASSUME NEW i \in 1..(N + 1) PROVE g[i] = Mixed(g[i - 1], base, t[i])
  <2>1. CASE i = N + 1
    <3>1. i - 1 = N
      BY <1>1, <2>1
    <3> QED
      BY <1>1, <1>4, <2>1, <3>1
  <2>2. CASE i # N + 1
    <3>1. i \in 1..N
      BY <1>1, <2>2
    <3> QED
      BY <1>1, <1>2, <1>4, <3>1
  <2> QED
    BY <2>1, <2>2
<1>6. OfDigits(t, base) = g[N + 1]
  BY <1>1, <1>4, <1>5, OfDigitsIs
<1> QED
  BY <1>3, <1>4, <1>6 DEF N, t


LEMMA TwoAppended ==
  ASSUME NEW x, NEW y
  PROVE  <<x>> = Append(<<>>, x) /\ <<x, y>> = Append(<<x>>, y)
OBVIOUS

LEMMA FewDigits ==
  ASSUME NEW base \in Nat, NEW d \in Nat, NEW e \in Nat
  PROVE  /\ OfDigits(<<>>, base) = 0 /\ OfDigits(<<d>>, base) = d
         /\ OfDigits(<<d, e>>, base) = Mixed(d, base, e)
<1>1. <<>> \in Seq(Nat) /\ <<d>> \in Seq(Nat) /\ Len(<<>>) = 0
  OBVIOUS
<1>2. OfDigits(<<>>, base) = 0
  <2> DEFINE f == [i \in {0} |-> 0]
             none == <<>>
  <2>1. f[0] = 0
    OBVIOUS
  <2>2. none \in Seq(Nat) /\ Len(none) = 0
    BY <1>1
  <2> HIDE DEF f, none
  <2>3. \A i \in 1..Len(none) : f[i] = Mixed(f[i - 1], base, none[i])
    BY <2>2
  <2>4. OfDigits(none, base) = f[Len(none)]
    BY <2>1, <2>2, <2>3, OfDigitsIs
  <2> QED
    BY <2>1, <2>2, <2>4 DEF none
<1>3. <<d>> = Append(<<>>, d) /\ <<d, e>> = Append(<<d>>, e)
  BY TwoAppended
<1>4. OfDigits(Append(<<>>, d), base) = Mixed(OfDigits(<<>>, base), base, d)
  BY <1>1, OfDigitsAppends, Zenon
<1>5. Mixed(0, base, d) = d
  BY DEF Mixed
<1>6. OfDigits(<<d>>, base) = d
  BY <1>2, <1>3, <1>4, <1>5, Zenon
<1>7. OfDigits(Append(<<d>>, e), base) = Mixed(OfDigits(<<d>>, base), base, e)
  BY <1>1, OfDigitsAppends, Zenon
<1> QED
  BY <1>2, <1>3, <1>6, <1>7, Zenon

LEMMA HexOfByte ==
  ASSUME NEW x \in Octets
  PROVE  Truncated(OfDigits(HexDigits(x), 16)) = x
<1>1. x \in Nat /\ x < 256 /\ (x \div 16) \in Nat /\ (x % 16) \in Nat /\ (x \div 16) * 16 + (x % 16) = x
  BY DEF Octets
<1>2. Truncated(x) = x
  BY <1>1 DEF Truncated
<1> DEFINE q == x \div 16
           r == x % 16
<1>3. q \in Nat /\ r \in Nat /\ Mixed(q, 16, r) = x
  BY <1>1 DEF Mixed
<1>4. 16 \in Nat
  OBVIOUS
<1>5. HexDigits(x) = IF x < 16 THEN <<x>> ELSE <<q, r>>
  BY DEF HexDigits
<1> HIDE DEF q, r
<1>6. OfDigits(<<x>>, 16) = x /\ OfDigits(<<q, r>>, 16) = x
  <2>1. OfDigits(<<x>>, 16) = x
    BY <1>1, <1>4, FewDigits, Zenon
  <2>2. OfDigits(<<q, r>>, 16) = Mixed(q, 16, r)
    BY <1>3, <1>4, FewDigits, Zenon
  <2> QED
    BY <1>3, <2>1, <2>2, Zenon
<1> QED
  BY <1>2, <1>5, <1>6, Zenon

\* The bytes that are written as hex codes, a leading zero of each left out, are read again.
THEOREM HexUnderstood ==
  \A b \in Seq(Octets) : HexStringToArrayBuffer(ArrayBufferToHexString(b)) = b
<1> SUFFICES ASSUME NEW b \in Seq(Octets)
             PROVE  HexStringToArrayBuffer(ArrayBufferToHexString(b)) = b
  OBVIOUS
<1> DEFINE h == ArrayBufferToHexString(b)
<1>1. h = [i \in DOMAIN b |-> HexDigits(b[i])] /\ DOMAIN h = DOMAIN b
  BY DEF ArrayBufferToHexString
<1>2. \A i \in DOMAIN b : b[i] \in Octets
  OBVIOUS
<1>3. b = [i \in DOMAIN b |-> b[i]]
  OBVIOUS
<1> HIDE DEF h
<1>4. HexStringToArrayBuffer(h) = [i \in DOMAIN b |-> Truncated(OfDigits(h[i], 16))]
  BY <1>1 DEF HexStringToArrayBuffer
<1>5. \A i \in DOMAIN b : Truncated(OfDigits(h[i], 16)) = b[i]
  BY <1>1, <1>2, HexOfByte
<1> QED
  BY <1>3, <1>4, <1>5, Zenon DEF h

-----------------------------------------------------------------------------
(* Bits of bytes *)

Weighted(b0, b1, b2, b3, b4, b5, b6, b7) ==
  b0 + 2 * b1 + 4 * b2 + 8 * b3 + 16 * b4 + 32 * b5 + 64 * b6 + 128 * b7

Bit(x, i) == Bits(x, i, 1)

\* A byte is the sum of its bits,
LEMMA BitsOf ==
  ASSUME NEW x \in Octets
  PROVE  /\ \A i \in 0..7 : Bit(x, i) \in {0, 1}
         /\ x = Weighted(Bit(x, 0), Bit(x, 1), Bit(x, 2), Bit(x, 3), Bit(x, 4), Bit(x, 5),
                         Bit(x, 6), Bit(x, 7))
<1> DEFINE h1 == x \div 2
           h2 == x \div 4
           h3 == x \div 8
           h4 == x \div 16
           h5 == x \div 32
           h6 == x \div 64
           h7 == x \div 128
           Halved(n, q, r) == n = 2 * q + r /\ q \in Nat /\ r \in {0, 1}
<1>1. /\ Bit(x, 0) = x % 2 /\ Bit(x, 1) = h1 % 2 /\ Bit(x, 2) = h2 % 2 /\ Bit(x, 3) = h3 % 2
      /\ Bit(x, 4) = h4 % 2 /\ Bit(x, 5) = h5 % 2 /\ Bit(x, 6) = h6 % 2 /\ Bit(x, 7) = h7 % 2
  BY DEF Bit, Bits, Octets
<1>2. x \in Nat /\ x < 256
  BY DEF Octets
<1>3. /\ h1 = x \div 2 /\ h2 = h1 \div 2 /\ h3 = h2 \div 2 /\ h4 = h3 \div 2 /\ h5 = h4 \div 2
      /\ h6 = h5 \div 2 /\ h7 = h6 \div 2 /\ 0 = h7 \div 2
  BY <1>2
<1>4. /\ h1 \in Nat /\ h2 \in Nat /\ h3 \in Nat /\ h4 \in Nat /\ h5 \in Nat /\ h6 \in Nat
      /\ h7 \in Nat
  BY <1>2
<1>5. ASSUME NEW n \in Nat, NEW q, q = n \div 2, NEW r, r = n % 2 PROVE Halved(n, q, r)
  BY <1>5
<1> HIDE DEF h1, h2, h3, h4, h5, h6, h7, Halved
<1>6. /\ Halved(x, h1, Bit(x, 0)) /\ Halved(h1, h2, Bit(x, 1)) /\ Halved(h2, h3, Bit(x, 2))
      /\ Halved(h3, h4, Bit(x, 3)) /\ Halved(h4, h5, Bit(x, 4)) /\ Halved(h5, h6, Bit(x, 5))
      /\ Halved(h6, h7, Bit(x, 6)) /\ Halved(h7, 0, Bit(x, 7))
  BY <1>1, <1>2, <1>3, <1>4, <1>5, Zenon
<1>7. \A i \in 0..7 : i = 0 \/ i = 1 \/ i = 2 \/ i = 3 \/ i = 4 \/ i = 5 \/ i = 6 \/ i = 7
  OBVIOUS
<1>8. \A i \in 0..7 : Bit(x, i) \in {0, 1}
  BY <1>6, <1>7 DEF Halved
<1>9. x = Weighted(Bit(x, 0), Bit(x, 1), Bit(x, 2), Bit(x, 3), Bit(x, 4), Bit(x, 5),
                   Bit(x, 6), Bit(x, 7))
  <2>1. /\ x = 2 * h1 + Bit(x, 0) /\ h1 = 2 * h2 + Bit(x, 1) /\ h2 = 2 * h3 + Bit(x, 2)
        /\ h3 = 2 * h4 + Bit(x, 3) /\ h4 = 2 * h5 + Bit(x, 4) /\ h5 = 2 * h6 + Bit(x, 5)
        /\ h6 = 2 * h7 + Bit(x, 6) /\ h7 = Bit(x, 7)
    BY <1>6 DEF Halved
  <2>2. /\ Bit(x, 0) \in Nat /\ Bit(x, 1) \in Nat /\ Bit(x, 2) \in Nat /\ Bit(x, 3) \in Nat
        /\ Bit(x, 4) \in Nat /\ Bit(x, 5) \in Nat /\ Bit(x, 6) \in Nat /\ Bit(x, 7) \in Nat
    BY ONLY <1>8
  <2> QED
    BY ONLY <1>2, <1>4, <2>1, <2>2 DEF Weighted
<1> QED
  BY <1>8, <1>9

HasBits(x, b0, b1, b2, b3, b4, b5, b6, b7) ==
  /\ x \in Octets
  /\ Bit(x, 0) = b0 /\ Bit(x, 1) = b1 /\ Bit(x, 2) = b2 /\ Bit(x, 3) = b3
  /\ Bit(x, 4) = b4 /\ Bit(x, 5) = b5 /\ Bit(x, 6) = b6 /\ Bit(x, 7) = b7

\* and a sum of bits has these bits.
LEMMA BitsOfSum ==
  ASSUME NEW b0 \in {0, 1}, NEW b1 \in {0, 1}, NEW b2 \in {0, 1}, NEW b3 \in {0, 1},
         NEW b4 \in {0, 1}, NEW b5 \in {0, 1}, NEW b6 \in {0, 1}, NEW b7 \in {0, 1}
  PROVE  HasBits(Weighted(b0, b1, b2, b3, b4, b5, b6, b7), b0, b1, b2, b3, b4, b5, b6, b7)
<1> DEFINE x == Weighted(b0, b1, b2, b3, b4, b5, b6, b7)
           x1 == b1 + 2 * b2 + 4 * b3 + 8 * b4 + 16 * b5 + 32 * b6 + 64 * b7
           x2 == b2 + 2 * b3 + 4 * b4 + 8 * b5 + 16 * b6 + 32 * b7
           x3 == b3 + 2 * b4 + 4 * b5 + 8 * b6 + 16 * b7
           x4 == b4 + 2 * b5 + 4 * b6 + 8 * b7
           x5 == b5 + 2 * b6 + 4 * b7
           x6 == b6 + 2 * b7
<1>1. x \in Octets
  BY DEF Octets, Weighted
<1>2. x = 2 * x1 + b0 /\ x = 4 * x2 + (b0 + 2 * b1) /\ x = 8 * x3 + (b0 + 2 * b1 + 4 * b2)
      /\ x = 16 * x4 + (b0 + 2 * b1 + 4 * b2 + 8 * b3)
      /\ x = 32 * x5 + (b0 + 2 * b1 + 4 * b2 + 8 * b3 + 16 * b4)
      /\ x = 64 * x6 + (b0 + 2 * b1 + 4 * b2 + 8 * b3 + 16 * b4 + 32 * b5)
      /\ x = 128 * b7 + (b0 + 2 * b1 + 4 * b2 + 8 * b3 + 16 * b4 + 32 * b5 + 64 * b6)
  BY DEF Weighted
<1>3. x1 = 2 * x2 + b1 /\ x2 = 2 * x3 + b2 /\ x3 = 2 * x4 + b3 /\ x4 = 2 * x5 + b4 /\ x5 = 2 * x6 + b5
      /\ x6 = 2 * b7 + b6
  OBVIOUS
<1>4. x1 \in Nat /\ x2 \in Nat /\ x3 \in Nat /\ x4 \in Nat /\ x5 \in Nat /\ x6 \in Nat
  OBVIOUS
<1> HIDE DEF x, x1, x2, x3, x4, x5, x6
<1>5. /\ x \div 2 = x1 /\ x \div 4 = x2 /\ x \div 8 = x3 /\ x \div 16 = x4 /\ x \div 32 = x5
      /\ x \div 64 = x6 /\ x \div 128 = b7
  BY <1>2, <1>4
<1>6. /\ x % 2 = b0 /\ x1 % 2 = b1 /\ x2 % 2 = b2 /\ x3 % 2 = b3 /\ x4 % 2 = b4 /\ x5 % 2 = b5
      /\ x6 % 2 = b6 /\ b7 % 2 = b7
  BY <1>2, <1>3, <1>4
<1>7. /\ Bit(x, 0) = x % 2 /\ Bit(x, 1) = (x \div 2) % 2 /\ Bit(x, 2) = (x \div 4) % 2
      /\ Bit(x, 3) = (x \div 8) % 2 /\ Bit(x, 4) = (x \div 16) % 2 /\ Bit(x, 5) = (x \div 32) % 2
      /\ Bit(x, 6) = (x \div 64) % 2 /\ Bit(x, 7) = (x \div 128) % 2
  BY <1>1 DEF Bit, Bits, Octets
<1> QED
  BY <1>1, <1>5, <1>6, <1>7 DEF HasBits, x

\* What is flipped twice is what it was.
BitXor(p, q) == IF p = q THEN 0 ELSE 1

LEMMA XorIs ==
  ASSUME NEW x \in Octets, NEW y \in Octets
  PROVE  /\ Xor(x, y) \in Octets
         /\ \A i \in 0..7 : Bit(Xor(x, y), i) = BitXor(Bit(x, i), Bit(y, i))
<1> DEFINE Cell(i, w) == IF ((Bits(x, i, 1) = 1) # (Bits(y, i, 1) = 1)) THEN w ELSE 0
           c(i) == BitXor(Bit(x, i), Bit(y, i))
<1>1. Xor(x, y) = Cell(0, 2^0) + Cell(1, 2^1) + Cell(2, 2^2) + Cell(3, 2^3) + Cell(4, 2^4)
                  + Cell(5, 2^5) + Cell(6, 2^6) + Cell(7, 2^7)
  BY DEF Xor, OfBits
<1>2. ASSUME NEW i \in 0..7 PROVE c(i) \in {0, 1} /\ \A w \in Nat : Cell(i, w) = w * c(i)
  <2>1. Bit(x, i) \in {0, 1} /\ Bit(y, i) \in {0, 1}
    BY BitsOf
  <2>2. (Bits(x, i, 1) = 1) # (Bits(y, i, 1) = 1) <=> Bit(x, i) # Bit(y, i)
    BY <2>1 DEF Bit
  <2> QED
    BY <2>2 DEF BitXor
<1> HIDE DEF Cell, c
<1>3. /\ c(0) \in {0, 1} /\ c(1) \in {0, 1} /\ c(2) \in {0, 1} /\ c(3) \in {0, 1}
      /\ c(4) \in {0, 1} /\ c(5) \in {0, 1} /\ c(6) \in {0, 1} /\ c(7) \in {0, 1}
  BY <1>2
<1>4. /\ Cell(0, 2^0) = c(0) /\ Cell(1, 2^1) = 2 * c(1) /\ Cell(2, 2^2) = 4 * c(2)
      /\ Cell(3, 2^3) = 8 * c(3) /\ Cell(4, 2^4) = 16 * c(4) /\ Cell(5, 2^5) = 32 * c(5)
      /\ Cell(6, 2^6) = 64 * c(6) /\ Cell(7, 2^7) = 128 * c(7)
  BY <1>2, <1>3
<1>5. Xor(x, y) = Weighted(c(0), c(1), c(2), c(3), c(4), c(5), c(6), c(7))
  BY <1>1, <1>4, Zenon DEF Weighted
<1>6. HasBits(Xor(x, y), c(0), c(1), c(2), c(3), c(4), c(5), c(6), c(7))
  BY <1>3, <1>5, BitsOfSum
<1>7. \A i \in 0..7 : i = 0 \/ i = 1 \/ i = 2 \/ i = 3 \/ i = 4 \/ i = 5 \/ i = 6 \/ i = 7
  OBVIOUS
<1>8. \A i \in 0..7 : Bit(Xor(x, y), i) = c(i)
  BY <1>6, <1>7, Zenon DEF HasBits
<1> QED
  BY <1>6, <1>8 DEF c, HasBits

LEMMA SameBits ==
  ASSUME NEW x \in Octets, NEW y \in Octets, \A i \in 0..7 : Bit(x, i) = Bit(y, i)
  PROVE  x = y
<1>1. /\ Bit(x, 0) = Bit(y, 0) /\ Bit(x, 1) = Bit(y, 1) /\ Bit(x, 2) = Bit(y, 2)
      /\ Bit(x, 3) = Bit(y, 3) /\ Bit(x, 4) = Bit(y, 4) /\ Bit(x, 5) = Bit(y, 5)
      /\ Bit(x, 6) = Bit(y, 6) /\ Bit(x, 7) = Bit(y, 7)
  OBVIOUS
<1> QED
  BY <1>1, BitsOf, Zenon

LEMMA XorTwice ==
  ASSUME NEW x \in Octets, NEW y \in Octets
  PROVE  Xor(x, y) \in Octets /\ Xor(Xor(x, y), y) = x
<1>1. Xor(x, y) \in Octets /\ Xor(Xor(x, y), y) \in Octets
  BY XorIs
<1>2. ASSUME NEW i \in 0..7 PROVE Bit(Xor(Xor(x, y), y), i) = Bit(x, i)
  <2>1. Bit(Xor(Xor(x, y), y), i) = BitXor(BitXor(Bit(x, i), Bit(y, i)), Bit(y, i))
    <3> DEFINE z == Xor(x, y)
    <3>1. z \in Octets /\ Bit(z, i) = BitXor(Bit(x, i), Bit(y, i))
      BY XorIs
    <3> HIDE DEF z
    <3>2. Bit(Xor(z, y), i) = BitXor(Bit(z, i), Bit(y, i))
      BY <3>1, XorIs
    <3> QED
      BY <3>1, <3>2 DEF z
  <2>2. Bit(x, i) \in {0, 1} /\ Bit(y, i) \in {0, 1}
    BY BitsOf
  <2> QED
    BY <2>1, <2>2 DEF BitXor
<1> QED
  BY <1>1, <1>2, SameBits, Zenon

\* Nothing is added, or the one bit that is not there.
LEMMA OrZero ==
  ASSUME NEW x \in Octets
  PROVE  Or(x, 0) = x
<1> DEFINE Cell(i, w) == IF Bits(x, i, 1) = 1 \/ Bits(0, i, 1) = 1 THEN w ELSE 0
<1>1. Or(x, 0) = Cell(0, 2^0) + Cell(1, 2^1) + Cell(2, 2^2) + Cell(3, 2^3) + Cell(4, 2^4)
                 + Cell(5, 2^5) + Cell(6, 2^6) + Cell(7, 2^7)
  BY DEF Or, OfBits
<1>2. /\ Bits(0, 0, 1) = 0 /\ Bits(0, 1, 1) = 0 /\ Bits(0, 2, 1) = 0 /\ Bits(0, 3, 1) = 0
      /\ Bits(0, 4, 1) = 0 /\ Bits(0, 5, 1) = 0 /\ Bits(0, 6, 1) = 0 /\ Bits(0, 7, 1) = 0
  BY DEF Bits
<1>3. /\ Bit(x, 0) \in {0, 1} /\ Bit(x, 1) \in {0, 1} /\ Bit(x, 2) \in {0, 1} /\ Bit(x, 3) \in {0, 1}
      /\ Bit(x, 4) \in {0, 1} /\ Bit(x, 5) \in {0, 1} /\ Bit(x, 6) \in {0, 1} /\ Bit(x, 7) \in {0, 1}
  BY BitsOf
<1>4. /\ Cell(0, 2^0) = Bit(x, 0) /\ Cell(1, 2^1) = 2 * Bit(x, 1) /\ Cell(2, 2^2) = 4 * Bit(x, 2)
      /\ Cell(3, 2^3) = 8 * Bit(x, 3) /\ Cell(4, 2^4) = 16 * Bit(x, 4)
      /\ Cell(5, 2^5) = 32 * Bit(x, 5) /\ Cell(6, 2^6) = 64 * Bit(x, 6)
      /\ Cell(7, 2^7) = 128 * Bit(x, 7)
  BY <1>2, <1>3 DEF Bit
<1> HIDE DEF Cell
<1>5. Or(x, 0) = Weighted(Bit(x, 0), Bit(x, 1), Bit(x, 2), Bit(x, 3), Bit(x, 4), Bit(x, 5),
                          Bit(x, 6), Bit(x, 7))
  BY <1>1, <1>4, Zenon DEF Weighted
<1> QED
  BY <1>5, BitsOf, Zenon

LEMMA OrSixteen ==
  ASSUME NEW x \in Octets, x < 16
  PROVE  Or(x, 16) = x + 16
<1> DEFINE Cell(i, w) == IF Bits(x, i, 1) = 1 \/ Bits(16, i, 1) = 1 THEN w ELSE 0
<1>1. Or(x, 16) = Cell(0, 2^0) + Cell(1, 2^1) + Cell(2, 2^2) + Cell(3, 2^3) + Cell(4, 2^4)
                 + Cell(5, 2^5) + Cell(6, 2^6) + Cell(7, 2^7)
  BY DEF Or, OfBits
<1>2. /\ Bits(16, 0, 1) = 0 /\ Bits(16, 1, 1) = 0 /\ Bits(16, 2, 1) = 0 /\ Bits(16, 3, 1) = 0
      /\ Bits(16, 4, 1) = 1 /\ Bits(16, 5, 1) = 0 /\ Bits(16, 6, 1) = 0 /\ Bits(16, 7, 1) = 0
  BY DEF Bits
<1>3. /\ Bit(x, 0) \in {0, 1} /\ Bit(x, 1) \in {0, 1} /\ Bit(x, 2) \in {0, 1} /\ Bit(x, 3) \in {0, 1}
      /\ Bit(x, 4) \in {0, 1} /\ Bit(x, 5) \in {0, 1} /\ Bit(x, 6) \in {0, 1} /\ Bit(x, 7) \in {0, 1}
  BY BitsOf
<1>4. x = Weighted(Bit(x, 0), Bit(x, 1), Bit(x, 2), Bit(x, 3), Bit(x, 4), Bit(x, 5), Bit(x, 6), Bit(x, 7))
  BY BitsOf
<1>5. x < 16
  OBVIOUS
<1> HIDE DEF Cell
<1>6. Bit(x, 4) = 0 /\ Bit(x, 5) = 0 /\ Bit(x, 6) = 0 /\ Bit(x, 7) = 0
  BY ONLY <1>3, <1>4, <1>5 DEF Weighted
<1>7. /\ Cell(0, 2^0) = Bit(x, 0) /\ Cell(1, 2^1) = 2 * Bit(x, 1) /\ Cell(2, 2^2) = 4 * Bit(x, 2)
      /\ Cell(3, 2^3) = 8 * Bit(x, 3) /\ Cell(4, 2^4) = 16 /\ Cell(5, 2^5) = 0
      /\ Cell(6, 2^6) = 0 /\ Cell(7, 2^7) = 0
  BY <1>2, <1>3, <1>6 DEF Bit, Cell
<1> QED
  BY ONLY <1>1, <1>3, <1>4, <1>6, <1>7 DEF Weighted

-----------------------------------------------------------------------------
(* The addresses of STUN *)

LEMMA CookieIs == \A j \in 1..4 : MagicCookie[j] \in Octets
  BY DEF MagicCookie, Octets

LEMMA XorAddressIs ==
  ASSUME NEW b \in Buffers, Len(b) = 8
  PROVE  /\ XorAddress(b) \in Buffers /\ Len(XorAddress(b)) = 8
         /\ \A i \in 1..2 : XorAddress(b)[i] = b[i]
         /\ \A i \in 3..4 : XorAddress(b)[i] = Xor(b[i], MagicCookie[i - 2])
         /\ \A i \in 5..8 : XorAddress(b)[i] = Xor(b[i], MagicCookie[i - 4])
<1> DEFINE Cell(i) == CASE i \in 3..4 -> Xor(b[i], MagicCookie[i - 2])
                        [] i \in 5..8 -> Xor(b[i], MagicCookie[i - 4])
                        [] OTHER -> b[i]
           N == 8
<1>1. DOMAIN b = 1..N /\ \A i \in 1..N : b[i] \in Octets
  <2>1. DOMAIN b = 1..Len(b)
    BY DEF Buffers
  <2>2. \A i \in 1..Len(b) : b[i] \in Octets
    BY BufferIs, Zenon
  <2> QED
    BY <2>1, <2>2
<1>2. XorAddress(b) = [i \in 1..N |-> Cell(i)]
  BY <1>1 DEF XorAddress
<1>3. \A i \in 1..2 : i \in 1..N /\ Cell(i) = b[i]
  OBVIOUS
<1>4. \A i \in 3..4 : i \in 1..N /\ i - 2 \in 1..4 /\ Cell(i) = Xor(b[i], MagicCookie[i - 2])
  OBVIOUS
<1>5. \A i \in 5..8 : i \in 1..N /\ i - 4 \in 1..4 /\ Cell(i) = Xor(b[i], MagicCookie[i - 4])
  OBVIOUS
<1>6. \A i \in 1..N : i \in 1..2 \/ i \in 3..4 \/ i \in 5..8
  OBVIOUS
<1>7. N \in Nat
  OBVIOUS
<1>8. N = 8
  OBVIOUS
<1> HIDE DEF Cell, N
<1>9. ASSUME NEW i \in 1..N PROVE Cell(i) \in Octets
  <2>1. CASE i \in 1..2
    BY <1>1, <1>3, <2>1
  <2>2. CASE i \in 3..4
    BY <1>1, <1>4, <2>2, CookieIs, XorTwice
  <2>3. CASE i \in 5..8
    BY <1>1, <1>5, <2>3, CookieIs, XorTwice
  <2> QED
    BY <1>6, <2>1, <2>2, <2>3
<1>10. XorAddress(b) \in Buffers /\ Len(XorAddress(b)) = N
  BY <1>2, <1>7, <1>9 DEF Buffers
<1>11. \A i \in 1..N : XorAddress(b)[i] = Cell(i)
  BY <1>2
<1> QED
  BY <1>3, <1>4, <1>5, <1>8, <1>10, <1>11

LEMMA XorAddressTwice ==
  ASSUME NEW b \in Buffers, Len(b) = 8
  PROVE  /\ XorAddress(b) \in Buffers /\ Len(XorAddress(b)) = 8
         /\ XorAddress(XorAddress(b)) = b
<1> DEFINE c == XorAddress(b)
           d == XorAddress(c)
<1>1. /\ c \in Buffers /\ Len(c) = 8
      /\ \A i \in 1..2 : c[i] = b[i]
      /\ \A i \in 3..4 : c[i] = Xor(b[i], MagicCookie[i - 2])
      /\ \A i \in 5..8 : c[i] = Xor(b[i], MagicCookie[i - 4])
  BY XorAddressIs
<1> HIDE DEF c
<1>2. /\ d \in Buffers /\ Len(d) = 8
      /\ \A i \in 1..2 : d[i] = c[i]
      /\ \A i \in 3..4 : d[i] = Xor(c[i], MagicCookie[i - 2])
      /\ \A i \in 5..8 : d[i] = Xor(c[i], MagicCookie[i - 4])
  BY <1>1, XorAddressIs
<1> HIDE DEF d
<1>3. \A i \in 1..8 : (i \in 1..2 \/ i \in 3..4 \/ i \in 5..8) /\ b[i] \in Octets
  <2>1. \A i \in 1..Len(b) : b[i] \in Octets
    BY BufferIs, Zenon
  <2> QED
    BY <2>1
<1>4. /\ \A i \in 3..4 : i \in 1..8 /\ i - 2 \in 1..4
      /\ \A i \in 5..8 : i \in 1..8 /\ i - 4 \in 1..4
  OBVIOUS
<1>5. ASSUME NEW i \in 1..8 PROVE d[i] = b[i]
  <2>1. CASE i \in 1..2
    BY <1>1, <1>2, <2>1
  <2>2. CASE i \in 3..4
    <3>1. b[i] \in Octets /\ MagicCookie[i - 2] \in Octets
      BY <1>3, <1>4, <2>2, CookieIs
    <3>2. d[i] = Xor(Xor(b[i], MagicCookie[i - 2]), MagicCookie[i - 2])
      BY <1>1, <1>2, <2>2
    <3> QED
      BY <3>1, <3>2, XorTwice, Zenon
  <2>3. CASE i \in 5..8
    <3>1. b[i] \in Octets /\ MagicCookie[i - 4] \in Octets
      BY <1>3, <1>4, <2>3, CookieIs
    <3>2. d[i] = Xor(Xor(b[i], MagicCookie[i - 4]), MagicCookie[i - 4])
      BY <1>1, <1>2, <2>3
    <3> QED
      BY <3>1, <3>2, XorTwice, Zenon
  <2> QED
    BY <1>3, <2>1, <2>2, <2>3
<1>6. d = b
  BY <1>2, <1>5, SeqEqual DEF Buffers
<1> QED
  BY <1>1, <1>6 DEF c, d

\* A number in front of other bytes.
LEMMA DecodesShort ==
  ASSUME NEW n \in Shorts16, NEW t \in Buffers
  PROVE  DecodeShort(EncodeShort(n) \o t) = n
<1> DEFINE s == EncodeShort(n)
           w == s \o t
<1>1. s \in Buffers /\ Len(s) = 2 /\ DecodeShort(s) = n
  BY ShortIs
<1> HIDE DEF s
<1>2. \A i \in 1..Len(s) : w[i] = s[i]
  BY <1>1, Both, Zenon
<1> HIDE DEF w
<1>3. w[1] = s[1] /\ w[2] = s[2]
  BY <1>1, <1>2
<1>4. DecodeShort(w) = DecodeShort(s)
  BY <1>3, Zenon DEF DecodeShort
<1> QED
  BY <1>1, <1>4 DEF w, s

\* An address that is reflected to a client, its bits flipped on the way, is what it was.
THEOREM AddressUnderstood ==
  \A a \in Seq(Octets), p \in Shorts16 : Len(a) = 4 =>
    ParseXorMappedAddress(FormatXorMappedAddress([address |-> a, port |-> p]))
      = <<[address |-> a, port |-> p]>>
<1> SUFFICES ASSUME NEW a \in Buffers, NEW p \in Shorts16, Len(a) = 4
             PROVE  ParseXorMappedAddress(FormatXorMappedAddress([address |-> a, port |-> p]))
                      = <<[address |-> a, port |-> p]>>
  BY Zenon DEF Buffers
<1> DEFINE e == [address |-> a, port |-> p]
           h == TwoOctets(0, 1)
           s == EncodeShort(p)
           r == s \o a
           g == h \o s
           b == g \o a
           c == XorAddress(b)
<1>1. h \in Buffers /\ Len(h) = 2 /\ h[1] = 0 /\ h[2] = 1
  <2>1. 0 \in Octets /\ 1 \in Octets
    BY DEF Octets
  <2>2. h \in Buffers /\ Len(h) = 2
    BY <2>1, TwoIs
  <2> QED
    BY <2>2 DEF TwoOctets
<1>2. s \in Buffers /\ Len(s) = 2 /\ DecodeShort(r) = p
  BY ShortIs, DecodesShort
<1>3. FormatXorMappedAddress(e) = c
  <2>1. e.address = a /\ e.port = p
    OBVIOUS
  <2> HIDE DEF e
  <2> QED
    BY <2>1, Zenon DEF FormatXorMappedAddress, FormatMappedAddress, TwoOctets
<1> HIDE DEF h, s, e
<1>4. r \in Buffers /\ g \in Buffers /\ Len(g) = Len(h) + Len(s)
  BY <1>1, <1>2, Both
<1>5. b = h \o r
  BY <1>1, <1>2, Thrice
<1> HIDE DEF r, g
<1>6. Len(g) = 4
  BY <1>1, <1>2, <1>4
<1>7. b \in Buffers /\ Len(b) = Len(g) + Len(a)
  BY <1>4, Both
<1>8. Drop(b, Len(g)) = a
  BY <1>4, SplitOf DEF Buffers
<1> HIDE DEF b
<1>9. /\ Drop(b, Len(h)) = r
      /\ \A i \in 1..Len(h) : b[i] = h[i]
  BY <1>1, <1>4, <1>5, SplitOf, Both DEF Buffers
<1>10. Len(b) = 8 /\ b[1] = 0 /\ b[2] = 1 /\ Drop(b, 2) = r
  BY <1>1, <1>6, <1>7, <1>9
<1>11. SubSeq(b, 5, 8) = a
  BY <1>6, <1>8, <1>10 DEF Drop
<1>12. ParseMappedAddress(b) = <<e>>
  <2>1. ~(Len(b) < 8)
    BY <1>10
  <2> QED
    BY <1>2, <1>10, <1>11, <2>1, Zenon DEF ParseMappedAddress, e
<1>13. /\ c \in Buffers /\ Len(c) = 8 /\ XorAddress(c) = b
  BY <1>7, <1>10, XorAddressTwice
<1> HIDE DEF c
<1>14. ~(Len(c) < 8)
  BY <1>13
<1>15. ParseXorMappedAddress(c) = ParseMappedAddress(b)
  BY <1>13, <1>14, Zenon DEF ParseXorMappedAddress
<1> QED
  BY <1>3, <1>12, <1>15, Zenon DEF e

-----------------------------------------------------------------------------
(* The attributes of STUN *)

Values == {v \in Buffers : Len(v) \in Shorts16}
StunAttributes == [type : Shorts16, value : Values]

\* How many bytes an attribute takes.
Width(a) == 4 + CalculatePadding(Len(a.value), 4)

LEMMA PaddingIs ==
  ASSUME NEW n \in Nat
  PROVE  CalculatePadding(n, 4) \in Nat /\ n <= CalculatePadding(n, 4) /\ CalculatePadding(n, 4) <= n + 3
BY DEF CalculatePadding

LEMMA ZerosAre ==
  ASSUME NEW n \in Nat
  PROVE  [i \in 1..n |-> 0] \in Buffers /\ Len([i \in 1..n |-> 0]) = n
<1>1. 0 \in Octets
  BY DEF Octets
<1> QED
  BY <1>1 DEF Buffers

JoinsFive(s, t, u, v, r) ==
  /\ (((s \o t) \o u) \o v) \o r = s \o (t \o (u \o (v \o r)))
  /\ (((s \o t) \o u) \o v) \o r = (s \o t) \o (u \o (v \o r))

LEMMA FiveJoined ==
  ASSUME NEW s \in Buffers, NEW t \in Buffers, NEW u \in Buffers, NEW v \in Buffers,
         NEW r \in Buffers
  PROVE  JoinsFive(s, t, u, v, r)
<1> DEFINE front == s \o t
           back == v \o r
           rest == u \o back
<1>1. front \in Buffers /\ back \in Buffers
  BY Both
<1> HIDE DEF front, back
<1>2. rest \in Buffers
  BY <1>1, Both
<1>3. front \o u \in Buffers
  BY <1>1, Both
<1>4. (front \o u) \o back = front \o rest
  <2>1. ASSUME NEW x \in Buffers, NEW z \in Buffers PROVE (x \o u) \o z = x \o (u \o z)
    BY Thrice
  <2> QED
    BY <1>1, <2>1
<1> HIDE DEF rest
<1>5. (s \o t) \o rest = s \o (t \o rest)
  BY <1>2, Thrice
<1>6. ((front \o u) \o v) \o r = (front \o u) \o (v \o r)
  BY <1>3, Thrice
<1> QED
  BY <1>4, <1>5, <1>6, Zenon DEF JoinsFive, front, back, rest

\* An attribute in front of others.
Attributed(a, F) ==
  /\ F \in Buffers /\ Len(F) = Width(a)
  /\ \A rest \in Buffers : ParseStunAttribute(F \o rest) = <<a>>

LEMMA AttributeIs ==
  ASSUME NEW a \in StunAttributes
  PROVE  Attributed(a, FormatStunAttribute(a)) /\ Width(a) \in Nat /\ Width(a) >= 4
<1> DEFINE t == a.type
           v == a.value
           n == Len(a.value)
           m == CalculatePadding(n, 4)
           s1 == EncodeShort(t)
           s2 == EncodeShort(n)
           pad == [i \in 1..(m - n) |-> 0]
           F == ((s1 \o s2) \o v) \o pad
<1>1. t \in Shorts16 /\ v \in Buffers /\ n \in Shorts16 /\ a = [type |-> t, value |-> v] /\ n = Len(v)
  BY DEF StunAttributes, Values
<1>2. n \in Nat
  BY <1>1 DEF Shorts16
<1>3. FormatStunAttribute(a) = F /\ Width(a) = 4 + m
  BY DEF FormatStunAttribute, Width
<1> HIDE DEF t, v, n
<1>4. m \in Nat /\ n <= m
  BY <1>2, PaddingIs
<1> HIDE DEF m
<1>5. pad \in Buffers /\ Len(pad) = m - n
  <2>1. m - n \in Nat
    BY <1>2, <1>4
  <2> QED
    BY <2>1, ZerosAre
<1>6. /\ s1 \in Buffers /\ Len(s1) = 2 /\ s2 \in Buffers /\ Len(s2) = 2
      /\ \A rest \in Buffers : DecodeShort(s1 \o rest) = t /\ DecodeShort(s2 \o rest) = n
  BY <1>1, ShortIs, DecodesShort
<1> HIDE DEF pad, s1, s2
<1>7. s1 \o s2 \in Buffers /\ Len(s1 \o s2) = Len(s1) + Len(s2)
  BY <1>6, Both
<1>8. (s1 \o s2) \o v \in Buffers /\ Len((s1 \o s2) \o v) = Len(s1 \o s2) + Len(v)
  BY <1>1, <1>7, Both
<1>9. F \in Buffers /\ Len(F) = Len((s1 \o s2) \o v) + Len(pad)
  BY <1>5, <1>8, Both
<1>10. Len(s1 \o s2) = 4
  BY <1>6, <1>7
<1>11. Len(F) = 4 + m
  BY <1>1, <1>2, <1>4, <1>5, <1>8, <1>9, <1>10
<1>12. ASSUME NEW rest \in Buffers PROVE ParseStunAttribute(F \o rest) = <<a>>
  <2> DEFINE w == F \o rest
             r3 == pad \o rest
             r2 == v \o r3
             r1 == s2 \o r2
  <2>1. r3 \in Buffers
    BY <1>5, Both
  <2>2. r2 \in Buffers
    BY <1>1, <2>1, Both
  <2>3. r1 \in Buffers
    BY <1>6, <2>2, Both
  <2>4. w = s1 \o r1 /\ w = (s1 \o s2) \o r2
    <3>1. JoinsFive(s1, s2, v, pad, rest)
      BY <1>1, <1>5, <1>6, FiveJoined
    <3> QED
      BY <3>1, Zenon DEF JoinsFive
  <2>5. Take(r2, Len(v)) = v
    BY <1>1, <2>1, SplitOf DEF Buffers
  <2>6. w \in Buffers /\ Len(w) = Len(F) + Len(rest)
    BY <1>9, Both
  <2> HIDE DEF r2
  <2>7. Drop((s1 \o s2) \o r2, Len(s1 \o s2)) = r2
    BY <1>7, <2>2, SplitOf DEF Buffers
  <2>8. DecodeShort(r1) = n
    BY <1>6, <2>2
  <2> HIDE DEF r1
  <2>9. Drop(s1 \o r1, Len(s1)) = r1 /\ DecodeShort(s1 \o r1) = t
    BY <1>6, <2>3, SplitOf DEF Buffers
  <2> HIDE DEF w, F
  <2>10. Drop(w, 2) = r1 /\ DecodeShort(w) = t /\ Drop(w, 4) = r2
    BY <1>6, <1>10, <2>4, <2>7, <2>9
  <2>11. ~(Len(w) < 4)
    <3>1. Len(rest) \in Nat
      BY BufferIs
    <3> QED
      BY <1>4, <1>11, <2>6, <3>1
  <2>12. ParseStunAttribute(w) = <<[type |-> t, value |-> v]>>
    BY <1>1, <2>5, <2>8, <2>10, <2>11, Zenon DEF ParseStunAttribute
  <2> QED
    BY <1>1, <2>12 DEF w
<1>13. Attributed(a, F)
  <2> HIDE DEF F
  <2> QED
    BY <1>3, <1>9, <1>11, <1>12 DEF Attributed
<1> QED
  BY <1>3, <1>4, <1>13

\* The body of parseStunAttributes, where f has the results from later on.
ReadAt(b, from) == ParseStunAttribute(Drop(b, from))
NextAt(b, from) == from + 4 + CalculatePadding(Len(ReadAt(b, from)[1].value), 4)
ReadFrom(b, f, from) ==
  IF from >= Len(b) THEN <<>>
  ELSE IF ReadAt(b, from) = Fails THEN <<Fails>>
  ELSE ReadAt(b, from) \o f[NextAt(b, from)]

\* An attribute ends behind its start, and with its padding at most three bytes behind the end.
LEMMA ReadsOn ==
  ASSUME NEW b \in Buffers, NEW from \in Nat, from < Len(b), ReadAt(b, from) # Fails
  PROVE  NextAt(b, from) \in (from + 1)..(Len(b) + 3)
<1> DEFINE M == Len(b)
           d == Drop(b, from)
           d2 == Drop(d, 2)
           d4 == Drop(d, 4)
           count == DecodeShort(d2)
           v == Take(d4, count)
<1>1. M \in Nat /\ from < M
  BY BufferIs
<1>2. d \in Buffers /\ Len(d) = M - from
  BY <1>1, DropOf DEF Buffers
<1>3. ParseStunAttribute(d) = IF Len(d) < 4 THEN Fails ELSE <<[type |-> DecodeShort(d), value |-> v]>>
  BY Zenon DEF ParseStunAttribute
<1> HIDE DEF d, M
<1>4. ParseStunAttribute(d) # Fails
  BY DEF ReadAt, d
<1>5. ~(Len(d) < 4) /\ ParseStunAttribute(d) = <<[type |-> DecodeShort(d), value |-> v]>>
  BY <1>3, <1>4
<1>6. d2 \in Buffers /\ Len(d2) >= 2 /\ d4 \in Buffers /\ Len(d4) = (M - from) - 4
  <2>1. Len(d) \in Nat /\ 4 <= Len(d)
    BY <1>1, <1>2, <1>5
  <2>2. ASSUME NEW n \in Nat, n <= 4
        PROVE  Drop(d, n) \in Buffers /\ Len(Drop(d, n)) = Len(d) - n
    <3>1. n <= Len(d)
      BY <2>1, <2>2
    <3> QED
      BY <1>2, <3>1, DropOf DEF Buffers
  <2>3. d2 \in Buffers /\ Len(d2) = Len(d) - 2 /\ d4 \in Buffers /\ Len(d4) = Len(d) - 4
    BY <2>2
  <2> QED
    BY <1>2, <2>1, <2>3
<1> HIDE DEF d2, d4
<1>7. count \in Nat
  <2>1. \A i \in 1..Len(d2) : d2[i] \in Octets
    BY <1>6, BufferIs, Zenon
  <2>2. 1 \in 1..Len(d2) /\ 2 \in 1..Len(d2)
    <3>1. Len(d2) \in Nat
      BY <1>6, BufferIs, Zenon
    <3> QED
      BY <1>6, <3>1
  <2>3. d2[1] \in Nat /\ d2[2] \in Nat
    BY <2>1, <2>2 DEF Octets
  <2> QED
    BY <2>3 DEF DecodeShort
<1> HIDE DEF count
<1>8. Len(v) = IF count <= Len(d4) THEN count ELSE Len(d4)
  BY <1>6, <1>7, TakeOf DEF Buffers
<1>9. Len(v) \in Nat /\ Len(v) <= (M - from) - 4
  BY <1>1, <1>2, <1>5, <1>6, <1>7, <1>8
<1> HIDE DEF v
<1>10. ReadAt(b, from)[1].value = v
  BY <1>5 DEF ReadAt, d
<1>11. /\ CalculatePadding(Len(v), 4) \in Nat /\ Len(v) <= CalculatePadding(Len(v), 4)
       /\ CalculatePadding(Len(v), 4) <= Len(v) + 3
  BY <1>9, PaddingIs
<1>12. NextAt(b, from) = from + 4 + CalculatePadding(Len(v), 4)
  BY <1>10 DEF NextAt
<1> QED
  BY <1>1, <1>9, <1>11, <1>12 DEF M

LEMMA ReadingsExist ==
  ASSUME NEW b \in Buffers
  PROVE  \E f : f = [from \in 0..(Len(b) + 3) |-> ReadFrom(b, f, from)]
<1> DEFINE M == Len(b)
           K == M + 3
           Goes(f, n) == f = [from \in (K - n)..K |-> ReadFrom(b, f, from)]
           T == {n \in 0..K : \E f : Goes(f, n)}
<1>1. M \in Nat
  BY BufferIs
<1>2. ASSUME NEW f, NEW from \in Nat, from >= M PROVE ReadFrom(b, f, from) = <<>>
  BY <1>2 DEF ReadFrom
<1>3. ASSUME NEW from \in Nat, from < M, ReadAt(b, from) # Fails
      PROVE  NextAt(b, from) \in (from + 1)..K
  BY <1>3, ReadsOn
<1>4. ASSUME NEW f, NEW g, NEW from \in 0..K, \A k \in (from + 1)..K : f[k] = g[k]
      PROVE  ReadFrom(b, f, from) = ReadFrom(b, g, from)
  <2>1. CASE from >= M
    BY <1>2, <2>1
  <2>2. CASE from < M /\ ReadAt(b, from) # Fails
    <3>1. f[NextAt(b, from)] = g[NextAt(b, from)]
      BY <1>3, <1>4, <2>2
    <3> QED
      BY <3>1, Zenon DEF ReadFrom
  <2>3. CASE ReadAt(b, from) = Fails
    BY <2>3, Zenon DEF ReadFrom
  <2> QED
    BY <1>1, <2>1, <2>2, <2>3
<1> HIDE DEF M
<1>5. K \in Nat /\ K >= M
  BY <1>1
<1>6. 0 \in T
  <2>1. PICK f : f = [from \in (K - 0)..K |-> <<>>]
    OBVIOUS
  <2>2. ASSUME NEW from \in (K - 0)..K PROVE <<>> = ReadFrom(b, f, from)
    BY <1>1, <1>2
  <2>3. f = [from \in (K - 0)..K |-> ReadFrom(b, f, from)]
    <3> HIDE DEF K
    <3> QED
      BY <2>1, <2>2, Zenon
  <2> QED
    BY <1>5, <2>3
<1> HIDE DEF K
<1>7. ASSUME NEW n \in 1..K, n - 1 \in T PROVE n \in T
  <2>1. PICK f : Goes(f, n - 1)
    BY <1>7
  <2> DEFINE at == K - n
             Value(from) == IF from = at THEN ReadFrom(b, f, at) ELSE f[from]
             g == [from \in at..K |-> Value(from)]
  <2>2. at \in 0..K /\ K - (n - 1) = at + 1 /\ n \in 0..K
    BY <1>5
  <2> HIDE DEF at
  <2>3. \A k \in (at + 1)..K : k \in at..K /\ k # at /\ k \in 0..K
    BY <1>5, <2>2
  <2>4. \A k \in (at + 1)..K : g[k] = f[k] /\ f[k] = ReadFrom(b, f, k)
    BY <2>1, <2>2, <2>3
  <2>5. ASSUME NEW from \in at..K PROVE Value(from) = ReadFrom(b, g, from)
    <3>1. from \in 0..K /\ \A k \in (from + 1)..K : k \in (at + 1)..K
      BY <1>5, <2>2
    <3>2. ReadFrom(b, g, from) = ReadFrom(b, f, from)
      <4> HIDE DEF g
      <4>1. \A k \in (from + 1)..K : g[k] = f[k]
        BY <2>4, <3>1
      <4> QED
        BY <1>4, <3>1, <4>1
    <3>3. from = at \/ from \in (at + 1)..K
      BY <1>5, <2>2
    <3> QED
      BY <2>3, <2>4, <3>2, <3>3
  <2>6. g = [from \in at..K |-> Value(from)]
    OBVIOUS
  <2> HIDE DEF g, Value
  <2>7. g = [from \in at..K |-> ReadFrom(b, g, from)]
    BY <2>5, <2>6, Zenon
  <2> QED
    BY <2>2, <2>7 DEF at
<1>8. K \in T
  <2> HIDE DEF T
  <2>1. \A n \in 0..K : n \in T
    BY <1>5, <1>6, <1>7, Upwards
  <2> QED
    BY <1>5, <2>1
<1>9. PICK f : Goes(f, K)
  BY <1>8
<1>10. K - K = 0
  BY <1>5
<1>11. f = [from \in 0..K |-> ReadFrom(b, f, from)]
  BY <1>9, <1>10
<1> QED
  BY <1>11 DEF K, M

\* An item in front of those behind it.
LEMMA OneMore ==
  ASSUME NEW S, NEW s \in Seq(S), NEW j \in 1..Len(s)
  PROVE  <<s[j]>> \o SubSeq(s, j + 1, Len(s)) = SubSeq(s, j, Len(s))
<1> DEFINE N == Len(s)
           one == <<s[j]>>
           t == SubSeq(s, j + 1, N)
           u == SubSeq(s, (j - 1) + 1, N)
           w == one \o t
<1>1. N \in Nat /\ j \in Nat /\ j - 1 \in Nat /\ j <= N /\ j - 1 <= N /\ (j - 1) + 1 = j /\ s[j] \in S
  OBVIOUS
<1>2. t \in Seq(S) /\ Len(t) = N - j /\ \A i \in 1..(N - j) : t[i] = s[j + i]
  BY <1>1, PartOf
<1>3. u \in Seq(S) /\ Len(u) = N - (j - 1) /\ \A i \in 1..(N - (j - 1)) : u[i] = s[(j - 1) + i]
  BY <1>1, PartOf
<1>4. one \in Seq(S) /\ Len(one) = 1 /\ one[1] = s[j]
  BY <1>1
<1> HIDE DEF N, one, t, u
<1>5. /\ w \in Seq(S) /\ Len(w) = 1 + Len(t)
      /\ \A i \in 1..(1 + Len(t)) : w[i] = IF i <= 1 THEN one[i] ELSE t[i - 1]
  <2>1. one \in Seq(S) /\ t \in Seq(S)
    BY <1>2, <1>4
  <2>2. /\ w \in Seq(S) /\ Len(w) = Len(one) + Len(t)
        /\ \A i \in 1..(Len(one) + Len(t)) :
             w[i] = IF i <= Len(one) THEN one[i] ELSE t[i - Len(one)]
    BY <2>1, ConcatProperties, Zenon
  <2> HIDE DEF w
  <2> QED
    BY <1>4, <2>2, Zenon
<1> HIDE DEF w
<1>6. ASSUME NEW i \in 1..Len(w) PROVE w[i] = u[i]
  <2>1. i \in 1..(N - (j - 1)) /\ i \in 1..(1 + Len(t))
    BY <1>1, <1>2, <1>5
  <2>2. CASE i = 1
    <3>1. w[i] = s[j] /\ u[i] = s[(j - 1) + i] /\ (j - 1) + i = j
      BY <1>1, <1>3, <1>4, <1>5, <2>1, <2>2
    <3> QED
      BY <3>1
  <2>3. CASE i # 1
    <3>1. i - 1 \in 1..(N - j) /\ ~(i <= 1) /\ j + (i - 1) = (j - 1) + i
      BY <1>1, <2>1, <2>3
    <3>2. w[i] = t[i - 1] /\ t[i - 1] = s[j + (i - 1)]
      BY <1>2, <1>5, <2>1, <3>1
    <3> QED
      BY <1>3, <2>1, <3>1, <3>2
  <2> QED
    BY <2>2, <2>3
<1>7. Len(w) = Len(u)
  BY <1>1, <1>2, <1>3, <1>5
<1>8. w = u
  BY <1>3, <1>5, <1>6, <1>7, SeqEqual
<1> QED
  BY <1>1, <1>8 DEF w, u, one, t, N

Formatted(attrs) == [i \in DOMAIN attrs |-> FormatStunAttribute(attrs[i])]

LEMMA FormattedIs ==
  ASSUME NEW attrs \in Seq(StunAttributes)
  PROVE  /\ Formatted(attrs) \in Lists /\ Len(Formatted(attrs)) = Len(attrs)
         /\ \A i \in 1..Len(attrs) : /\ Attributed(attrs[i], Formatted(attrs)[i])
                                     /\ Width(attrs[i]) \in Nat /\ Width(attrs[i]) >= 4
<1> DEFINE N == Len(attrs)
           F(i) == FormatStunAttribute(attrs[i])
<1>1. N \in Nat /\ DOMAIN attrs = 1..N /\ \A i \in 1..N : attrs[i] \in StunAttributes
  OBVIOUS
<1>2. Formatted(attrs) = [i \in 1..N |-> F(i)]
  BY <1>1 DEF Formatted
<1>3. \A i \in 1..N : Attributed(attrs[i], F(i)) /\ Width(attrs[i]) \in Nat /\ Width(attrs[i]) >= 4
  BY <1>1, AttributeIs
<1> HIDE DEF N, F
<1>4. \A i \in 1..N : F(i) \in Buffers
  BY <1>3 DEF Attributed
<1>5. Formatted(attrs) \in Lists /\ Len(Formatted(attrs)) = N
  BY <1>1, <1>2, <1>4 DEF Lists
<1>6. \A i \in 1..N : Formatted(attrs)[i] = F(i)
  BY <1>2
<1> QED
  BY <1>3, <1>5, <1>6 DEF N

LEMMA NoBytes == <<>> \in Buffers
BY DEF Buffers

\* What is in front of the rest of a buffer, which starts with an attribute.
Ahead(b, p, attrs, f, i) ==
  \E r \in Buffers : b = f[i] \o r /\ p[Len(f[i])] = SubSeq(attrs, i + 1, Len(attrs))

LEMMA ReadsOne ==
  ASSUME NEW b \in Buffers, NEW p, p = [from \in 0..(Len(b) + 3) |-> ReadFrom(b, p, from)],
         NEW attrs \in Seq(StunAttributes), NEW j \in 1..Len(attrs), NEW F,
         Attributed(attrs[j], F), NEW f, f[j - 1] \in Buffers, f[j] = f[j - 1] \o F,
         Width(attrs[j]) \in Nat, Width(attrs[j]) >= 4, Ahead(b, p, attrs, f, j)
  PROVE  Ahead(b, p, attrs, f, j - 1)
<1> DEFINE a == attrs[j]
           before == f[j - 1]
           from == Len(before)
           N == Len(attrs)
<1>1. PICK r \in Buffers : b = f[j] \o r /\ p[Len(f[j])] = SubSeq(attrs, j + 1, N)
  BY DEF Ahead
<1> DEFINE r1 == F \o r
<1>2. F \in Buffers /\ Len(F) = Width(a) /\ ParseStunAttribute(r1) = <<a>>
  BY DEF Attributed
<1>3. before \in Buffers /\ f[j] = before \o F
  OBVIOUS
<1> HIDE DEF before, a
<1>4. r1 \in Buffers /\ Len(r1) = Len(F) + Len(r)
  BY <1>2, Both
<1>5. b = before \o r1
  <2>1. b = (before \o F) \o r
    BY <1>1, <1>3
  <2>2. (before \o F) \o r = before \o (F \o r)
    BY <1>2, <1>3, Thrice
  <2> QED
    BY <2>1, <2>2
<1> HIDE DEF r1
<1>6. Len(b) = Len(before) + Len(r1) /\ Drop(b, Len(before)) = r1
  <2>1. Len(before \o r1) = Len(before) + Len(r1)
    BY <1>3, <1>4, Both
  <2>2. Drop(before \o r1, Len(before)) = r1
    BY <1>3, <1>4, SplitOf DEF Buffers
  <2> QED
    BY <1>5, <2>1, <2>2
<1>7. Len(f[j]) = Len(before) + Len(F)
  BY <1>2, <1>3, Both
<1>8. Len(before) \in Nat /\ Len(r) \in Nat
  BY <1>3, BufferIs
<1>9. Width(a) \in Nat /\ Width(a) >= 4
  BY DEF a
<1>10. from \in 0..(Len(b) + 3) /\ ~(from >= Len(b))
  <2> DEFINE m == Len(F)
             k == Len(r)
  <2>1. Len(b) = from + (m + k)
    BY <1>4, <1>6
  <2>2. m \in Nat /\ m >= 4 /\ k \in Nat /\ from \in Nat
    BY <1>2, <1>8, <1>9
  <2> HIDE DEF m, k, from
  <2> QED
    BY ONLY <2>1, <2>2
<1>11. ReadAt(b, from) = <<a>>
  BY <1>2, <1>6 DEF ReadAt, r1
<1>12. NextAt(b, from) = Len(f[j])
  <2>1. NextAt(b, from) = from + 4 + CalculatePadding(Len(a.value), 4)
    BY <1>11 DEF NextAt
  <2>2. Width(a) = 4 + CalculatePadding(Len(a.value), 4)
    BY DEF Width
  <2> DEFINE m == CalculatePadding(Len(a.value), 4)
  <2>3. m \in Nat
    <3>1. Len(a.value) \in Nat
      BY BufferIs DEF StunAttributes, Values, a
    <3> QED
      BY <3>1, PaddingIs
  <2> HIDE DEF m
  <2>4. from + 4 + m = from + (4 + m)
    BY <1>8, <2>3
  <2> QED
    BY <1>2, <1>7, <2>1, <2>2, <2>4 DEF m
<1>13. p[from] = ReadFrom(b, p, from)
  BY <1>10, Zenon
<1>14. <<a>> # Fails
  <2>1. \A x : <<x>> # <<>>
    OBVIOUS
  <2> QED
    BY <2>1, Zenon DEF Fails
<1>15. p[from] = <<a>> \o SubSeq(attrs, j + 1, N)
  BY <1>1, <1>10, <1>11, <1>12, <1>13, <1>14, Zenon DEF ReadFrom
<1>16. <<a>> \o SubSeq(attrs, j + 1, N) = SubSeq(attrs, j, N)
  BY OneMore DEF a
<1>17. (j - 1) + 1 = j
  OBVIOUS
<1> QED
  BY <1>4, <1>5, <1>15, <1>16, <1>17, Zenon DEF Ahead, before

\* The attributes of a message, whatever their number and the lengths of their values, are
\* what is read of it.
LEMMA AttributesRead ==
  ASSUME NEW attrs \in Seq(StunAttributes)
  PROVE  /\ Concat(Formatted(attrs)) \in Buffers
         /\ ParseAttributes(Concat(Formatted(attrs))) = attrs
<1> DEFINE N == Len(attrs)
           forms == Formatted(attrs)
           b == Concat(forms)
<1>1. /\ forms \in Lists /\ Len(forms) = N
      /\ \A i \in 1..N : /\ Attributed(attrs[i], forms[i])
                         /\ Width(attrs[i]) \in Nat /\ Width(attrs[i]) >= 4
  BY FormattedIs
<1>2. N \in Nat /\ N \in 0..N /\ \A i \in 1..N : i \in 0..N /\ i - 1 \in 0..N
  OBVIOUS
<1> HIDE DEF forms
<1>3. PICK f : /\ f[0] = <<>>
               /\ \A i \in 1..N : f[i] \in Buffers /\ f[i] = f[i - 1] \o forms[i]
  BY <1>1, PrefixesExist
<1>4. b = f[N]
  BY <1>1, <1>3, ConcatIs
<1> HIDE DEF b, N
<1>5. ASSUME NEW i \in 0..N PROVE f[i] \in Buffers
  <2>1. CASE i = 0
    BY <1>3, <2>1, NoBytes
  <2>2. CASE i # 0
    <3>1. i \in 1..N
      BY <1>2, <2>2
    <3> QED
      BY <1>3, <3>1
  <2> QED
    BY <2>1, <2>2
<1>6. b \in Buffers
  BY <1>2, <1>4, <1>5
<1>7. PICK p : p = [from \in 0..(Len(b) + 3) |-> ReadFrom(b, p, from)]
  BY <1>6, ReadingsExist
<1> DEFINE parsed == CHOOSE q : q = [from \in 0..(Len(b) + 3) |-> ReadFrom(b, q, from)]
<1>8. parsed = [from \in 0..(Len(b) + 3) |-> ReadFrom(b, parsed, from)]
  BY <1>7, Zenon
<1>9. ParseAttributes(b) = parsed[0]
  BY Zenon DEF ParseAttributes, ReadFrom, ReadAt, NextAt
<1> HIDE DEF parsed
<1> DEFINE U == {i \in 0..N : Ahead(b, parsed, attrs, f, N - i)}
<1>10. 0 \in U
  <2>1. b = f[N] \o <<>>
    BY <1>4, <1>6, EmptyIs
  <2>2. Len(b) \in Nat
    BY <1>6, BufferIs
  <2>3. Len(b) \in 0..(Len(b) + 3) /\ Len(b) >= Len(b)
    BY <2>2
  <2>4. parsed[Len(b)] = <<>>
    BY <1>8, <2>3, Zenon DEF ReadFrom
  <2>5. SubSeq(attrs, N + 1, N) = <<>>
    BY <1>2 DEF N
  <2>6. Ahead(b, parsed, attrs, f, N)
    BY <1>4, <2>1, <2>4, <2>5, NoBytes, Zenon DEF Ahead, N
  <2>7. N - 0 = N /\ 0 \in 0..N
    BY <1>2
  <2> QED
    BY <2>6, <2>7
<1>11. ASSUME NEW i \in 1..N, i - 1 \in U PROVE i \in U
  <2> DEFINE j == N - (i - 1)
  <2>1. j \in 1..N /\ j - 1 = N - i /\ i \in 0..N
    BY <1>2
  <2>2. Ahead(b, parsed, attrs, f, j)
    BY <1>11
  <2> HIDE DEF j
  <2>3. f[j - 1] \in Buffers /\ f[j] = f[j - 1] \o forms[j]
    BY <1>2, <1>3, <1>5, <2>1
  <2>4. j \in 1..Len(attrs)
    BY <2>1 DEF N
  <2>5. Attributed(attrs[j], forms[j]) /\ Width(attrs[j]) \in Nat /\ Width(attrs[j]) >= 4
    BY <1>1, <2>1
  <2>6. Ahead(b, parsed, attrs, f, j - 1)
    BY <1>6, <1>8, <2>2, <2>3, <2>4, <2>5, ReadsOne
  <2> QED
    BY <2>1, <2>6
<1>12. N \in U
  <2> HIDE DEF U
  <2>1. \A i \in 0..N : i \in U
    BY <1>2, <1>10, <1>11, Upwards
  <2> QED
    BY <1>2, <2>1
<1>13. N - N = 0
  BY <1>2
<1>14. Ahead(b, parsed, attrs, f, 0)
  BY <1>12, <1>13
<1>15. parsed[Len(f[0])] = SubSeq(attrs, 0 + 1, N)
  BY <1>14 DEF Ahead, N
<1>16. Len(f[0]) = 0
  <2>1. \A x : x = <<>> => Len(x) = 0
    OBVIOUS
  <2> QED
    BY <1>3, <2>1, Zenon
<1>17. SubSeq(attrs, 0 + 1, N) = attrs
  BY DEF N
<1> QED
  BY <1>6, <1>9, <1>15, <1>16, <1>17 DEF b, forms

-----------------------------------------------------------------------------
(* The messages of STUN *)

LEMMA MethodsAre == \A method \in Methods : method \in Octets /\ method < 16 /\ method \in Nat
BY DEF Methods, Octets

\* The first two bytes: the bits of the class are beside those of the method.
LEMMA TypeIs ==
  ASSUME NEW method \in Methods, NEW clazz \in Classes
  PROVE  \E hi \in {0, 1}, lo \in {method, method + 16} :
           /\ FormatType(method, clazz) = TwoOctets(hi, lo)
           /\ hi = 1 <=> clazz \in {"SUCCESS_RESPONSE", "FAILURE_RESPONSE"}
           /\ lo = method + 16 <=> clazz \in {"INDICATION", "FAILURE_RESPONSE"}
<1> DEFINE hi == IF clazz \in {"SUCCESS_RESPONSE", "FAILURE_RESPONSE"} THEN 1 ELSE 0
           flag == IF clazz \in {"INDICATION", "FAILURE_RESPONSE"} THEN 16 ELSE 0
           high == Bits(method, 4, 3)
           lo == Or(Or(Truncated(method), 32 * high), flag)
<1>1. method \in Octets /\ method < 16 /\ method \in Nat
  BY MethodsAre
<1>2. Truncated(method) = method /\ 32 * high = 0
  BY <1>1 DEF Truncated, Bits
<1>3. Or(method, 0) = method /\ Or(method, 16) = method + 16
  BY <1>1, OrZero, OrSixteen
<1>4. FormatType(method, clazz) = <<hi, lo>>
  BY DEF FormatType
<1> HIDE DEF high
<1>5. lo = Or(method, flag)
  BY <1>2, <1>3
<1>6. flag = 16 <=> clazz \in {"INDICATION", "FAILURE_RESPONSE"}
  OBVIOUS
<1>7. flag \in {0, 16} /\ hi \in {0, 1} /\ (hi = 1 <=> clazz \in {"SUCCESS_RESPONSE", "FAILURE_RESPONSE"})
  OBVIOUS
<1> HIDE DEF flag, lo, hi
<1>8. lo \in {method, method + 16} /\ (lo = method + 16 <=> flag = 16)
  BY <1>1, <1>3, <1>5, <1>7
<1> QED
  BY <1>4, <1>6, <1>7, <1>8, Zenon DEF TwoOctets

\* What they are read as.
Typed(method, clazz, hi, lo) ==
  \A b : b[1] = hi /\ b[2] = lo => b[1] < 64 /\ ParseMethod(b) = method /\ ParseClass(b) = clazz

LEMMA TypeRead ==
  ASSUME NEW method \in Methods, NEW clazz \in Classes,
         NEW hi \in {0, 1}, NEW lo \in {method, method + 16},
         hi = 1 <=> clazz \in {"SUCCESS_RESPONSE", "FAILURE_RESPONSE"},
         lo = method + 16 <=> clazz \in {"INDICATION", "FAILURE_RESPONSE"}
  PROVE  Typed(method, clazz, hi, lo)
<1>1. method \in Nat /\ method < 16
  BY MethodsAre
<1>2. Bits(hi, 0, 1) = hi /\ Bits(hi, 1, 5) = 0 /\ hi < 64
  BY DEF Bits
<1>3. lo % 16 = method /\ Bits(lo, 5, 3) = 0 /\ (Bits(lo, 4, 1) = 1 <=> lo = method + 16)
  BY <1>1 DEF Bits
<1>4. ASSUME NEW b, b[1] = hi, b[2] = lo
      PROVE  b[1] < 64 /\ ParseMethod(b) = method /\ ParseClass(b) = clazz
  <2>1. ParseMethod(b) = method
    <3>1. ParseMethod(b) = (lo % 16) + 16 * Bits(lo, 5, 3) + 128 * Bits(hi, 1, 5)
      BY <1>4 DEF ParseMethod
    <3> QED
      BY <1>1, <1>2, <1>3, <3>1
  <2>2. ParseClass(b) = clazz
    <3>1. Bits(b[1], 0, 1) = 1 <=> clazz \in {"SUCCESS_RESPONSE", "FAILURE_RESPONSE"}
      BY <1>2, <1>4
    <3>2. Bits(b[2], 4, 1) = 1 <=> clazz \in {"INDICATION", "FAILURE_RESPONSE"}
      BY <1>3, <1>4
    <3> QED
      BY <3>1, <3>2 DEF ParseClass, Classes
  <2> QED
    BY <1>2, <1>4, <2>1, <2>2
<1> QED
  BY <1>4 DEF Typed

\* What is in front of the attributes, n bytes of them.
Header(m, n) == ((FormatType(m.method, m.clazz) \o EncodeShort(n)) \o MagicCookie) \o m.transactionId

Reads(m, b, A) ==
  /\ b[1] < 64 /\ ParseMethod(b) = m.method /\ ParseClass(b) = m.clazz
  /\ SubSeq(b, 5, 8) = MagicCookie /\ SubSeq(b, 9, 20) = m.transactionId
  /\ Drop(b, 20) = A /\ ~(Len(b) < 20)

Headed(m, H) ==
  /\ H \in Buffers /\ Len(H) = 20
  /\ \A A \in Buffers : Reads(m, H \o A, A)

LEMMA HeaderIs ==
  ASSUME NEW m, m.method \in Methods, m.clazz \in Classes, m.transactionId \in Buffers,
         Len(m.transactionId) = 12, NEW n \in Nat
  PROVE  Headed(m, Header(m, n))
<1> DEFINE ty == FormatType(m.method, m.clazz)
           s == EncodeShort(n)
           c == MagicCookie
           t == m.transactionId
           p1 == ty \o s
           p2 == p1 \o c
           H == p2 \o t
<1>1. PICK hi \in {0, 1}, lo \in {m.method, m.method + 16} :
           /\ ty = TwoOctets(hi, lo)
           /\ hi = 1 <=> m.clazz \in {"SUCCESS_RESPONSE", "FAILURE_RESPONSE"}
           /\ lo = m.method + 16 <=> m.clazz \in {"INDICATION", "FAILURE_RESPONSE"}
  BY TypeIs
<1>2. Typed(m.method, m.clazz, hi, lo)
  BY <1>1, TypeRead
<1>3. ty \in Buffers /\ Len(ty) = 2 /\ ty[1] = hi /\ ty[2] = lo
  <2>1. hi \in Octets /\ lo \in Octets
    BY MethodsAre DEF Octets
  <2>2. TwoOctets(hi, lo)[1] = hi /\ TwoOctets(hi, lo)[2] = lo
    BY DEF TwoOctets
  <2> QED
    BY <1>1, <2>1, <2>2, TwoIs
<1>4. s \in Buffers /\ Len(s) = 2
  BY ShortBuffer
<1>5. c \in Buffers /\ Len(c) = 4
  <2>1. 33 \in Octets /\ 18 \in Octets /\ 164 \in Octets /\ 66 \in Octets
    BY DEF Octets
  <2> QED
    BY <2>1 DEF MagicCookie, Buffers
<1>6. t \in Buffers /\ Len(t) = 12
  OBVIOUS
<1> HIDE DEF ty, s, c, t
<1>7. p1 \in Buffers /\ Len(p1) = Len(ty) + Len(s)
  BY <1>3, <1>4, Both
<1>8. p2 \in Buffers /\ Len(p2) = Len(p1) + Len(c)
  BY <1>5, <1>7, Both
<1>9. H \in Buffers /\ Len(H) = Len(p2) + Len(t)
  BY <1>6, <1>8, Both
<1>10. Len(p1) = 4 /\ Len(p2) = 8 /\ Len(H) = 20
  BY <1>3, <1>4, <1>5, <1>6, <1>7, <1>8, <1>9
<1>11. ASSUME NEW A \in Buffers PROVE Reads(m, H \o A, A)
  <2> DEFINE b == H \o A
             q == t \o A
             q1 == s \o (c \o q)
  <2>1. q \in Buffers
    BY <1>6, Both
  <2>2. JoinsFive(ty, s, c, t, A)
    BY <1>3, <1>4, <1>5, <1>6, FiveJoined
  <2>3. b = ty \o q1
    BY <2>2, Zenon DEF JoinsFive
  <2>4. q1 \in Buffers
    <3>1. c \o q \in Buffers
      BY <1>5, <2>1, Both
    <3> QED
      BY <1>4, <3>1, Both
  <2>5. b = (p1 \o c) \o q
    <3>1. b = (p2 \o t) \o A
      OBVIOUS
    <3>2. (p2 \o t) \o A = p2 \o (t \o A)
      BY <1>6, <1>8, Thrice
    <3> QED
      BY <3>1, <3>2
  <2> HIDE DEF q, q1
  <2>6. SubSeq((p1 \o c) \o q, Len(p1) + 1, Len(p1) + Len(c)) = c
    BY <1>5, <1>7, <2>1, MiddleIs
  <2>7. SubSeq((p2 \o t) \o A, Len(p2) + 1, Len(p2) + Len(t)) = t
    BY <1>6, <1>8, MiddleIs
  <2>8. Drop(H \o A, Len(H)) = A
    BY <1>9, SplitOf DEF Buffers
  <2>9. b \in Buffers /\ Len(b) = Len(H) + Len(A)
    BY <1>9, Both
  <2>10. \A i \in 1..Len(ty) : (ty \o q1)[i] = ty[i]
    BY <1>3, <2>4, Both
  <2>11. b = (p2 \o t) \o A /\ b = H \o A
    OBVIOUS
  <2> HIDE DEF b, H, p1, p2
  <2>12. b[1] = hi /\ b[2] = lo
    <3>1. 1 \in 1..Len(ty) /\ 2 \in 1..Len(ty)
      BY <1>3
    <3> QED
      BY <1>3, <2>3, <2>10, <3>1, Zenon
  <2>13. SubSeq(b, 5, 8) = c
    <3>1. Len(p1) + 1 = 5 /\ Len(p1) + Len(c) = 8
      BY <1>5, <1>10
    <3> QED
      BY <2>5, <2>6, <3>1, Zenon
  <2>14. SubSeq(b, 9, 20) = t
    <3>1. Len(p2) + 1 = 9 /\ Len(p2) + Len(t) = 20
      BY <1>6, <1>10
    <3> QED
      BY <2>7, <2>11, <3>1, Zenon
  <2>15. Drop(b, 20) = A
    BY <1>10, <2>8, <2>11
  <2>16. ~(Len(b) < 20)
    BY <1>10, <2>9, BufferIs
  <2>17. b[1] < 64 /\ ParseMethod(b) = m.method /\ ParseClass(b) = m.clazz
    BY <1>2, <2>12 DEF Typed
  <2> QED
    BY <2>13, <2>14, <2>15, <2>16, <2>17, Zenon DEF Reads, b, c, t
<1>12. Header(m, n) = H
  BY DEF Header, ty, s, c, t
<1> HIDE DEF H
<1> QED
  BY <1>9, <1>10, <1>11, <1>12 DEF Headed

NoFailure(attrs) == Fails \notin Range(attrs)

LEMMA NoneFails ==
  ASSUME NEW attrs \in Seq(StunAttributes)
  PROVE  NoFailure(attrs)
<1>1. ASSUME NEW a \in StunAttributes PROVE a # Fails
  <2>1. DOMAIN a = {"type", "value"}
    BY DEF StunAttributes
  <2>2. DOMAIN Fails = {}
    BY DEF Fails
  <2> QED
    BY <2>1, <2>2
<1>2. \A i \in DOMAIN attrs : attrs[i] \in StunAttributes
  OBVIOUS
<1> QED
  BY <1>1, <1>2 DEF Range, NoFailure

StunMessage(method, clazz, id, attrs) ==
  [method |-> method, clazz |-> clazz, transactionId |-> id, attributes |-> attrs]

LEMMA FieldsAre ==
  ASSUME NEW method, NEW clazz, NEW id, NEW attrs, NEW m, m = StunMessage(method, clazz, id, attrs)
  PROVE  /\ m.method = method /\ m.clazz = clazz /\ m.transactionId = id /\ m.attributes = attrs
         /\ \A more : [m EXCEPT !.attributes = more] = StunMessage(method, clazz, id, more)
BY DEF StunMessage

\* How a message is made, and what is read of a buffer that starts like it.
LEMMA MessageIs ==
  ASSUME NEW method \in Methods, NEW clazz \in Classes, NEW id \in Buffers, Len(id) = 12,
         NEW attrs \in Seq(StunAttributes), NEW m, m = StunMessage(method, clazz, id, attrs),
         NEW A, A = Concat(Formatted(attrs))
  PROVE  /\ FormatStunMessage(m) = Header(m, Len(A)) \o A
         /\ A \in Buffers /\ Len(A) \in Nat /\ Headed(m, Header(m, Len(A)))
         /\ ParseStunMessage(FormatStunMessage(m)) = <<m>>
<1>1. m.method = method /\ m.clazz = clazz /\ m.transactionId = id /\ m.attributes = attrs
  BY FieldsAre
<1>2. A \in Buffers /\ ParseAttributes(A) = attrs
  BY AttributesRead
<1>3. Len(A) \in Nat
  BY <1>2, BufferIs
<1> DEFINE H == Header(m, Len(A))
           b == H \o A
<1>4. FormatStunMessage(m) = b
  <2>1. A = Concat([i \in DOMAIN m.attributes |-> FormatStunAttribute(m.attributes[i])])
    BY <1>1, Zenon DEF Formatted
  <2> QED
    BY <2>1, Zenon DEF FormatStunMessage, Header
<1>5. Headed(m, H)
  BY <1>1, <1>3, HeaderIs
<1> HIDE DEF H
<1>6. Reads(m, b, A)
  BY <1>2, <1>5 DEF Headed
<1> HIDE DEF b
<1>7. NoFailure(attrs)
  BY NoneFails
<1>8. ParseStunMessage(b) = <<[method |-> m.method, clazz |-> m.clazz,
                               transactionId |-> m.transactionId, attributes |-> attrs]>>
  <2>1. ParseAttributes(Drop(b, 20)) = attrs /\ Fails \notin Range(attrs)
    BY <1>2, <1>6, <1>7, Zenon DEF Reads, NoFailure
  <2>2. /\ ~(Len(b) < 20) /\ ~(b[1] >= 64) /\ SubSeq(b, 5, 8) = MagicCookie
        /\ ParseMethod(b) = m.method /\ ParseClass(b) = m.clazz
        /\ SubSeq(b, 9, 20) = m.transactionId
    <3>1. b[1] \in Nat
      <4>1. b \in Buffers /\ ~(Len(b) < 20) /\ Len(b) \in Nat
        <5>1. b \in Buffers
          BY <1>2, <1>5, Both DEF b, Headed
        <5> QED
          BY <1>6, <5>1, BufferIs DEF Reads
      <4>2. 1 \in 1..Len(b)
        BY <4>1
      <4>3. b[1] \in Octets
        BY <4>1, <4>2, BufferIs, Zenon
      <4> QED
        BY <4>3 DEF Octets
    <3>2. b[1] < 64
      BY <1>6, Zenon DEF Reads
    <3>3. ~(b[1] >= 64)
      BY ONLY <3>1, <3>2
    <3> QED
      BY <1>6, <3>3, Zenon DEF Reads
  <2> QED
    BY <2>1, <2>2, Zenon DEF ParseStunMessage
<1>9. ParseStunMessage(b) = <<m>>
  BY <1>1, <1>8, Zenon DEF StunMessage
<1> QED
  BY <1>2, <1>3, <1>4, <1>5, <1>9, Zenon DEF H, b

\* The messages of STUN, for every method and class of the code, every transaction, and every
\* list of attributes: what is parsed of a message is what it was made from.
THEOREM StunUnderstood ==
  \A method \in Methods, clazz \in Classes, id \in Seq(Octets), attrs \in Seq(StunAttributes) :
    Len(id) = 12 =>
      LET m == StunMessage(method, clazz, id, attrs)
      IN  ParseStunMessage(FormatStunMessage(m)) = <<m>>
<1> SUFFICES ASSUME NEW method \in Methods, NEW clazz \in Classes, NEW id \in Buffers,
                    NEW attrs \in Seq(StunAttributes), Len(id) = 12
             PROVE  LET m == StunMessage(method, clazz, id, attrs)
                    IN  ParseStunMessage(FormatStunMessage(m)) = <<m>>
  BY Zenon DEF Buffers
<1> QED
  BY MessageIs, Zenon

Hashes == {v \in Buffers : Len(v) = 20}

LEMMA HmacIs ==
  ASSUME NEW b \in Buffers
  PROVE  Hmac(b) \in Hashes
<1> DEFINE N == Len(b)
           T == [i \in 0..N |-> Nat]
           Next1(x, i) == ((x * 31) + b[i]) % 65521
           next == [i \in 1..N |-> [x \in Nat |-> Next1(x, i)]]
           Row(f, i) == IF i = 0 THEN 7 ELSE Next1(f[i - 1], i)
           digest == CHOOSE f : f = [i \in 0..N |-> Row(f, i)]
           n == 7
<1>1. Hmac(b) = [i \in 1..20 |-> (digest[N] \div i) % 256]
  BY DEF Hmac
<1>2. N \in Nat /\ \A i \in 1..N : b[i] \in Nat
  BY BufferIs DEF Octets
<1>3. \A i \in 1..N, x \in Nat : Next1(x, i) \in Nat
  BY <1>2
<1>4. n \in Nat
  OBVIOUS
<1>16. \A i \in 0..N : T[i] = Nat
  OBVIOUS
<1>17. \A i \in 1..N, x \in Nat : next[i][x] = Next1(x, i)
  <2> HIDE DEF Next1
  <2> QED
    OBVIOUS
<1>18. \A i \in 1..N : i \in 0..N /\ i - 1 \in 0..N /\ i # 0
  BY <1>2
<1>19. 0 \in 0..N
  BY <1>2
<1> HIDE DEF N, T, next, Next1, n
<1>5. IsLoop(N, T, n, next)
  <2>1. n \in T[0]
    BY <1>4, <1>16, <1>19
  <2>2. ASSUME NEW i \in 1..N, NEW x \in T[i - 1] PROVE next[i][x] \in T[i]
    <3>1. x \in Nat
      BY <1>16, <1>18
    <3> QED
      BY <1>3, <1>16, <1>17, <1>18, <3>1
  <2> QED
    BY <1>2, <2>1, <2>2 DEF IsLoop
<1>6. PICK f : /\ f = [i \in 0..N |-> IF i = 0 THEN n ELSE next[i][f[i - 1]]]
               /\ \A i \in 0..N : f[i] \in T[i]
  BY <1>5, Loop
<1>7. \A i \in 0..N : f[i] \in Nat
  BY <1>6, <1>16
<1>8. ASSUME NEW i \in 0..N PROVE f[i] = Row(f, i)
  <2>1. CASE i = 0
    <3>1. f[0] = n
      BY <1>6, <1>19
    <3> QED
      BY <2>1, <3>1 DEF n
  <2>2. CASE i # 0
    <3>1. i \in 1..N
      BY <1>2, <2>2
    <3>2. f[i] = next[i][f[i - 1]]
      BY <1>6, <1>18, <3>1
    <3>3. f[i] = Next1(f[i - 1], i)
      BY <1>7, <1>17, <1>18, <3>1, <3>2
    <3> QED
      BY <2>2, <3>3
  <2> QED
    BY <2>1, <2>2
<1>9. f = [i \in 0..N |-> f[i]]
  BY <1>6
<1>10. f = [i \in 0..N |-> Row(f, i)]
  <2> HIDE DEF Row
  <2> QED
    BY <1>8, <1>9, Zenon
<1>11. digest = [i \in 0..N |-> Row(digest, i)]
  <2> HIDE DEF Row
  <2> QED
    BY <1>10, Zenon
<1> HIDE DEF digest
<1> DEFINE U == {i \in 0..N : digest[i] \in Nat}
<1>12. 0 \in U
  BY <1>2, <1>4, <1>11
<1>13. ASSUME NEW i \in 1..N, i - 1 \in U PROVE i \in U
  <2>1. i \in 0..N /\ digest[i] = Next1(digest[i - 1], i) /\ digest[i - 1] \in Nat
    BY <1>2, <1>11, <1>13
  <2> QED
    BY <1>3, <2>1
<1>14. digest[N] \in Nat
  <2> HIDE DEF U
  <2>1. \A i \in 0..N : i \in U
    BY <1>2, <1>12, <1>13, Upwards
  <2> QED
    BY <1>2, <2>1 DEF U
<1> DEFINE d == digest[N]
           k == 20
           Cell(i) == (d \div i) % 256
<1>20. \A i \in 1..k : Cell(i) \in Octets
  <2> HIDE DEF d
  <2>1. ASSUME NEW i \in 1..k PROVE Cell(i) \in Octets
    <3>1. (d \div i) \in Int
      BY <1>14 DEF d
    <3> DEFINE q == d \div i
    <3> HIDE DEF q
    <3>2. q % 256 \in Nat /\ q % 256 < 256
      BY <3>1 DEF q
    <3> QED
      BY <3>2 DEF Octets, q
  <2> QED
    BY <2>1
<1>21. Hmac(b) = [i \in 1..k |-> Cell(i)] /\ k \in Nat /\ k = 20
  BY <1>1
<1> HIDE DEF Cell, k
<1>22. Hmac(b) \in Buffers /\ Len(Hmac(b)) = k
  BY <1>20, <1>21 DEF Buffers
<1> QED
  BY <1>21, <1>22 DEF Hashes

-----------------------------------------------------------------------------
(* The hash of a message of STUN *)

HashAttribute(v) == [type |-> MESSAGE_INTEGRITY, value |-> v]
BeforeHash == EncodeShort(MESSAGE_INTEGRITY) \o EncodeShort(20)

LEMMA HashAttributeIs ==
  ASSUME NEW v \in Hashes
  PROVE  /\ HashAttribute(v) \in StunAttributes
         /\ FormatStunAttribute(HashAttribute(v)) = BeforeHash \o v
         /\ BeforeHash \in Buffers /\ Len(BeforeHash) = 4
         /\ v \in Buffers /\ Len(v) = 20
<1> DEFINE a == HashAttribute(v)
           none == [i \in 1..(CalculatePadding(Len(v), 4) - Len(v)) |-> 0]
<1>1. v \in Buffers /\ Len(v) = 20
  BY DEF Hashes
<1>2. a.type = 8 /\ a.value = v
  BY DEF HashAttribute, MESSAGE_INTEGRITY
<1>3. a \in StunAttributes
  <2>1. 20 \in Shorts16 /\ 8 \in Shorts16
    BY DEF Shorts16
  <2>2. v \in Values
    BY <1>1, <2>1 DEF Values
  <2> QED
    BY <2>1, <2>2 DEF StunAttributes, HashAttribute, MESSAGE_INTEGRITY
<1>4. none = <<>>
  <2>1. CalculatePadding(20, 4) - 20 = 0
    BY DEF CalculatePadding
  <2> QED
    BY <1>1, <2>1
<1>5. FormatStunAttribute(a) = ((EncodeShort(8) \o EncodeShort(20)) \o v) \o none
  BY <1>1, <1>2 DEF FormatStunAttribute
<1> HIDE DEF a, none
<1>6. BeforeHash = EncodeShort(8) \o EncodeShort(20)
  BY DEF BeforeHash, MESSAGE_INTEGRITY
<1>7. BeforeHash \in Buffers /\ Len(BeforeHash) = 4
  <2>1. /\ EncodeShort(8) \in Buffers /\ EncodeShort(20) \in Buffers
        /\ Len(EncodeShort(8)) = 2 /\ Len(EncodeShort(20)) = 2
    BY ShortBuffer
  <2> DEFINE s == EncodeShort(8)
             u == EncodeShort(20)
  <2> HIDE DEF s, u
  <2>2. s \o u \in Buffers /\ Len(s \o u) = Len(s) + Len(u)
    BY <2>1, Both DEF s, u
  <2>3. BeforeHash = s \o u
    BY <1>6 DEF s, u
  <2>4. Len(s) = 2 /\ Len(u) = 2
    BY <2>1 DEF s, u
  <2> QED
    BY <2>2, <2>3, <2>4
<1>8. BeforeHash \o v \in Buffers
  BY <1>1, <1>7, Both
<1>9. FormatStunAttribute(a) = BeforeHash \o v
  BY <1>4, <1>5, <1>6, <1>8, EmptyIs
<1> QED
  BY <1>1, <1>3, <1>7, <1>9 DEF a

LEMMA AppendIs ==
  ASSUME NEW S, NEW s \in Seq(S), NEW x \in S
  PROVE  Append(s, x) = [i \in 1..(Len(s) + 1) |-> IF i = Len(s) + 1 THEN x ELSE s[i]]
<1> DEFINE t == Append(s, x)
           N == Len(s)
<1>1. /\ t \in Seq(S) /\ N \in Nat /\ Len(t) = N + 1 /\ t[N + 1] = x
      /\ \A i \in 1..N : t[i] = s[i]
  OBVIOUS
<1> HIDE DEF t, N
<1>2. t = [i \in 1..(N + 1) |-> t[i]]
  BY <1>1
<1>3. \A i \in 1..(N + 1) : t[i] = IF i = N + 1 THEN x ELSE s[i]
  BY <1>1
<1> QED
  BY <1>2, <1>3 DEF t, N

LEMMA OneAttributeMore ==
  ASSUME NEW attrs \in Seq(StunAttributes), NEW a \in StunAttributes
  PROVE  /\ Append(attrs, a) \in Seq(StunAttributes)
         /\ Concat(Formatted(Append(attrs, a))) = Concat(Formatted(attrs)) \o FormatStunAttribute(a)
<1> DEFINE N == Len(attrs)
           more == Append(attrs, a)
           F(x) == FormatStunAttribute(x)
           forms == Formatted(attrs)
<1>1. /\ N \in Nat /\ more \in Seq(StunAttributes) /\ DOMAIN more = 1..(N + 1) /\ DOMAIN attrs = 1..N
      /\ more[N + 1] = a /\ \A i \in 1..N : more[i] = attrs[i]
  OBVIOUS
<1>2. forms \in Lists /\ Len(forms) = N
  BY FormattedIs
<1>3. F(a) \in Buffers
  BY AttributeIs DEF Attributed
<1>4. Formatted(more) = [i \in 1..(N + 1) |-> F(more[i])]
  BY <1>1 DEF Formatted
<1>5. forms = [i \in 1..N |-> F(attrs[i])]
  BY <1>1 DEF Formatted
<1> HIDE DEF F, N, more
<1>6. Append(forms, F(a)) = [i \in 1..(N + 1) |-> IF i = N + 1 THEN F(a) ELSE forms[i]]
  <2>1. forms \in Seq(Buffers)
    BY <1>2 DEF Lists
  <2> HIDE DEF forms
  <2> QED
    BY <1>2, <1>3, <2>1, AppendIs
<1>7. \A i \in 1..(N + 1) : (IF i = N + 1 THEN F(a) ELSE forms[i]) = F(more[i])
  <2> HIDE DEF forms
  <2>1. ASSUME NEW i \in 1..(N + 1) PROVE (IF i = N + 1 THEN F(a) ELSE forms[i]) = F(more[i])
    <3>1. CASE i = N + 1
      BY <1>1, <3>1
    <3>2. CASE i # N + 1
      <4>1. i \in 1..N
        BY <1>1, <3>2
      <4>2. forms[i] = F(attrs[i])
        BY <1>5, <4>1
      <4> QED
        BY <1>1, <3>2, <4>1, <4>2
    <3> QED
      BY <3>1, <3>2
  <2> QED
    BY <2>1
<1>8. Formatted(more) = Append(forms, F(a))
  <2> HIDE DEF forms
  <2> QED
    BY <1>4, <1>6, <1>7, Zenon
<1>9. Concat(Append(forms, F(a))) = Concat(forms) \o F(a)
  <2> HIDE DEF forms
  <2> QED
    BY <1>2, <1>3, ConcatAppends
<1> QED
  BY <1>1, <1>8, <1>9 DEF F, more

LEMMA MessageFormat ==
  ASSUME NEW m, NEW A, A = Concat(Formatted(m.attributes))
  PROVE  FormatStunMessage(m) = Header(m, Len(A)) \o A
BY Zenon DEF FormatStunMessage, Header, Formatted

\* A message and its hash, which covers all that is in front of its attribute.
LEMMA HashedIs ==
  ASSUME NEW method \in Methods, NEW clazz \in Classes, NEW id \in Buffers, Len(id) = 12,
         NEW attrs \in Seq(StunAttributes)
  PROVE  \E F \in Buffers : \A v \in Hashes :
           LET b == FormatStunMessage(StunMessage(method, clazz, id, Append(attrs, HashAttribute(v))))
           IN  /\ b = (F \o BeforeHash) \o v
               /\ Take(b, Len(b) - 20) = F \o BeforeHash
               /\ ComputeHash(b) = Hmac(F)
<1> DEFINE A == Concat(Formatted(attrs))
           m0 == StunMessage(method, clazz, id, attrs)
           H == Header(m0, Len(A) + 24)
           F == H \o A
           g == BeforeHash
<1>1. A \in Buffers /\ Len(A) \in Nat
  BY AttributesRead, BufferIs
<1>2. H \in Buffers
  <2>1. m0.method = method /\ m0.clazz = clazz /\ m0.transactionId = id
    BY DEF StunMessage
  <2>2. Len(A) + 24 \in Nat
    BY <1>1
  <2> HIDE DEF m0, A
  <2>3. Headed(m0, H)
    BY <2>1, <2>2, HeaderIs
  <2> QED
    BY <2>3 DEF Headed
<1>3. F \in Buffers
  BY <1>1, <1>2, Both
<1>4. ASSUME NEW v \in Hashes, NEW b,
             b = FormatStunMessage(StunMessage(method, clazz, id, Append(attrs, HashAttribute(v))))
      PROVE  /\ b = (F \o g) \o v /\ Take(b, Len(b) - 20) = F \o g /\ ComputeHash(b) = Hmac(F)
  <2> DEFINE more == Append(attrs, HashAttribute(v))
             m == StunMessage(method, clazz, id, more)
             B == Concat(Formatted(more))
             gv == g \o v
  <2>1. /\ HashAttribute(v) \in StunAttributes /\ FormatStunAttribute(HashAttribute(v)) = gv
        /\ g \in Buffers /\ Len(g) = 4 /\ v \in Buffers /\ Len(v) = 20
    BY HashAttributeIs
  <2>2. more \in Seq(StunAttributes) /\ B = A \o gv
    BY <2>1, OneAttributeMore
  <2> HIDE DEF more, A, g
  <2>3. b = Header(m, Len(B)) \o B
    <3> HIDE DEF m, B
    <3>1. m = StunMessage(method, clazz, id, more)
      BY DEF m
    <3>2. B = Concat(Formatted(more))
      BY DEF B
    <3>3. b = FormatStunMessage(m)
      BY <1>4 DEF m, more
    <3>4. m.attributes = more
      BY DEF StunMessage, m
    <3> QED
      BY <3>2, <3>3, <3>4, MessageFormat
  <2>4. gv \in Buffers /\ Len(gv) = Len(g) + Len(v)
    BY <2>1, Both
  <2>5. B \in Buffers /\ Len(B) = Len(A) + Len(gv)
    <3> HIDE DEF B, gv
    <3> QED
      BY <1>1, <2>2, <2>4, Both
  <2>6. Len(B) = Len(A) + 24
    BY <2>1, <2>4, <2>5
  <2>7. Header(m, Len(B)) = H
    <3>1. /\ m.method = m0.method /\ m.clazz = m0.clazz /\ m.transactionId = m0.transactionId
      BY DEF StunMessage
    <3> HIDE DEF m, m0, B
    <3> QED
      BY <2>6, <3>1, Zenon DEF Header
  <2> HIDE DEF m, B, H
  <2>8. b = H \o (A \o gv)
    BY <2>2, <2>3, <2>7
  <2>9. (H \o A) \o gv = H \o (A \o gv)
    BY <1>1, <1>2, <2>4, Thrice
  <2> HIDE DEF F
  <2>10. b = F \o gv
    BY <2>8, <2>9 DEF F
  <2>11. (F \o g) \o v = F \o (g \o v)
    BY <1>3, <2>1, Thrice
  <2>12. b = (F \o g) \o v
    BY <2>10, <2>11
  <2> HIDE DEF gv
  <2>13. b \in Buffers /\ Len(b) = Len(F) + Len(gv) /\ Take(b, Len(F)) = F
    <3>1. F \o gv \in Buffers /\ Len(F \o gv) = Len(F) + Len(gv)
      BY <1>3, <2>4, Both
    <3>2. Take(F \o gv, Len(F)) = F
      BY <1>3, <2>4, SplitOf DEF Buffers
    <3> QED
      BY <2>10, <3>1, <3>2
  <2>14. F \o g \in Buffers /\ Len(F \o g) = Len(F) + Len(g)
    BY <1>3, <2>1, Both
  <2>15. Take(b, Len(F \o g)) = F \o g
    <3>1. Take((F \o g) \o v, Len(F \o g)) = F \o g
      BY <2>1, <2>14, SplitOf DEF Buffers
    <3> QED
      BY <2>12, <3>1
  <2>16. Len(F) \in Nat
    BY <1>3, BufferIs
  <2>17. Len(b) - 20 = Len(F \o g) /\ Len(b) - 24 = Len(F)
    BY <2>1, <2>4, <2>13, <2>14, <2>16
  <2>18. Take(b, Len(b) - 20) = F \o g /\ Take(b, Len(b) - 24) = F
    BY <2>13, <2>15, <2>17
  <2> QED
    BY <2>12, <2>18, Zenon DEF ComputeHash
<1> HIDE DEF F, g
<1> QED
  BY <1>3, <1>4 DEF g

LEMMA FoundLast ==
  ASSUME NEW attrs \in Seq(StunAttributes), NEW a \in StunAttributes,
         \A i \in DOMAIN attrs : attrs[i].type # a.type
  PROVE  FindFirstAttributeWithType(a.type, Append(attrs, a)) = <<a>>
<1> DEFINE N == Len(attrs)
           more == Append(attrs, a)
           found == {i \in DOMAIN more : more[i].type = a.type}
<1>1. /\ N \in Nat /\ DOMAIN more = 1..(N + 1) /\ DOMAIN attrs = 1..N
      /\ more[N + 1] = a /\ \A i \in 1..N : more[i] = attrs[i]
  OBVIOUS
<1> HIDE DEF N, more
<1>2. found = {N + 1}
  <2>1. \A i \in 1..(N + 1) : i = N + 1 \/ i \in 1..N
    BY <1>1
  <2>2. \A i \in 1..N : i # N + 1
    BY <1>1
  <2>3. N + 1 \in 1..(N + 1)
    BY <1>1
  <2>4. \A i \in found : i = N + 1
    BY <1>1, <2>1
  <2>5. N + 1 \in found
    BY <1>1, <2>3
  <2> HIDE DEF found
  <2> QED
    BY <2>4, <2>5
<1>3. Min({N + 1}) = N + 1
  <2>1. N + 1 \in Nat
    BY <1>1
  <2>2. {N + 1} = {N + 1, N + 1}
    OBVIOUS
  <2>3. Min({N + 1, N + 1}) = N + 1
    BY <2>1, MinOf
  <2> QED
    BY <2>2, <2>3
<1>4. FindFirstAttributeWithType(a.type, more) = IF found = {} THEN Fails ELSE <<more[Min(found)]>>
  BY DEF FindFirstAttributeWithType
<1> QED
  BY <1>1, <1>2, <1>3, <1>4 DEF more

\* The hash of a message, whatever its attributes, is one attribute more, the last, with the
\* hash of what is received: the receiver reads it and finds it right, and the attributes in
\* front of it are those of the message.
THEOREM IntegrityUnderstood ==
  \A method \in Methods, clazz \in Classes, id \in Seq(Octets), attrs \in Seq(StunAttributes) :
    Len(id) = 12 =>
      LET w == FormatStunMessageWithIntegrity(StunMessage(method, clazz, id, attrs))
          more == Append(attrs, HashAttribute(ComputeHash(w)))
      IN  /\ ParseStunMessage(w) = <<StunMessage(method, clazz, id, more)>>
          /\ (\A i \in DOMAIN attrs : attrs[i].type # MESSAGE_INTEGRITY) =>
               FindFirstAttributeWithType(MESSAGE_INTEGRITY, more) = <<HashAttribute(ComputeHash(w))>>
<1> SUFFICES ASSUME NEW method \in Methods, NEW clazz \in Classes, NEW id \in Buffers,
                    NEW attrs \in Seq(StunAttributes), Len(id) = 12
             PROVE  LET w == FormatStunMessageWithIntegrity(StunMessage(method, clazz, id, attrs))
                        more == Append(attrs, HashAttribute(ComputeHash(w)))
                    IN  /\ ParseStunMessage(w) = <<StunMessage(method, clazz, id, more)>>
                        /\ (\A i \in DOMAIN attrs : attrs[i].type # MESSAGE_INTEGRITY) =>
                             FindFirstAttributeWithType(MESSAGE_INTEGRITY, more)
                               = <<HashAttribute(ComputeHash(w))>>
  BY Zenon DEF Buffers
<1> DEFINE m == StunMessage(method, clazz, id, attrs)
           w == FormatStunMessageWithIntegrity(m)
           more == Append(attrs, HashAttribute(ComputeHash(w)))
<1>13. m = StunMessage(method, clazz, id, attrs) /\ w = FormatStunMessageWithIntegrity(m)
       /\ more = Append(attrs, HashAttribute(ComputeHash(w)))
  OBVIOUS
<1> HIDE DEF m, w, more
<1> DEFINE Built(v) == FormatStunMessage(StunMessage(method, clazz, id, Append(attrs, HashAttribute(v))))
           z == [i \in 1..20 |-> 0]
<1>1. PICK F \in Buffers : \A v \in Hashes :
        /\ Built(v) = (F \o BeforeHash) \o v
        /\ Take(Built(v), Len(Built(v)) - 20) = F \o BeforeHash
        /\ ComputeHash(Built(v)) = Hmac(F)
  BY HashedIs, Zenon
<1>2. z \in Hashes
  BY ZerosAre DEF Hashes
<1>3. w = Take(Built(z), Len(Built(z)) - 20) \o ComputeHash(Built(z))
  <2>1. m.attributes = attrs
    BY <1>13, FieldsAre
  <2>2. [m EXCEPT !.attributes = Append(@, [type |-> MESSAGE_INTEGRITY, value |-> z])]
          = StunMessage(method, clazz, id, Append(attrs, HashAttribute(z)))
    <3>1. \A more1 : [m EXCEPT !.attributes = more1] = StunMessage(method, clazz, id, more1)
      BY <1>13, FieldsAre
    <3>2. [m EXCEPT !.attributes = Append(@, [type |-> MESSAGE_INTEGRITY, value |-> z])]
            = [m EXCEPT !.attributes = Append(m.attributes, [type |-> MESSAGE_INTEGRITY, value |-> z])]
      OBVIOUS
    <3> QED
      BY <2>1, <3>1, <3>2, Zenon DEF HashAttribute
  <2> HIDE DEF z
  <2> QED
    BY <1>13, <2>2, Zenon DEF FormatStunMessageWithIntegrity, z, Built
<1> HIDE DEF Built, z
<1>4. Hmac(F) \in Hashes
  BY HmacIs
<1>5. w = (F \o BeforeHash) \o Hmac(F)
  BY <1>1, <1>2, <1>3
<1>6. w = Built(Hmac(F))
  BY <1>1, <1>4, <1>5
<1>7. ComputeHash(w) = Hmac(F)
  BY <1>1, <1>4, <1>6
<1>8. more = Append(attrs, HashAttribute(Hmac(F))) /\ HashAttribute(Hmac(F)) \in StunAttributes
  BY <1>4, <1>7, <1>13, HashAttributeIs
<1>9. more \in Seq(StunAttributes)
  BY <1>8
<1>10. w = FormatStunMessage(StunMessage(method, clazz, id, more))
  BY <1>6, <1>8 DEF Built
<1>11. ParseStunMessage(w) = <<StunMessage(method, clazz, id, more)>>
  BY <1>9, <1>10, StunUnderstood DEF Buffers
<1>12. ASSUME \A i \in DOMAIN attrs : attrs[i].type # MESSAGE_INTEGRITY
       PROVE  FindFirstAttributeWithType(MESSAGE_INTEGRITY, more) = <<HashAttribute(Hmac(F))>>
  <2> DEFINE a == HashAttribute(Hmac(F))
  <2>1. a.type = MESSAGE_INTEGRITY
    BY DEF HashAttribute
  <2> HIDE DEF a
  <2> QED
    BY <1>8, <1>12, <2>1, FoundLast DEF a
<1> QED
  BY <1>7, <1>11, <1>12 DEF m, w, more

-----------------------------------------------------------------------------
(* Decimal numbers *)

\* The sequences of digits that are read as n.
Written(n) == {s \in Seq(Nat) : OfDigits(s, 10) = n}

LastDigit(g, m) == IF m < 10 THEN <<m>> ELSE Append(g[m \div 10], m % 10)

LEMMA Tenths ==
  ASSUME NEW m \in Nat, ~(m < 10)
  PROVE  /\ (m \div 10) \in 0..(m - 1) /\ (m \div 10) \in Nat /\ (m % 10) \in Nat
         /\ Mixed(m \div 10, 10, m % 10) = m
BY DEF Mixed

LEMMA LastDigitIs ==
  ASSUME NEW m \in Nat, NEW g, \A k \in 0..(m - 1) : g[k] \in Written(k)
  PROVE  LastDigit(g, m) \in Written(m)
<1>1. CASE m < 10
  <2>1. 10 \in Nat
    OBVIOUS
  <2>2. <<m>> \in Seq(Nat) /\ OfDigits(<<m>>, 10) = m
    <3>1. OfDigits(<<m>>, 10) = m
      BY <2>1, FewDigits, Zenon
    <3> QED
      BY <3>1
  <2>3. LastDigit(g, m) = <<m>>
    BY <1>1, Zenon DEF LastDigit
  <2> QED
    BY <2>2, <2>3, Zenon DEF Written
<1>2. CASE ~(m < 10)
  <2> DEFINE q == m \div 10
             r == m % 10
  <2>1. q \in 0..(m - 1) /\ q \in Nat /\ r \in Nat /\ Mixed(q, 10, r) = m
    BY <1>2, Tenths
  <2>2. LastDigit(g, m) = Append(g[q], r)
    BY <1>2, Zenon DEF LastDigit
  <2> HIDE DEF q, r
  <2>3. g[q] \in Seq(Nat) /\ OfDigits(g[q], 10) = q
    BY <2>1, Zenon DEF Written
  <2>4. Append(g[q], r) \in Seq(Nat)
    BY <2>1, <2>3
  <2>5. OfDigits(Append(g[q], r), 10) = Mixed(OfDigits(g[q], 10), 10, r)
    <3>1. 10 \in Nat
      OBVIOUS
    <3> QED
      BY <2>1, <2>3, <3>1, OfDigitsAppends, Zenon
  <2> QED
    BY <2>1, <2>2, <2>3, <2>4, <2>5, Zenon DEF Written
<1> QED
  BY <1>1, <1>2

\* A number that is written down is the number that is read.
LEMMA DecimalIs ==
  ASSUME NEW n \in Nat
  PROVE  Number(Decimal(n)) = n /\ Decimal(n) \in Seq(Nat)
<1> DEFINE T == [m \in 0..n |-> Written(m)]
           body == [m \in 0..n |-> [g \in Smaller(T, m) |-> LastDigit(g, m)]]
           digits == CHOOSE f : f = [m \in 0..n |-> LastDigit(f, m)]
<1>1. ASSUME NEW m \in 0..n
      PROVE  m \in Nat /\ T[m] = Written(m) /\ \A k \in 0..(m - 1) : k \in 0..n /\ T[k] = Written(k)
  OBVIOUS
<1>2. ASSUME NEW m \in 0..n, NEW g \in Smaller(T, m)
      PROVE  body[m][g] = LastDigit(g, m) /\ \A k \in 0..(m - 1) : g[k] \in T[k]
  BY DEF Smaller
<1> HIDE DEF T, body
<1>3. ASSUME NEW m \in 0..n, NEW g \in Smaller(T, m) PROVE body[m][g] \in T[m]
  <2>1. \A k \in 0..(m - 1) : g[k] \in Written(k)
    BY <1>1, <1>2
  <2>2. LastDigit(g, m) \in Written(m)
    BY <1>1, <2>1, LastDigitIs
  <2> QED
    BY <1>1, <1>2, <2>2
<1>4. IsRecursion(n, T, body)
  BY <1>3 DEF IsRecursion
<1>5. PICK f : /\ f = [m \in 0..n |-> body[m][[k \in 0..(m - 1) |-> f[k]]]]
               /\ \A m \in 0..n : f[m] \in T[m]
  BY <1>4, Recursion
<1>6. ASSUME NEW m \in 0..n PROVE body[m][[k \in 0..(m - 1) |-> f[k]]] = LastDigit(f, m)
  <2> DEFINE g == [k \in 0..(m - 1) |-> f[k]]
  <2>1. \A k \in 0..(m - 1) : f[k] \in T[k]
    BY <1>1, <1>5
  <2>2. g \in Smaller(T, m)
    BY <1>1, <2>1, SmallerIs
  <2>3. body[m][g] = LastDigit(g, m)
    BY <1>2, <2>2
  <2>4. LastDigit(g, m) = LastDigit(f, m)
    <3>1. CASE m < 10
      BY <3>1, Zenon DEF LastDigit
    <3>2. CASE ~(m < 10)
      <4>1. (m \div 10) \in 0..(m - 1)
        BY <1>1, <3>2, Tenths
      <4>2. g[m \div 10] = f[m \div 10]
        BY <4>1, Zenon
      <4> HIDE DEF g
      <4> QED
        BY <4>2, Zenon DEF LastDigit
    <3> QED
      BY <3>1, <3>2
  <2> QED
    BY <2>3, <2>4
<1>7. f = [m \in 0..n |-> LastDigit(f, m)]
  BY <1>5, <1>6, Zenon
<1>8. digits = [m \in 0..n |-> LastDigit(digits, m)]
  BY <1>7, Zenon
<1>9. Decimal(n) = digits[n]
  BY Zenon DEF Decimal, LastDigit
<1> HIDE DEF digits
<1> DEFINE U == {m \in 0..n : digits[m] \in Written(m)}
<1>10. ASSUME NEW m \in 0..n, \A k \in 0..(m - 1) : k \in U PROVE m \in U
  <2>1. digits[m] = LastDigit(digits, m)
    BY <1>8, Zenon
  <2>2. \A k \in 0..(m - 1) : digits[k] \in Written(k)
    BY <1>10
  <2>3. LastDigit(digits, m) \in Written(m)
    BY <1>1, <2>2, LastDigitIs
  <2> QED
    BY <2>1, <2>3
<1>11. n \in 0..n
  OBVIOUS
<1>12. n \in U
  <2> HIDE DEF U
  <2>1. \A m \in 0..n : m \in U
    BY <1>10, Downwards
  <2> QED
    BY <1>11, <2>1
<1>13. digits[n] \in Written(n)
  BY <1>12
<1> QED
  BY <1>9, <1>13, Zenon DEF Written, Number

-----------------------------------------------------------------------------
(* Pairs *)

Pairs(S) == {p \in Seq(S) : Len(p) = 2}

LEMMA Doubles ==
  ASSUME NEW n, NEW q \in Nat, NEW r \in Nat, r < 2, n = 2 * q + r
  PROVE  n \div 2 = q /\ n % 2 = r
OBVIOUS

\* Pairs joined, and in pairs again.
LEMMA PairsJoined ==
  ASSUME NEW S, NEW c \in Seq(Pairs(S))
  PROVE  /\ Concat(c) \in Seq(S) /\ Len(Concat(c)) = 2 * Len(c)
         /\ Chunk(Concat(c), 2) = c
         /\ c # <<>> => Concat(c)[1] = c[1][1]
<1> DEFINE N == Len(c)
           b == [p \in 1..(2 * N) |-> c[((p - 1) \div 2) + 1][((p - 1) % 2) + 1]]
           at == [i \in 0..N |-> 2 * i]
<1>0. N \in Nat /\ \A i \in 1..N : c[i] \in Seq(S) /\ Len(c[i]) = 2
  BY DEF Pairs
<1>1. ASSUME NEW p \in 1..(2 * N) PROVE b[p] \in S
  <2>1. ((p - 1) \div 2) + 1 \in 1..N /\ ((p - 1) % 2) + 1 \in 1..2
    BY <1>0
  <2> QED
    BY <1>0, <2>1
<1>2. b \in Seq(S) /\ Len(b) = 2 * N
  BY <1>0, <1>1
<1>3. ASSUME NEW i \in 1..N PROVE SubSeq(b, 2 * (i - 1) + 1, 2 * i) = c[i]
  <2> DEFINE m == 2 * (i - 1)
             s == SubSeq(b, m + 1, m + 2)
  <2>1. m \in Nat /\ m + 2 = 2 * i /\ m + 2 <= 2 * N /\ m <= m + 2 /\ (m + 2) - m = 2
    BY <1>0
  <2>2. ASSUME NEW j \in 1..2 PROVE b[m + j] = c[i][j]
    <3>1. m + j \in 1..(2 * N)
      BY <1>0
    <3>2. (((m + j) - 1) \div 2) + 1 = i /\ (((m + j) - 1) % 2) + 1 = j
      <4>1. m + j - 1 = 2 * (i - 1) + (j - 1) /\ i - 1 \in Nat /\ j - 1 \in Nat /\ j - 1 < 2
        OBVIOUS
      <4>2. (m + j - 1) \div 2 = i - 1 /\ (m + j - 1) % 2 = j - 1
        <5> HIDE DEF m
        <5> QED
          BY <4>1, Doubles
      <4> QED
        BY <4>2
    <3>3. b[m + j] = c[(((m + j) - 1) \div 2) + 1][(((m + j) - 1) % 2) + 1]
      BY <3>1
    <3> QED
      BY <3>2, <3>3
  <2> HIDE DEF m, b
  <2>3. s \in Seq(S) /\ Len(s) = 2 /\ \A j \in 1..2 : s[j] = b[m + j]
    BY <1>0, <1>2, <2>1, PartOf
  <2> HIDE DEF s
  <2>4. c[i] \in Seq(S) /\ Len(c[i]) = 2 /\ Len(s) = Len(c[i])
        /\ \A j \in 1..Len(s) : s[j] = c[i][j]
    BY <1>0, <2>2, <2>3
  <2>5. s = c[i]
    BY <2>3, <2>4, SeqEqual
  <2> QED
    BY <2>1, <2>5 DEF s, m
<1>9. c # <<>> => b[1] = c[1][1]
  <2> SUFFICES ASSUME c # <<>> PROVE b[1] = c[1][1]
    OBVIOUS
  <2>1. 1 \in 1..(2 * N) /\ ((1 - 1) \div 2) + 1 = 1 /\ ((1 - 1) % 2) + 1 = 1
    <3>1. N # 0
      OBVIOUS
    <3> QED
      BY <1>0, <3>1
  <2> QED
    BY <2>1
<1> HIDE DEF b
<1>4. at \in [0..N -> Nat] /\ at[0] = 0 /\ at[N] = Len(b) /\ \A i \in 1..N : at[i - 1] <= at[i]
  BY <1>0, <1>2
<1>5. \A i \in 1..N : c[i] = SubSeq(b, at[i - 1] + 1, at[i])
  BY <1>3
<1> HIDE DEF at
<1>6. c \in Seq(Seq(S))
  BY <1>0
<1>7. Concat(c) = b
  <2>1. IsCut(S, b, N, at, c)
    BY <1>0, <1>2, <1>4, <1>5, <1>6 DEF IsCut
  <2> QED
    BY <2>1, PiecesJoined
<1>8. Chunk(b, 2) = c
  <2>1. (2 * N + 2 - 1) \div 2 = N
    BY <1>0
  <2>2. Chunk(b, 2) = [i \in 1..N |-> Take(Drop(b, (i - 1) * 2), 2)]
    BY <1>2, <2>1 DEF Chunk
  <2>3. ASSUME NEW i \in 1..N PROVE Take(Drop(b, (i - 1) * 2), 2) = c[i]
    <3> DEFINE m == (i - 1) * 2
    <3>1. m \in Nat /\ m + 2 <= Len(b) /\ m = 2 * (i - 1) /\ m + 2 = 2 * i
      BY <1>0, <1>2
    <3> HIDE DEF m
    <3>2. Take(Drop(b, m), 2) = SubSeq(b, m + 1, m + 2)
      BY <1>2, <3>1, PieceOf
    <3> QED
      BY <1>3, <3>1, <3>2 DEF m
  <2>4. c = [i \in 1..N |-> c[i]]
    BY <1>0
  <2> QED
    BY <2>2, <2>3, <2>4
<1> QED
  BY <1>2, <1>7, <1>8, <1>9

-----------------------------------------------------------------------------
(* The lines of candidates *)

\* The candidates whose strings are from S, and the tokens of their lines.
Related(S) == {<<>>} \cup {<<r>> : r \in [address : S, port : Nat]}

IceCandidates(S) ==
  [foundation : S, component : Nat, protocol : S, priority : Nat, ip : S, port : Nat, type : S,
   related : Related(S), extensions : Seq(Pairs(S))]

Words(S) ==
  S \cup {"typ", "raddr", "rport"} \cup {<<"candidate", f>> : f \in S} \cup Seq(Nat)

LEMMA CandidateIs ==
  ASSUME NEW S, NEW c \in IceCandidates(S)
  PROVE  /\ c.foundation \in S /\ c.component \in Nat /\ c.protocol \in S
         /\ c.priority \in Nat /\ c.ip \in S /\ c.port \in Nat /\ c.type \in S
         /\ c.related \in Related(S) /\ c.extensions \in Seq(Pairs(S))
         /\ \A p : [c EXCEPT !.protocol = p] =
                     [foundation |-> c.foundation, component |-> c.component, protocol |-> p,
                      priority |-> c.priority, ip |-> c.ip, port |-> c.port, type |-> c.type,
                      related |-> c.related, extensions |-> c.extensions]
BY DEF IceCandidates

LEMMA FourTokens ==
  ASSUME NEW S, NEW t1 \in S, NEW t2 \in S, NEW t3 \in S, NEW t4 \in S,
         NEW t, t = <<t1, t2, t3, t4>>
  PROVE  t \in Seq(S) /\ Len(t) = 4 /\ t[1] = t1 /\ t[2] = t2 /\ t[3] = t3 /\ t[4] = t4
OBVIOUS

LEMMA EightTokens ==
  ASSUME NEW S, NEW t1 \in S, NEW t2 \in S, NEW t3 \in S, NEW t4 \in S, NEW t5 \in S,
         NEW t6 \in S, NEW t7 \in S, NEW t8 \in S,
         NEW t, t = <<t1, t2, t3, t4, t5, t6, t7, t8>>
  PROVE  /\ t \in Seq(S) /\ Len(t) = 8 /\ t[1] = t1 /\ t[2] = t2 /\ t[3] = t3 /\ t[4] = t4
         /\ t[5] = t5 /\ t[6] = t6 /\ t[7] = t7 /\ t[8] = t8
OBVIOUS

\* The tokens at the start of a line.
Starts(c, t) ==
  /\ t[1] = <<"candidate", c.foundation>> /\ t[2] = Decimal(c.component) /\ t[3] = c.protocol
  /\ t[4] = Decimal(c.priority) /\ t[5] = c.ip /\ t[6] = Decimal(c.port) /\ t[7] = "typ"
  /\ t[8] = c.type

LEMMA JoinedTokens ==
  ASSUME NEW S, NEW s \in Seq(S), NEW t \in Seq(S)
  PROVE  /\ s \o t \in Seq(S) /\ Len(s \o t) = Len(s) + Len(t)
         /\ \A i \in 1..Len(s) : (s \o t)[i] = s[i]
         /\ \A i \in 1..Len(t) : (s \o t)[Len(s) + i] = t[i]
OBVIOUS

LEMMA StartStays ==
  ASSUME NEW c, NEW S, NEW s \in Seq(S), NEW t \in Seq(S), Len(s) >= 8, Starts(c, s)
  PROVE  Starts(c, s \o t) /\ ~(Len(s \o t) < 8)
<1> DEFINE w == s \o t
<1>1. Len(w) = Len(s) + Len(t) /\ \A i \in 1..Len(s) : w[i] = s[i]
  BY JoinedTokens
<1>2. 1..8 \subseteq 1..Len(s) /\ Len(s) \in Nat /\ Len(t) \in Nat
  OBVIOUS
<1> HIDE DEF w
<1>3. /\ w[1] = s[1] /\ w[2] = s[2] /\ w[3] = s[3] /\ w[4] = s[4] /\ w[5] = s[5]
      /\ w[6] = s[6] /\ w[7] = s[7] /\ w[8] = s[8]
  BY <1>1, <1>2
<1> QED
  BY <1>1, <1>2, <1>3 DEF Starts, w

\* The line of a candidate, and what is behind its required part.
LEMMA LineIs ==
  ASSUME NEW S, NEW c \in IceCandidates(S)
  PROVE  \E front \in Seq(Words(S)) :
           /\ ToRTCIceCandidate(c) = front \o Concat(c.extensions)
           /\ Starts(c, front)
           /\ c.related = <<>> => Len(front) = 8
           /\ c.related # <<>> =>
                /\ Len(front) = 12 /\ front[9] = "raddr" /\ front[10] = c.related[1].address
                /\ front[11] = "rport" /\ front[12] = Decimal(c.related[1].port)
<1> DEFINE head == <<<<"candidate", c.foundation>>, Decimal(c.component), c.protocol,
                     Decimal(c.priority), c.ip, Decimal(c.port), "typ", c.type>>
           more == <<"raddr", c.related[1].address, "rport", Decimal(c.related[1].port)>>
           E == Concat(c.extensions)
<1>1. ToRTCIceCandidate(c) = (head \o (IF c.related = <<>> THEN <<>> ELSE more)) \o E
  BY Zenon DEF ToRTCIceCandidate
<1>2. \A n \in Nat : Decimal(n) \in Words(S)
  BY DecimalIs DEF Words
<1>3. head \in Seq(Words(S)) /\ Len(head) = 8 /\ Starts(c, head)
  <2> DEFINE t1 == <<"candidate", c.foundation>>
             d2 == Decimal(c.component)
             d4 == Decimal(c.priority)
             d6 == Decimal(c.port)
  <2>1. /\ c.foundation \in S /\ c.protocol \in Words(S) /\ c.ip \in Words(S) /\ c.type \in Words(S)
        /\ d2 \in Words(S) /\ d4 \in Words(S) /\ d6 \in Words(S)
    BY <1>2, CandidateIs DEF Words
  <2>2. t1 \in Words(S) /\ "typ" \in Words(S)
    BY <2>1 DEF Words
  <2>3. head = <<t1, d2, c.protocol, d4, c.ip, d6, "typ", c.type>>
    OBVIOUS
  <2> HIDE DEF t1, d2, d4, d6, head
  <2>4. /\ head \in Seq(Words(S)) /\ Len(head) = 8 /\ head[1] = t1 /\ head[2] = d2
        /\ head[3] = c.protocol /\ head[4] = d4 /\ head[5] = c.ip /\ head[6] = d6
        /\ head[7] = "typ" /\ head[8] = c.type
    BY <2>1, <2>2, <2>3, EightTokens
  <2> QED
    BY <2>4, Zenon DEF Starts, t1, d2, d4, d6
<1> HIDE DEF head, E
<1>4. CASE c.related = <<>>
  <2>1. head \o <<>> = head
    BY <1>3, ConcatEmptySeq
  <2>2. ToRTCIceCandidate(c) = head \o E
    BY <1>1, <1>4, <2>1, Zenon
  <2> QED
    BY <1>3, <1>4, <2>2 DEF E
<1>5. CASE c.related # <<>>
  <2> DEFINE r == c.related[1]
             d == Decimal(r.port)
             front == head \o more
  <2>1. r \in [address : S, port : Nat]
    <3>1. c.related \in Related(S)
      BY CandidateIs
    <3>2. PICK x \in [address : S, port : Nat] : c.related = <<x>>
      BY <1>5, <3>1 DEF Related
    <3> QED
      BY <3>2
  <2>2. r.address \in S /\ r.port \in Nat
    BY <2>1
  <2>3. r.address \in Words(S) /\ d \in Words(S) /\ "raddr" \in Words(S) /\ "rport" \in Words(S)
    BY <1>2, <2>2 DEF Words
  <2>4. more = <<"raddr", r.address, "rport", d>>
    OBVIOUS
  <2> HIDE DEF r, d, more
  <2>5. /\ more \in Seq(Words(S)) /\ Len(more) = 4 /\ more[1] = "raddr" /\ more[2] = r.address
        /\ more[3] = "rport" /\ more[4] = d
    BY <2>3, <2>4, FourTokens
  <2> DEFINE W == Words(S)
  <2>10. head \in Seq(W) /\ more \in Seq(W) /\ Len(head) >= 8
    BY <1>3, <2>5
  <2> HIDE DEF W
  <2>6. /\ front \in Seq(W) /\ Len(front) = Len(head) + Len(more)
        /\ \A i \in 1..Len(more) : front[Len(head) + i] = more[i]
    <3>1. front = head \o more
      OBVIOUS
    <3> HIDE DEF front
    <3> QED
      BY ONLY <2>10, <3>1, JoinedTokens
  <2>7. Starts(c, front)
    BY <1>3, <2>10, StartStays, Zenon
  <2> HIDE DEF front
  <2>8. Len(front) = 12 /\ front[9] = more[1] /\ front[10] = more[2] /\ front[11] = more[3]
        /\ front[12] = more[4]
    <3>1. /\ 1 \in 1..Len(more) /\ 2 \in 1..Len(more) /\ 3 \in 1..Len(more) /\ 4 \in 1..Len(more)
          /\ Len(head) + 1 = 9 /\ Len(head) + 2 = 10 /\ Len(head) + 3 = 11 /\ Len(head) + 4 = 12
          /\ Len(head) + Len(more) = 12
      BY <1>3, <2>5
    <3> QED
      BY <2>6, <3>1, Zenon
  <2>9. ToRTCIceCandidate(c) = front \o E
    BY <1>1, <1>5, Zenon DEF front
  <2> QED
    BY <1>5, <2>5, <2>6, <2>7, <2>8, <2>9, Zenon DEF E, r, d, W
<1> QED
  BY <1>4, <1>5

\* Candidates of ICE, for all numbers and strings and any number of extensions: what is read of
\* the line is the candidate, with its protocol in lower case.  A first extension named raddr
\* would be taken for the related address of a candidate that has none.
THEOREM CandidateUnderstood ==
  \A S : \A c \in IceCandidates(S) :
    (c.related = <<>> /\ c.extensions # <<>> => c.extensions[1][1] # "raddr") =>
      FromRTCIceCandidate(ToRTCIceCandidate(c)) = <<[c EXCEPT !.protocol = Lower(@)]>>
<1> SUFFICES ASSUME NEW S, NEW c \in IceCandidates(S),
                    c.related = <<>> /\ c.extensions # <<>> => c.extensions[1][1] # "raddr"
             PROVE  FromRTCIceCandidate(ToRTCIceCandidate(c)) = <<[c EXCEPT !.protocol = Lower(@)]>>
  OBVIOUS
<1> DEFINE E == Concat(c.extensions)
           tokens == ToRTCIceCandidate(c)
<1>1. PICK front \in Seq(Words(S)) :
           /\ tokens = front \o E
           /\ Starts(c, front)
           /\ c.related = <<>> => Len(front) = 8
           /\ c.related # <<>> =>
                /\ Len(front) = 12 /\ front[9] = "raddr" /\ front[10] = c.related[1].address
                /\ front[11] = "rport" /\ front[12] = Decimal(c.related[1].port)
  BY LineIs
<1>2. /\ E \in Seq(S) /\ Chunk(E, 2) = c.extensions /\ Len(E) = 2 * Len(c.extensions)
      /\ c.extensions # <<>> => E[1] = c.extensions[1][1]
  <2>1. c.extensions \in Seq(Pairs(S))
    BY CandidateIs
  <2> QED
    BY <2>1, PairsJoined
<1>3. E \in Seq(Words(S))
  <2> HIDE DEF E
  <2>1. \A x \in S : x \in Words(S)
    BY DEF Words
  <2> QED
    BY <1>2, <2>1
<1> HIDE DEF E, tokens
<1>4. Len(front) >= 8
  <2>1. Len(front) = 8 \/ Len(front) = 12
    BY <1>1, Zenon
  <2>2. \A k \in {8, 12} : k >= 8
    OBVIOUS
  <2> QED
    BY <2>1, <2>2, Zenon
<1>5. Starts(c, tokens) /\ ~(Len(tokens) < 8)
  BY <1>1, <1>3, <1>4, StartStays
<1>6. /\ Len(tokens) = Len(front) + Len(E) /\ \A i \in 1..Len(front) : tokens[i] = front[i]
      /\ \A i \in 1..Len(E) : tokens[Len(front) + i] = E[i]
  BY <1>1, <1>3, JoinedTokens
<1>7. Drop(tokens, Len(front)) = E
  BY <1>1, <1>3, SplitOf
<1> DEFINE hasRelated == Len(tokens) > 8 /\ tokens[9] = "raddr"
           from == IF hasRelated THEN 12 ELSE 8
           related == IF hasRelated
                      THEN <<[address |-> tokens[10], port |-> Number(tokens[12])]>> ELSE <<>>
<1>8. from = Len(front) /\ related = c.related /\ ~(hasRelated /\ tokens[11] # "rport")
  <2>1. CASE c.related = <<>>
    <3>1. Len(front) = 8
      BY <1>1, <2>1
    <3>2. ~hasRelated
      <4> SUFFICES ASSUME Len(tokens) > 8 PROVE tokens[9] # "raddr"
        OBVIOUS
      <4>1. 1 \in 1..Len(E) /\ Len(front) + 1 = 9
        BY <1>3, <1>6, <3>1
      <4>2. tokens[9] = E[1]
        BY <1>6, <4>1, Zenon
      <4>3. c.extensions # <<>>
        <5>1. ASSUME c.extensions = <<>> PROVE FALSE
          <6>1. Len(c.extensions) = 0
            <7>1. \A x : x = <<>> => Len(x) = 0
              OBVIOUS
            <7> QED
              BY <5>1, <7>1, Zenon
          <6> QED
            BY <1>2, <4>1, <6>1
        <5> QED
          BY <5>1
      <4> QED
        BY <1>2, <2>1, <4>2, <4>3
    <3> QED
      BY <2>1, <3>1, <3>2, Zenon
  <2>2. CASE c.related # <<>>
    <3>1. Len(front) = 12
      BY <1>1, <2>2
    <3>2. /\ 9 \in 1..Len(front) /\ 10 \in 1..Len(front) /\ 11 \in 1..Len(front)
          /\ 12 \in 1..Len(front) /\ Len(tokens) > 8
      BY <1>3, <1>6, <3>1
    <3>3. /\ tokens[9] = "raddr" /\ tokens[10] = c.related[1].address /\ tokens[11] = "rport"
          /\ tokens[12] = Decimal(c.related[1].port)
      BY <1>1, <1>6, <2>2, <3>2, Zenon
    <3>4. PICK r \in [address : S, port : Nat] : c.related = <<r>>
      <4>1. c.related \in Related(S)
        BY CandidateIs
      <4> QED
        BY <2>2, <4>1 DEF Related
    <3>5. c.related[1] = r
      BY <3>4
    <3>6. r.port \in Nat /\ r = [address |-> r.address, port |-> r.port]
      OBVIOUS
    <3>7. Number(tokens[12]) = r.port
      BY <3>3, <3>5, <3>6, DecimalIs
    <3>8. <<[address |-> tokens[10], port |-> Number(tokens[12])]>> = c.related
      BY <3>3, <3>4, <3>5, <3>6, <3>7
    <3> QED
      BY <3>1, <3>2, <3>3, <3>8, Zenon
  <2> QED
    BY <2>1, <2>2
<1>9. /\ tokens[1][2] = c.foundation /\ Number(tokens[2]) = c.component
      /\ Lower(tokens[3]) = Lower(c.protocol) /\ Number(tokens[4]) = c.priority
      /\ tokens[5] = c.ip /\ Number(tokens[6]) = c.port /\ tokens[7] = "typ" /\ tokens[8] = c.type
  <2>1. \A x, y : <<x, y>>[2] = y
    OBVIOUS
  <2>2. tokens[1][2] = c.foundation
    <3>1. tokens[1] = <<"candidate", c.foundation>>
      BY <1>5, Zenon DEF Starts
    <3> QED
      BY <2>1, <3>1
  <2>3. c.component \in Nat /\ c.priority \in Nat /\ c.port \in Nat
    BY CandidateIs
  <2>4. \A n \in Nat : Number(Decimal(n)) = n
    BY DecimalIs
  <2> QED
    BY <1>5, <2>2, <2>3, <2>4, Zenon DEF Starts
<1>10. Chunk(Drop(tokens, from), 2) = c.extensions
  BY <1>2, <1>7, <1>8
<1>11. FromRTCIceCandidate(tokens) =
         <<[foundation |-> tokens[1][2], component |-> Number(tokens[2]),
            protocol |-> Lower(tokens[3]), priority |-> Number(tokens[4]),
            ip |-> tokens[5], port |-> Number(tokens[6]), type |-> tokens[8],
            related |-> related, extensions |-> Chunk(Drop(tokens, from), 2)]>>
  BY <1>5, <1>8, <1>9, Zenon DEF FromRTCIceCandidate
<1> HIDE DEF related, from
<1>12. FromRTCIceCandidate(tokens) =
         <<[foundation |-> c.foundation, component |-> c.component,
            protocol |-> Lower(c.protocol), priority |-> c.priority,
            ip |-> c.ip, port |-> c.port, type |-> c.type,
            related |-> c.related, extensions |-> c.extensions]>>
  BY <1>8, <1>9, <1>10, <1>11, Zenon
<1>13. [c EXCEPT !.protocol = Lower(@)] = [c EXCEPT !.protocol = Lower(c.protocol)]
  OBVIOUS
<1> QED
  BY <1>12, <1>13, CandidateIs, Zenon DEF tokens

-----------------------------------------------------------------------------
(* What the runs compose *)

\* What may be asked to be sent with each codec.
MayAsk(name, message) ==
  /\ name = "hex" => message \in Payloads
  /\ name = "auth" => message \in {<<>>, <<0>>, << 2 >>, << 1, 2 >>, << 2, 0 >>, <<0, 1, 2>>}
  /\ name = "choice" => message \in {NOAUTH, 255}
  /\ name = "request" => message \in [command : Range(<<1, 2, 3>>), endpoint : Endpoints]
  /\ name = "response" => message \in [reply : Replies, endpoint : {<<>>} \cup {<<e>> : e \in Endpoints}]
  /\ name = "udp" =>
       message \in [frag : {0, 1}, endpoint : Endpoints, data : {<<1, 2, 3>>, Ramp(20, 0, 3)}]
  /\ name \in {"stun", "integrity"} => message \in StunMessages
  /\ name = "address" =>
       message \in [address : {<<0, 0, 0, 0>>, <<192, 168, 255, 1>>}, port : Ports]
  /\ name = "candidate" => message \in Candidates

Asked == MayAsk(codec, input)

Asking ==
  {"hex", "auth", "choice", "request", "response", "udp", "stun", "integrity", "address",
   "candidate"}

\* Messages, unlike the packets of a transformer, arrive in their order.
MessagesInv ==
  /\ codec \in Transforming \cup {"frequencies"} \cup Asking
  /\ Asked /\ step \in Steps
  /\ step = "decode" => wire = Encoded
  /\ codec \in Asking /\ step # "encode" => wire = Encoded
  /\ step = "done" => output = Decoded

LEMMA InitMessages == Init => MessagesInv
<1> SUFFICES ASSUME Init PROVE MessagesInv
  OBVIOUS
<1>1. step = "encode"
  BY DEF Init
<1>2. codec \in Transforming \cup {"frequencies"} \cup Asking
  BY Zenon DEF Init, Asking
<1>3. Asked
  BY DEF Init, Asked, MayAsk, Transforming
<1> QED
  BY <1>1, <1>2, <1>3 DEF MessagesInv, Steps

LEMMA NextMessages == MessagesInv /\ [Next]_vars => MessagesInv'
<1> SUFFICES ASSUME MessagesInv, [Next]_vars PROVE MessagesInv'
  OBVIOUS
<1>1. codec' = codec /\ input' = input
  BY DEF Next, Send, Reorder, Receive, vars
<1>2. Encoded' = Encoded /\ (wire' = wire => Decoded' = Decoded)
  BY <1>1, SameInput, Zenon
<1>3. Asked' /\ codec' \in Transforming \cup {"frequencies"} \cup Asking
  <2>1. Asked' = Asked
    BY <1>1, Zenon DEF Asked
  <2>2. Asked /\ codec \in Transforming \cup {"frequencies"} \cup Asking
    BY DEF MessagesInv
  <2> QED
    BY <1>1, <2>1, <2>2
<1>4. CASE Send
  <2>1. step' = "decode" /\ wire' = Encoded
    BY <1>4 DEF Send
  <2> QED
    BY <1>1, <1>2, <1>3, <2>1 DEF MessagesInv, Steps
<1>5. CASE Reorder
  <2>1. step' = "reordered" /\ codec \in Transforming
    BY <1>5 DEF Reorder
  <2>2. codec \notin Asking
    BY <2>1 DEF Transforming, Asking
  <2> QED
    BY <1>1, <1>2, <1>3, <2>1, <2>2 DEF MessagesInv, Steps
<1>6. CASE Receive
  <2>1. step # "encode" /\ step' = "done" /\ wire' = wire /\ output' = Decoded
    BY <1>6 DEF Receive
  <2> QED
    BY <1>1, <1>2, <1>3, <2>1 DEF MessagesInv, Steps
<1>7. CASE UNCHANGED vars
  <2>1. step' = step /\ wire' = wire /\ output' = output
    BY <1>7 DEF vars
  <2> QED
    BY <1>1, <1>2, <1>3, <2>1 DEF MessagesInv
<1> QED
  BY <1>4, <1>5, <1>6, <1>7 DEF Next

-----------------------------------------------------------------------------
(* That they are of the kinds the messages of any size are proved for *)

\* A ramp of bytes.
LEMMA SlopeIs ==
  ASSUME NEW size \in Nat, NEW from \in Nat, NEW slope \in Nat
  PROVE  Ramp(size, from, slope) \in Buffers /\ Len(Ramp(size, from, slope)) = size
<1> DEFINE at(i) == (from + i * slope) % 256
<1>1. ASSUME NEW i \in 1..size PROVE at(i) \in Octets
  <2> DEFINE n == from + i * slope
  <2>1. n \in Nat
    <3>1. i * slope \in Nat
      OBVIOUS
    <3> QED
      BY <3>1
  <2> HIDE DEF n
  <2>2. (n % 256) \in Octets
    BY <2>1, SMT DEF Octets
  <2> QED
    BY <2>2 DEF n
<1>2. Ramp(size, from, slope) = [i \in 1..size |-> at(i)]
  BY DEF Ramp
<1> HIDE DEF at
<1> QED
  BY <1>1, <1>2 DEF Buffers

LEMMA PortIs == \A p \in Ports : p \in Shorts16
BY PortsAssumption, SMT DEF Shorts16

LEMMA NameIs ==
  ASSUME NEW a \in Names
  PROVE  a \in Seq(Octets) /\ Len(a) \in 1..255
<1>1. PICK size \in NameSizes : a = Ramp(size, 97, 1)
  BY DEF Names
<1>2. size \in 1..255
  BY NamesAssumption
<1>3. 97 \in Nat /\ 1 \in Nat /\ size \in Nat
  BY <1>2
<1>4. a \in Buffers /\ Len(a) = size
  BY <1>1, <1>3, SlopeIs, Zenon
<1> QED
  BY <1>2, <1>4 DEF Buffers

LEMMA FourOctets ==
  ASSUME NEW w \in Octets, NEW x \in Octets, NEW y \in Octets, NEW z \in Octets
  PROVE  <<w, x, y, z>> \in Seq(Octets) /\ Len(<<w, x, y, z>>) = 4
OBVIOUS

LEMMA EightShorts ==
  ASSUME NEW s1 \in Shorts16, NEW s2 \in Shorts16, NEW s3 \in Shorts16, NEW s4 \in Shorts16,
         NEW s5 \in Shorts16, NEW s6 \in Shorts16, NEW s7 \in Shorts16, NEW s8 \in Shorts16
  PROVE  /\ <<s1, s2, s3, s4, s5, s6, s7, s8>> \in Seq(Shorts16)
         /\ Len(<<s1, s2, s3, s4, s5, s6, s7, s8>>) = 8
OBVIOUS

LEMMA AddressIs ==
  ASSUME NEW a \in {<<0, 0, 0, 0>>, << 192, 168, 255, 1 >>}
  PROVE  a \in Seq(Octets) /\ Len(a) = 4
<1>1. 0 \in Octets /\ 192 \in Octets /\ 168 \in Octets /\ 255 \in Octets /\ 1 \in Octets
  BY DEF Octets
<1>2. CASE a = <<0, 0, 0, 0>>
  BY <1>1, <1>2, FourOctets
<1>3. CASE a = << 192, 168, 255, 1 >>
  BY <1>1, <1>3, FourOctets
<1> QED
  BY <1>2, <1>3

LEMMA EndpointIs ==
  ASSUME NEW e \in Endpoints
  PROVE  e \in SocksEndpoints /\ (Len(e.address) = 1 <=> Shortest(e))
<1>1. CASE e \in [type : {IP_V4}, address : {<<0, 0, 0, 0>>, << 192, 168, 255, 1 >>}, port : Ports]
  <2>1. e.type = IP_V4 /\ e.address \in Seq(Octets) /\ Len(e.address) = 4 /\ e.port \in Shorts16
    BY <1>1, AddressIs, PortIs
  <2>2. e \in [type : {IP_V4}, address : {a \in Seq(Octets) : Len(a) = 4}, port : Shorts16]
    BY <1>1, <2>1
  <2> QED
    BY <2>1, <2>2, ThreeTypes DEF SocksEndpoints, Shortest
<1>2. CASE e \in [type : {IP_V6},
                  address : {<<0, 0, 0, 0, 0, 0, 0, 1>>, << 8193, 255, 256, 65535, 0, 1, 2, 3 >>},
                  port : Ports]
  <2>1. e.address \in Seq(Shorts16) /\ Len(e.address) = 8
    <3>1. /\ 0 \in Shorts16 /\ 1 \in Shorts16 /\ 2 \in Shorts16 /\ 3 \in Shorts16
          /\ 8193 \in Shorts16 /\ 255 \in Shorts16 /\ 256 \in Shorts16 /\ 65535 \in Shorts16
      BY DEF Shorts16
    <3>2. \/ e.address = <<0, 0, 0, 0, 0, 0, 0, 1>>
          \/ e.address = << 8193, 255, 256, 65535, 0, 1, 2, 3 >>
      BY <1>2
    <3>3. CASE e.address = <<0, 0, 0, 0, 0, 0, 0, 1>>
      BY <3>1, <3>3, EightShorts
    <3>4. CASE e.address = << 8193, 255, 256, 65535, 0, 1, 2, 3 >>
      BY <3>1, <3>4, EightShorts
    <3> QED
      BY <3>2, <3>3, <3>4
  <2>2. e.type = IP_V6 /\ e.port \in Shorts16
    BY <1>2, PortIs
  <2>3. e \in [type : {IP_V6}, address : {a \in Seq(Shorts16) : Len(a) = 8}, port : Shorts16]
    BY <1>2, <2>1, <2>2
  <2> QED
    BY <2>1, <2>2, <2>3, ThreeTypes DEF SocksEndpoints, Shortest
<1>3. CASE e \in [type : {DNS}, address : Names, port : Ports]
  <2>1. e.type = DNS /\ e.address \in Seq(Octets) /\ Len(e.address) \in 1..255 /\ e.port \in Shorts16
    BY <1>3, NameIs, PortIs
  <2>2. e \in [type : {DNS}, address : {a \in Seq(Octets) : Len(a) \in 1..255}, port : Shorts16]
    BY <1>3, <2>1
  <2> QED
    BY <2>1, <2>2 DEF SocksEndpoints, Shortest
<1> DEFINE v4 == [type : {IP_V4}, address : {<<0, 0, 0, 0>>, << 192, 168, 255, 1 >>}, port : Ports]
           v6 == [type : {IP_V6},
                  address : {<<0, 0, 0, 0, 0, 0, 0, 1>>, << 8193, 255, 256, 65535, 0, 1, 2, 3 >>},
                  port : Ports]
           dns == [type : {DNS}, address : Names, port : Ports]
<1>4. e \in v4 \cup v6 \cup dns
  BY DEF Endpoints
<1>5. /\ e \in v4 => e \in SocksEndpoints /\ (Len(e.address) = 1 <=> Shortest(e))
      /\ e \in v6 => e \in SocksEndpoints /\ (Len(e.address) = 1 <=> Shortest(e))
      /\ e \in dns => e \in SocksEndpoints /\ (Len(e.address) = 1 <=> Shortest(e))
  BY <1>1, <1>2, <1>3
<1> HIDE DEF v4, v6, dns
<1> QED
  BY <1>4, <1>5

LEMMA AttributeKind ==
  ASSUME NEW a \in Attributes
  PROVE  a \in StunAttributes /\ a.type # MESSAGE_INTEGRITY
<1>1. a.type \in {6, 9, 61183} /\ a = [type |-> a.type, value |-> a.value]
      /\ a.value \in {Ramp(size, 200, 1) : size \in ValueSizes}
  BY DEF Attributes
<1>2. a.type \in Shorts16 /\ a.type # MESSAGE_INTEGRITY
  BY <1>1, SMT DEF Shorts16, MESSAGE_INTEGRITY
<1>3. PICK size \in ValueSizes : a.value = Ramp(size, 200, 1)
  BY <1>1
<1>4. size \in Nat /\ size \in Shorts16
  BY ValuesAssumption, SMT DEF Shorts16
<1>5. a.value \in Buffers /\ Len(a.value) = size
  <2>1. 200 \in Nat /\ 1 \in Nat
    OBVIOUS
  <2> QED
    BY <1>3, <1>4, SlopeIs
<1>6. a.value \in Values
  BY <1>4, <1>5, Zenon DEF Values
<1> QED
  BY <1>1, <1>2, <1>6 DEF StunAttributes

LEMMA Few ==
  ASSUME NEW S, NEW a \in S, NEW b \in S
  PROVE  /\ <<>> \in Seq(S) /\ <<a>> \in Seq(S) /\ <<a, b>> \in Seq(S)
         /\ Len(<<a>>) = 1 /\ Len(<<a, b>>) = 2 /\ <<a>>[1] = a /\ <<a, b>>[1] = a
OBVIOUS

LEMMA OneOrTwo ==
  ASSUME NEW S, NEW s, s \in {<<>>} \cup {<<a>> : a \in S} \cup {<<a, b>> : a, b \in S}
  PROVE  s \in Seq(S)
<1>1. CASE s = <<>>
  BY <1>1
<1>2. CASE s \in {<<a>> : a \in S}
  <2>1. PICK a \in S : s = <<a>>
    BY <1>2, Zenon
  <2> QED
    BY <2>1, Few
<1>3. CASE s \in {<<a, b>> : a, b \in S}
  <2>1. PICK a \in S, b \in S : s = <<a, b>>
    BY <1>3
  <2> QED
    BY <2>1, Few
<1> QED
  BY <1>1, <1>2, <1>3

LEMMA StunMessageKind ==
  ASSUME NEW m \in StunMessages
  PROVE  /\ m.method \in Methods /\ m.clazz \in Classes
         /\ m.transactionId \in Buffers /\ Len(m.transactionId) = 12
         /\ m.attributes \in Seq(StunAttributes)
         /\ \A i \in DOMAIN m.attributes : m.attributes[i].type # MESSAGE_INTEGRITY
         /\ m = StunMessage(m.method, m.clazz, m.transactionId, m.attributes)
<1>1. /\ m.method \in Methods /\ m.clazz \in Classes /\ m.transactionId = Ramp(12, 7, 20)
      /\ m.attributes \in {<<>>} \cup {<<a>> : a \in Attributes} \cup {<<a, b>> : a, b \in Attributes}
  BY DEF StunMessages
<1>7. m = StunMessage(m.method, m.clazz, m.transactionId, m.attributes)
  BY DEF StunMessages, StunMessage
<1>2. m.transactionId \in Buffers /\ Len(m.transactionId) = 12
  <2>1. Ramp(12, 7, 20) \in Buffers /\ Len(Ramp(12, 7, 20)) = 12
    BY SlopeIs
  <2> QED
    BY <1>1, <2>1, Zenon
<1> DEFINE attrs == m.attributes
<1>3. attrs \in Seq(Attributes)
  BY <1>1, OneOrTwo
<1> HIDE DEF attrs
<1>4. \A a \in Attributes : a \in StunAttributes
  BY AttributeKind
<1>5. attrs \in Seq(StunAttributes)
  BY <1>3, <1>4
<1>6. ASSUME NEW i \in DOMAIN attrs PROVE attrs[i].type # MESSAGE_INTEGRITY
  <2>1. attrs[i] \in Attributes
    BY <1>3
  <2> QED
    BY <2>1, AttributeKind
<1> QED
  <2>1. m.attributes \in Seq(StunAttributes)
    BY <1>5 DEF attrs
  <2>2. \A i \in DOMAIN m.attributes : m.attributes[i].type # MESSAGE_INTEGRITY
    BY <1>6 DEF attrs
  <2>3. m.method \in Methods /\ m.clazz \in Classes
    BY <1>1
  <2> QED
    BY <1>2, <1>7, <2>1, <2>2, <2>3

Strings ==
  {"1", "udp", "tcp", "UDP", "10.0.0.1", "10.0.0.2", "host", "srflx", "generation", "0", "ufrag", "x"}

LEMMA CandidateKind ==
  ASSUME NEW c \in Candidates
  PROVE  /\ c \in IceCandidates(Strings)
         /\ c.extensions # <<>> => c.extensions[1][1] # "raddr"
<1> DEFINE p == <<"generation", "0">>
           q == <<"ufrag", "x">>
<1>1. /\ c.foundation = "1" /\ c.component \in {1, 2} /\ c.protocol \in {"udp", "tcp", "UDP"}
      /\ c.priority \in Numbers /\ c.ip = "10.0.0.1" /\ c.port \in Ports
      /\ c.type \in {"host", "srflx"}
      /\ c.related \in {<<>>} \cup {<<r>> : r \in [address : {"10.0.0.2"}, port : Ports]}
      /\ c.extensions \in {<<>>, <<p>>, <<p, q>>}
      /\ c = [foundation |-> c.foundation, component |-> c.component, protocol |-> c.protocol,
              priority |-> c.priority, ip |-> c.ip, port |-> c.port, type |-> c.type,
              related |-> c.related, extensions |-> c.extensions]
  BY DEF Candidates
<1>2. /\ c.foundation \in Strings /\ c.protocol \in Strings /\ c.ip \in Strings /\ c.type \in Strings
  BY <1>1 DEF Strings
<1>3. c.component \in Nat /\ c.priority \in Nat /\ c.port \in Nat
  <2>1. \A n \in Ports : n \in Nat
    BY PortsAssumption
  <2>2. \A n \in Numbers : n \in Nat
    BY NumbersAssumption
  <2> QED
    BY <1>1, <2>1, <2>2
<1>4. c.related \in Related(Strings)
  <2>1. \A n \in Ports : n \in Nat
    BY PortsAssumption
  <2>2. \A r \in [address : {"10.0.0.2"}, port : Ports] : r \in [address : Strings, port : Nat]
    BY <2>1 DEF Strings
  <2> QED
    BY <1>1, <2>2 DEF Related
<1>5. p \in Pairs(Strings) /\ q \in Pairs(Strings) /\ p[1] # "raddr"
  BY DEF Pairs, Strings
<1> HIDE DEF p, q
<1>6. c.extensions \in Seq(Pairs(Strings))
  <2>1. c.extensions = <<>> \/ c.extensions = <<p>> \/ c.extensions = <<p, q>>
    BY <1>1
  <2> QED
    BY <1>5, <2>1, Few, Zenon
<1>7. ASSUME c.extensions # <<>> PROVE c.extensions[1][1] # "raddr"
  <2>1. c.extensions = <<p>> \/ c.extensions = <<p, q>>
    BY <1>1, <1>7
  <2>2. c.extensions[1] = p
    BY <2>1
  <2> QED
    BY <1>5, <2>2
<1> QED
  BY <1>1, <1>2, <1>3, <1>4, <1>6, <1>7 DEF IceCandidates

-----------------------------------------------------------------------------
(* That each of them is understood *)

\* A message of this codec, that arrived.
Arriving(name) == codec = name /\ Asked /\ wire = Encoded

LEMMA HexArrives == ASSUME Arriving("hex") PROVE Decoded = <<input>>
<1>1. codec = "hex" /\ input \in Payloads /\ wire = Encoded
  BY DEF Arriving, Asked, MayAsk
<1>2. input \in Seq(Octets)
  BY <1>1, PayloadIs DEF Buffers
<1>3. wire[1] = ArrayBufferToHexString(input)
  <2>1. Encoded = <<ArrayBufferToHexString(input)>>
    BY <1>1 DEF Encoded
  <2> QED
    BY <1>1, <2>1
<1>4. Decoded = <<HexStringToArrayBuffer(wire[1])>>
  BY <1>1 DEF Decoded
<1> QED
  BY <1>2, <1>3, <1>4, HexUnderstood

LEMMA ChoiceArrives == ASSUME Arriving("choice") PROVE Decoded = <<input>>
<1>1. codec = "choice" /\ wire = Encoded
  BY DEF Arriving
<1>2. wire = <<<<VERSION5, input>>>>
  BY <1>1 DEF Encoded, ComposeAuthResponse
<1> DEFINE b == <<VERSION5, input>>
<1>3. Len(b) = 2 /\ b[1] = VERSION5 /\ b[2] = input
  OBVIOUS
<1>4. wire[1] = b
  BY <1>2
<1>5. Decoded = InterpretAuthResponse(wire[1])
  BY <1>1 DEF Decoded
<1> HIDE DEF b
<1> QED
  BY <1>3, <1>4, <1>5, Zenon DEF InterpretAuthResponse

LEMMA AuthArrives ==
  ASSUME Arriving("auth")
  PROVE  Decoded = IF NOAUTH \in Range(input) THEN <<input>> ELSE Fails
<1>1. /\ codec = "auth" /\ wire = Encoded
      /\ input \in {<<>>, <<0>>, << 2 >>, << 1, 2 >>, << 2, 0 >>, <<0, 1, 2>>}
  BY DEF Arriving, Asked, MayAsk
<1>2. wire = ComposeAuthHandshake(input)
  BY <1>1 DEF Encoded
<1>3. Decoded = IF wire = <<>> THEN Fails ELSE InterpretAuthHandshake(wire[1])
  BY <1>1 DEF Decoded
<1>4. CASE input = <<>>
  <2>1. wire = <<>>
    BY <1>2, <1>4 DEF ComposeAuthHandshake, Fails
  <2>2. NOAUTH \notin Range(input)
    BY <1>4 DEF Range
  <2> QED
    BY <1>3, <2>1, <2>2
<1>5. CASE input # <<>>
  <2>1. input \in Seq(Octets) /\ Len(input) \in 1..3
    <3>1. 0 \in Octets /\ 1 \in Octets /\ 2 \in Octets
      BY DEF Octets
    <3>2. input \in {<<0>>, << 2 >>, << 1, 2 >>, << 2, 0 >>, <<0, 1, 2>>}
      BY <1>1, <1>5
    <3>3. /\ <<0, 1, 2>> \in Seq(Octets) /\ Len(<<0, 1, 2>>) = 3
      BY <3>1
    <3>4. /\ <<0>> \in Seq(Octets) /\ Len(<<0>>) = 1 /\ << 2 >> \in Seq(Octets) /\ Len(<< 2 >>) = 1
      BY <3>1
    <3>5. /\ << 1, 2 >> \in Seq(Octets) /\ Len(<< 1, 2 >>) = 2
          /\ << 2, 0 >> \in Seq(Octets) /\ Len(<< 2, 0 >>) = 2
      BY <3>1
    <3>6. 1 \in 1..3 /\ 2 \in 1..3 /\ 3 \in 1..3
      OBVIOUS
    <3> QED
      BY <3>2, <3>3, <3>4, <3>5, <3>6, Zenon
  <2>2. Len(input) \in 1..255
    BY <2>1
  <2>3. /\ wire = <<wire[1]>>
        /\ InterpretAuthHandshake(wire[1]) = IF NOAUTH \in Range(input) THEN <<input>> ELSE Fails
    BY <1>2, <2>1, <2>2, HandshakeUnderstood, Zenon
  <2>4. \A x : <<x>> # <<>>
    OBVIOUS
  <2> QED
    BY <1>3, <2>3, <2>4, Zenon
<1> QED
  BY <1>4, <1>5

LEMMA RequestArrives ==
  ASSUME Arriving("request")
  PROVE  Decoded = IF input.command = Commands.TCP_BIND \/ Len(input.endpoint.address) = 1
                   THEN Fails ELSE <<input>>
<1>1. codec = "request" /\ wire = Encoded /\ input \in [command : Range(<<1, 2, 3>>), endpoint : Endpoints]
  BY DEF Arriving, Asked, MayAsk
<1> DEFINE e == input.endpoint
           command == input.command
           r == [command |-> command, endpoint |-> e]
<1>2. command \in {1, 2, 3} /\ e \in Endpoints /\ input = r
  <2>1. Range(<<1, 2, 3>>) = {1, 2, 3}
    BY DEF Range
  <2> QED
    BY <1>1, <2>1
<1>3. wire[1] = ComposeRequest(input)
  <2>1. Encoded = <<ComposeRequest(input)>>
    BY <1>1 DEF Encoded
  <2> QED
    BY <1>1, <2>1
<1>4. Decoded = InterpretRequest(wire[1])
  BY <1>1 DEF Decoded
<1>5. e \in SocksEndpoints /\ (Len(e.address) = 1 <=> Shortest(e))
  BY <1>2, EndpointIs
<1> HIDE DEF e, command
<1>6. InterpretRequest(ComposeRequest(r)) =
        IF command = Commands.TCP_BIND \/ Shortest(e) THEN Fails ELSE <<r>>
  BY <1>2, <1>5, RequestUnderstood, Zenon
<1> HIDE DEF r
<1> QED
  BY <1>2, <1>3, <1>4, <1>5, <1>6, Zenon DEF e, command

LEMMA ResponseArrives ==
  ASSUME Arriving("response")
  PROVE  Decoded = <<[reply |-> input.reply,
                      endpoint |-> IF input.endpoint = <<>> THEN NoEndpoint ELSE input.endpoint[1]]>>
<1>1. /\ codec = "response" /\ wire = Encoded
      /\ input \in [reply : Replies, endpoint : {<<>>} \cup {<<e>> : e \in Endpoints}]
  BY DEF Arriving, Asked, MayAsk
<1> DEFINE x == input.endpoint
           reply == input.reply
           r == [reply |-> reply, endpoint |-> x]
<1>2. reply \in Replies /\ x \in {<<>>} \cup {<<e>> : e \in Endpoints} /\ input = r
  BY <1>1
<1>3. wire[1] = ComposeResponse(input)
  <2>1. Encoded = <<ComposeResponse(input)>>
    BY <1>1 DEF Encoded
  <2> QED
    BY <1>1, <2>1
<1>4. Decoded = InterpretResponse(wire[1])
  BY <1>1 DEF Decoded
<1> HIDE DEF x, reply
<1>5. x \in {<<>>} \cup {<<e>> : e \in SocksEndpoints}
  <2>1. \A e \in Endpoints : e \in SocksEndpoints
    BY EndpointIs
  <2> QED
    BY <1>2, <2>1
<1>6. InterpretResponse(ComposeResponse(r)) =
        <<[reply |-> reply, endpoint |-> IF x = <<>> THEN NoEndpoint ELSE x[1]]>>
  BY <1>2, <1>5, ResponseUnderstood, Zenon
<1> HIDE DEF r
<1> QED
  BY <1>2, <1>3, <1>4, <1>6, Zenon DEF x, reply

LEMMA UdpArrives ==
  ASSUME Arriving("udp")
  PROVE  Decoded = IF input.frag # 0 THEN Fails ELSE <<[endpoint |-> input.endpoint, data |-> input.data]>>
<1>1. /\ codec = "udp" /\ wire = Encoded
      /\ input \in [frag : {0, 1}, endpoint : Endpoints, data : {<<1, 2, 3>>, Ramp(20, 0, 3)}]
  BY DEF Arriving, Asked, MayAsk
<1> DEFINE e == input.endpoint
           frag == input.frag
           data == input.data
           h == <<0, 0, frag>>
           d == ComposeDestination(e)
<1>2. frag \in {0, 1} /\ e \in Endpoints /\ data \in {<<1, 2, 3>>, Ramp(20, 0, 3)}
  BY <1>1
<1>3. wire[1] = (h \o d) \o data
  <2>1. Encoded = <<(h \o d) \o data>>
    BY <1>1 DEF Encoded
  <2> QED
    BY <1>1, <2>1
<1>4. Decoded = InterpretUdpMessage(wire[1])
  BY <1>1 DEF Decoded
<1>5. e \in SocksEndpoints
  BY <1>2, EndpointIs
<1>6. data \in Buffers /\ Len(data) >= 3 /\ Len(data) \in Nat
  <2>1. CASE data = <<1, 2, 3>>
    <3>1. 1 \in Octets /\ 2 \in Octets /\ 3 \in Octets
      BY DEF Octets
    <3> QED
      BY <2>1, <3>1 DEF Buffers
  <2>2. CASE data = Ramp(20, 0, 3)
    <3>1. Ramp(20, 0, 3) \in Buffers /\ Len(Ramp(20, 0, 3)) = 20
      BY SlopeIs
    <3>2. 20 \in Nat /\ 20 >= 3
      OBVIOUS
    <3> QED
      BY <2>2, <3>1, <3>2, Zenon
  <2> QED
    BY <1>2, <2>1, <2>2
<1>7. frag \in Octets
  BY <1>2 DEF Octets
<1> HIDE DEF e, frag, data
<1>8. d \in Buffers /\ Extent(e) \in Nat /\ Extent(e) >= 5
  BY <1>5, CarriedUnderstood DEF Buffers
<1>9. h \in Buffers
  <2>1. 0 \in Octets
    BY DEF Octets
  <2> QED
    BY <1>7, <2>1 DEF Buffers
<1>10. (h \o d) \o data = h \o (d \o data)
  <2> HIDE DEF h, d
  <2> QED
    BY <1>6, <1>8, <1>9, Thrice
<1>11. InterpretUdpMessage(h \o (d \o data)) =
         IF frag # 0 \/ Extent(e) + Len(data) < 7 THEN Fails ELSE <<[endpoint |-> e, data |-> data]>>
  <2>1. data \in Seq(Octets)
    BY <1>6 DEF Buffers
  <2> QED
    BY <1>5, <1>7, <2>1, UdpMessageUnderstood, Zenon
<1>12. ~(Extent(e) + Len(data) < 7)
  BY <1>6, <1>8
<1> HIDE DEF h, d
<1> QED
  BY <1>3, <1>4, <1>10, <1>11, <1>12, Zenon DEF e, frag, data

LEMMA StunArrives == ASSUME Arriving("stun") PROVE Decoded = <<input>>
<1>1. codec = "stun" /\ wire = Encoded /\ input \in StunMessages
  BY DEF Arriving, Asked, MayAsk
<1>2. Encoded = <<FormatStunMessage(input)>> /\ Decoded = ParseStunMessage(wire[1])
  BY <1>1 DEF Encoded, Decoded
<1>3. wire[1] = FormatStunMessage(input)
  BY <1>1, <1>2
<1> DEFINE method == input.method
           clazz == input.clazz
           id == input.transactionId
           attrs == input.attributes
<1>4. /\ method \in Methods /\ clazz \in Classes /\ id \in Seq(Octets) /\ Len(id) = 12
      /\ attrs \in Seq(StunAttributes)
  BY <1>1, StunMessageKind DEF Buffers
<1>5. input = StunMessage(method, clazz, id, attrs)
  BY <1>1, StunMessageKind
<1> HIDE DEF method, clazz, id, attrs
<1> DEFINE m == StunMessage(method, clazz, id, attrs)
<1>6. ParseStunMessage(FormatStunMessage(m)) = <<m>>
  BY <1>4, StunUnderstood
<1> HIDE DEF m
<1>7. input = m
  BY <1>5 DEF m
<1> QED
  BY <1>2, <1>3, <1>6, <1>7

LEMMA IntegrityArrives ==
  ASSUME Arriving("integrity")
  PROVE  Decoded = <<[type |-> MESSAGE_INTEGRITY, value |-> ComputeHash(wire[1])]>>
<1>1. codec = "integrity" /\ wire = Encoded /\ input \in StunMessages
  BY DEF Arriving, Asked, MayAsk
<1>2. /\ Encoded = <<FormatStunMessageWithIntegrity(input)>>
      /\ Decoded = FindFirstAttributeWithType(MESSAGE_INTEGRITY,
                                              ParseStunMessage(wire[1])[1].attributes)
  BY <1>1 DEF Encoded, Decoded
<1>3. wire[1] = FormatStunMessageWithIntegrity(input)
  BY <1>1, <1>2
<1> DEFINE method == input.method
           clazz == input.clazz
           id == input.transactionId
           attrs == input.attributes
<1>4. /\ method \in Methods /\ clazz \in Classes /\ id \in Seq(Octets) /\ Len(id) = 12
      /\ attrs \in Seq(StunAttributes)
      /\ \A i \in DOMAIN attrs : attrs[i].type # MESSAGE_INTEGRITY
  BY <1>1, StunMessageKind DEF Buffers
<1>5. input = StunMessage(method, clazz, id, attrs)
  BY <1>1, StunMessageKind
<1> HIDE DEF method, clazz, id, attrs
<1> DEFINE w == FormatStunMessageWithIntegrity(StunMessage(method, clazz, id, attrs))
           a == HashAttribute(ComputeHash(w))
           more == Append(attrs, a)
<1>6. /\ ParseStunMessage(w) = <<StunMessage(method, clazz, id, more)>>
      /\ FindFirstAttributeWithType(MESSAGE_INTEGRITY, more) = <<a>>
  BY <1>4, IntegrityUnderstood
<1>7. wire[1] = w
  BY <1>3, <1>5
<1>8. a = [type |-> MESSAGE_INTEGRITY, value |-> ComputeHash(w)]
  BY DEF HashAttribute
<1> HIDE DEF w, a, more
<1>9. ParseStunMessage(w)[1].attributes = more
  <2> DEFINE m == StunMessage(method, clazz, id, more)
  <2>1. m.attributes = more
    BY DEF StunMessage
  <2> HIDE DEF m
  <2>2. ParseStunMessage(w) = <<m>>
    BY <1>6 DEF m
  <2>3. ParseStunMessage(w)[1] = m
    BY <2>2
  <2> QED
    BY <2>1, <2>3
<1> QED
  BY <1>2, <1>6, <1>7, <1>8, <1>9, Zenon

LEMMA AddressArrives == ASSUME Arriving("address") PROVE Decoded = <<input>>
<1>1. /\ codec = "address" /\ wire = Encoded
      /\ input \in [address : {<<0, 0, 0, 0>>, << 192, 168, 255, 1 >>}, port : Ports]
  BY DEF Arriving, Asked, MayAsk
<1>2. Encoded = <<FormatXorMappedAddress(input)>> /\ Decoded = ParseXorMappedAddress(wire[1])
  BY <1>1 DEF Encoded, Decoded
<1>3. wire[1] = FormatXorMappedAddress(input)
  BY <1>1, <1>2
<1> DEFINE a == input.address
           p == input.port
           e == [address |-> a, port |-> p]
<1>4. input = e /\ a \in {<<0, 0, 0, 0>>, << 192, 168, 255, 1 >>} /\ p \in Ports
  BY <1>1
<1> HIDE DEF a, p
<1>5. a \in Seq(Octets) /\ Len(a) = 4 /\ p \in Shorts16
  BY <1>4, AddressIs, PortIs
<1>6. ParseXorMappedAddress(FormatXorMappedAddress(e)) = <<e>>
  BY <1>5, AddressUnderstood, Zenon
<1> HIDE DEF e
<1> QED
  BY <1>2, <1>3, <1>4, <1>6

LEMMA CandidateArrives ==
  ASSUME Arriving("candidate")
  PROVE  Decoded = <<[input EXCEPT !.protocol = Lower(@)]>>
<1>1. codec = "candidate" /\ wire = Encoded /\ input \in Candidates
  BY DEF Arriving, Asked, MayAsk
<1>2. Encoded = <<ToRTCIceCandidate(input)>> /\ Decoded = FromRTCIceCandidate(wire[1])
  BY <1>1 DEF Encoded, Decoded
<1>3. wire[1] = ToRTCIceCandidate(input)
  BY <1>1, <1>2
<1>4. /\ input \in IceCandidates(Strings)
      /\ input.extensions # <<>> => input.extensions[1][1] # "raddr"
  BY <1>1, CandidateKind
<1>5. FromRTCIceCandidate(ToRTCIceCandidate(input)) = <<[input EXCEPT !.protocol = Lower(@)]>>
  BY <1>4, CandidateUnderstood, Zenon
<1> QED
  BY <1>2, <1>3, <1>5, Zenon

LEMMA MessagesArrive == MessagesInv => MessagesUnderstood
<1> SUFFICES ASSUME MessagesInv, step = "done", codec \notin Transforming \cup {"frequencies"}
             PROVE  output = Understood
  BY Zenon DEF MessagesUnderstood
<1>1. codec \in Asking /\ Asked /\ wire = Encoded /\ output = Decoded
  BY DEF MessagesInv
<1>2. CASE codec = "auth"
  BY <1>1, <1>2, AuthArrives DEF Arriving, Understood
<1>3. CASE codec = "request"
  BY <1>1, <1>3, RequestArrives DEF Arriving, Understood
<1>4. CASE codec = "response"
  BY <1>1, <1>4, ResponseArrives DEF Arriving, Understood
<1>5. CASE codec = "udp"
  BY <1>1, <1>5, UdpArrives DEF Arriving, Understood
<1>6. CASE codec = "integrity"
  BY <1>1, <1>6, IntegrityArrives DEF Arriving, Understood
<1>7. CASE codec = "candidate"
  BY <1>1, <1>7, CandidateArrives DEF Arriving, Understood
<1>8. CASE codec \in {"hex", "choice", "stun", "address"}
  <2>1. Decoded = <<input>>
    BY <1>1, <1>8, HexArrives, ChoiceArrives, StunArrives, AddressArrives DEF Arriving
  <2>2. Understood = <<input>>
    BY <1>8 DEF Understood
  <2> QED
    BY <1>1, <2>1, <2>2
<1> QED
  BY <1>1, <1>2, <1>3, <1>4, <1>5, <1>6, <1>7, <1>8 DEF Asking

\* Each message is understood as it was meant, or refused as a whole: for every set of ports of
\* 16 bits, of names that a byte holds the length of, of sizes of the values of attributes, and of
\* numbers.
THEOREM MessagesAlwaysUnderstood == Spec => []MessagesUnderstood
<1>1. Init => MessagesInv
  BY InitMessages
<1>2. MessagesInv /\ [Next]_vars => MessagesInv'
  BY NextMessages
<1>3. MessagesInv => MessagesUnderstood
  BY MessagesArrive
<1> QED
  BY <1>1, <1>2, <1>3, PTL DEF Spec
=============================================================================
