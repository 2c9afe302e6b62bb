-------------------------- MODULE PacketTextProofs -------------------------
(***************************************************************************)
(* What the driver's frame and the checksum catch and what comes back from *)
(* a text, for any packets of the assumed form that hold no ^ and $ in     *)
(* their message, whatever character is taken for another one, and in      *)
(* whatever parts the text arrives.                                        *)
(***************************************************************************)
EXTENDS PacketText, FiniteSetTheorems, SequenceTheorems, TLAPS

----------------------------------------------------------------------------
(* A set of naturals that is not empty has a least element.                 *)
LEMMA LeastNumber ==
  ASSUME NEW S, S \subseteq Nat, S # {}
  PROVE  \E x \in S : \A y \in S : x <= y
  <1> DEFINE Less == OpToRel(<, Nat)
  <1>1. IsWellFoundedOn(Less, Nat)
    BY NatLessThanWellFounded
  <1>2. \A x, y \in Nat : y < x => <<y, x>> \in Less
    BY DEF OpToRel
  <1> HIDE DEF Less
  <1>3. PICK x \in S : \A y \in S : <<y, x>> \notin Less
    BY <1>1, WFMin
  <1>4. ASSUME NEW y \in S PROVE x <= y
    <2>1. x \in Nat /\ y \in Nat
      OBVIOUS
    <2>2. ~(y < x)
      BY <1>2, <1>3, <2>1, Zenon
    <2> QED
      BY <2>1, <2>2
  <1> QED
    BY <1>4

(* A recursion over D stops in Stop and goes on to pred elsewhere; it comes *)
(* to an end because the measure m falls.                                   *)
Falls(D, Stop, pred, m) ==
  /\ m \in [D -> Nat] /\ pred \in [D -> D]
  /\ \A x \in D \ Stop : m[pred[x]] < m[x]

(* P holds where the recursion stops, and passes on to where it came from.  *)
Inductive(D, Stop, pred, P) ==
  /\ D \cap Stop \subseteq P
  /\ \A x \in D \ Stop : pred[x] \in P => x \in P

(* Induction along a recursion.                                             *)
LEMMA RecursionInduction ==
  ASSUME NEW D, NEW Stop, NEW pred, NEW m, NEW P,
         Falls(D, Stop, pred, m), Inductive(D, Stop, pred, P)
  PROVE  D \subseteq P
  <1> USE DEF Falls, Inductive
  <1>1. SUFFICES ASSUME D \ P # {} PROVE FALSE
    OBVIOUS
  <1> DEFINE Bad == {m[x] : x \in D \ P}
  <1>2. Bad \subseteq Nat /\ Bad # {}
    BY <1>1
  <1>3. PICK k \in Bad : \A j \in Bad : k <= j
    BY <1>2, LeastNumber
  <1>4. PICK x \in D \ P : k = m[x]
    OBVIOUS
  <1>5. x \notin Stop /\ pred[x] \in D \ P
    BY <1>4
  <1>6. m[pred[x]] \in Bad
    BY <1>5
  <1>7. k <= m[pred[x]]
    BY <1>3, <1>6
  <1>8. m[pred[x]] < m[x] /\ m[x] \in Nat /\ m[pred[x]] \in Nat
    BY <1>5
  <1> QED
    BY <1>4, <1>7, <1>8

(* f has the values that start gives where the recursion stops, and         *)
(* elsewhere the ones that next makes of the one before.                    *)
Solves(f, D, Stop, pred, start, next) ==
  \A x \in D : f[x] = IF x \in Stop THEN start[x] ELSE next[x][f[pred[x]]]

(* A recursion that comes to an end has a solution.                         *)
LEMMA RecursionSolved ==
  ASSUME NEW D, NEW Stop, NEW pred, NEW m, Falls(D, Stop, pred, m),
         NEW S, NEW start, NEW next,
         start \in [D -> S], next \in [D -> [S -> S]]
  PROVE  \E f \in [D -> S] : Solves(f, D, Stop, pred, start, next)
  <1>0. /\ m \in [D -> Nat] /\ pred \in [D -> D]
        /\ \A x \in D \ Stop : m[pred[x]] < m[x]
    BY DEF Falls
  <1> USE <1>0
  <1> DEFINE Turn(f) ==
        [x \in D |-> IF x \in Stop THEN start[x] ELSE next[x][f[pred[x]]]]
             Good(n) == {f \in [D -> S] :
                           \A x \in D : m[x] < n => f[x] = Turn(f)[x]}
  <1>1. \A n \in Nat : Good(n) # {}
    <2> SUFFICES ASSUME {n \in Nat : Good(n) = {}} # {} PROVE FALSE
      OBVIOUS
    <2> DEFINE Bad == {n \in Nat : Good(n) = {}}
    <2>1. PICK n \in Bad : \A j \in Bad : n <= j
      <3>1. Bad \subseteq Nat
        OBVIOUS
      <3> QED
        BY <3>1, LeastNumber
    <2>2. start \in Good(0)
      OBVIOUS
    <2>3. n \in Nat /\ Good(n) = {} /\ \A j \in Nat : Good(j) = {} => n <= j
      BY <2>1
    <2>4. PICK f : f \in Good(n - 1)
      <3> HIDE DEF Good
      <3>1. n # 0
        BY <2>2, <2>3
      <3>2. n - 1 \in Nat /\ ~(n <= n - 1)
        BY <2>3, <3>1
      <3> QED
        BY <2>3, <3>2
    <2>5. Turn(f) \in [D -> S]
      <3>1. f \in [D -> S]
        BY <2>4
      <3> QED
        BY <3>1
    <2>6. ASSUME NEW x \in D, m[x] < n
          PROVE  Turn(f)[x] = Turn(Turn(f))[x]
      <3>1. CASE x \in Stop
        BY <3>1
      <3>2. CASE x \notin Stop
        <4>1. m[pred[x]] < n - 1 /\ pred[x] \in D
          <5>1. m[pred[x]] < m[x] /\ m[x] \in Nat /\ m[pred[x]] \in Nat
            BY <3>2
          <5> QED
            BY <5>1, <2>6, <2>3
        <4>2. f[pred[x]] = Turn(f)[pred[x]]
          BY <4>1, <2>4
        <4> QED
          BY <3>2, <4>2
      <3> QED
        BY <3>1, <3>2
    <2>7. Turn(f) \in Good(n)
      BY <2>5, <2>6
    <2> QED
      BY <2>7
  <1>2. ASSUME NEW n \in Nat, NEW k \in Nat, n <= k,
               NEW f \in Good(n), NEW g \in Good(k)
        PROVE  \A x \in D : m[x] < n => f[x] = g[x]
    <2> DEFINE P == {x \in D : m[x] < n => f[x] = g[x]}
    <2>1. Inductive(D, Stop, pred, P)
      BY <1>2 DEF Inductive
    <2>2. D \subseteq P
      BY <2>1, RecursionInduction
    <2> QED
      BY <2>2
  <1> DEFINE sol == [n \in Nat |-> CHOOSE f : f \in Good(n)]
             h == [x \in D |-> sol[m[x] + 1][x]]
  <1>3. \A n \in Nat : sol[n] \in Good(n)
    BY <1>1
  <1>4. ASSUME NEW x \in D PROVE h[x] \in S
    <2>1. m[x] + 1 \in Nat
      OBVIOUS
    <2>2. sol[m[x] + 1] \in [D -> S]
      BY <2>1, <1>3
    <2> QED
      BY <2>2
  <1>5. ASSUME NEW x \in D PROVE h[x] = Turn(h)[x]
    <2>1. m[x] + 1 \in Nat /\ m[x] < m[x] + 1
      OBVIOUS
    <2> DEFINE f == sol[m[x] + 1]
    <2>2. f \in Good(m[x] + 1)
      BY <1>3, <2>1
    <2>3. f[x] = Turn(f)[x]
      BY <2>2, <2>1
    <2>4. CASE x \in Stop
      BY <2>3, <2>4
    <2>5. CASE x \notin Stop
      <3>1. pred[x] \in D /\ m[pred[x]] + 1 \in Nat
            /\ m[pred[x]] + 1 <= m[x] + 1 /\ m[pred[x]] < m[pred[x]] + 1
        BY <2>5
      <3>2. sol[m[pred[x]] + 1] \in Good(m[pred[x]] + 1)
        BY <1>3, <3>1
      <3>3. sol[m[pred[x]] + 1][pred[x]] = f[pred[x]]
        <4> HIDE DEF Good, sol
        <4> QED
          BY <1>2, <2>1, <2>2, <3>1, <3>2
      <3>4. h[x] = f[x] /\ h[pred[x]] = f[pred[x]]
        <4> HIDE DEF sol, Good
        <4> QED
          BY <3>1, <3>3
      <3>5. h[x] = next[x][f[pred[x]]]
        <4> HIDE DEF f, h
        <4> QED
          BY <2>3, <2>5, <3>4
      <3> QED
        <4> HIDE DEF f, h
        <4> QED
          BY <2>5, <3>4, <3>5
    <2> QED
      BY <2>4, <2>5
  <1>6. h \in [D -> S]
    BY <1>4
  <1> HIDE DEF h
  <1> QED
    BY <1>5, <1>6 DEF Solves

(* Counting up to a number.                                                 *)
LEMMA CountFalls ==
  ASSUME NEW n \in Nat
  PROVE  Falls(0..n, {0}, [i \in 0..n |-> IF i = 0 THEN 0 ELSE i - 1],
               [i \in 0..n |-> i])
  BY DEF Falls

(* Induction up to a number.                                                *)
LEMMA CountInduction ==
  ASSUME NEW n \in Nat, NEW P, 0 \in P, \A i \in 1..n : i - 1 \in P => i \in P
  PROVE  0..n \subseteq P
  <1> DEFINE pred == [i \in 0..n |-> IF i = 0 THEN 0 ELSE i - 1]
             m == [i \in 0..n |-> i]
  <1>1. Falls(0..n, {0}, pred, m)
    BY CountFalls
  <1>2. Inductive(0..n, {0}, pred, P)
    BY DEF Inductive
  <1> HIDE DEF pred, m
  <1> QED
    BY <1>1, <1>2, RecursionInduction

(* A recursion over the places of a sequence has a solution.                *)
LEMMA CountSolved ==
  ASSUME NEW n \in Nat, NEW next \in [0..n -> [Int -> Int]]
  PROVE  \E f \in [0..n -> Int] :
           f[0] = 0 /\ \A i \in 1..n : f[i] = next[i][f[i - 1]]
  <1> DEFINE pred == [i \in 0..n |-> IF i = 0 THEN 0 ELSE i - 1]
             m == [i \in 0..n |-> i]
             start == [i \in 0..n |-> 0]
  <1>1. Falls(0..n, {0}, pred, m)
    BY CountFalls
  <1>2. start \in [0..n -> Int]
    OBVIOUS
  <1>3. \E f \in [0..n -> Int] : Solves(f, 0..n, {0}, pred, start, next)
    <2> HIDE DEF pred, m, start
    <2> QED
      BY <1>1, <1>2, RecursionSolved
  <1>4. PICK f \in [0..n -> Int] : \A i \in 0..n :
          f[i] = IF i \in {0} THEN start[i] ELSE next[i][f[pred[i]]]
    BY <1>3 DEF Solves
  <1>5. f[0] = 0
    BY <1>4
  <1>6. ASSUME NEW i \in 1..n PROVE f[i] = next[i][f[i - 1]]
    <2>1. i \in 0..n /\ i # 0 /\ i - 1 \in 0..n
      OBVIOUS
    <2> QED
      BY <2>1, <1>4
  <1> QED
    BY <1>5, <1>6

----------------------------------------------------------------------------
(* The sums of the first 0, 1, 2, ... weighed characters.                   *)
Sums(packet) ==
  CHOOSE f \in [0..Len(packet) -> Int] :
    f[0] = 0 /\ \A i \in 1..Len(packet) : f[i] = f[i - 1] + (i - 1) * packet[i]

(* They are what WeighedSum adds up.                                        *)
LEMMA SumsUnfold ==
  ASSUME NEW packet \in Seq(Int)
  PROVE  /\ Sums(packet) \in [0..Len(packet) -> Int]
         /\ Sums(packet)[0] = 0
         /\ \A i \in 1..Len(packet) :
              Sums(packet)[i] = Sums(packet)[i - 1] + (i - 1) * packet[i]
         /\ WeighedSum(packet) = Sums(packet)[Len(packet)]
  <1> DEFINE n == Len(packet)
             IsSums(f) ==
               f[0] = 0 /\ \A i \in 1..n : f[i] = f[i - 1] + (i - 1) * packet[i]
             next == [i \in 0..n |->
                        [v \in Int |->
                           IF i = 0 THEN 0 ELSE v + (i - 1) * packet[i]]]
             Turn(f) ==
               [i \in 0..n |-> IF i = 0 THEN 0 ELSE f[i - 1] + (i - 1) * packet[i]]
             sum == CHOOSE f : f = Turn(f)
  <1>1. n \in Nat /\ \A i \in 1..n : (i - 1) * packet[i] \in Int
    OBVIOUS
  <1>2. next \in [0..n -> [Int -> Int]]
    <2> HIDE DEF n
    <2> QED
      BY <1>1
  <1>3. PICK f \in [0..n -> Int] :
          f[0] = 0 /\ \A i \in 1..n : f[i] = next[i][f[i - 1]]
    <2> HIDE DEF n, next
    <2> QED
      BY <1>1, <1>2, CountSolved
  <1>4. IsSums(f)
    <2> HIDE DEF n
    <2>1. \A i \in 1..n : i - 1 \in 0..n /\ i \in 0..n /\ i # 0
      BY <1>1
    <2>2. \A i \in 1..n : f[i - 1] \in Int
      BY <2>1
    <2> QED
      BY <1>3, <2>1, <2>2
  <1>5. Sums(packet) \in [0..n -> Int] /\ IsSums(Sums(packet))
    BY <1>4 DEF Sums
  <1>6. sum = Turn(sum)
    <2>1. f = Turn(f)
      BY <1>4, <1>1
    <2> HIDE DEF Turn
    <2> QED
      BY <2>1
  <1>7. WeighedSum(packet) = sum[n]
    BY DEF WeighedSum
  <1>8. IsSums(sum)
    <2> HIDE DEF sum, n
    <2>1. \A i \in 0..n : sum[i] = Turn(sum)[i]
      BY <1>6
    <2> QED
      BY <1>1, <2>1
  <1>9. 0..n \subseteq {i \in 0..n : sum[i] = Sums(packet)[i]}
    <2> DEFINE P == {i \in 0..n : sum[i] = Sums(packet)[i]}
    <2> HIDE DEF sum
    <2>1. 0 \in P
      BY <1>1, <1>5, <1>8
    <2>2. \A i \in 1..n : i - 1 \in P => i \in P
      BY <1>1, <1>5, <1>8
    <2> HIDE DEF P, n
    <2>3. 0..n \subseteq P
      BY <1>1, <2>1, <2>2, CountInduction
    <2> QED
      BY <2>3 DEF P
  <1> QED
    BY <1>1, <1>5, <1>7, <1>9

(* What the lemmas need of a sequence of numbers and its sums.              *)
SumsOf(packet) ==
  /\ Len(packet) \in Nat
  /\ \A i \in 1..Len(packet) : packet[i] \in Int
  /\ \A i \in 0..Len(packet) : Sums(packet)[i] \in Int
  /\ Sums(packet)[0] = 0
  /\ \A i, j \in Int : i \in 1..Len(packet) /\ j = i - 1 =>
       Sums(packet)[i] = Sums(packet)[j] + j * packet[i]
  /\ WeighedSum(packet) = Sums(packet)[Len(packet)]

(* Every packet has such sums.                                              *)
LEMMA SumsTyped == \A packet \in Seq(Int) : SumsOf(packet)
  <1> SUFFICES ASSUME NEW packet \in Seq(Int) PROVE SumsOf(packet)
    OBVIOUS
  <1>1. Len(packet) \in Nat /\ \A i \in 1..Len(packet) : packet[i] \in Int
    OBVIOUS
  <1>2. /\ Sums(packet) \in [0..Len(packet) -> Int]
        /\ Sums(packet)[0] = 0
        /\ \A i \in 1..Len(packet) :
             Sums(packet)[i] = Sums(packet)[i - 1] + (i - 1) * packet[i]
        /\ WeighedSum(packet) = Sums(packet)[Len(packet)]
    BY SumsUnfold
  <1> QED
    BY <1>1, <1>2 DEF SumsOf

(* Equal beginnings have equal sums.                                        *)
LEMMA SumsAgree ==
  ASSUME NEW p, SumsOf(p), NEW q, SumsOf(q),
         NEW n \in Nat, n <= Len(p), n <= Len(q), \A i \in 1..n : p[i] = q[i]
  PROVE  Sums(p)[n] = Sums(q)[n]
  <1> USE DEF SumsOf
  <1> DEFINE P == {i \in 0..n : Sums(p)[i] = Sums(q)[i]}
  <1>1. 0 \in P
    OBVIOUS
  <1>2. ASSUME NEW i \in 1..n, i - 1 \in P PROVE i \in P
    <2> DEFINE j == i - 1
    <2>1. i \in 1..Len(p) /\ i \in 1..Len(q) /\ p[i] = q[i] /\ j \in Int
      OBVIOUS
    <2>2. Sums(p)[j] = Sums(q)[j]
      BY <1>2
    <2> HIDE DEF P
    <2>3. /\ Sums(p)[i] = Sums(p)[j] + j * p[i]
          /\ Sums(q)[i] = Sums(q)[j] + j * q[i]
      BY <2>1
    <2>4. Sums(p)[i] = Sums(q)[i]
      BY <2>1, <2>2, <2>3
    <2> QED
      BY <2>4 DEF P
  <1>3. 0..n \subseteq P
    <2> HIDE DEF P
    <2> QED
      BY <1>1, <1>2, CountInduction
  <1> QED
    BY <1>3

(* From where two sequences are equal on, their sums keep their distance.   *)
LEMMA SumsKeepDistance ==
  ASSUME NEW p, SumsOf(p), NEW q, SumsOf(q), Len(p) = Len(q),
         NEW k \in 0..Len(p), \A i \in k + 1 .. Len(p) : p[i] = q[i]
  PROVE  WeighedSum(q) - WeighedSum(p) = Sums(q)[k] - Sums(p)[k]
  <1> USE DEF SumsOf
  <1> DEFINE n == Len(p) - k
             D(i) == Sums(q)[i] - Sums(p)[i]
             P == {i \in 0..n : D(k + i) = D(k)}
  <1>0. Len(p) \in Nat /\ n \in Nat /\ k \in Nat /\ k + n = Len(p) /\ k + 0 = k
    OBVIOUS
  <1>1. 0 \in P
    BY <1>0
  <1>2. ASSUME NEW i \in 1..n, i - 1 \in P PROVE i \in P
    <2> DEFINE a == k + i
               b == k + (i - 1)
    <2>1. /\ a \in 1..Len(p) /\ b \in Int /\ b = a - 1 /\ b \in 0..Len(p)
          /\ a \in k + 1 .. Len(p) /\ i \in 0..n
      BY <1>0
    <2>2. D(b) = D(k)
      BY <1>2
    <2> HIDE DEF a, b
    <2>3. /\ Sums(p)[a] = Sums(p)[b] + b * p[a]
          /\ Sums(q)[a] = Sums(q)[b] + b * q[a]
          /\ p[a] = q[a]
      BY <2>1
    <2>4. /\ Sums(p)[b] \in Int /\ Sums(q)[b] \in Int /\ b * p[a] \in Int
      BY <2>1
    <2>5. D(a) = D(b)
      <3>1. \A x, y, z \in Int : (x + z) - (y + z) = x - y
        OBVIOUS
      <3>2. Sums(q)[a] = Sums(q)[b] + b * p[a]
        BY <2>3
      <3> QED
        BY <2>3, <2>4, <3>1, <3>2
    <2> QED
      BY <2>1, <2>2, <2>5 DEF a
  <1>3. 0..n \subseteq P
    <2> HIDE DEF P, n
    <2> QED
      BY <1>0, <1>1, <1>2, CountInduction
  <1>4. n \in P
    <2> HIDE DEF P, n
    <2> QED
      BY <1>0, <1>3
  <1>5. D(Len(p)) = D(k)
    <2> HIDE DEF n, D
    <2> QED
      BY <1>0, <1>4
  <1> QED
    BY <1>5

(* One character that changes weighs as much as its place.                  *)
LEMMA SumOfSubstituted ==
  ASSUME NEW p, SumsOf(p), NEW q, SumsOf(q), Len(p) = Len(q),
         NEW k \in 1..Len(p), \A i \in 1..Len(p) : i # k => p[i] = q[i]
  PROVE  WeighedSum(q) - WeighedSum(p) = (k - 1) * (q[k] - p[k])
  <1> DEFINE j == k - 1
             s == Sums(p)[j]
             a == p[k]
             b == q[k]
  <1>1. j \in Nat /\ k \in 0..Len(p) /\ k \in 1..Len(q) /\ j <= Len(p)
        /\ Len(p) \in Nat
    BY DEF SumsOf
  <1> HIDE DEF j
  <1>2. Sums(p)[j] = Sums(q)[j]
    <2>1. \A i \in 1..j : p[i] = q[i]
      BY <1>1 DEF j
    <2> QED
      BY <1>1, <2>1, SumsAgree
  <1>3. WeighedSum(q) - WeighedSum(p) = Sums(q)[k] - Sums(p)[k]
    <2>1. \A i \in k + 1 .. Len(p) : p[i] = q[i]
      BY <1>1
    <2> QED
      BY <1>1, <2>1, SumsKeepDistance
  <1>4. Sums(p)[k] = s + j * a /\ Sums(q)[k] = s + j * b
    BY <1>1, <1>2 DEF j, SumsOf
  <1>5. s \in Int /\ a \in Int /\ b \in Int
    BY <1>1 DEF j, SumsOf
  <1> HIDE DEF s, a, b
  <1>6. Sums(q)[k] - Sums(p)[k] = j * (b - a)
    BY <1>1, <1>4, <1>5
  <1> QED
    BY <1>3, <1>6 DEF j, a, b

(* Two neighbours that change places change the sum by their difference.    *)
LEMMA SumOfSwapped ==
  ASSUME NEW p, SumsOf(p), NEW q, SumsOf(q), Len(p) = Len(q),
         NEW k \in 1..(Len(p) - 1), q[k] = p[k + 1], q[k + 1] = p[k],
         \A i \in 1..Len(p) : i # k /\ i # k + 1 => p[i] = q[i]
  PROVE  WeighedSum(q) - WeighedSum(p) = p[k] - p[k + 1]
  <1> DEFINE j == k - 1
             h == k + 1
             s == Sums(p)[j]
             a == p[k]
             b == p[h]
  <1>1. /\ j \in Nat /\ h \in 0..Len(p) /\ k \in 1..Len(q) /\ k \in Int
        /\ h \in 1..Len(q) /\ k = h - 1 /\ j <= Len(p) /\ j = k - 1
        /\ Len(p) \in Nat
    BY DEF SumsOf
  <1>2. q[k] = b /\ q[h] = a
    OBVIOUS
  <1>3. /\ \A i \in 1..j : p[i] = q[i]
        /\ \A i \in h + 1 .. Len(p) : p[i] = q[i]
    BY <1>1
  <1> HIDE DEF j, h
  <1>4. Sums(p)[j] = Sums(q)[j]
    BY <1>1, <1>3, SumsAgree
  <1>5. WeighedSum(q) - WeighedSum(p) = Sums(q)[h] - Sums(p)[h]
    BY <1>1, <1>3, SumsKeepDistance
  <1>6. Sums(p)[k] = s + j * a /\ Sums(q)[k] = s + j * b
    <2> HIDE DEF a, b
    <2>1. k \in 1..Len(p) /\ j \in Int
      BY <1>1
    <2>2. Sums(p)[k] = Sums(p)[j] + j * p[k]
      BY <1>1, <2>1 DEF SumsOf
    <2>3. Sums(q)[k] = Sums(q)[j] + j * q[k]
      BY <1>1, <2>1 DEF SumsOf
    <2> QED
      BY <1>2, <1>4, <2>2, <2>3 DEF a
  <1>7. Sums(p)[h] = Sums(p)[k] + k * b /\ Sums(q)[h] = Sums(q)[k] + k * a
    BY <1>1, <1>2 DEF SumsOf
  <1>8. s \in Int /\ a \in Int /\ b \in Int
    BY <1>1 DEF SumsOf
  <1> HIDE DEF s, a, b
  <1>9. Sums(q)[h] - Sums(p)[h] = ((s + j * b) + (j + 1) * a)
                                    - ((s + j * a) + (j + 1) * b)
    BY <1>1, <1>6, <1>7
  <1>10. Sums(q)[h] - Sums(p)[h] = a - b
    BY <1>1, <1>8, <1>9
  <1> QED
    BY <1>5, <1>10 DEF h, a, b

----------------------------------------------------------------------------
(* The recursion of Digits comes to an end.                                 *)
LEMMA DigitsFall ==
  ASSUME NEW base \in {10, 16}
  PROVE  Falls(Nat, 0 .. base - 1, [v \in Nat |-> v \div base],
               [v \in Nat |-> v])
  <1>1. \A v \in Nat : v \div base \in Nat
    BY Z3
  <1>2. \A v \in Nat : v >= base => v \div base < v
    BY Z3
  <1> QED
    BY <1>1, <1>2 DEF Falls

(* The digits of the number that is left when the last digit is cut off     *)
(* stand in front of that digit.                                            *)
LEMMA DigitsUnfold ==
  ASSUME NEW base \in {10, 16}
  PROVE  \A w \in Nat :
           Digits(base, w) = IF w < base THEN <<DigitOf(w)>>
                             ELSE Append(Digits(base, w \div base),
                                         DigitOf(w % base))
  <1> DEFINE Turn(f) ==
               [v \in Nat |-> IF v < base THEN <<DigitOf(v)>>
                              ELSE Append(f[v \div base], DigitOf(v % base))]
             digits == CHOOSE f : f = Turn(f)
             pred == [v \in Nat |-> v \div base]
             m == [v \in Nat |-> v]
             start == [v \in Nat |-> <<DigitOf(v)>>]
             next == [v \in Nat |->
                        [s \in Seq(Int) |-> Append(s, DigitOf(v % base))]]
  <1>1. Falls(Nat, 0 .. base - 1, pred, m)
    BY DigitsFall
  <1>2. /\ start \in [Nat -> Seq(Int)]
        /\ next \in [Nat -> [Seq(Int) -> Seq(Int)]]
    <2>1. \A v \in Nat : DigitOf(v) \in Int /\ DigitOf(v % base) \in Int
      BY DEF DigitOf
    <2>2. \A s \in Seq(Int), c \in Int : Append(s, c) \in Seq(Int) /\ <<c>> \in Seq(Int)
      OBVIOUS
    <2> QED
      BY <2>1, <2>2
  <1>3. PICK f \in [Nat -> Seq(Int)] :
          Solves(f, Nat, 0 .. base - 1, pred, start, next)
    <2> HIDE DEF pred, m, start, next
    <2> QED
      BY <1>1, <1>2, RecursionSolved
  <1>4. f = Turn(f)
    <2>1. ASSUME NEW v \in Nat PROVE f[v] = Turn(f)[v]
      <3>1. v \div base \in Nat /\ (v \in 0 .. base - 1 <=> v < base)
        BY Z3
      <3>2. f[v \div base] \in Seq(Int)
        BY <3>1
      <3> QED
        BY <1>3, <3>1, <3>2 DEF Solves
    <2>2. f = [v \in Nat |-> f[v]]
      OBVIOUS
    <2> HIDE DEF pred, m, start, next
    <2> QED
      BY <2>1, <2>2
  <1>5. digits = Turn(digits)
    <2> HIDE DEF Turn
    <2> QED
      BY <1>4
  <1>6. \A w : Digits(base, w) = digits[w]
    BY DEF Digits
  <1>7. \A w \in Nat : w \div base \in Nat
    BY Z3
  <1>8. \A w \in Nat : digits[w] = Turn(digits)[w]
    BY <1>5
  <1> HIDE DEF digits
  <1> QED
    BY <1>6, <1>7, <1>8

(* The characters of digits.                                                *)
DigitCodes(base) == IF base = 10 THEN 48..57 ELSE (48..57) \cup (65..70)

(* A digit has a character of its own, and only 0 has that of 0.            *)
LEMMA DigitCodesOf ==
  ASSUME NEW base \in {10, 16}, NEW d \in Nat, d < base
  PROVE  /\ DigitOf(d) \in DigitCodes(base)
         /\ DigitValue(DigitOf(d)) = d
         /\ DigitOf(d) = 48 <=> d = 0
         /\ DigitOf(d) \in 48..57 <=> d < 10
  BY DEF DigitOf, DigitCodes, DigitValue

(* A number has digits, of which the first is 0 only if it is 0.            *)
LEMMA DigitsTyped ==
  ASSUME NEW base \in {10, 16}, NEW w \in Nat
  PROVE  /\ Digits(base, w) \in Seq(DigitCodes(base))
         /\ Len(Digits(base, w)) \in Nat \ {0}
         /\ Digits(base, w)[1] = 48 => w = 0
  <1> DEFINE Fine(v) == /\ Digits(base, v) \in Seq(DigitCodes(base))
                        /\ Len(Digits(base, v)) \in Nat \ {0}
                        /\ Digits(base, v)[1] = 48 => v = 0
             P == {v \in Nat : Fine(v)}
             pred == [v \in Nat |-> v \div base]
             m == [v \in Nat |-> v]
  <1>1. ASSUME NEW v \in Nat, v < base PROVE Fine(v)
    <2>1. Digits(base, v) = <<DigitOf(v)>>
      BY <1>1, DigitsUnfold
    <2>2. DigitOf(v) \in DigitCodes(base) /\ (DigitOf(v) = 48 => v = 0)
      BY <1>1, DigitCodesOf
    <2> QED
      BY <2>1, <2>2
  <1>2. ASSUME NEW v \in Nat, ~(v < base), Fine(v \div base) PROVE Fine(v)
    <2> DEFINE s == Digits(base, v \div base)
               c == DigitOf(v % base)
    <2>1. /\ v % base \in Nat /\ v % base < base
          /\ v \div base \in Nat /\ v \div base # 0
      BY <1>2, Z3
    <2>2. c \in DigitCodes(base)
      BY <2>1, DigitCodesOf
    <2>3. Digits(base, v) = Append(s, c)
      BY <1>2, DigitsUnfold
    <2>4. s \in Seq(DigitCodes(base)) /\ Len(s) \in Nat \ {0} /\ s[1] # 48
      BY <1>2, <2>1
    <2> HIDE DEF s, c
    <2>5. /\ Append(s, c) \in Seq(DigitCodes(base))
          /\ Len(Append(s, c)) = Len(s) + 1
          /\ Append(s, c)[1] = s[1]
      BY <2>2, <2>4
    <2> QED
      BY <2>3, <2>4, <2>5
  <1>3. Inductive(Nat, 0 .. base - 1, pred, P)
    <2>1. \A v \in Nat : v \in 0 .. base - 1 <=> v < base
      BY Z3
    <2>2. \A v \in Nat : pred[v] = v \div base
      OBVIOUS
    <2> HIDE DEF pred
    <2> SUFFICES /\ \A v \in Nat : v < base => Fine(v)
                 /\ \A v \in Nat : ~(v < base) /\ Fine(v \div base) => Fine(v)
      <3> HIDE DEF Fine
      <3> QED
        BY <2>1, <2>2 DEF Inductive
    <2> QED
      BY <1>1, <1>2
  <1>4. Nat \subseteq P
    <2> HIDE DEF P
    <2> QED
      BY <1>3, DigitsFall, RecursionInduction
  <1> QED
    BY <1>4

----------------------------------------------------------------------------
(* The values of the first 0, 1, 2, ... digits.                             *)
Values(base, s) ==
  CHOOSE f \in [0..Len(s) -> Int] :
    /\ f[0] = 0
    /\ \A i \in 1..Len(s) : f[i] = base * f[i - 1] + DigitValue(s[i])

(* Every code has a value.                                                  *)
LEMMA DigitValueTyped == \A c \in Int : DigitValue(c) \in Int
  BY DEF DigitValue

(* They are what ValueOf works out.                                         *)
LEMMA ValuesUnfold ==
  ASSUME NEW base \in Int, NEW s \in Seq(Int)
  PROVE  /\ Values(base, s) \in [0..Len(s) -> Int]
         /\ Values(base, s)[0] = 0
         /\ \A i \in 1..Len(s) :
              Values(base, s)[i] = base * Values(base, s)[i - 1] + DigitValue(s[i])
         /\ ValueOf(base, s) = Values(base, s)[Len(s)]
  <1> DEFINE n == Len(s)
             IsValues(f) ==
               /\ f[0] = 0
               /\ \A i \in 1..n : f[i] = base * f[i - 1] + DigitValue(s[i])
             next == [i \in 0..n |->
                        [v \in Int |->
                           IF i = 0 THEN 0 ELSE base * v + DigitValue(s[i])]]
             Turn(f) ==
               [i \in 0..n |->
                  IF i = 0 THEN 0 ELSE base * f[i - 1] + DigitValue(s[i])]
             value == CHOOSE f : f = Turn(f)
  <1>1. /\ n \in Nat
        /\ \A i \in 1..n, v \in Int : base * v + DigitValue(s[i]) \in Int
    <2>1. n \in Nat /\ \A i \in 1..n : s[i] \in Int
      OBVIOUS
    <2>2. ASSUME NEW i \in 1..n, NEW v \in Int
          PROVE  base * v + DigitValue(s[i]) \in Int
      <3> DEFINE a == base * v
                 b == DigitValue(s[i])
      <3>1. a \in Int
        OBVIOUS
      <3>2. b \in Int
        BY <2>1, DigitValueTyped
      <3> HIDE DEF a, b
      <3>3. a + b \in Int
        BY <3>1, <3>2
      <3> QED
        BY <3>3 DEF a, b
    <2> QED
      BY <2>1, <2>2
  <1>2. next \in [0..n -> [Int -> Int]]
    <2> DEFINE term(i, v) == base * v + DigitValue(s[i])
    <2>1. \A i \in 1..n, v \in Int : term(i, v) \in Int
      BY <1>1
    <2>2. next = [i \in 0..n |->
                    [v \in Int |-> IF i = 0 THEN 0 ELSE term(i, v)]]
      OBVIOUS
    <2>3. \A i \in 0..n : i # 0 => i \in 1..n
      BY <1>1
    <2> HIDE DEF n, next, term
    <2> QED
      BY <2>1, <2>2, <2>3
  <1>3. PICK f \in [0..n -> Int] :
          f[0] = 0 /\ \A i \in 1..n : f[i] = next[i][f[i - 1]]
    <2> HIDE DEF n, next
    <2> QED
      BY <1>1, <1>2, CountSolved
  <1>4. IsValues(f)
    <2> HIDE DEF n
    <2>1. \A i \in 1..n : i - 1 \in 0..n /\ i \in 0..n /\ i # 0
      BY <1>1
    <2>2. \A i \in 1..n : f[i - 1] \in Int
      BY <2>1
    <2> QED
      BY <1>3, <2>1, <2>2
  <1>5. Values(base, s) \in [0..n -> Int] /\ IsValues(Values(base, s))
    BY <1>4 DEF Values
  <1>6. value = Turn(value)
    <2>1. f = Turn(f)
      BY <1>4, <1>1
    <2> HIDE DEF Turn
    <2> QED
      BY <2>1
  <1>7. ValueOf(base, s) = value[n]
    BY DEF ValueOf
  <1>8. IsValues(value)
    <2> HIDE DEF value, n
    <2>1. \A i \in 0..n : value[i] = Turn(value)[i]
      BY <1>6
    <2> QED
      BY <1>1, <2>1
  <1>9. 0..n \subseteq {i \in 0..n : value[i] = Values(base, s)[i]}
    <2> DEFINE P == {i \in 0..n : value[i] = Values(base, s)[i]}
    <2> HIDE DEF value
    <2>1. 0 \in P
      BY <1>1, <1>5, <1>8
    <2>2. \A i \in 1..n : i - 1 \in P => i \in P
      BY <1>1, <1>5, <1>8
    <2> HIDE DEF P, n
    <2>3. 0..n \subseteq P
      BY <1>1, <2>1, <2>2, CountInduction
    <2> QED
      BY <2>3 DEF P
  <1>10. value[n] = Values(base, s)[n]
    <2>1. n \in 0..n
      BY <1>1
    <2> HIDE DEF n, value
    <2> QED
      BY <1>9, <2>1
  <1>11. /\ Values(base, s)[0] = 0
         /\ \A i \in 1..n :
              Values(base, s)[i] = base * Values(base, s)[i - 1] + DigitValue(s[i])
    <2> HIDE DEF n
    <2> QED
      BY <1>5
  <1> HIDE DEF value
  <1> QED
    BY <1>5, <1>7, <1>10, <1>11

(* What the lemmas need of the values of a sequence.                        *)
ValuesOf(base, s) ==
  /\ Len(s) \in Nat
  /\ \A i \in 1..Len(s) : s[i] \in Int
  /\ \A i \in 0..Len(s) : Values(base, s)[i] \in Int
  /\ Values(base, s)[0] = 0
  /\ \A i, j \in Int : i \in 1..Len(s) /\ j = i - 1 =>
       Values(base, s)[i] = base * Values(base, s)[j] + DigitValue(s[i])
  /\ ValueOf(base, s) = Values(base, s)[Len(s)]

(* Every sequence has such values.                                          *)
LEMMA ValuesTyped == \A base \in Int, s \in Seq(Int) : ValuesOf(base, s)
  <1> SUFFICES ASSUME NEW base \in Int, NEW s \in Seq(Int)
               PROVE  ValuesOf(base, s)
    OBVIOUS
  <1>1. Len(s) \in Nat /\ \A i \in 1..Len(s) : s[i] \in Int
    OBVIOUS
  <1>2. /\ Values(base, s) \in [0..Len(s) -> Int]
        /\ Values(base, s)[0] = 0
        /\ \A i \in 1..Len(s) :
             Values(base, s)[i] = base * Values(base, s)[i - 1] + DigitValue(s[i])
        /\ ValueOf(base, s) = Values(base, s)[Len(s)]
    BY ValuesUnfold
  <1> QED
    BY <1>1, <1>2 DEF ValuesOf

(* Equal beginnings have equal values.                                      *)
LEMMA ValuesAgree ==
  ASSUME NEW base \in Int, NEW p, ValuesOf(base, p), NEW q, ValuesOf(base, q),
         NEW n \in Nat, n <= Len(p), n <= Len(q), \A i \in 1..n : p[i] = q[i]
  PROVE  Values(base, p)[n] = Values(base, q)[n]
  <1> USE DEF ValuesOf
  <1> DEFINE P == {i \in 0..n : Values(base, p)[i] = Values(base, q)[i]}
  <1>1. 0 \in P
    OBVIOUS
  <1>2. ASSUME NEW i \in 1..n, i - 1 \in P PROVE i \in P
    <2> DEFINE j == i - 1
    <2>1. i \in 1..Len(p) /\ i \in 1..Len(q) /\ p[i] = q[i] /\ j \in Int
      OBVIOUS
    <2>2. Values(base, p)[j] = Values(base, q)[j]
      BY <1>2
    <2> HIDE DEF P
    <2>3. /\ Values(base, p)[i] = base * Values(base, p)[j] + DigitValue(p[i])
          /\ Values(base, q)[i] = base * Values(base, q)[j] + DigitValue(q[i])
      BY <2>1
    <2>4. Values(base, p)[i] = Values(base, q)[i]
      BY <2>1, <2>2, <2>3
    <2> QED
      BY <2>4 DEF P
  <1>3. 0..n \subseteq P
    <2> HIDE DEF P
    <2> QED
      BY <1>1, <1>2, CountInduction
  <1> QED
    BY <1>3

(* The value of a sequence is a number.                                     *)
LEMMA ValueTyped == \A base \in Int, s \in Seq(Int) : ValueOf(base, s) \in Int
  BY ValuesTyped DEF ValuesOf

(* The value of a sequence with one digit more.                             *)
LEMMA ValueAppend ==
  ASSUME NEW base \in Int, NEW s \in Seq(Int), NEW c \in Int
  PROVE  /\ ValueOf(base, s) \in Int
         /\ ValueOf(base, Append(s, c)) = base * ValueOf(base, s) + DigitValue(c)
  <1> DEFINE a == Append(s, c)
             n == Len(s)
  <1>1. /\ a \in Seq(Int) /\ n \in Nat /\ Len(a) = n + 1 /\ a[n + 1] = c
        /\ \A i \in 1..n : s[i] = a[i]
    OBVIOUS
  <1> HIDE DEF a
  <1>2. ValuesOf(base, s) /\ ValuesOf(base, a)
    BY <1>1, ValuesTyped
  <1>3. Values(base, s)[n] = Values(base, a)[n]
    <2>1. n \in Nat /\ n <= Len(s) /\ n <= Len(a)
      BY <1>1
    <2>2. \A i \in 1..n : s[i] = a[i]
      BY <1>1
    <2> HIDE DEF n
    <2> QED
      BY <1>2, <2>1, <2>2, ValuesAgree
  <1>4. ValueOf(base, a) = base * Values(base, a)[n] + DigitValue(a[n + 1])
    <2>1. /\ n + 1 \in 1..Len(a) /\ n = (n + 1) - 1 /\ n \in Int /\ n + 1 \in Int
          /\ Len(a) = n + 1
      BY <1>1
    <2> HIDE DEF n
    <2> QED
      BY <1>2, <2>1 DEF ValuesOf
  <1>5. ValueOf(base, s) = Values(base, s)[n] /\ ValueOf(base, s) \in Int
    BY <1>1, <1>2 DEF ValuesOf
  <1> QED
    BY <1>1, <1>3, <1>4, <1>5 DEF a

(* The value of a single digit, and of none.                                *)
LEMMA ValueOfFew ==
  ASSUME NEW base \in Int
  PROVE  /\ ValueOf(base, <<>>) = 0
         /\ \A c \in Int : ValueOf(base, <<c>>) = DigitValue(c)
  <1>1. <<>> \in Seq(Int) /\ Len(<<>>) = 0
    OBVIOUS
  <1>2. ValueOf(base, <<>>) = 0
    BY <1>1, ValuesTyped DEF ValuesOf
  <1>3. ASSUME NEW c \in Int PROVE ValueOf(base, <<c>>) = DigitValue(c)
    <2> DEFINE none == <<>>
    <2>1. <<c>> = Append(none, c) /\ none \in Seq(Int)
      OBVIOUS
    <2>2. ValueOf(base, none) = 0
      BY <1>2
    <2> HIDE DEF none
    <2>3. ValueOf(base, Append(none, c)) = base * 0 + DigitValue(c)
      BY <2>1, <2>2, ValueAppend
    <2> DEFINE z == base * 0
               d == DigitValue(c)
    <2>4. z = 0
      OBVIOUS
    <2>5. d \in Int
      BY DigitValueTyped
    <2> HIDE DEF z, d
    <2>6. z + d = d
      BY <2>4, <2>5
    <2> QED
      BY <2>1, <2>3, <2>6 DEF z, d
  <1> QED
    BY <1>2, <1>3

(* The digits of a number stand for that number.                            *)
LEMMA ValueOfDigits ==
  ASSUME NEW base \in {10, 16}, NEW w \in Nat
  PROVE  ValueOf(base, Digits(base, w)) = w
  <1> DEFINE P == {v \in Nat : ValueOf(base, Digits(base, v)) = v}
             pred == [v \in Nat |-> v \div base]
             m == [v \in Nat |-> v]
  <1>1. ASSUME NEW v \in Nat, v < base PROVE v \in P
    <2>1. Digits(base, v) = <<DigitOf(v)>>
      BY <1>1, DigitsUnfold
    <2>2. DigitOf(v) \in Int /\ DigitValue(DigitOf(v)) = v
      BY <1>1, DigitCodesOf DEF DigitOf
    <2>3. ValueOf(base, <<DigitOf(v)>>) = v
      BY <2>2, ValueOfFew
    <2> QED
      BY <2>1, <2>3
  <1>2. ASSUME NEW v \in Nat, ~(v < base), v \div base \in P PROVE v \in P
    <2> DEFINE s == Digits(base, v \div base)
               d == v % base
    <2>1. d \in Nat /\ d < base /\ v \div base \in Nat /\ base * (v \div base) + d = v
      BY <1>2, Z3
    <2>2. Digits(base, v) = Append(s, DigitOf(d))
      BY <1>2, DigitsUnfold
    <2>3. DigitOf(d) \in Int /\ DigitValue(DigitOf(d)) = d
      BY <2>1, DigitCodesOf DEF DigitOf
    <2>4. s \in Seq(Int)
      <3>1. s \in Seq(DigitCodes(base))
        BY <2>1, DigitsTyped
      <3>2. DigitCodes(base) \subseteq Int
        BY DEF DigitCodes
      <3> QED
        BY <3>1, <3>2, SeqMonotonic
    <2>5. ValueOf(base, s) = v \div base
      BY <1>2
    <2> HIDE DEF s, d
    <2>6. ValueOf(base, Append(s, DigitOf(d))) = base * ValueOf(base, s) + d
      BY <2>3, <2>4, ValueAppend
    <2> QED
      BY <2>1, <2>2, <2>5, <2>6
  <1>3. Inductive(Nat, 0 .. base - 1, pred, P)
    <2>1. \A v \in Nat : v \in 0 .. base - 1 <=> v < base
      BY Z3
    <2>2. \A v \in Nat : pred[v] = v \div base
      OBVIOUS
    <2> HIDE DEF pred, P
    <2> QED
      BY <1>1, <1>2, <2>1, <2>2 DEF Inductive
  <1>4. Nat \subseteq P
    <2> HIDE DEF P
    <2> QED
      BY <1>3, DigitsFall, RecursionInduction
  <1> QED
    BY <1>4

(* Different numbers have different digits.                                 *)
LEMMA DigitsTellApart ==
  ASSUME NEW base \in {10, 16}, NEW v \in Nat, NEW w \in Nat,
         Digits(base, v) = Digits(base, w)
  PROVE  v = w
  BY ValueOfDigits

(* What Min and Max choose.                                                 *)
LEMMA MinIs ==
  ASSUME NEW S, S \subseteq Int, NEW x \in S, \A y \in S : x <= y
  PROVE  Min(S) = x
  <1> DEFINE least == CHOOSE y \in S : \A z \in S : y <= z
  <1>1. least \in S /\ \A y \in S : least <= y
    OBVIOUS
  <1> HIDE DEF least
  <1>2. least \in Int /\ x \in Int /\ least <= x /\ x <= least
    BY <1>1
  <1>3. least = x
    BY <1>2
  <1> QED
    BY <1>3 DEF least, Min

(* The same for Max.                                                        *)
LEMMA MaxIs ==
  ASSUME NEW S, S \subseteq Int, NEW x \in S, \A y \in S : y <= x
  PROVE  Max(S) = x
  <1> DEFINE most == CHOOSE y \in S : \A z \in S : y >= z
  <1>1. most \in S /\ \A y \in S : most >= y
    <2>1. \A y \in S : x >= y
      OBVIOUS
    <2> QED
      BY <2>1
  <1> HIDE DEF most
  <1>2. most \in Int /\ x \in Int /\ most <= x /\ x <= most
    BY <1>1
  <1>3. most = x
    BY <1>2
  <1> QED
    BY <1>3 DEF most, Max

(* The decimal digits that a section starts with end in front of place end. *)
LeadEnds(s, end) ==
  /\ end \in 1..(Len(s) + 1)
  /\ \A i \in 1..(end - 1) : s[i] \in 48..57
  /\ end <= Len(s) => s[end] \notin 48..57

(* Such an end exists.                                                      *)
LEMMA LeadExists ==
  ASSUME NEW s \in Seq(Int)
  PROVE  \E end : LeadEnds(s, end)
  <1> DEFINE S == {i \in 1..Len(s) : s[i] \notin 48..57} \cup {Len(s) + 1}
  <1>1. Len(s) \in Nat
    OBVIOUS
  <1>2. S \subseteq Nat /\ S # {}
    BY <1>1
  <1>3. PICK end \in S : \A y \in S : end <= y
    BY <1>2, LeastNumber
  <1>4. /\ end \in 1..(Len(s) + 1)
        /\ end <= Len(s) => s[end] \notin 48..57
    BY <1>1, <1>3
  <1>5. ASSUME NEW i \in 1..(end - 1) PROVE s[i] \in 48..57
    <2>1. i \in 1..Len(s) /\ i < end
      BY <1>1, <1>4
    <2>2. i \notin S
      BY <1>3, <1>4, <2>1
    <2> QED
      BY <2>1, <2>2
  <1> HIDE DEF S
  <1>6. LeadEnds(s, end)
    BY <1>4, <1>5 DEF LeadEnds
  <1> QED
    BY <1>6

(* LeadingNumber is the value of the digits in front of it.                 *)
LEMMA LeadingNumberIs ==
  ASSUME NEW s \in Seq(Int), NEW end, LeadEnds(s, end)
  PROVE  LeadingNumber(s) = ValueOf(10, SubSeq(s, 1, end - 1))
  <1> DEFINE S == {i \in 1..Len(s) : s[i] \notin 48..57} \cup {Len(s) + 1}
  <1>1. Len(s) \in Nat
    OBVIOUS
  <1>2. S \subseteq Int /\ end \in S /\ \A y \in S : end <= y
    BY <1>1 DEF LeadEnds
  <1>3. Min(S) = end
    <2> HIDE DEF S
    <2> QED
      BY <1>2, MinIs
  <1> QED
    BY <1>3 DEF LeadingNumber

(* So it is a number.                                                       *)
LEMMA LeadingNumberTyped ==
  ASSUME NEW s \in Seq(Int)
  PROVE  LeadingNumber(s) \in Int
  <1>1. PICK end : LeadEnds(s, end)
    BY LeadExists
  <1>2. SubSeq(s, 1, end - 1) \in Seq(Int)
    <2>1. end - 1 \in Int /\ \A i \in 1..(end - 1) : s[i] \in Int
      BY <1>1 DEF LeadEnds
    <2> QED
      BY <2>1, SubSeqProperties
  <1>3. ValueOf(10, SubSeq(s, 1, end - 1)) \in Int
    <2> DEFINE t == SubSeq(s, 1, end - 1)
    <2>1. t \in Seq(Int)
      BY <1>2
    <2> HIDE DEF t
    <2>2. ValueOf(10, t) \in Int
      BY <2>1, ValueTyped
    <2> QED
      BY <2>2 DEF t
  <1> QED
    BY <1>1, <1>3, LeadingNumberIs

(* One more character counts only if it is a digit and all before it are.   *)
LEMMA LeadingNumberAppend ==
  ASSUME NEW s \in Seq(Int), NEW c \in Int
  PROVE  \/ LeadingNumber(Append(s, c)) = LeadingNumber(s)
         \/ /\ c \in 48..57
            /\ LeadingNumber(Append(s, c)) = 10 * LeadingNumber(s) + DigitValue(c)
  <1> DEFINE a == Append(s, c)
             n == Len(s)
  <1>1. PICK end : LeadEnds(s, end)
    BY LeadExists
  <1>2. /\ a \in Seq(Int) /\ n \in Nat /\ Len(a) = n + 1 /\ a[n + 1] = c
        /\ \A i \in 1..n : s[i] = a[i]
    OBVIOUS
  <1>3. end \in 1..(n + 1) /\ end - 1 \in Int
    BY <1>2, <1>1 DEF LeadEnds
  <1>4. SubSeq(a, 1, end - 1) = SubSeq(s, 1, end - 1)
    <2>1. /\ \A i \in 1..(end - 1) : s[i] \in Int /\ a[i] \in Int /\ a[i] = s[i]
      BY <1>2, <1>3
    <2>2. /\ SubSeq(s, 1, end - 1) \in Seq(Int)
          /\ Len(SubSeq(s, 1, end - 1)) = IF 1 <= end - 1 THEN end - 1 ELSE 0
          /\ \A i \in 1..(end - 1) : SubSeq(s, 1, end - 1)[i] = s[i]
      BY <1>3, <2>1, SubSeqProperties
    <2>3. /\ SubSeq(a, 1, end - 1) \in Seq(Int)
          /\ Len(SubSeq(a, 1, end - 1)) = IF 1 <= end - 1 THEN end - 1 ELSE 0
          /\ \A i \in 1..(end - 1) : SubSeq(a, 1, end - 1)[i] = a[i]
      <3> HIDE DEF a
      <3> QED
        BY <1>3, <2>1, SubSeqProperties
    <2> HIDE DEF a
    <2> QED
      BY <2>1, <2>2, <2>3, <1>3, SeqEqual
  <1>5. LeadingNumber(s) = ValueOf(10, SubSeq(s, 1, end - 1))
    BY <1>1, LeadingNumberIs
  <1>6. CASE end <= n \/ c \notin 48..57
    <2>1. LeadEnds(a, end)
      <3>1. \A i \in 1..(end - 1) : i \in 1..n
        BY <1>2, <1>3
      <3>2. \A i \in 1..(end - 1) : a[i] \in 48..57
        BY <3>1, <1>1, <1>2 DEF LeadEnds
      <3>3. end \in 1..(Len(a) + 1)
        BY <1>2, <1>3
      <3>4. end <= n => a[end] \notin 48..57
        <4>1. end <= n => end \in 1..n
          BY <1>2, <1>3
        <4> QED
          BY <4>1, <1>1, <1>2 DEF LeadEnds
      <3>5. end <= Len(a) => end <= n \/ end = n + 1
        BY <1>2, <1>3
      <3>6. end <= Len(a) => a[end] \notin 48..57
        BY <3>4, <3>5, <1>6, <1>2
      <3> HIDE DEF a
      <3> QED
        BY <3>2, <3>3, <3>6 DEF LeadEnds
    <2>2. LeadingNumber(a) = ValueOf(10, SubSeq(a, 1, end - 1))
      <3> HIDE DEF a
      <3> QED
        BY <1>2, <2>1, LeadingNumberIs
    <2> QED
      BY <1>4, <1>5, <2>2
  <1>7. CASE end = n + 1 /\ c \in 48..57
    <2>1. LeadEnds(a, n + 2)
      <3>1. \A i \in 1..(n + 1) : a[i] \in 48..57
        <4>1. \A i \in 1..(n + 1) : i = n + 1 \/ i \in 1..n
          BY <1>2
        <4>2. \A i \in 1..n : s[i] \in 48..57
          <5>1. end - 1 = n
            BY <1>2, <1>7
          <5> QED
            BY <5>1, <1>1 DEF LeadEnds
        <4> HIDE DEF a, n
        <4> QED
          BY <4>1, <4>2, <1>2, <1>7
      <3> HIDE DEF a
      <3> QED
        BY <1>2, <3>1 DEF LeadEnds
    <2>2. LeadingNumber(a) = ValueOf(10, SubSeq(a, 1, (n + 2) - 1))
      <3> HIDE DEF a, n
      <3> QED
        BY <1>2, <2>1, LeadingNumberIs
    <2>3. SubSeq(a, 1, (n + 2) - 1) = a
      <3>1. (n + 2) - 1 = Len(a)
        BY <1>2
      <3> HIDE DEF a
      <3> QED
        BY <1>2, <3>1, SubSeqFull
    <2>4. SubSeq(s, 1, end - 1) = s
      <3>1. end - 1 = Len(s)
        BY <1>2, <1>7
      <3> QED
        BY <3>1, SubSeqFull
    <2>5. ValueOf(10, a) = 10 * ValueOf(10, s) + DigitValue(c)
      BY ValueAppend
    <2> QED
      BY <1>5, <1>7, <2>2, <2>3, <2>4, <2>5
  <1> QED
    BY <1>2, <1>3, <1>6, <1>7

(* Hexadecimal digits, read as decimal ones up to the first letter, make at *)
(* most the number they stand for, and less from 10 on.                     *)
LEMMA ReadsLow ==
  ASSUME NEW w \in Nat
  PROVE  /\ LeadingNumber(Digits(16, w)) <= w
         /\ LeadingNumber(Digits(16, w)) = w <=> w < 10
  <1> DEFINE L(v) == LeadingNumber(Digits(16, v))
             Low(v) == L(v) \in Nat /\ L(v) <= v /\ (L(v) = v <=> v < 10)
             P == {v \in Nat : Low(v)}
             pred == [v \in Nat |-> v \div 16]
             m == [v \in Nat |-> v]
  <1>1. ASSUME NEW v \in Nat, v < 16 PROVE Low(v)
    <2> DEFINE c == DigitOf(v)
               s == <<c>>
    <2>1. Digits(16, v) = s
      BY <1>1, DigitsUnfold
    <2>2. c \in Int /\ DigitValue(c) = v /\ (c \in 48..57 <=> v < 10)
      BY <1>1, DigitCodesOf DEF DigitOf
    <2>3. s \in Seq(Int) /\ Len(s) = 1 /\ s[1] = c
      BY <2>2
    <2>4. CASE v < 10
      <3>1. LeadEnds(s, 2)
        <4> HIDE DEF s, c
        <4>1. \A i \in 1..(2 - 1) : i = 1
          OBVIOUS
        <4>2. 2 \in 1..(Len(s) + 1) /\ ~(2 <= Len(s))
          BY <2>3
        <4>3. s[1] \in 48..57
          BY <2>2, <2>3, <2>4
        <4> QED
          BY <4>1, <4>2, <4>3 DEF LeadEnds
      <3>2. SubSeq(s, 1, 2 - 1) = s
        <4>1. 2 - 1 = Len(s)
          BY <2>3
        <4> HIDE DEF s
        <4> QED
          BY <2>3, <4>1, SubSeqFull
      <3>4. LeadingNumber(s) = ValueOf(10, s)
        BY <2>3, <3>1, <3>2, LeadingNumberIs
      <3>3. ValueOf(10, <<c>>) = v
        BY <2>2, ValueOfFew
      <3> QED
        BY <2>1, <2>4, <3>3, <3>4
    <2>5. CASE ~(v < 10)
      <3>1. LeadEnds(s, 1) /\ SubSeq(s, 1, 1 - 1) = <<>>
        BY <2>2, <2>3, <2>5 DEF LeadEnds
      <3>2. LeadingNumber(s) = ValueOf(10, <<>>)
        BY <2>3, <3>1, LeadingNumberIs
      <3>3. ValueOf(10, <<>>) = 0
        BY ValueOfFew
      <3> QED
        BY <2>1, <2>5, <3>2, <3>3
    <2> QED
      BY <2>4, <2>5
  <1>2. ASSUME NEW v \in Nat, ~(v < 16), Low(v \div 16) PROVE Low(v)
    <2> DEFINE s == Digits(16, v \div 16)
               d == v % 16
               h == v \div 16
               k == L(v \div 16)
    <2>1. d \in 0..15 /\ h \in Nat \ {0} /\ 16 * h + d = v
      BY <1>2, Z3
    <2>2. Digits(16, v) = Append(s, DigitOf(d))
      BY <1>2, DigitsUnfold
    <2>3. /\ DigitOf(d) \in Int /\ DigitValue(DigitOf(d)) = d
      BY <2>1, DigitCodesOf DEF DigitOf
    <2>4. s \in Seq(Int)
      <3>1. s \in Seq(DigitCodes(16))
        BY <2>1, DigitsTyped
      <3>2. DigitCodes(16) \subseteq Int
        BY DEF DigitCodes
      <3> QED
        BY <3>1, <3>2, SeqMonotonic
    <2>5. L(v) = k \/ L(v) = 10 * k + d
      <3>1. LeadingNumber(s) = k
        OBVIOUS
      <3> HIDE DEF s, d, k
      <3> QED
        BY <2>2, <2>3, <2>4, <3>1, LeadingNumberAppend
    <2>6. k \in Nat /\ k <= h
      BY <1>2
    <2> HIDE DEF L, k, h, d
    <2> QED
      BY <1>2, <2>1, <2>5, <2>6
  <1>3. Inductive(Nat, 0 .. 16 - 1, pred, P)
    <2>1. \A v \in Nat : v \in 0 .. 16 - 1 <=> v < 16
      BY Z3
    <2>2. \A v \in Nat : pred[v] = v \div 16
      OBVIOUS
    <2> HIDE DEF pred, Low
    <2> QED
      BY <1>1, <1>2, <2>1, <2>2 DEF Inductive
  <1>4. Nat \subseteq P
    <2> HIDE DEF P
    <2> QED
      BY <1>3, DigitsFall, RecursionInduction
  <1> QED
    BY <1>4

----------------------------------------------------------------------------
(* j is the first delimiter of a text from place i on, or behind its end.   *)
NextIs(str, i, j) ==
  /\ j \in i..(Len(str) + 1)
  /\ \A h \in i..(j - 1) : str[h] # Delim
  /\ j <= Len(str) => str[j] = Delim

(* NextDelim finds the delimiter with this property, ...                    *)
LEMMA NextDelimIs ==
  ASSUME NEW str, Len(str) \in Nat, NEW i \in 1..(Len(str) + 1),
         NEW j, NextIs(str, i, j)
  PROVE  NextDelim(str, i) = j
  <1> DEFINE S == {h \in Delims(str) : i <= h} \cup {Len(str) + 1}
  <1>1. j \in Int /\ j <= Len(str) + 1 /\ i <= j
    BY DEF NextIs
  <1>2. S \subseteq Int
    BY DEF Delims
  <1>3. j \in S
    BY <1>1 DEF NextIs, Delims
  <1>4. ASSUME NEW h \in S PROVE j <= h
    <2>1. CASE h = Len(str) + 1
      BY <2>1, <1>1
    <2>2. CASE h \in Delims(str) /\ i <= h
      <3>1. h \in 1..Len(str) /\ str[h] = Delim
        BY <2>2 DEF Delims
      <3>2. ~(h \in i..(j - 1))
        BY <3>1 DEF NextIs
      <3> QED
        BY <2>2, <3>1, <3>2, <1>1
    <2> QED
      BY <2>1, <2>2
  <1> HIDE DEF S
  <1>5. Min(S) = j
    BY <1>2, <1>3, <1>4, MinIs
  <1> QED
    BY <1>5 DEF NextDelim, S

(* ... and what it finds has it.                                            *)
LEMMA NextExists ==
  ASSUME NEW str, Len(str) \in Nat, NEW i \in 1..(Len(str) + 1)
  PROVE  NextIs(str, i, NextDelim(str, i))
  <1> DEFINE S == {h \in Delims(str) : i <= h} \cup {Len(str) + 1}
  <1>1. S \subseteq Nat /\ S # {}
    BY DEF Delims
  <1>2. PICK j \in S : \A h \in S : j <= h
    BY <1>1, LeastNumber
  <1>3. NextIs(str, i, j)
    <2>1. j \in i..(Len(str) + 1)
      BY DEF Delims
    <2>2. ASSUME NEW h \in i..(j - 1) PROVE str[h] # Delim
      <3>1. h \in 1..Len(str) /\ i <= h /\ ~(j <= h)
        BY <2>1
      <3> QED
        BY <3>1, <1>2 DEF Delims
    <2>3. j <= Len(str) => str[j] = Delim
      BY DEF Delims
    <2> QED
      BY <2>1, <2>2, <2>3 DEF NextIs
  <1> QED
    BY <1>3, NextDelimIs

(* The pieces of a text: one up to the next delimiter, and those behind it. *)
PiecesFrom(str, from) ==
  /\ from \in [1..(Len(str) + 1) -> Seq(Seq(Codes))]
  /\ \A i, j \in Nat :
       i \in 1..(Len(str) + 1) /\ NextIs(str, i, j) =>
         from[i] = IF j = Len(str) + 1 THEN <<>>
                   ELSE <<SubSeq(str, i, j - 1)>> \o from[j + 1]

(* Split makes such pieces, beginning with the first place.                 *)
LEMMA SplitUnfold ==
  ASSUME NEW str \in Seq(Codes)
  PROVE  \E from : PiecesFrom(str, from) /\ Split(str) = from[1]
  <1> DEFINE n == Len(str)
             D == 1..(n + 1)
             Stop == {i \in D : NextDelim(str, i) = n + 1}
             S == Seq(Seq(Codes))
             Piece(i) == SubSeq(str, i, NextDelim(str, i) - 1)
             Turn(f) ==
               [i \in D |->
                  LET j == NextDelim(str, i)
                  IN IF j = n + 1 THEN <<>>
                     ELSE <<SubSeq(str, i, j - 1)>> \o f[j + 1]]
             from == CHOOSE f : f = Turn(f)
             pred == [i \in D |-> IF i \in Stop THEN i ELSE NextDelim(str, i) + 1]
             m == [i \in D |-> (n + 1) - i]
             start == [i \in D |-> <<>>]
             next == [i \in D |-> [s \in S |-> <<Piece(i)>> \o s]]
  <1>1. n \in Nat
    OBVIOUS
  <1>2. ASSUME NEW i \in D
        PROVE  /\ NextDelim(str, i) \in i..(n + 1)
               /\ i \notin Stop => NextDelim(str, i) + 1 \in D
               /\ i \notin Stop => NextDelim(str, i) + 1 > i
               /\ Piece(i) \in Seq(Codes)
    <2>1. NextDelim(str, i) \in i..(n + 1)
      BY <1>1, NextExists DEF NextIs
    <2>2. \A h \in i..(NextDelim(str, i) - 1) : str[h] \in Codes
      BY <1>1, <2>1
    <2>3. Piece(i) \in Seq(Codes)
      BY <1>1, <2>1, <2>2, SubSeqProperties
    <2> QED
      BY <1>1, <2>1, <2>3
  <1>3. Falls(D, Stop, pred, m)
    <2>1. ASSUME NEW i \in D PROVE pred[i] \in D /\ m[i] \in Nat
      BY <1>1, <1>2
    <2>2. ASSUME NEW i \in D \ Stop PROVE m[pred[i]] < m[i]
      <3>1. pred[i] = NextDelim(str, i) + 1 /\ pred[i] \in D /\ pred[i] > i
        BY <1>2
      <3> HIDE DEF pred
      <3> QED
        BY <1>1, <3>1
    <2> QED
      BY <2>1, <2>2 DEF Falls
  <1>4. start \in [D -> S] /\ next \in [D -> [S -> S]]
    <2>1. ASSUME NEW i \in D, NEW s \in S PROVE <<Piece(i)>> \o s \in S
      <3>1. Piece(i) \in Seq(Codes)
        BY <1>2
      <3> HIDE DEF Piece
      <3> QED
        BY <3>1
    <2>2. <<>> \in S
      OBVIOUS
    <2> HIDE DEF S, D, Piece
    <2> QED
      BY <2>1, <2>2
  <1>5. PICK f \in [D -> S] : Solves(f, D, Stop, pred, start, next)
    <2> HIDE DEF D, Stop, S, pred, m, start, next
    <2> QED
      BY <1>3, <1>4, RecursionSolved
  <1>6. f = Turn(f)
    <2>1. ASSUME NEW i \in D PROVE f[i] = Turn(f)[i]
      <3>1. CASE i \in Stop
        BY <1>5, <3>1 DEF Solves
      <3>2. CASE i \notin Stop
        <4>1. pred[i] = NextDelim(str, i) + 1 /\ pred[i] \in D
          BY <1>2, <3>2
        <4>2. f[pred[i]] \in S
          BY <4>1
        <4>3. f[i] = next[i][f[pred[i]]]
          <5> HIDE DEF D, Stop, pred, next, start
          <5> QED
            BY <1>5, <3>2 DEF Solves
        <4>4. next[i][f[pred[i]]] = <<Piece(i)>> \o f[pred[i]]
          <5> HIDE DEF D, Stop, pred, start, S, Piece
          <5> QED
            BY <4>2
        <4> QED
          BY <3>2, <4>1, <4>3, <4>4
      <3> QED
        BY <3>1, <3>2
    <2>2. f = [i \in D |-> f[i]] /\ Turn(f) = [i \in D |-> Turn(f)[i]]
      OBVIOUS
    <2> HIDE DEF D, Turn
    <2> QED
      BY <2>1, <2>2
  <1>7. from = Turn(from)
    <2> HIDE DEF Turn
    <2> QED
      BY <1>6
  <1>8. Split(str) = from[1]
    BY DEF Split
  <1>9. ASSUME NEW i \in D
        PROVE  from[i] = IF NextDelim(str, i) = n + 1 THEN <<>>
                         ELSE <<Piece(i)>> \o from[NextDelim(str, i) + 1]
    <2>1. from[i] = Turn(from)[i]
      BY <1>7
    <2> HIDE DEF from
    <2> QED
      BY <2>1
  <1> HIDE DEF from
  <1>10. D \subseteq {i \in D : from[i] \in S}
    <2> DEFINE P == {i \in D : from[i] \in S}
    <2>1. ASSUME NEW i \in D \cap Stop PROVE i \in P
      <3>1. from[i] = <<>>
        BY <1>9
      <3>2. <<>> \in S
        OBVIOUS
      <3> QED
        BY <3>1, <3>2
    <2>2. ASSUME NEW i \in D \ Stop, pred[i] \in P PROVE i \in P
      <3>1. from[i] = <<Piece(i)>> \o from[pred[i]] /\ from[pred[i]] \in S
        BY <1>9, <2>2
      <3>2. Piece(i) \in Seq(Codes)
        BY <1>2
      <3> HIDE DEF Piece, D, pred, Stop
      <3>3. <<Piece(i)>> \o from[pred[i]] \in S
        BY <3>1, <3>2
      <3> QED
        BY <3>1, <3>3
    <2> HIDE DEF P, D, Stop, pred, m
    <2>3. Inductive(D, Stop, pred, P)
      BY <2>1, <2>2 DEF Inductive
    <2>4. D \subseteq P
      BY <1>3, <2>3, RecursionInduction
    <2> QED
      BY <2>4 DEF P
  <1>11. from = [i \in D |-> from[i]]
    BY <1>7
  <1>12. from \in [D -> S]
    <2> HIDE DEF D, S
    <2> QED
      BY <1>10, <1>11
  <1>13. ASSUME NEW i \in D, NEW j \in Nat, NextIs(str, i, j)
         PROVE  from[i] = IF j = n + 1 THEN <<>>
                          ELSE <<SubSeq(str, i, j - 1)>> \o from[j + 1]
    <2>1. NextDelim(str, i) = j
      BY <1>1, <1>13, NextDelimIs
    <2> QED
      BY <1>9, <2>1
  <1>14. PiecesFrom(str, from)
    BY <1>12, <1>13 DEF PiecesFrom
  <1> QED
    BY <1>8, <1>14

(* A text of codes is a text of numbers, with a weighed sum.                *)
LEMMA TextTyped ==
  ASSUME NEW str \in Seq(Codes)
  PROVE  /\ Len(str) \in Nat
         /\ str \in Seq(Int)
         /\ SumsOf(str)
         /\ WeighedSum(str) \in Int
  <1>1. Len(str) \in Nat /\ str \in Seq(Int)
    <2> DEFINE C == Codes
    <2>1. C \subseteq Int
      BY DEF Codes
    <2> HIDE DEF C
    <2>2. str \in Seq(C)
      BY DEF C
    <2>3. str \in Seq(Int)
      BY <2>1, <2>2, SeqMonotonic
    <2> QED
      BY <2>3
  <1>2. SumsOf(str)
    BY <1>1, SumsTyped
  <1> QED
    BY <1>1, <1>2 DEF SumsOf

(* The pieces from place i on: none if there is no delimiter any more, else *)
(* the one up to it and those behind it.                                    *)
PieceAt(str, from, i, j) ==
  from[i] = IF j = Len(str) + 1 THEN <<>>
            ELSE <<SubSeq(str, i, j - 1)>> \o from[j + 1]

(* So it is at every place.                                                 *)
LEMMA PiecesAt ==
  \A str, from, i, j :
    /\ Len(str) \in Nat /\ PiecesFrom(str, from)
    /\ i \in 1..(Len(str) + 1) /\ NextIs(str, i, j)
    => PieceAt(str, from, i, j)
  <1> SUFFICES ASSUME NEW str, Len(str) \in Nat, NEW from, PiecesFrom(str, from),
                      NEW i \in 1..(Len(str) + 1), NEW j, NextIs(str, i, j)
               PROVE  PieceAt(str, from, i, j)
    OBVIOUS
  <1>1. j \in Nat /\ i \in Nat
    BY DEF NextIs
  <1> QED
    BY <1>1 DEF PiecesFrom, PieceAt

(* The pieces from a place on are texts.                                    *)
LEMMA PiecesTyped ==
  \A str, from : PiecesFrom(str, from) =>
    \A i \in 1..(Len(str) + 1) : from[i] \in Seq(Seq(Codes))
  BY DEF PiecesFrom

(* Split makes texts of a text.                                             *)
LEMMA SplitTyped ==
  ASSUME NEW str \in Seq(Codes)
  PROVE  Split(str) \in Seq(Seq(Codes))
  <1>1. PICK from : PiecesFrom(str, from) /\ Split(str) = from[1]
    BY SplitUnfold
  <1>2. Len(str) \in Nat
    OBVIOUS
  <1> QED
    BY <1>1, <1>2 DEF PiecesFrom

(* A piece, and the pieces after it.                                        *)
StartsWith(pieces, piece, rest) ==
  /\ Len(rest) \in Nat
  /\ Len(pieces) = Len(rest) + 1
  /\ pieces[1] = piece
  /\ \A i \in 1..Len(rest) : pieces[i + 1] = rest[i]

(* A sequence put behind one piece starts with that piece.                  *)
LEMMA FirstPiece ==
  \A piece \in Seq(Codes), rest \in Seq(Seq(Codes)) :
    StartsWith(<<piece>> \o rest, piece, rest)
  BY DEF StartsWith

(* Three pieces in a row, and what is after them.                           *)
FirstThree(p, x, y, z) ==
  /\ Len(p) \in Nat /\ Len(p) >= 3
  /\ p[1] = x /\ p[2] = y /\ p[3] = z

(* What follows three pieces leaves them first.                             *)
LEMMA ThreePieces ==
  \A p, q, r, s, x, y, z :
    StartsWith(p, x, q) /\ StartsWith(q, y, r) /\ StartsWith(r, z, s) =>
      FirstThree(p, x, y, z)
  <1> SUFFICES ASSUME NEW p, NEW q, NEW r, NEW s, NEW x, NEW y, NEW z,
                      StartsWith(p, x, q), StartsWith(q, y, r),
                      StartsWith(r, z, s)
               PROVE  FirstThree(p, x, y, z)
    OBVIOUS
  <1>1. \A i, j \in Nat : i \in 1..Len(q) /\ j = i + 1 => p[j] = q[i]
    BY DEF StartsWith
  <1>2. \A i, j \in Nat : i \in 1..Len(r) /\ j = i + 1 => q[j] = r[i]
    BY DEF StartsWith
  <1>3. /\ Len(s) \in Nat /\ Len(r) = Len(s) + 1
        /\ Len(q) = Len(r) + 1 /\ Len(p) = Len(q) + 1
        /\ p[1] = x /\ q[1] = y /\ r[1] = z
    BY DEF StartsWith
  <1>4. Len(r) >= 1 /\ Len(q) >= 2 /\ Len(p) >= 3
        /\ Len(r) \in Nat /\ Len(q) \in Nat /\ Len(p) \in Nat
    BY <1>3
  <1>5. p[2] = q[1] /\ p[3] = q[2] /\ q[2] = r[1]
    <2>1. 1 \in 1..Len(q) /\ 2 \in 1..Len(q) /\ 1 \in 1..Len(r)
      BY <1>4
    <2> QED
      BY <1>1, <1>2, <2>1
  <1> QED
    BY <1>3, <1>4, <1>5 DEF FirstThree

(* A part of a text is a text, character by character.                      *)
LEMMA PieceTyped ==
  ASSUME NEW str \in Seq(Codes), NEW i \in 1..(Len(str) + 1), NEW j \in Nat,
         i <= j, j <= Len(str) + 1
  PROVE  /\ SubSeq(str, i, j - 1) \in Seq(Codes)
         /\ Len(SubSeq(str, i, j - 1)) = j - i
         /\ \A h \in 1..(j - i) : SubSeq(str, i, j - 1)[h] = str[i + h - 1]
  <1>1. i \in Int /\ j - 1 \in Int /\ Len(str) \in Nat
    OBVIOUS
  <1>2. \A h \in i..(j - 1) : str[h] \in Codes
    <2>1. \A h \in i..(j - 1) : h \in 1..Len(str)
      BY <1>1
    <2> QED
      BY <2>1
  <1>3. /\ SubSeq(str, i, j - 1) \in Seq(Codes)
        /\ Len(SubSeq(str, i, j - 1)) = IF i <= j - 1 THEN (j - 1) - i + 1 ELSE 0
        /\ \A h \in 1..((j - 1) - i + 1) : SubSeq(str, i, j - 1)[h] = str[i + h - 1]
    BY <1>1, <1>2, SubSeqProperties
  <1> QED
    BY <1>1, <1>3

(* The first piece, and the pieces up to the first three delimiters.        *)
LEMMA SplitFirst ==
  ASSUME NEW str \in Seq(Codes), NEW a \in Nat, NextIs(str, 1, a), a <= Len(str)
  PROVE  /\ Len(Split(str)) \in Nat \ {0}
         /\ Split(str)[1] = SubSeq(str, 1, a - 1)
         /\ Len(Split(str)[1]) = a - 1
  <1>1. PICK from : PiecesFrom(str, from) /\ Split(str) = from[1]
    BY SplitUnfold
  <1>2. Len(str) \in Nat /\ a \in 1..Len(str)
    BY DEF NextIs
  <1>3. from[1] = <<SubSeq(str, 1, a - 1)>> \o from[a + 1]
        /\ from[a + 1] \in Seq(Seq(Codes))
    <2>1. 1 \in 1..(Len(str) + 1) /\ a # Len(str) + 1 /\ a + 1 \in 1..(Len(str) + 1)
      BY <1>2
    <2>2. from[a + 1] \in Seq(Seq(Codes))
      BY <1>1, <2>1, PiecesTyped
    <2>3. PieceAt(str, from, 1, a)
      BY <1>1, <1>2, <2>1, PiecesAt
    <2> QED
      BY <2>1, <2>2, <2>3 DEF PieceAt
  <1>4. from[a + 1] \in Seq(Seq(Codes))
    BY <1>3
  <1>5. /\ SubSeq(str, 1, a - 1) \in Seq(Codes)
        /\ Len(SubSeq(str, 1, a - 1)) = a - 1
    BY <1>2, PieceTyped
  <1>6. StartsWith(from[1], SubSeq(str, 1, a - 1), from[a + 1])
    BY <1>3, <1>4, <1>5, FirstPiece, Zenon
  <1> QED
    BY <1>1, <1>5, <1>6 DEF StartsWith

(* The pieces up to the third delimiter.                                    *)
LEMMA SplitThree ==
  ASSUME NEW str \in Seq(Codes), NEW a \in Nat, NEW b \in Nat, NEW c \in Nat,
         NextIs(str, 1, a), NextIs(str, a + 1, b), NextIs(str, b + 1, c),
         a <= Len(str), b <= Len(str), c <= Len(str)
  PROVE  /\ Len(Split(str)) \in Nat /\ Len(Split(str)) >= 3
         /\ Split(str)[1] = SubSeq(str, 1, a - 1)
         /\ Split(str)[2] = SubSeq(str, a + 1, b - 1)
         /\ Split(str)[3] = SubSeq(str, b + 1, c - 1)
  <1>1. PICK from : PiecesFrom(str, from) /\ Split(str) = from[1]
    BY SplitUnfold
  <1>2. Len(str) \in Nat /\ a \in 1..Len(str) /\ b \in a + 1 .. Len(str)
        /\ c \in b + 1 .. Len(str)
    BY DEF NextIs
  <1> DEFINE x == SubSeq(str, 1, a - 1)
             y == SubSeq(str, a + 1, b - 1)
             z == SubSeq(str, b + 1, c - 1)
  <1> DEFINE n == Len(str)
  <1>0. /\ 1 \in 1..(n + 1) /\ a + 1 \in 1..(n + 1) /\ b + 1 \in 1..(n + 1)
        /\ c + 1 \in 1..(n + 1) /\ a # n + 1 /\ b # n + 1 /\ c # n + 1
    BY <1>2
  <1>3. /\ from[1] = <<x>> \o from[a + 1]
        /\ from[a + 1] = <<y>> \o from[b + 1]
        /\ from[b + 1] = <<z>> \o from[c + 1]
    <2>1. PieceAt(str, from, 1, a) /\ PieceAt(str, from, a + 1, b)
          /\ PieceAt(str, from, b + 1, c)
      BY <1>1, <1>2, <1>0, PiecesAt
    <2> QED
      BY <1>0, <2>1 DEF PieceAt
  <1>4. from[a + 1] \in Seq(Seq(Codes)) /\ from[b + 1] \in Seq(Seq(Codes))
        /\ from[c + 1] \in Seq(Seq(Codes))
    <2>1. \A i \in 1..(n + 1) : from[i] \in Seq(Seq(Codes))
      BY <1>1, PiecesTyped, Zenon
    <2> HIDE DEF n
    <2> QED
      BY <1>0, <2>1
  <1>5. x \in Seq(Codes) /\ y \in Seq(Codes) /\ z \in Seq(Codes)
    <2>1. /\ 1 \in 1..(n + 1) /\ a \in Nat /\ 1 <= a /\ a <= n + 1
          /\ a + 1 \in 1..(n + 1) /\ b \in Nat /\ a + 1 <= b /\ b <= n + 1
          /\ b + 1 \in 1..(n + 1) /\ c \in Nat /\ b + 1 <= c /\ c <= n + 1
      BY <1>2
    <2>2. x \in Seq(Codes)
      BY <2>1, PieceTyped
    <2>3. y \in Seq(Codes)
      BY <2>1, PieceTyped
    <2>4. z \in Seq(Codes)
      BY <2>1, PieceTyped
    <2> QED
      BY <2>2, <2>3, <2>4
  <1> HIDE DEF x, y, z
  <1>6. /\ StartsWith(from[b + 1], z, from[c + 1])
        /\ StartsWith(from[a + 1], y, from[b + 1])
        /\ StartsWith(from[1], x, from[a + 1])
    BY <1>3, <1>4, <1>5, FirstPiece, Zenon
  <1>7. FirstThree(from[1], x, y, z)
    BY <1>6, ThreePieces
  <1> QED
    BY <1>1, <1>7 DEF x, y, z, FirstThree

----------------------------------------------------------------------------
(* A bounded set of naturals that is not empty has a greatest element.      *)
LEMMA GreatestNumber ==
  ASSUME NEW n \in Nat, NEW S, S \subseteq 0..n, S # {}
  PROVE  \E x \in S : \A y \in S : y <= x
  <1> DEFINE Below == {n - y : y \in S}
  <1>1. Below \subseteq Nat /\ Below # {}
    <2>1. \A y \in S : y \in Int /\ n - y \in Nat
      OBVIOUS
    <2> QED
      BY <2>1
  <1>2. PICK b \in Below : \A c \in Below : b <= c
    BY <1>1, LeastNumber
  <1>3. PICK x \in S : b = n - x
    OBVIOUS
  <1>4. ASSUME NEW y \in S PROVE y <= x
    <2>1. n - y \in Below /\ x \in Int /\ y \in Int
      OBVIOUS
    <2> HIDE DEF Below
    <2> QED
      BY <1>2, <1>3, <2>1
  <1> QED
    BY <1>4

(* k is the place of the last delimiter of a text.                          *)
LastIs(str, k) ==
  /\ k \in 1..Len(str) /\ str[k] = Delim
  /\ \A i \in (k + 1)..Len(str) : str[i] # Delim

(* LastDelim finds it.                                                      *)
LEMMA LastDelimIs ==
  ASSUME NEW str, Len(str) \in Nat, NEW k, LastIs(str, k)
  PROVE  LastDelim(str) = k
  <1> DEFINE S == Delims(str) \cup {0}
  <1>1. S \subseteq Int /\ k \in S /\ k \in Nat
    BY DEF LastIs, Delims
  <1>2. ASSUME NEW i \in S PROVE i <= k
    BY <1>1 DEF LastIs, Delims
  <1> HIDE DEF S
  <1>3. Max(S) = k
    BY <1>1, <1>2, MaxIs
  <1> QED
    BY <1>3 DEF S, LastDelim

(* Where LastDelim points to, there is a delimiter.                         *)
LEMMA LastDelimPoints ==
  ASSUME NEW str, Len(str) \in Nat
  PROVE  LastDelim(str) = 0 \/ LastIs(str, LastDelim(str))
  <1> DEFINE S == Delims(str) \cup {0}
  <1>1. S \subseteq 0..Len(str) /\ S # {} /\ S \subseteq Int
    BY DEF Delims
  <1>2. PICK k \in S : \A i \in S : i <= k
    BY <1>1, GreatestNumber
  <1>3. Max(S) = k
    <2> HIDE DEF S
    <2> QED
      BY <1>1, <1>2, MaxIs
  <1>4. LastDelim(str) = k
    BY <1>3 DEF LastDelim
  <1>5. k # 0 => LastIs(str, k)
    <2> SUFFICES ASSUME k # 0 PROVE LastIs(str, k)
      OBVIOUS
    <2>1. k \in 1..Len(str) /\ str[k] = Delim
      BY DEF Delims
    <2>2. ASSUME NEW i \in (k + 1)..Len(str) PROVE str[i] # Delim
      <3>1. i \in 1..Len(str) /\ ~(i <= k)
        BY <2>1
      <3> QED
        BY <3>1, <1>2 DEF Delims
    <2> QED
      BY <2>1, <2>2 DEF LastIs
  <1> QED
    BY <1>4, <1>5

(* A text is accepted if what is behind its last delimiter is the checksum  *)
(* of what is in front of it.                                               *)
LEMMA AcceptedAt ==
  ASSUME NEW str, Len(str) \in Nat, NEW k, LastIs(str, k)
  PROVE  Accepted(str) <=>
           Checksum(SubSeq(str, 1, k - 1)) = SubSeq(str, k + 1, Len(str))
  <1>1. LastDelim(str) = k /\ k # 0
    BY LastDelimIs DEF LastIs
  <1> QED
    BY <1>1 DEF Accepted, Checkless, SentChecksum

(* The sum that the checksum writes down.                                   *)
Residue(str) == WeighedSum(str) % 999

(* It is a number of up to three digits.                                    *)
LEMMA ResidueTyped ==
  \A str \in Seq(Codes) : Residue(str) \in Nat /\ Residue(str) <= 998
  <1> SUFFICES ASSUME NEW str \in Seq(Codes)
               PROVE  Residue(str) \in Nat /\ Residue(str) <= 998
    OBVIOUS
  <1> DEFINE w == WeighedSum(str)
  <1>1. w \in Int
    BY TextTyped
  <1> HIDE DEF w
  <1>2. w % 999 \in Nat /\ w % 999 <= 998
    BY <1>1, Z3
  <1> QED
    BY <1>2 DEF w, Residue

(* The checksum consists of its decimal digits.                             *)
LEMMA ChecksumTyped ==
  \A str \in Seq(Codes) :
    /\ Checksum(str) = Digits(10, Residue(str))
    /\ Checksum(str) \in Seq(48..57)
    /\ Len(Checksum(str)) \in Nat \ {0}
  <1> SUFFICES ASSUME NEW str \in Seq(Codes)
               PROVE  /\ Checksum(str) = Digits(10, Residue(str))
                      /\ Checksum(str) \in Seq(48..57)
                      /\ Len(Checksum(str)) \in Nat \ {0}
    OBVIOUS
  <1>1. Residue(str) \in Nat
    BY ResidueTyped
  <1>2. Checksum(str) = Digits(10, Residue(str))
    BY DEF Checksum, Residue
  <1>3. DigitCodes(10) = 48..57
    BY DEF DigitCodes
  <1>4. 10 \in {10, 16}
    OBVIOUS
  <1>5. /\ Digits(10, Residue(str)) \in Seq(DigitCodes(10))
        /\ Len(Digits(10, Residue(str))) \in Nat \ {0}
    BY <1>1, <1>4, DigitsTyped
  <1> QED
    BY <1>2, <1>3, <1>5

(* Equal checksums come from equal sums, modulo 999.                        *)
LEMMA ChecksumTellsApart ==
  ASSUME NEW p \in Seq(Codes), NEW q \in Seq(Codes), Checksum(p) = Checksum(q)
  PROVE  WeighedSum(p) % 999 = WeighedSum(q) % 999
  <1>1. /\ Checksum(p) = Digits(10, Residue(p)) /\ Residue(p) \in Nat
        /\ Checksum(q) = Digits(10, Residue(q)) /\ Residue(q) \in Nat
    BY ChecksumTyped, ResidueTyped
  <1>2. Digits(10, Residue(p)) = Digits(10, Residue(q)) /\ 10 \in {10, 16}
    BY <1>1
  <1>3. Residue(p) = Residue(q)
    BY <1>1, <1>2, DigitsTellApart
  <1> QED
    BY <1>3 DEF Residue

(* A change of a code, weighed with up to 26, and a difference of two codes *)
(* are no multiples of 999.                                                 *)
ChangedBy(a, b, e, d) == b - a = e * d
SameRest(a, b) == a % 999 = b % 999

(* So a change by one shows in the rest modulo 999.                         *)
LEMMA WeighedChangeShows ==
  \A a \in Int, b \in Int, e \in 1..26, d \in -94..94 :
    d # 0 /\ ChangedBy(a, b, e, d) => ~SameRest(a, b)
  <1> SUFFICES ASSUME NEW a \in Int, NEW b \in Int, NEW e \in 1..26,
                      NEW d \in -94..94, d # 0, ChangedBy(a, b, e, d)
               PROVE  ~SameRest(a, b)
    OBVIOUS
  <1>0. b - a = e * d
    BY DEF ChangedBy
  <1>1. \/ e = 1 \/ e = 2 \/ e = 3 \/ e = 4 \/ e = 5 \/ e = 6 \/ e = 7
        \/ e = 8 \/ e = 9 \/ e = 10 \/ e = 11 \/ e = 12 \/ e = 13 \/ e = 14
        \/ e = 15 \/ e = 16 \/ e = 17 \/ e = 18 \/ e = 19 \/ e = 20 \/ e = 21
        \/ e = 22 \/ e = 23 \/ e = 24 \/ e = 25 \/ e = 26
    BY Z3
  <1> DEFINE z == (b \div 999) - (a \div 999)
  <1>2. z \in Int /\ (a % 999 = b % 999 => b - a = 999 * z)
    <2> DEFINE u == a \div 999
               v == b \div 999
    <2>1. u \in Int /\ v \in Int /\ v - u \in Int
      BY Z3
    <2>2. a = 999 * u + (a % 999) /\ b = 999 * v + (b % 999)
      BY Z3
    <2>3. a % 999 \in Int /\ b % 999 \in Int
      BY Z3
    <2> HIDE DEF u, v
    <2>4. a % 999 = b % 999 => b - a = 999 * (v - u)
      BY <2>1, <2>2, <2>3
    <2> QED
      BY <2>1, <2>4 DEF u, v
  <1> HIDE DEF z
  <1>3. b - a # 999 * z
    BY <1>0, <1>1, <1>2, SMTT(60)
  <1> QED
    BY <1>2, <1>3 DEF SameRest

----------------------------------------------------------------------------
(* The digits of a log's timestamp, and the place of the last delimiter of  *)
(* its text.                                                                *)
Stamp(l) == Digits(16, l.timestamp)
LastOf(l) == 6 + Len(Stamp(l)) + Len(l.message)

(* A timestamp has between 1 and 11 digits, none of them a delimiter.       *)
LEMMA StampTyped ==
  ASSUME NEW l \in Logs
  PROVE  /\ Stamp(l) \in Seq(Codes)
         /\ Len(Stamp(l)) \in 1..11
         /\ \A i \in 1..Len(Stamp(l)) : Stamp(l)[i] # Delim
  <1>1. l.timestamp \in Nat /\ 16 \in {10, 16}
    BY TextAssumption
  <1>2. Stamp(l) \in Seq(DigitCodes(16)) /\ Len(Stamp(l)) \in Nat \ {0}
    BY <1>1, DigitsTyped DEF Stamp
  <1>3. Len(Stamp(l)) <= 11
    BY TimestampAssumption DEF Stamp
  <1> DEFINE C == DigitCodes(16)
             D == Codes
  <1>4. C \subseteq D /\ \A c \in C : c # Delim
    BY DEF DigitCodes, Codes, Delim
  <1> HIDE DEF C, D
  <1>5. Stamp(l) \in Seq(C)
    BY <1>2 DEF C
  <1>6. Stamp(l) \in Seq(D) /\ \A i \in 1..Len(Stamp(l)) : Stamp(l)[i] \in C
    BY <1>4, <1>5, SeqMonotonic
  <1>7. Len(Stamp(l)) \in 1..11
    <2> DEFINE n == Len(Stamp(l))
    <2>1. n \in Nat /\ n # 0 /\ n <= 11
      BY <1>2, <1>3
    <2> HIDE DEF n
    <2>2. n \in 1..11
      BY <2>1
    <2> QED
      BY <2>2 DEF n
  <1>8. \A i \in 1..Len(Stamp(l)) : Stamp(l)[i] # Delim
    BY <1>4, <1>6
  <1> QED
    BY <1>6, <1>7, <1>8 DEF D

(* c is a and b, one behind the other.                                      *)
Joins(a, b, c) ==
  /\ c \in Seq(Codes)
  /\ Len(a) \in Nat /\ Len(b) \in Nat /\ Len(c) = Len(a) + Len(b)
  /\ \A i \in 1..Len(a) : c[i] = a[i]
  /\ \A i \in 1..Len(b) : c[Len(a) + i] = b[i]

(* The concatenation of two texts joins them.                               *)
LEMMA Joined == \A a, b \in Seq(Codes) : Joins(a, b, a \o b)
  <1> SUFFICES ASSUME NEW a \in Seq(Codes), NEW b \in Seq(Codes)
               PROVE  Joins(a, b, a \o b)
    OBVIOUS
  <1> DEFINE c == a \o b
  <1>1. /\ c \in Seq(Codes) /\ Len(c) = Len(a) + Len(b)
        /\ \A i \in 1..(Len(a) + Len(b)) :
             c[i] = IF i <= Len(a) THEN a[i] ELSE b[i - Len(a)]
    BY ConcatProperties
  <1>2. Len(a) \in Nat /\ Len(b) \in Nat
    OBVIOUS
  <1> HIDE DEF c
  <1>3. ASSUME NEW i \in 1..Len(a) PROVE c[i] = a[i]
    <2>1. i \in 1..(Len(a) + Len(b)) /\ i <= Len(a)
      BY <1>2
    <2> QED
      BY <1>1, <2>1
  <1>4. ASSUME NEW i \in 1..Len(b) PROVE c[Len(a) + i] = b[i]
    <2>1. /\ Len(a) + i \in 1..(Len(a) + Len(b)) /\ ~(Len(a) + i <= Len(a))
          /\ (Len(a) + i) - Len(a) = i
      BY <1>2
    <2> QED
      BY <1>1, <2>1
  <1>5. Joins(a, b, c)
    BY <1>1, <1>2, <1>3, <1>4 DEF Joins
  <1> QED
    BY <1>5 DEF c

(* A text starts with the sections of a log.                                *)
Sections(str, l) ==
  /\ \A i \in 1..3 : str[i] = l.header[i] /\ str[i] # Delim
  /\ str[4] = Delim
  /\ \A i \in 1..Len(Stamp(l)) : str[4 + i] = Stamp(l)[i] /\ str[4 + i] # Delim
  /\ str[5 + Len(Stamp(l))] = Delim
  /\ \A i \in 1..Len(l.message) : str[5 + Len(Stamp(l)) + i] = l.message[i]

(* What is written before the checksum starts with the sections.            *)
LEMMA BodyShape ==
  ASSUME NEW l \in Logs
  PROVE  /\ Body(l) \in Seq(Codes)
         /\ Len(Body(l)) = 5 + Len(Stamp(l)) + Len(l.message)
         /\ Sections(Body(l), l)
  <1> DEFINE d == <<Delim>>
             h == l.header
             s == Stamp(l)
             t == Len(s)
             g == l.message
             c1 == h \o d
             c2 == c1 \o s
             c3 == c2 \o d
             c4 == c3 \o g
  <1>1. /\ h \in Seq(Codes) /\ Len(h) = 3 /\ g \in Seq(Codes) /\ Len(g) \in Nat
        /\ \A i \in 1..3 : h[i] # Delim
    BY TextAssumption DEF IsText
  <1>2. /\ s \in Seq(Codes) /\ t \in Nat /\ \A i \in 1..t : s[i] # Delim
    BY StampTyped
  <1>3. d \in Seq(Codes) /\ Len(d) = 1 /\ d[1] = Delim
    BY DEF Delim, Codes
  <1>4. Body(l) = c4
    BY DEF Body, Stamp
  <1> HIDE DEF h, d, s, t, g
  <1>5. Joins(h, d, c1) /\ c1 \in Seq(Codes)
    BY <1>1, <1>3, Joined DEF Joins
  <1> HIDE DEF c1
  <1>6. Joins(c1, s, c2) /\ c2 \in Seq(Codes)
    BY <1>2, <1>5, Joined DEF Joins
  <1> HIDE DEF c2
  <1>7. Joins(c2, d, c3) /\ c3 \in Seq(Codes)
    BY <1>3, <1>6, Joined DEF Joins
  <1> HIDE DEF c3
  <1>8. Joins(c3, g, c4)
    BY <1>1, <1>7, Joined
  <1>19. c4 \in Seq(Codes)
    BY <1>8 DEF Joins
  <1> HIDE DEF c4
  <1>14. Len(c1) = 4 /\ Len(c2) = 4 + t /\ Len(c3) = 5 + t /\ Len(c4) = (5 + t) + Len(g)
    BY <1>1, <1>2, <1>3, <1>5, <1>6, <1>7, <1>8 DEF Joins, t
  <1>15. /\ \A i \in 1..3 : c1[i] = h[i]
         /\ c1[4] = Delim
    BY <1>1, <1>3, <1>5 DEF Joins
  <1>16. /\ \A i \in 1..4 : c2[i] = c1[i]
         /\ \A i \in 1..t : c2[4 + i] = s[i]
    BY <1>14, <1>6 DEF Joins, t
  <1>17. /\ \A i \in 1..(4 + t) : c3[i] = c2[i]
         /\ c3[5 + t] = Delim
    <2>1. 5 + t = (4 + t) + 1 /\ 1 \in 1..1
      BY <1>2
    <2> QED
      BY <1>3, <1>14, <1>7, <2>1 DEF Joins
  <1>18. /\ \A i \in 1..(5 + t) : c4[i] = c3[i]
         /\ \A i \in 1..Len(g) : c4[(5 + t) + i] = g[i]
    BY <1>14, <1>8 DEF Joins
  <1>9. ASSUME NEW i \in 1..3 PROVE c4[i] = h[i] /\ c4[i] # Delim
    <2>1. i \in 1..4 /\ i \in 1..(4 + t) /\ i \in 1..(5 + t)
      BY <1>2
    <2> QED
      BY <1>1, <1>15, <1>16, <1>17, <1>18, <2>1
  <1>10. c4[4] = Delim
    <2>1. 4 \in 1..4 /\ 4 \in 1..(4 + t) /\ 4 \in 1..(5 + t)
      BY <1>2
    <2> QED
      BY <1>15, <1>16, <1>17, <1>18, <2>1
  <1>11. ASSUME NEW i \in 1..t PROVE c4[4 + i] = s[i] /\ c4[4 + i] # Delim
    <2>1. 4 + i \in 1..(4 + t) /\ 4 + i \in 1..(5 + t)
      BY <1>2
    <2> QED
      BY <1>2, <1>16, <1>17, <1>18, <2>1
  <1>12. c4[5 + t] = Delim
    <2>1. 5 + t \in 1..(5 + t)
      BY <1>2
    <2> QED
      BY <1>17, <1>18, <2>1
  <1>13. Sections(c4, l)
    BY <1>18, <1>9, <1>10, <1>11, <1>12 DEF Sections, h, s, t, g
  <1> QED
    BY <1>4, <1>13, <1>14, <1>19 DEF g, t, s

(* The lengths that a text consists of.                                     *)
LEMMA Lengths ==
  ASSUME NEW l \in Logs
  PROVE  /\ Len(Stamp(l)) \in Nat /\ Len(Stamp(l)) >= 1 /\ Len(Stamp(l)) <= 11
         /\ Len(l.message) \in Nat
         /\ LastOf(l) \in Nat /\ LastOf(l) = 6 + Len(Stamp(l)) + Len(l.message)
         /\ LastOf(l) >= 7 /\ LastOf(l) - 1 = 5 + Len(Stamp(l)) + Len(l.message)
         /\ Len(Body(l)) = LastOf(l) - 1
         /\ Len(Checksum(Body(l))) \in Nat /\ Len(Checksum(Body(l))) >= 1
  <1> DEFINE t == Len(Stamp(l))
             g == Len(l.message)
             c == Len(Checksum(Body(l)))
  <1>1. t \in 1..11
    BY StampTyped
  <1>2. g \in Nat
    BY TextAssumption DEF IsText
  <1>3. Len(Body(l)) = 5 + t + g
    BY BodyShape
  <1>4. c \in Nat \ {0}
    BY BodyShape, ChecksumTyped
  <1>5. LastOf(l) = 6 + t + g
    BY DEF LastOf
  <1> HIDE DEF t, g, c
  <1>6. /\ t \in Nat /\ t >= 1 /\ t <= 11 /\ g \in Nat /\ c \in Nat /\ c >= 1
        /\ LastOf(l) \in Nat /\ Len(Body(l)) = LastOf(l) - 1
        /\ LastOf(l) >= 7 /\ LastOf(l) - 1 = 5 + t + g
    BY <1>1, <1>2, <1>3, <1>4, <1>5
  <1> QED
    BY <1>5, <1>6 DEF t, g, c

(* The text of a log: its sections, the last delimiter, and the checksum of *)
(* what is in front of that.                                                *)
LEMMA ContentShape ==
  ASSUME NEW l \in Logs
  PROVE  /\ Content(l) \in Seq(Codes)
         /\ Len(Content(l)) = LastOf(l) + Len(Checksum(Body(l)))
         /\ Sections(Content(l), l)
         /\ LastIs(Content(l), LastOf(l))
         /\ SubSeq(Content(l), 1, LastOf(l) - 1) = Body(l)
         /\ SubSeq(Content(l), LastOf(l) + 1, Len(Content(l))) = Checksum(Body(l))
  <1> DEFINE d == <<Delim>>
             b == Body(l)
             s == Checksum(b)
             k == LastOf(l)
             c == b \o d
             w == c \o s
             n == Len(s)
  <1>1. Content(l) = w
    BY DEF Content
  <1>2. b \in Seq(Codes) /\ Sections(b, l)
    BY BodyShape
  <1>3. d \in Seq(Codes) /\ Len(d) = 1 /\ d[1] = Delim
    BY DEF Delim, Codes
  <1>4. k \in Nat /\ k >= 7 /\ n \in Nat /\ n >= 1 /\ Len(b) = k - 1
    BY Lengths DEF k, n, b, s
  <1>5. s \in Seq(Codes) /\ \A i \in 1..n : s[i] # Delim
    <2>1. s \in Seq(48..57)
      BY <1>2, ChecksumTyped
    <2>2. 48..57 \subseteq Codes
      BY DEF Codes
    <2>3. \A i \in 1..n : s[i] \in 48..57
      BY <2>1
    <2>4. \A i \in 1..n : s[i] # Delim
      BY <2>3 DEF Delim
    <2> DEFINE D == Codes
    <2> HIDE DEF D, s
    <2>5. s \in Seq(D)
      BY <2>1, <2>2, SeqMonotonic DEF D
    <2> QED
      BY <2>4, <2>5 DEF D
  <1> HIDE DEF d, b, s, k
  <1>6. Joins(b, d, c) /\ c \in Seq(Codes)
    BY <1>2, <1>3, Joined DEF Joins
  <1> HIDE DEF c
  <1>7. Joins(c, s, w) /\ w \in Seq(Codes)
    BY <1>5, <1>6, Joined DEF Joins
  <1> HIDE DEF w
  <1>8. Len(c) = k /\ Len(w) = k + n
    BY <1>3, <1>4, <1>6, <1>7 DEF Joins
  <1>9. /\ \A i \in 1..(k - 1) : c[i] = b[i]
        /\ c[k] = Delim
    <2>1. k = (k - 1) + 1 /\ 1 \in 1..1
      BY <1>4
    <2> QED
      BY <1>3, <1>4, <1>6, <2>1 DEF Joins
  <1>10. /\ \A i \in 1..k : w[i] = c[i]
         /\ \A i \in 1..n : w[k + i] = s[i]
    BY <1>8, <1>7 DEF Joins
  <1>11. /\ \A i \in 1..(k - 1) : w[i] = b[i]
         /\ w[k] = Delim
    BY <1>4, <1>9, <1>10
  <1>12. LastIs(w, k)
    <2>1. k \in 1..Len(w)
      BY <1>4, <1>8
    <2>2. ASSUME NEW i \in (k + 1)..Len(w) PROVE w[i] # Delim
      <3>1. i - k \in 1..n /\ k + (i - k) = i
        BY <1>4, <1>8
      <3> QED
        BY <1>5, <1>10, <3>1
    <2> QED
      BY <1>11, <2>1, <2>2 DEF LastIs
  <1>13. SubSeq(w, 1, k - 1) = b
    <2>1. /\ SubSeq(w, 1, k - 1) \in Seq(Codes)
          /\ Len(SubSeq(w, 1, k - 1)) = k - 1
          /\ \A h \in 1..(k - 1) : SubSeq(w, 1, k - 1)[h] = w[1 + h - 1]
      BY <1>4, <1>7, <1>8, PieceTyped
    <2>2. \A h \in 1..(k - 1) : SubSeq(w, 1, k - 1)[h] = b[h]
      <3>1. \A h \in 1..(k - 1) : 1 + h - 1 = h
        BY <1>4
      <3> QED
        BY <1>11, <2>1, <3>1
    <2> QED
      BY <1>2, <1>4, <2>1, <2>2, SeqEqual
  <1>14. SubSeq(w, k + 1, Len(w)) = s
    <2>1. /\ k + 1 \in 1..(Len(w) + 1) /\ k + n + 1 \in Nat /\ k + 1 <= k + n + 1
          /\ k + n + 1 <= Len(w) + 1 /\ (k + n + 1) - 1 = k + n
          /\ (k + n + 1) - (k + 1) = n
      BY <1>4, <1>8
    <2>2. /\ SubSeq(w, k + 1, (k + n + 1) - 1) \in Seq(Codes)
          /\ Len(SubSeq(w, k + 1, (k + n + 1) - 1)) = (k + n + 1) - (k + 1)
          /\ \A h \in 1..((k + n + 1) - (k + 1)) :
               SubSeq(w, k + 1, (k + n + 1) - 1)[h] = w[k + 1 + h - 1]
      BY <1>7, <2>1, PieceTyped
    <2>3. \A h \in 1..n : SubSeq(w, k + 1, k + n)[h] = s[h]
      <3>1. \A h \in 1..n : k + 1 + h - 1 = k + h
        BY <1>4
      <3> QED
        BY <1>10, <2>1, <2>2, <3>1
    <2>4. /\ SubSeq(w, k + 1, k + n) \in Seq(Codes)
          /\ Len(SubSeq(w, k + 1, k + n)) = n
      BY <2>1, <2>2
    <2>5. SubSeq(w, k + 1, k + n) = s
      BY <1>5, <2>3, <2>4, SeqEqual
    <2> QED
      BY <1>8, <2>5
  <1>15. Sections(w, l)
    <2> DEFINE t == Len(Stamp(l))
               g == Len(l.message)
    <2>1. t \in Nat /\ g \in Nat /\ k - 1 = 5 + t + g
      BY Lengths DEF k
    <2>2. \A i \in 1..3 : w[i] = b[i]
      BY <1>4, <1>11
    <2>3. w[4] = b[4]
      BY <1>4, <1>11
    <2> HIDE DEF t, g
    <2>4. \A i \in 1..t : w[4 + i] = b[4 + i]
      <3>1. \A i \in 1..t : 4 + i \in 1..(k - 1)
        BY <2>1
      <3> QED
        BY <1>11, <3>1
    <2>5. w[5 + t] = b[5 + t]
      <3>1. 5 + t \in 1..(k - 1)
        BY <2>1
      <3> QED
        BY <1>11, <3>1
    <2>6. \A i \in 1..g : w[5 + t + i] = b[5 + t + i]
      <3>1. \A i \in 1..g : 5 + t + i \in 1..(k - 1)
        BY <2>1
      <3> QED
        BY <1>11, <3>1
    <2> QED
      BY <1>2, <2>2, <2>3, <2>4, <2>5, <2>6 DEF Sections, t, g
  <1> QED
    BY <1>1, <1>7, <1>8, <1>12, <1>13, <1>14, <1>15 DEF n, s, k, b

----------------------------------------------------------------------------
(* What the driver compares in a text whose last delimiter is where that of *)
(* the packet's own text is: its front and its tail.                        *)
Ahead(str, l) == SubSeq(str, 1, LastOf(l) - 1)
Behind(str, l) == SubSeq(str, LastOf(l) + 1, Len(str))

(* The text of a packet as it was sent, or changed.                         *)
Variant(str, l) ==
  /\ l \in Logs
  /\ str \in Seq(Codes)
  /\ Len(str) = Len(Content(l))
  /\ LastIs(str, LastOf(l))

(* The front and the tail are texts of their own.                           *)
LEMMA VariantParts ==
  ASSUME NEW l, NEW str, Variant(str, l)
  PROVE  /\ Ahead(str, l) \in Seq(Codes)
         /\ Len(Ahead(str, l)) = LastOf(l) - 1
         /\ \A h \in 1..(LastOf(l) - 1) : Ahead(str, l)[h] = str[h]
         /\ Behind(str, l) \in Seq(Codes)
         /\ Len(Behind(str, l)) = Len(str) - LastOf(l)
         /\ \A h \in 1..(Len(str) - LastOf(l)) :
              Behind(str, l)[h] = str[LastOf(l) + h]
         /\ Accepted(str) <=> Checksum(Ahead(str, l)) = Behind(str, l)
  <1> DEFINE k == LastOf(l)
             n == Len(str)
  <1>1. str \in Seq(Codes) /\ n \in Nat /\ k \in 1..n /\ LastIs(str, k)
    BY DEF Variant, LastIs
  <1> HIDE DEF k
  <1>2. /\ SubSeq(str, 1, k - 1) \in Seq(Codes)
        /\ Len(SubSeq(str, 1, k - 1)) = k - 1
        /\ \A h \in 1..(k - 1) : SubSeq(str, 1, k - 1)[h] = str[1 + h - 1]
    <2>1. 1 \in 1..(n + 1) /\ k \in Nat /\ 1 <= k /\ k <= n + 1
      BY <1>1
    <2> QED
      BY <1>1, <2>1, PieceTyped
  <1>3. \A h \in 1..(k - 1) : SubSeq(str, 1, k - 1)[h] = str[h]
    <2>1. \A h \in 1..(k - 1) : 1 + h - 1 = h
      BY <1>1
    <2> QED
      BY <1>2, <2>1
  <1>4. /\ SubSeq(str, k + 1, n) \in Seq(Codes)
        /\ Len(SubSeq(str, k + 1, n)) = n - k
        /\ \A h \in 1..(n - k) : SubSeq(str, k + 1, n)[h] = str[k + h]
    <2> DEFINE j == n + 1
    <2>1. /\ k + 1 \in 1..(n + 1) /\ j \in Nat /\ k + 1 <= j /\ j <= n + 1
          /\ j - 1 = n /\ j - (k + 1) = n - k
          /\ \A h \in 1..(n - k) : k + 1 + h - 1 = k + h
      BY <1>1
    <2>2. /\ SubSeq(str, k + 1, j - 1) \in Seq(Codes)
          /\ Len(SubSeq(str, k + 1, j - 1)) = j - (k + 1)
          /\ \A h \in 1..(j - (k + 1)) :
               SubSeq(str, k + 1, j - 1)[h] = str[k + 1 + h - 1]
      <3> HIDE DEF j
      <3> QED
        BY <1>1, <2>1, PieceTyped
    <2> HIDE DEF n, j
    <2> QED
      BY <2>1, <2>2
  <1>5. Accepted(str) <=> Checksum(SubSeq(str, 1, k - 1)) = SubSeq(str, k + 1, n)
    BY <1>1, AcceptedAt
  <1> QED
    BY <1>2, <1>3, <1>4, <1>5 DEF Ahead, Behind, k, n

(* The text as it was sent is a variant of itself, and it is accepted.      *)
LEMMA UndamagedAccepted ==
  ASSUME NEW l \in Logs
  PROVE  /\ Variant(Content(l), l)
         /\ Ahead(Content(l), l) = Body(l)
         /\ Behind(Content(l), l) = Checksum(Body(l))
         /\ Accepted(Content(l))
  <1>1. Variant(Content(l), l)
    BY ContentShape DEF Variant
  <1>2. /\ Ahead(Content(l), l) = Body(l)
        /\ Behind(Content(l), l) = Checksum(Body(l))
    BY ContentShape DEF Ahead, Behind
  <1> QED
    BY <1>1, <1>2, VariantParts

(* An accepted text whose tail has not changed has a front of the same      *)
(* weight; one whose front has not changed has not changed at all.          *)
LEMMA SameTail ==
  ASSUME NEW l, NEW str, Variant(str, l), Accepted(str),
         \A h \in LastOf(l) + 1 .. Len(str) : str[h] = Content(l)[h]
  PROVE  WeighedSum(Ahead(str, l)) % 999 = WeighedSum(Ahead(Content(l), l)) % 999
  <1> DEFINE k == LastOf(l)
             n == Len(str)
             w == Content(l)
  <1>1. l \in Logs /\ n \in Nat /\ k \in 1..n /\ Len(w) = n
    BY DEF Variant, LastIs
  <1>2. Variant(w, l) /\ Accepted(w)
    BY <1>1, UndamagedAccepted
  <1>3. /\ Behind(str, l) \in Seq(Codes) /\ Len(Behind(str, l)) = n - k
        /\ \A h \in 1..(n - k) : Behind(str, l)[h] = str[k + h]
        /\ Checksum(Ahead(str, l)) = Behind(str, l)
        /\ Ahead(str, l) \in Seq(Codes)
    BY VariantParts
  <1>4. /\ Behind(w, l) \in Seq(Codes) /\ Len(Behind(w, l)) = n - k
        /\ \A h \in 1..(n - k) : Behind(w, l)[h] = w[k + h]
        /\ Checksum(Ahead(w, l)) = Behind(w, l)
        /\ Ahead(w, l) \in Seq(Codes)
    <2> HIDE DEF w
    <2> QED
      BY <1>1, <1>2, VariantParts
  <1>5. \A h \in 1..(n - k) : str[k + h] = w[k + h]
    <2>1. \A h \in 1..(n - k) : k + h \in k + 1 .. n
      BY <1>1
    <2> QED
      BY <2>1
  <1> HIDE DEF k, n, w
  <1>6. Behind(str, l) = Behind(w, l)
    <2>1. \A h \in 1..(n - k) : Behind(str, l)[h] = Behind(w, l)[h]
      BY <1>3, <1>4, <1>5
    <2> QED
      BY <1>1, <1>3, <1>4, <2>1, SeqEqual
  <1>7. Checksum(Ahead(str, l)) = Checksum(Ahead(w, l))
    BY <1>3, <1>4, <1>6
  <1>8. WeighedSum(Ahead(str, l)) % 999 = WeighedSum(Ahead(w, l)) % 999
    BY <1>3, <1>4, <1>7, ChecksumTellsApart
  <1> QED
    BY <1>8 DEF w

(* The other half of the comparison: nothing in front of the checksum has   *)
(* changed, so the checksum cannot have changed either.                     *)
LEMMA SameFront ==
  ASSUME NEW l, NEW str, Variant(str, l), Accepted(str),
         \A h \in 1..(LastOf(l) - 1) : str[h] = Content(l)[h]
  PROVE  \A h \in 1..Len(str) : str[h] = Content(l)[h]
  <1> DEFINE k == LastOf(l)
             n == Len(str)
             w == Content(l)
  <1>1. l \in Logs /\ n \in Nat /\ k \in 1..n /\ Len(w) = n
        /\ str[k] = Delim
    BY DEF Variant, LastIs
  <1>2. Variant(w, l) /\ Accepted(w)
    BY <1>1, UndamagedAccepted
  <1>3. /\ Len(Ahead(str, l)) = k - 1
        /\ \A h \in 1..(k - 1) : Ahead(str, l)[h] = str[h]
        /\ \A h \in 1..(n - k) : Behind(str, l)[h] = str[k + h]
        /\ Checksum(Ahead(str, l)) = Behind(str, l)
        /\ Ahead(str, l) \in Seq(Codes)
    BY VariantParts
  <1>4. /\ Len(Ahead(w, l)) = k - 1
        /\ \A h \in 1..(k - 1) : Ahead(w, l)[h] = w[h]
        /\ \A h \in 1..(n - k) : Behind(w, l)[h] = w[k + h]
        /\ Checksum(Ahead(w, l)) = Behind(w, l)
        /\ Ahead(w, l) \in Seq(Codes)
    <2> HIDE DEF w
    <2> QED
      BY <1>1, <1>2, VariantParts
  <1>5. w[k] = Delim
    BY <1>2 DEF Variant, LastIs
  <1>6. Ahead(str, l) = Ahead(w, l)
    <2>1. \A h \in 1..(k - 1) : Ahead(str, l)[h] = Ahead(w, l)[h]
      BY <1>3, <1>4
    <2> HIDE DEF k, n, w
    <2> QED
      BY <1>1, <1>3, <1>4, <2>1, SeqEqual
  <1>7. Behind(str, l) = Behind(w, l)
    BY <1>3, <1>4, <1>6
  <1>8. \A h \in 1..(n - k) : str[k + h] = w[k + h]
    BY <1>3, <1>4, <1>7
  <1>9. ASSUME NEW h \in 1..n PROVE str[h] = w[h]
    <2>1. CASE h \in 1..(k - 1)
      BY <2>1
    <2>2. CASE h = k
      BY <2>2, <1>1, <1>5
    <2>3. CASE h \in k + 1 .. n
      <3>1. h - k \in 1..(n - k) /\ k + (h - k) = h
        BY <1>1, <2>3
      <3> HIDE DEF k, n, w
      <3> QED
        BY <1>8, <3>1
    <2>4. h \in 1..(k - 1) \/ h = k \/ h \in k + 1 .. n
      BY <1>1
    <2> QED
      BY <2>1, <2>2, <2>3, <2>4
  <1> QED
    BY <1>9

----------------------------------------------------------------------------
(* One character of a text is another one, or two neighbours have changed   *)
(* places.                                                                  *)
SubstitutedAt(old, new, i) ==
  /\ Len(new) = Len(old) /\ i \in 1..Len(old)
  /\ new[i] # old[i]
  /\ \A h \in 1..Len(old) : h # i => new[h] = old[h]

SwappedAt(old, new, i) ==
  /\ Len(new) = Len(old) /\ i \in 1..(Len(old) - 1)
  /\ new[i] # old[i] /\ new[i] = old[i + 1] /\ new[i + 1] = old[i]
  /\ \A h \in 1..Len(old) : h # i /\ h # i + 1 => new[h] = old[h]

(* Two codes of a text differ by 94 at most.                                *)
LEMMA CodesDiffer ==
  ASSUME NEW a \in Codes, NEW b \in Codes
  PROVE  a - b \in -94..94 /\ a \in Int /\ b \in Int
  BY DEF Codes

(* A substituted character in front of the last delimiter and behind it is  *)
(* noticed, if its weight is not 0 and not 27 or more.                      *)
LEMMA SubstitutionNoticed ==
  ASSUME NEW l, NEW str, Variant(str, l), Accepted(str),
         NEW i, SubstitutedAt(Content(l), str, i)
  PROVE  i = 1 \/ i > 27
  <1> DEFINE k == LastOf(l)
             w == Content(l)
             p == Ahead(w, l)
             q == Ahead(str, l)
  <1>1. /\ l \in Logs /\ Len(str) \in Nat /\ k \in 1..Len(str)
        /\ Len(w) = Len(str) /\ str \in Seq(Codes) /\ str[k] = Delim
    BY DEF Variant, LastIs
  <1>2. Variant(w, l)
    BY <1>1, UndamagedAccepted
  <1>3. /\ i \in 1..Len(str) /\ str[i] # w[i]
        /\ \A h \in 1..Len(str) : h # i => str[h] = w[h]
    BY <1>1 DEF SubstitutedAt
  <1>4. w[k] = Delim /\ w \in Seq(Codes)
    BY <1>2 DEF Variant, LastIs
  <1>5. i # k
    BY <1>1, <1>3, <1>4
  <1>6. ~(i > k)
    <2> SUFFICES ASSUME i > k PROVE FALSE
      OBVIOUS
    <2>1. \A h \in 1..(k - 1) : str[h] = w[h]
      BY <1>1, <1>3
    <2>2. \A h \in 1..Len(str) : str[h] = w[h]
      BY <2>1, SameFront
    <2> QED
      BY <1>3, <2>2
  <1>7. i \in 1..(k - 1)
    BY <1>1, <1>3, <1>5, <1>6
  <1>8. WeighedSum(q) % 999 = WeighedSum(p) % 999
    <2>1. \A h \in k + 1 .. Len(str) : str[h] = w[h]
      BY <1>1, <1>3, <1>7
    <2> QED
      BY <2>1, SameTail
  <1>9. /\ p \in Seq(Codes) /\ Len(p) = k - 1
        /\ \A h \in 1..(k - 1) : p[h] = w[h]
    <2> HIDE DEF w
    <2> QED
      BY <1>2, VariantParts
  <1>10. /\ q \in Seq(Codes) /\ Len(q) = k - 1
         /\ \A h \in 1..(k - 1) : q[h] = str[h]
    BY VariantParts
  <1> HIDE DEF p, q, k, w
  <1>11. SumsOf(p) /\ SumsOf(q) /\ WeighedSum(p) \in Int /\ WeighedSum(q) \in Int
    BY <1>9, <1>10, TextTyped
  <1>12. WeighedSum(q) - WeighedSum(p) = (i - 1) * (q[i] - p[i])
    <2>1. \A h \in 1..(k - 1) : h \in 1..Len(str)
      BY <1>1
    <2>2. \A h \in 1..(k - 1) : h # i => p[h] = q[h]
      BY <1>3, <1>9, <1>10, <2>1
    <2>3. /\ Len(p) = Len(q) /\ i \in 1..Len(p)
          /\ \A h \in 1..Len(p) : h # i => p[h] = q[h]
      BY <1>7, <1>9, <1>10, <2>2
    <2> QED
      BY <1>11, <2>3, SumOfSubstituted
  <1> DEFINE d == q[i] - p[i]
             e == i - 1
  <1>13. d \in -94..94 /\ d # 0
    <2>1. q[i] # p[i] /\ q[i] \in Codes /\ p[i] \in Codes
      BY <1>1, <1>3, <1>7, <1>9, <1>10
    <2>2. q[i] - p[i] \in -94..94 /\ q[i] \in Int /\ p[i] \in Int
      BY <2>1, CodesDiffer
    <2> QED
      BY <2>1, <2>2
  <1>14. ~(e \in 1..26)
    <2> HIDE DEF d, e
    <2> SUFFICES ASSUME e \in 1..26 PROVE FALSE
      OBVIOUS
    <2>1. WeighedSum(q) - WeighedSum(p) = e * d
      BY <1>12 DEF d, e
    <2> DEFINE a == WeighedSum(p)
               b == WeighedSum(q)
    <2>2. a \in Int /\ b \in Int /\ b - a = e * d /\ b % 999 = a % 999
      BY <1>8, <1>11, <2>1
    <2> HIDE DEF a, b
    <2>3. a \in Int /\ b \in Int /\ ChangedBy(a, b, e, d) /\ SameRest(a, b)
      BY <2>2 DEF ChangedBy, SameRest
    <2> QED
      BY <1>13, <2>3, WeighedChangeShows
  <1> QED
    BY <1>1, <1>7, <1>14 DEF e

(* An exchange of neighbours that leaves the last delimiter where it is, is *)
(* noticed.                                                                 *)
LEMMA SwapNoticed ==
  ASSUME NEW l, NEW str, Variant(str, l),
         NEW i, SwappedAt(Content(l), str, i)
  PROVE  ~Accepted(str)
  <1> SUFFICES ASSUME Accepted(str) PROVE FALSE
    OBVIOUS
  <1> DEFINE k == LastOf(l)
             w == Content(l)
             p == Ahead(w, l)
             q == Ahead(str, l)
  <1>1. /\ l \in Logs /\ Len(str) \in Nat /\ k \in 1..Len(str)
        /\ Len(w) = Len(str) /\ str \in Seq(Codes) /\ str[k] = Delim
    BY DEF Variant, LastIs
  <1>2. Variant(w, l)
    BY <1>1, UndamagedAccepted
  <1>3. /\ i \in 1..(Len(str) - 1) /\ str[i] # w[i] /\ str[i] = w[i + 1]
        /\ str[i + 1] = w[i]
        /\ \A h \in 1..Len(str) : h # i /\ h # i + 1 => str[h] = w[h]
    BY <1>1 DEF SwappedAt
  <1>4. w[k] = Delim /\ w \in Seq(Codes)
    BY <1>2 DEF Variant, LastIs
  <1>5. i # k /\ i + 1 # k
    BY <1>1, <1>3, <1>4
  <1>6. ~(i > k)
    <2> SUFFICES ASSUME i > k PROVE FALSE
      OBVIOUS
    <2>1. \A h \in 1..(k - 1) : str[h] = w[h]
      BY <1>1, <1>3
    <2>2. \A h \in 1..Len(str) : str[h] = w[h]
      BY <2>1, SameFront
    <2>3. i \in 1..Len(str)
      BY <1>1, <1>3
    <2> QED
      BY <1>3, <2>2, <2>3
  <1>7. i \in 1..(k - 2)
    BY <1>1, <1>3, <1>5, <1>6
  <1>8. WeighedSum(q) % 999 = WeighedSum(p) % 999
    <2>1. \A h \in k + 1 .. Len(str) : str[h] = w[h]
      BY <1>1, <1>3, <1>7
    <2> QED
      BY <2>1, SameTail
  <1>9. /\ p \in Seq(Codes) /\ Len(p) = k - 1
        /\ \A h \in 1..(k - 1) : p[h] = w[h]
    <2> HIDE DEF w
    <2> QED
      BY <1>2, VariantParts
  <1>10. /\ q \in Seq(Codes) /\ Len(q) = k - 1
         /\ \A h \in 1..(k - 1) : q[h] = str[h]
    BY VariantParts
  <1> HIDE DEF p, q, k, w
  <1>11. SumsOf(p) /\ SumsOf(q) /\ WeighedSum(p) \in Int /\ WeighedSum(q) \in Int
    BY <1>9, <1>10, TextTyped
  <1> DEFINE j == i + 1
             d == p[i] - p[j]
  <1>12. i \in 1..(k - 1) /\ j \in 1..(k - 1) /\ i \in 1..Len(str) /\ j \in 1..Len(str)
         /\ i \in 1..(Len(p) - 1) /\ k \in Int
    BY <1>1, <1>7, <1>9
  <1>13. q[i] = p[j] /\ q[j] = p[i] /\ p[i] # p[j] /\ p[i] \in Codes /\ p[j] \in Codes
    BY <1>3, <1>9, <1>10, <1>12
  <1>14. \A h \in 1..(k - 1) : h # i /\ h # j => p[h] = q[h]
    <2>1. \A h \in 1..(k - 1) : h \in 1..Len(str)
      BY <1>1
    <2> QED
      BY <1>3, <1>9, <1>10, <2>1
  <1>15. WeighedSum(q) - WeighedSum(p) = 1 * d
    <2>1. WeighedSum(q) - WeighedSum(p) = p[i] - p[i + 1]
      BY <1>9, <1>10, <1>11, <1>12, <1>13, <1>14, SumOfSwapped
    <2>2. p[i] \in Int /\ p[j] \in Int
      BY <1>13, CodesDiffer
    <2> QED
      BY <2>1, <2>2
  <1>16. d \in -94..94 /\ d # 0
    <2>1. p[i] - p[j] \in -94..94 /\ p[i] \in Int /\ p[j] \in Int
      BY <1>13, CodesDiffer
    <2> QED
      BY <1>13, <2>1
  <1> HIDE DEF d
  <1>17. 1 \in 1..26
    OBVIOUS
  <1> DEFINE a == WeighedSum(p)
             b == WeighedSum(q)
  <1>18. a \in Int /\ b \in Int /\ b - a = 1 * d /\ b % 999 = a % 999
    BY <1>8, <1>11, <1>15
  <1> HIDE DEF a, b
  <1>19. a \in Int /\ b \in Int /\ ChangedBy(a, b, 1, d) /\ SameRest(a, b)
    BY <1>18 DEF ChangedBy, SameRest
  <1> QED
    BY <1>16, <1>17, <1>19, WeighedChangeShows

----------------------------------------------------------------------------
(* The places of the delimiters that from_string relies on: the first is    *)
(* the fourth character, and two more follow.                               *)
Headed(str) ==
  /\ str \in Seq(Codes)
  /\ \A h \in 1..3 : str[h] # Delim
  /\ 4 \in Delims(str)
  /\ \E b, c \in Delims(str) : 4 < b /\ b < c

(* Then a text that is accepted is taken apart into three sections.         *)
LEMMA HeaderHolds ==
  ASSUME NEW str, Headed(str)
  PROVE  OutcomeOf(str) = IF Accepted(str) THEN "parsed" ELSE "rejected"
  <1>1. /\ str \in Seq(Codes) /\ Len(str) \in Nat
        /\ \A h \in 1..3 : str[h] # Delim
        /\ 4 \in 1..Len(str) /\ str[4] = Delim
    BY DEF Headed, Delims
  <1>2. PICK b \in Delims(str), c \in Delims(str) : 4 < b /\ b < c
    BY DEF Headed
  <1>3. /\ b \in 5..Len(str) /\ c \in 6..Len(str) /\ b < c
        /\ str[b] = Delim /\ str[c] = Delim
    BY <1>1, <1>2 DEF Delims
  <1>4. NextIs(str, 1, 4) /\ 4 <= Len(str)
    BY <1>1 DEF NextIs
  <1> DEFINE x == NextDelim(str, 5)
             y == NextDelim(str, x + 1)
  <1>5. NextIs(str, 5, x)
    <2>1. 5 \in 1..(Len(str) + 1)
      BY <1>1
    <2> QED
      BY <1>1, <2>1, NextExists
  <1> HIDE DEF x
  <1>6. x \in Nat /\ 5 <= x /\ x <= b
    BY <1>1, <1>3, <1>5 DEF NextIs
  <1>7. NextIs(str, x + 1, y)
    <2>1. x + 1 \in 1..(Len(str) + 1)
      BY <1>1, <1>3, <1>6
    <2> QED
      BY <1>1, <2>1, NextExists
  <1> HIDE DEF y
  <1>8. y \in Nat /\ y <= c
    BY <1>1, <1>3, <1>6, <1>7 DEF NextIs
  <1>9. 4 \in Nat /\ 4 + 1 = 5 /\ x <= Len(str) /\ y <= Len(str)
    BY <1>1, <1>3, <1>6, <1>8
  <1>10. Len(Split(str)) \in Nat /\ Len(Split(str)) >= 3
    BY <1>1, <1>4, <1>5, <1>6, <1>7, <1>8, <1>9, SplitThree
  <1>11. Len(Split(str)[1]) = 3
    <2>1. Len(Split(str)[1]) = 4 - 1
      BY <1>1, <1>4, SplitFirst
    <2> QED
      BY <2>1
  <1>12. Split(str) # <<>>
    <2>1. Len(<<>>) = 0
      OBVIOUS
    <2> HIDE DEF x, y
    <2> QED
      BY <1>10, <2>1
  <1>13. ~(Len(Split(str)) \in 1..2)
    <2> DEFINE n == Len(Split(str))
    <2>1. n \in Nat /\ n >= 3
      BY <1>10
    <2> HIDE DEF n
    <2>2. ~(n \in 1..2)
      BY <2>1
    <2> QED
      BY <2>2 DEF n
  <1> QED
    BY <1>11, <1>12, <1>13 DEF OutcomeOf

(* What the sections of a packet make of its text, and of every variant     *)
(* that has them.                                                           *)
LEMMA SectionsHead ==
  ASSUME NEW l, NEW str, Variant(str, l), Sections(str, l)
  PROVE  /\ Headed(str)
         /\ NextIs(str, 1, 4) /\ NextIs(str, 5, 5 + Len(Stamp(l)))
         /\ LastOf(l) \in Delims(str)
  <1> DEFINE k == LastOf(l)
             t == Len(Stamp(l))
  <1>1. /\ str \in Seq(Codes) /\ k \in 1..Len(str) /\ str[k] = Delim
        /\ Len(str) \in Nat /\ l \in Logs
    BY DEF Variant, LastIs
  <1>2. /\ t \in Nat /\ t >= 1 /\ k > 5 + t /\ k \in Int
    <2> DEFINE g == Len(l.message)
    <2>1. t \in Nat /\ t >= 1 /\ g \in Nat /\ k = 6 + t + g
      BY <1>1, Lengths
    <2> HIDE DEF t, g, k
    <2> QED
      BY <2>1
  <1>3. /\ \A h \in 1..3 : str[h] # Delim
        /\ str[4] = Delim /\ str[5 + t] = Delim
        /\ \A h \in 1..t : str[4 + h] # Delim
    BY DEF Sections
  <1> HIDE DEF k, t
  <1>4. /\ 4 \in Delims(str) /\ 5 + t \in Delims(str) /\ k \in Delims(str)
    BY <1>1, <1>2, <1>3 DEF Delims
  <1>5. Headed(str)
    <2>1. 4 < 5 + t /\ 5 + t < k
      BY <1>2
    <2> QED
      BY <1>1, <1>3, <1>4, <2>1 DEF Headed
  <1>6. NextIs(str, 1, 4)
    BY <1>1, <1>2, <1>3 DEF NextIs
  <1>7. NextIs(str, 5, 5 + t)
    <2>1. 5 + t \in 5..(Len(str) + 1)
      BY <1>1, <1>2
    <2>2. ASSUME NEW h \in 5..((5 + t) - 1) PROVE str[h] # Delim
      <3>1. h - 4 \in 1..t /\ 4 + (h - 4) = h
        BY <1>2
      <3> QED
        BY <1>3, <3>1
    <2> QED
      BY <1>3, <2>1, <2>2 DEF NextIs
  <1> QED
    BY <1>4, <1>5, <1>6, <1>7 DEF k, t

(* A packet's own text comes back in three sections: its header, the digits *)
(* of its timestamp, and its message up to the first delimiter.             *)
LEMMA UndamagedParts ==
  ASSUME NEW l \in Logs
  PROVE  /\ OutcomeOf(Content(l)) = "parsed"
         /\ Split(Content(l))[1] = l.header
         /\ Split(Content(l))[2] = Stamp(l)
         /\ Split(Content(l))[3] = Split(l.message \o <<Delim>>)[1]
  <1> DEFINE w == Content(l)
             t == Len(Stamp(l))
             g == Len(l.message)
             k == LastOf(l)
             b == 5 + t
  <1>1. Variant(w, l) /\ Accepted(w) /\ Sections(w, l)
    BY UndamagedAccepted, ContentShape
  <1>2. /\ w \in Seq(Codes) /\ Len(w) \in Nat /\ k \in 1..Len(w)
        /\ w[k] = Delim
    BY <1>1 DEF Variant, LastIs
  <1>3. t \in Nat /\ t >= 1 /\ g \in Nat /\ k = 6 + t + g
    BY Lengths
  <1>4. Headed(w) /\ NextIs(w, 1, 4) /\ NextIs(w, 5, b)
    <2> HIDE DEF w
    <2> QED
      BY <1>1, SectionsHead
  <1>5. /\ \A i \in 1..3 : w[i] = l.header[i]
        /\ \A i \in 1..t : w[4 + i] = Stamp(l)[i]
        /\ w[4] = Delim /\ w[5 + t] = Delim
        /\ \A i \in 1..g : w[b + i] = l.message[i]
    BY <1>1 DEF Sections
  <1>6. /\ l.header \in Seq(Codes) /\ Len(l.header) = 3
        /\ l.message \in Seq(Codes) /\ Stamp(l) \in Seq(Codes)
    BY TextAssumption, StampTyped DEF IsText
  <1> HIDE DEF w, t, g, k
  <1>7. OutcomeOf(w) = "parsed"
    BY <1>1, <1>4, HeaderHolds
  <1> DEFINE m == l.message \o <<Delim>>
             a == NextDelim(m, 1)
             c == b + a
  <1>8. /\ m \in Seq(Codes) /\ Len(m) = g + 1
        /\ \A i \in 1..g : m[i] = l.message[i]
        /\ m[g + 1] = Delim
    <2>1. <<Delim>> \in Seq(Codes) /\ Len(<<Delim>>) = 1 /\ <<Delim>>[1] = Delim
      BY DEF Delim, Codes
    <2>2. Joins(l.message, <<Delim>>, m)
      BY <1>6, <2>1, Joined
    <2>3. 1 \in 1..1
      OBVIOUS
    <2> QED
      BY <2>1, <2>2, <2>3 DEF Joins, g
  <1> HIDE DEF m
  <1>9. NextIs(m, 1, a)
    <2>1. Len(m) \in Nat /\ 1 \in 1..(Len(m) + 1)
      BY <1>3, <1>8
    <2> QED
      BY <2>1, NextExists
  <1> HIDE DEF a
  <1>10. /\ a \in 1..(g + 1) /\ \A h \in 1..(a - 1) : m[h] # Delim
         /\ m[a] = Delim
    <2>1. /\ a \in 1..((g + 1) + 1) /\ \A h \in 1..(a - 1) : m[h] # Delim
          /\ a <= g + 1 => m[a] = Delim
      BY <1>8, <1>9 DEF NextIs
    <2>2. a # g + 2
      <3> SUFFICES ASSUME a = g + 2 PROVE FALSE
        OBVIOUS
      <3>1. g + 1 \in 1..(a - 1)
        BY <1>3
      <3> QED
        BY <1>8, <2>1, <3>1
    <2> QED
      BY <1>3, <2>1, <2>2
  <1>11. NextIs(w, b + 1, c) /\ c <= Len(w) /\ c \in Nat
    <2>1. c \in b + 1 .. k /\ k <= Len(w) /\ b \in Nat /\ k = b + (g + 1)
      BY <1>2, <1>3, <1>10
    <2>2. ASSUME NEW h \in b + 1 .. c - 1 PROVE w[h] # Delim
      <3>1. h - b \in 1..(a - 1) /\ b + (h - b) = h /\ h - b \in 1..g
        BY <1>3, <1>10
      <3> QED
        BY <1>5, <1>8, <1>10, <3>1
    <2>3. w[c] = Delim
      <3>1. CASE a = g + 1
        BY <1>2, <2>1, <3>1
      <3>2. CASE a \in 1..g
        BY <1>5, <1>8, <1>10, <3>2
      <3> QED
        BY <1>3, <1>10, <3>1, <3>2
    <2>4. c \in b + 1 .. Len(w) + 1 /\ c <= Len(w) /\ c \in Nat
      BY <1>2, <2>1
    <2> QED
      BY <2>2, <2>3, <2>4 DEF NextIs
  <1>12. /\ Split(w)[1] = SubSeq(w, 1, 4 - 1)
         /\ Split(w)[2] = SubSeq(w, 4 + 1, b - 1)
         /\ Split(w)[3] = SubSeq(w, b + 1, c - 1)
    <2>1. /\ 4 \in Nat /\ b \in Nat /\ 4 <= Len(w) /\ b <= Len(w)
      BY <1>2, <1>3
    <2> DEFINE x == 4
    <2>2. x + 1 = 5 /\ x \in Nat /\ x <= Len(w) /\ NextIs(w, 1, x)
      BY <1>4, <2>1
    <2> HIDE DEF b, c, x
    <2>3. /\ NextIs(w, x + 1, b) /\ b \in Nat /\ b <= Len(w) /\ c \in Nat
      BY <1>4, <1>11, <2>1, <2>2
    <2>4. /\ Split(w)[1] = SubSeq(w, 1, x - 1)
          /\ Split(w)[2] = SubSeq(w, x + 1, b - 1)
          /\ Split(w)[3] = SubSeq(w, b + 1, c - 1)
      BY <1>2, <1>11, <2>2, <2>3, SplitThree
    <2> QED
      BY <2>4 DEF x
  <1>13. SubSeq(w, 1, 4 - 1) = l.header
    <2>1. 1 \in 1..(Len(w) + 1) /\ 4 \in Nat /\ 1 <= 4 /\ 4 <= Len(w) + 1
          /\ 4 - 1 = 3
      BY <1>2, <1>3
    <2>2. /\ SubSeq(w, 1, 4 - 1) \in Seq(Codes) /\ Len(SubSeq(w, 1, 4 - 1)) = 3
          /\ \A h \in 1..(4 - 1) : SubSeq(w, 1, 4 - 1)[h] = w[1 + h - 1]
      BY <1>2, <2>1, PieceTyped
    <2>3. \A h \in 1..3 : SubSeq(w, 1, 4 - 1)[h] = l.header[h]
      <3>1. \A h \in 1..3 : 1 + h - 1 = h
        OBVIOUS
      <3> QED
        BY <1>5, <2>1, <2>2, <3>1
    <2> QED
      BY <1>6, <2>2, <2>3, SeqEqual
  <1>14. SubSeq(w, 4 + 1, b - 1) = Stamp(l)
    <2>1. /\ 4 + 1 \in 1..(Len(w) + 1) /\ b \in Nat /\ 4 + 1 <= b
          /\ b <= Len(w) + 1 /\ b - (4 + 1) = t
      BY <1>2, <1>3
    <2>2. /\ SubSeq(w, 4 + 1, b - 1) \in Seq(Codes)
          /\ Len(SubSeq(w, 4 + 1, b - 1)) = b - (4 + 1)
          /\ \A h \in 1..(b - (4 + 1)) : SubSeq(w, 4 + 1, b - 1)[h] = w[4 + 1 + h - 1]
      <3> HIDE DEF b
      <3> QED
        BY <1>2, <2>1, PieceTyped
    <2>3. \A h \in 1..t : SubSeq(w, 4 + 1, b - 1)[h] = Stamp(l)[h]
      <3>1. \A h \in 1..t : 4 + 1 + h - 1 = 4 + h
        BY <1>3
      <3> HIDE DEF b
      <3> QED
        BY <1>5, <2>1, <2>2, <3>1
    <2>4. Len(SubSeq(w, 4 + 1, b - 1)) = Len(Stamp(l)) /\ t \in Nat
      BY <1>3, <2>1, <2>2 DEF t
    <2> DEFINE q == SubSeq(w, 4 + 1, b - 1)
    <2>5. q \in Seq(Codes) /\ Len(q) = Len(Stamp(l))
          /\ \A h \in 1..Len(Stamp(l)) : q[h] = Stamp(l)[h]
      BY <2>2, <2>3, <2>4 DEF t
    <2> HIDE DEF q
    <2>6. q = Stamp(l)
      BY <1>6, <2>5, SeqEqual
    <2> QED
      BY <2>6 DEF q
  <1>15. SubSeq(w, b + 1, c - 1) = SubSeq(m, 1, a - 1)
    <2>1. /\ b + 1 \in 1..(Len(w) + 1) /\ c \in Nat /\ b + 1 <= c
          /\ c <= Len(w) + 1 /\ c - (b + 1) = a - 1
      BY <1>2, <1>3, <1>10, <1>11
    <2>2. /\ SubSeq(w, b + 1, c - 1) \in Seq(Codes)
          /\ Len(SubSeq(w, b + 1, c - 1)) = a - 1
          /\ \A h \in 1..(a - 1) : SubSeq(w, b + 1, c - 1)[h] = w[b + 1 + h - 1]
      <3> HIDE DEF b, c
      <3>1. /\ SubSeq(w, b + 1, c - 1) \in Seq(Codes)
            /\ Len(SubSeq(w, b + 1, c - 1)) = c - (b + 1)
            /\ \A h \in 1..(c - (b + 1)) :
                 SubSeq(w, b + 1, c - 1)[h] = w[b + 1 + h - 1]
        BY <1>2, <2>1, PieceTyped
      <3> QED
        BY <2>1, <3>1
    <2>3. /\ 1 \in 1..(Len(m) + 1) /\ a \in Nat /\ 1 <= a /\ a <= Len(m) + 1
      BY <1>3, <1>8, <1>10
    <2>4. /\ SubSeq(m, 1, a - 1) \in Seq(Codes)
          /\ Len(SubSeq(m, 1, a - 1)) = a - 1
          /\ \A h \in 1..(a - 1) : SubSeq(m, 1, a - 1)[h] = m[1 + h - 1]
      BY <1>8, <2>3, PieceTyped
    <2>5. \A h \in 1..(a - 1) :
            b + 1 + h - 1 = b + h /\ 1 + h - 1 = h /\ h \in 1..g
      BY <1>3, <1>10
    <2>6. \A h \in 1..(a - 1) : w[b + h] = m[h]
      BY <1>5, <1>8, <2>5
    <2> HIDE DEF b, c
    <2>7. \A h \in 1..(a - 1) :
            SubSeq(w, b + 1, c - 1)[h] = SubSeq(m, 1, a - 1)[h]
      BY <2>2, <2>4, <2>5, <2>6
    <2>8. a - 1 \in Nat
      BY <2>3
    <2> QED
      BY <2>2, <2>4, <2>7, <2>8, SeqEqual
  <1>16. Split(m)[1] = SubSeq(m, 1, a - 1)
    <2>1. a \in Nat /\ a <= Len(m)
      BY <1>3, <1>8, <1>10
    <2> QED
      BY <1>8, <1>9, <2>1, SplitFirst
  <1> QED
    BY <1>7, <1>12, <1>13, <1>14, <1>15, <1>16 DEF w, m

----------------------------------------------------------------------------
(* A text whose last delimiter has not moved is a variant of the packet's   *)
(* own text.                                                                *)
LEMMA DelimStays ==
  ASSUME NEW l \in Logs, NEW str \in Seq(Codes), Len(str) = Len(Content(l)),
         LastDelim(str) = LastDelim(Content(l))
  PROVE  Variant(str, l)
  <1> DEFINE k == LastOf(l)
             w == Content(l)
  <1>1. Len(w) \in Nat /\ LastIs(w, k) /\ k # 0
    <2>1. w \in Seq(Codes) /\ LastIs(w, k)
      BY ContentShape
    <2> QED
      BY <2>1 DEF LastIs
  <1> HIDE DEF k, w
  <1>2. LastDelim(w) = k
    BY <1>1, LastDelimIs
  <1>3. LastIs(str, k)
    <2>1. Len(str) \in Nat /\ LastDelim(str) = k
      BY <1>2 DEF w
    <2> QED
      BY <1>1, <2>1, LastDelimPoints
  <1> QED
    BY <1>3 DEF Variant, k

----------------------------------------------------------------------------
(* The text with its frame: the content between a ^ and a $.                *)
LEMMA WriteShape ==
  ASSUME NEW l \in Logs
  PROVE  /\ Write(l) \in Seq(Codes)
         /\ Content(l) \in Seq(Codes)
         /\ Len(Content(l)) \in Nat /\ Len(Content(l)) >= 8
         /\ Len(Write(l)) = Len(Content(l)) + 2
         /\ Write(l)[1] = Caret
         /\ \A h \in 1..Len(Content(l)) : Write(l)[1 + h] = Content(l)[h]
         /\ Write(l)[Len(Content(l)) + 2] = Dollar
  <1> DEFINE a == <<Caret>>
             z == <<Dollar>>
             c == Content(l)
             m == Len(c)
             x == a \o c
             w == x \o z
  <1>1. /\ a \in Seq(Codes) /\ Len(a) = 1 /\ a[1] = Caret
        /\ z \in Seq(Codes) /\ Len(z) = 1 /\ z[1] = Dollar
    BY DEF Caret, Dollar, Codes
  <1>2. c \in Seq(Codes) /\ m \in Nat /\ m >= 8
    <2> DEFINE n == Len(Checksum(Body(l)))
    <2>1. c \in Seq(Codes) /\ m = LastOf(l) + n
      BY ContentShape
    <2>2. n \in Nat /\ n >= 1 /\ LastOf(l) \in Nat /\ LastOf(l) >= 7
      BY Lengths
    <2> HIDE DEF c, m, n
    <2> QED
      BY <2>1, <2>2
  <1>3. Write(l) = w
    BY DEF Write
  <1> HIDE DEF a, z, c
  <1>4. Joins(a, c, x) /\ x \in Seq(Codes)
    BY <1>1, <1>2, Joined DEF Joins
  <1> HIDE DEF x
  <1>5. Joins(x, z, w) /\ w \in Seq(Codes)
    BY <1>1, <1>4, Joined DEF Joins
  <1> HIDE DEF w
  <1>6. /\ Len(x) = 1 + m /\ x[1] = Caret
        /\ \A h \in 1..m : x[1 + h] = c[h]
    <2>1. 1 \in 1..1
      OBVIOUS
    <2> QED
      BY <1>1, <1>4, <2>1 DEF Joins
  <1>7. /\ Len(w) = (1 + m) + 1
        /\ \A h \in 1..(1 + m) : w[h] = x[h]
        /\ w[(1 + m) + 1] = Dollar
    <2>1. 1 \in 1..1
      OBVIOUS
    <2> QED
      BY <1>1, <1>5, <1>6, <2>1 DEF Joins
  <1> HIDE DEF m
  <1>8. /\ 1 \in 1..(1 + m) /\ (1 + m) + 1 = m + 2
        /\ \A h \in 1..m : 1 + h \in 1..(1 + m)
    BY <1>2
  <1>9. /\ Len(w) = m + 2 /\ w[m + 2] = Dollar
    BY <1>7, <1>8
  <1>10. w[1] = Caret /\ \A h \in 1..m : w[1 + h] = c[h]
    BY <1>6, <1>7, <1>8
  <1> QED
    BY <1>2, <1>3, <1>5, <1>9, <1>10 DEF m, c

(* A text without the characters that frame one.                            *)
Unframed(str) == \A h \in 1..Len(str) : str[h] \notin {Caret, Dollar}

(* The content of a plain packet is one.                                    *)
LEMMA ContentPlain ==
  ASSUME NEW l \in Logs, Plain(l)
  PROVE  Unframed(Content(l))
  <1> DEFINE c == Content(l)
             k == LastOf(l)
             t == Len(Stamp(l))
             g == Len(l.message)
             s == Checksum(Body(l))
             n == Len(s)
             F == {Caret, Dollar}
  <1>1. /\ t \in Nat /\ t >= 1 /\ g \in Nat /\ k = 6 + t + g
        /\ n \in Nat /\ n >= 1
    BY Lengths
  <1>2. /\ c \in Seq(Codes) /\ Len(c) = k + n /\ Sections(c, l)
        /\ LastIs(c, k) /\ Behind(c, l) = s /\ Variant(c, l)
    BY ContentShape, UndamagedAccepted
  <1>3. \A h \in 1..n : s[h] \notin F
    <2>1. s \in Seq(48..57)
      BY BodyShape, ChecksumTyped
    <2>2. \A h \in 1..n : s[h] \in 48..57
      BY <2>1
    <2>3. \A d \in 48..57 : d \notin F
      BY DEF Caret, Dollar
    <2> QED
      BY <2>2, <2>3
  <1>4. \A h \in 1..t : Stamp(l)[h] \notin F
    <2> DEFINE C == DigitCodes(16)
    <2>1. l.timestamp \in Nat /\ 16 \in {10, 16}
      BY TextAssumption
    <2>2. Stamp(l) \in Seq(C)
      BY <2>1, DigitsTyped DEF Stamp
    <2>3. \A d \in C : d \notin F
      BY DEF DigitCodes, Caret, Dollar
    <2> HIDE DEF C
    <2>4. \A h \in 1..t : Stamp(l)[h] \in C
      BY <2>2
    <2> QED
      BY <2>3, <2>4
  <1>5. \A h \in 1..3 : l.header[h] \notin F
    BY TextAssumption
  <1>6. \A h \in 1..g : l.message[h] \notin F
    BY DEF Plain
  <1>7. Delim \notin F
    BY DEF Delim, Caret, Dollar
  <1>8. /\ \A h \in 1..3 : c[h] = l.header[h]
        /\ c[4] = Delim
        /\ \A h \in 1..t : c[4 + h] = Stamp(l)[h]
        /\ c[5 + t] = Delim
        /\ \A h \in 1..g : c[5 + t + h] = l.message[h]
        /\ c[k] = Delim
    BY <1>2 DEF Sections, LastIs
  <1>9. \A h \in 1..n : c[k + h] = s[h]
    <2>1. \A h \in 1..(Len(c) - k) : Behind(c, l)[h] = c[k + h]
      BY <1>2, VariantParts
    <2>2. Len(c) - k = n
      <3> HIDE DEF c, k, n
      <3> QED
        BY <1>1, <1>2
    <2> QED
      BY <1>2, <2>1, <2>2
  <1> HIDE DEF c, k, t, g, s, n, F
  <1>10. ASSUME NEW h \in 1..Len(c) PROVE c[h] \notin F
    <2>1. \/ h \in 1..3 \/ h = 4 \/ h - 4 \in 1..t \/ h = 5 + t
          \/ h - (5 + t) \in 1..g \/ h = k \/ h - k \in 1..n
      BY <1>1, <1>2
    <2>2. /\ 4 + (h - 4) = h /\ 5 + t + (h - (5 + t)) = h /\ k + (h - k) = h
      BY <1>1, <1>2
    <2>3. CASE h \in 1..3
      BY <1>5, <1>8, <2>3
    <2>4. CASE h = 4 \/ h = 5 + t \/ h = k
      BY <1>7, <1>8, <2>4
    <2>5. CASE h - 4 \in 1..t
      BY <1>4, <1>8, <2>2, <2>5
    <2>6. CASE h - (5 + t) \in 1..g
      BY <1>6, <1>8, <2>2, <2>6
    <2>7. CASE h - k \in 1..n
      BY <1>3, <1>9, <2>2, <2>7
    <2> QED
      BY <2>1, <2>3, <2>4, <2>5, <2>6, <2>7
  <1> QED
    BY <1>10 DEF Unframed, c, F

(* e is the place of the first $ of a buffer.                               *)
EndsAt(buffer, e) ==
  /\ e \in 1..Len(buffer) /\ buffer[e] = Dollar
  /\ \A h \in 1..(e - 1) : buffer[h] # Dollar

(* End finds it.                                                            *)
LEMMA EndIs ==
  ASSUME NEW buffer, Len(buffer) \in Nat, NEW e, EndsAt(buffer, e)
  PROVE  End(buffer) = e
  <1> DEFINE S == {i \in 1..Len(buffer) : buffer[i] = Dollar}
  <1>1. S \subseteq Int /\ e \in S
    BY DEF EndsAt
  <1>2. ASSUME NEW i \in S PROVE e <= i
    <2>1. e \in Int /\ i \in Int /\ ~(i \in 1..(e - 1)) /\ i >= 1
      BY DEF EndsAt
    <2> QED
      BY <2>1
  <1> HIDE DEF S
  <1>3. Min(S) = e
    BY <1>1, <1>2, MinIs
  <1> QED
    BY <1>3 DEF S, End

(* A buffer with a $ has a first one.                                       *)
LEMMA EndPoints ==
  ASSUME NEW buffer, Len(buffer) \in Nat, HasEnd(buffer)
  PROVE  EndsAt(buffer, End(buffer))
  <1> DEFINE S == {i \in 1..Len(buffer) : buffer[i] = Dollar}
  <1>1. S \subseteq Nat /\ S # {}
    BY DEF HasEnd
  <1>2. PICK e \in S : \A i \in S : e <= i
    <2> HIDE DEF S
    <2> QED
      BY <1>1, LeastNumber
  <1>3. ASSUME NEW h \in 1..(e - 1) PROVE buffer[h] # Dollar
    <2>1. e \in Int /\ h \in 1..Len(buffer) /\ ~(e <= h)
      OBVIOUS
    <2> QED
      BY <1>2, <2>1
  <1>4. EndsAt(buffer, e)
    BY <1>3 DEF EndsAt
  <1> QED
    BY <1>4, EndIs

(* The last ^ of a text, or 0.                                              *)
LastCaret(str) == Max({i \in 1..Len(str) : str[i] = Caret} \cup {0})

(* It is found where there is one and none follows, and not where there is  *)
(* none at all.                                                             *)
LEMMA LastCaretIs ==
  ASSUME NEW str, Len(str) \in Nat, NEW k \in 0..Len(str),
         k # 0 => str[k] = Caret,
         \A h \in (k + 1)..Len(str) : str[h] # Caret
  PROVE  LastCaret(str) = k
  <1> DEFINE S == {i \in 1..Len(str) : str[i] = Caret} \cup {0}
  <1>1. S \subseteq Int /\ k \in S
    OBVIOUS
  <1>2. ASSUME NEW i \in S PROVE i <= k
    <2>1. i \in Int /\ (i = 0 \/ ~(i \in (k + 1)..Len(str))) /\ i <= Len(str)
      OBVIOUS
    <2> QED
      BY <2>1
  <1> HIDE DEF S
  <1>3. Max(S) = k
    BY <1>1, <1>2, MaxIs
  <1> QED
    BY <1>3 DEF S, LastCaret

(* It is a place of the text.                                               *)
LEMMA LastCaretTyped ==
  ASSUME NEW str, Len(str) \in Nat
  PROVE  LastCaret(str) \in 0..Len(str)
  <1> DEFINE S == {i \in 1..Len(str) : str[i] = Caret} \cup {0}
  <1>1. S \subseteq 0..Len(str) /\ S # {} /\ S \subseteq Int
    OBVIOUS
  <1> HIDE DEF S
  <1>2. PICK k \in S : \A i \in S : i <= k
    BY <1>1, GreatestNumber
  <1>3. Max(S) = k
    BY <1>1, <1>2, MaxIs
  <1> QED
    BY <1>1, <1>2, <1>3 DEF S, LastCaret

(* The buffer holds a packet from its first character to its first $.       *)
Opened(buffer, e) ==
  /\ EndsAt(buffer, e) /\ e >= 4 /\ buffer[1] = Caret
  /\ \A h \in 2..(e - 1) : buffer[h] # Caret

(* It is read as this packet.                                               *)
LEMMA OpenedRead ==
  ASSUME NEW buffer \in Seq(Codes), NEW e, Opened(buffer, e)
  PROVE  /\ Incoming(buffer) = SubSeq(buffer, 2, e - 1)
         /\ Verdict(buffer) = OutcomeOf(SubSeq(buffer, 2, e - 1))
  <1>1. /\ Len(buffer) \in Nat /\ EndsAt(buffer, e)
        /\ e \in 4..Len(buffer) /\ buffer[1] = Caret
        /\ \A h \in 2..(e - 1) : buffer[h] # Caret
    BY DEF Opened, EndsAt
  <1>2. End(buffer) = e /\ e # 1
    BY <1>1, EndIs
  <1> DEFINE x == SubSeq(buffer, 1, e - 2)
             j == e - 1
  <1>3. /\ Len(x) = e - 2
        /\ \A h \in 1..(e - 2) : x[h] = buffer[h]
    <2>1. 1 \in 1..(Len(buffer) + 1) /\ j \in Nat /\ 1 <= j /\ j <= Len(buffer) + 1
          /\ j - 1 = e - 2
      BY <1>1
    <2>2. /\ Len(SubSeq(buffer, 1, j - 1)) = j - 1
          /\ \A h \in 1..(j - 1) : SubSeq(buffer, 1, j - 1)[h] = buffer[1 + h - 1]
      <3> HIDE DEF j
      <3> QED
        BY <2>1, PieceTyped
    <2>3. \A h \in 1..(e - 2) : 1 + h - 1 = h
      BY <1>1
    <2> HIDE DEF j
    <2> QED
      BY <2>1, <2>2, <2>3
  <1> HIDE DEF x
  <1>4. LastCaret(x) = 1
    <2>1. Len(x) \in Nat /\ 1 \in 0..Len(x) /\ 1 \in 1..(e - 2)
      BY <1>1, <1>3
    <2>2. \A h \in (1 + 1)..Len(x) : h \in 2..(e - 1) /\ h \in 1..(e - 2)
      BY <1>1, <1>3
    <2>3. x[1] = Caret /\ \A h \in (1 + 1)..Len(x) : x[h] # Caret
      BY <1>1, <1>3, <2>1, <2>2
    <2> QED
      BY <2>1, <2>3, LastCaretIs
  <1>5. Start(buffer) = 1
    BY <1>2, <1>4 DEF Start, LastCaret, x
  <1>6. Incoming(buffer) = SubSeq(buffer, 2, e - 1)
    <2> DEFINE i == Start(buffer) + 1
    <2>1. i = 2
      BY <1>5
    <2>2. Incoming(buffer) = SubSeq(buffer, i, e - 1)
      BY <1>2 DEF Incoming
    <2> HIDE DEF i
    <2> QED
      BY <2>1, <2>2
  <1>7. Verdict(buffer) = OutcomeOf(Incoming(buffer))
    <2>1. Start(buffer) # 0
      BY <1>5
    <2> QED
      BY <2>1 DEF Verdict
  <1> QED
    BY <1>6, <1>7

(* Without a ^ nothing is read.                                             *)
LEMMA NothingOpens ==
  ASSUME NEW buffer \in Seq(Codes), HasEnd(buffer),
         \A h \in 1..Len(buffer) : buffer[h] # Caret
  PROVE  Verdict(buffer) = "rejected"
  <1> DEFINE e == End(buffer)
             x == IF e = 1 THEN buffer ELSE SubSeq(buffer, 1, e - 2)
             j == e - 1
  <1>1. Len(buffer) \in Nat /\ e \in 1..Len(buffer)
    BY EndPoints DEF EndsAt
  <1> HIDE DEF e
  <1>2. Len(x) \in Nat /\ \A h \in 1..Len(x) : x[h] # Caret
    <2>1. CASE e = 1
      BY <1>1, <2>1
    <2>2. CASE e # 1
      <3>1. 1 \in 1..(Len(buffer) + 1) /\ j \in Nat /\ 1 <= j
            /\ j <= Len(buffer) + 1 /\ j - 1 = e - 2 /\ j - 1 \in Nat
        BY <1>1, <2>2
      <3>2. /\ Len(SubSeq(buffer, 1, j - 1)) = j - 1
            /\ \A h \in 1..(j - 1) : SubSeq(buffer, 1, j - 1)[h] = buffer[1 + h - 1]
        <4> HIDE DEF j
        <4> QED
          BY <3>1, PieceTyped
      <3>3. \A h \in 1..(j - 1) : 1 + h - 1 = h /\ h \in 1..Len(buffer)
        BY <3>1
      <3>4. x = SubSeq(buffer, 1, j - 1)
        BY <2>2, <3>1
      <3> HIDE DEF j, x
      <3> QED
        BY <3>1, <3>2, <3>3, <3>4
    <2> QED
      BY <2>1, <2>2
  <1>3. Start(buffer) = LastCaret(x)
    BY DEF Start, LastCaret, e
  <1> HIDE DEF x
  <1>4. LastCaret(x) = 0
    <2>1. 0 \in 0..Len(x) /\ \A h \in (0 + 1)..Len(x) : h \in 1..Len(x)
      BY <1>2
    <2> QED
      BY <1>2, <2>1, LastCaretIs
  <1> QED
    BY <1>3, <1>4 DEF Verdict

(* Whatever is read is a text.                                              *)
LEMMA IncomingTyped ==
  ASSUME NEW buffer \in Seq(Codes), HasEnd(buffer), Start(buffer) # 0
  PROVE  Incoming(buffer) \in Seq(Codes)
  <1> DEFINE e == End(buffer)
             a == Start(buffer)
             x == IF e = 1 THEN buffer ELSE SubSeq(buffer, 1, e - 2)
             i == a + 1
             j == IF e = 1 THEN Len(buffer) + 1 ELSE e
  <1>1. Len(buffer) \in Nat /\ e \in 1..Len(buffer)
    BY EndPoints DEF EndsAt
  <1>2. a = LastCaret(x)
    BY DEF Start, LastCaret
  <1> HIDE DEF e, a
  <1>3. Len(x) \in Nat /\ (IF e = 1 THEN Len(x) = Len(buffer) ELSE Len(x) <= e - 1)
    <2>1. CASE e = 1
      BY <1>1, <2>1
    <2>2. CASE e # 1
      <3> DEFINE k == e - 1
      <3>1. 1 \in 1..(Len(buffer) + 1) /\ k \in Nat /\ 1 <= k
            /\ k <= Len(buffer) + 1 /\ k - 1 = e - 2 /\ k - 1 \in Nat
            /\ k - 1 <= e - 1
        BY <1>1, <2>2
      <3>2. Len(SubSeq(buffer, 1, k - 1)) = k - 1
        <4> HIDE DEF k
        <4> QED
          BY <3>1, PieceTyped
      <3>3. x = SubSeq(buffer, 1, k - 1)
        BY <2>2, <3>1
      <3> HIDE DEF k, x
      <3> QED
        BY <2>2, <3>1, <3>2, <3>3
    <2> QED
      BY <2>1, <2>2
  <1>4. a \in 0..Len(x)
    BY <1>2, <1>3, LastCaretTyped
  <1> HIDE DEF x
  <1>5. i \in 1..(Len(buffer) + 1) /\ j \in Nat /\ i <= j /\ j <= Len(buffer) + 1
    BY <1>1, <1>3, <1>4
  <1>6. SubSeq(buffer, i, j - 1) \in Seq(Codes)
    <2> HIDE DEF i, j
    <2> QED
      BY <1>5, PieceTyped
  <1>7. Incoming(buffer) = SubSeq(buffer, i, j - 1)
    <2> DEFINE m == IF e = 1 THEN Len(buffer) ELSE e - 1
    <2>1. m = j - 1
      BY <1>1
    <2>2. Incoming(buffer) = SubSeq(buffer, i, m)
      BY DEF Incoming, e, a
    <2> HIDE DEF m, i, j
    <2> QED
      BY <2>1, <2>2
  <1> QED
    BY <1>6, <1>7

----------------------------------------------------------------------------
(* The text is the packet's own one with at most one mistake in it.         *)
OneMistake ==
  /\ log \in Logs
  /\ text \in Seq(Codes)
  /\ \/ damage = "none" /\ text = Write(log)
     \/ damage = "substituted" /\ \E i \in Nat : SubstitutedAt(Write(log), text, i)
     \/ damage = "swapped" /\ \E i \in Nat : SwappedAt(Write(log), text, i)

(* A buffer starts with the text, or behind a $ of it.                      *)
CutAt(c) == c = 0 \/ (c \in 1..Len(text) /\ text[c] = Dollar)

(* What has been taken up and cut off the text, and that nothing has before *)
(* it is read.                                                              *)
Placed ==
  /\ arrived \in 0..Len(text) /\ cut \in 0..arrived /\ CutAt(cut)
  /\ outcome = "sent" => cut = 0 /\ parsed = NoLog

(* What has been read last is the part of the text from such a place on.    *)
ReadFrom(c, n) ==
  LET buffer == SubSeq(text, c + 1, n)
  IN /\ HasEnd(buffer)
     /\ outcome = Verdict(buffer)
     /\ parsed = IF outcome = "parsed" THEN Parse(Incoming(buffer)) ELSE NoLog

(* Once it is read, the outcome is that of some such part.                  *)
ReadSome ==
  outcome # "sent" =>
    \E c \in 0..Len(text) : \E n \in c..Len(text) : CutAt(c) /\ ReadFrom(c, n)

(* The inductive invariant.                                                 *)
TextInv == OneMistake /\ Placed /\ ReadSome

(* The outcomes a text can have, none of which is that it is on its way.    *)
LEMMA OutcomeTyped ==
  \A str : OutcomeOf(str) \in {"rejected", "throws", "undefined", "parsed"}
  BY DEF OutcomeOf

(* Nor can a buffer's verdict be that.                                      *)
LEMMA VerdictTyped ==
  \A buffer : Verdict(buffer) \in {"rejected", "throws", "undefined", "parsed"}
  BY OutcomeTyped DEF Verdict

(* A packet's own text starts the invariant.                                *)
LEMMA InitText == Init => TextInv
  <1> SUFFICES ASSUME Init PROVE TextInv
    OBVIOUS
  <1>1. log \in Logs /\ Write(log) \in Seq(Codes) /\ Len(Write(log)) \in Nat
    <2>1. log \in Logs
      BY DEF Init
    <2>2. Write(log) \in Seq(Codes)
      BY <2>1, WriteShape
    <2> HIDE DEF Init
    <2> QED
      BY <2>1, <2>2
  <1>2. OneMistake
    BY <1>1 DEF Init, OneMistake
  <1>3. Placed
    BY <1>1 DEF Init, Placed, CutAt
  <1>4. ReadSome
    BY DEF Init, ReadSome
  <1> QED
    BY <1>2, <1>3, <1>4 DEF TextInv

(* A part of the text, in its places.                                       *)
LEMMA BufferTyped ==
  ASSUME NEW str \in Seq(Codes), NEW c \in 0..Len(str), NEW n \in c..Len(str)
  PROVE  /\ SubSeq(str, c + 1, n) \in Seq(Codes)
         /\ Len(SubSeq(str, c + 1, n)) = n - c
         /\ \A h \in 1..(n - c) : SubSeq(str, c + 1, n)[h] = str[c + h]
  <1> DEFINE i == c + 1
             j == n + 1
  <1>1. /\ Len(str) \in Nat /\ i \in 1..(Len(str) + 1) /\ j \in Nat
        /\ i <= j /\ j <= Len(str) + 1 /\ j - 1 = n /\ j - i = n - c
        /\ \A h \in 1..(n - c) : i + h - 1 = c + h
    OBVIOUS
  <1> HIDE DEF i, j
  <1>2. /\ SubSeq(str, i, j - 1) \in Seq(Codes)
        /\ Len(SubSeq(str, i, j - 1)) = j - i
        /\ \A h \in 1..(j - i) : SubSeq(str, i, j - 1)[h] = str[i + h - 1]
    BY <1>1, PieceTyped
  <1>3. /\ SubSeq(str, i, n) \in Seq(Codes)
        /\ Len(SubSeq(str, i, n)) = n - c
        /\ \A h \in 1..(n - c) : SubSeq(str, i, n)[h] = str[c + h]
    BY <1>1, <1>2
  <1> QED
    BY <1>3 DEF i

(* A mistake keeps it: nothing has been read yet.                           *)
LEMMA MistakeMade ==
  ASSUME TextInv, outcome = "sent", Len(text) \in Nat, OneMistake',
         Len(text') = Len(text), UNCHANGED <<arrived, cut, outcome, parsed>>
  PROVE  TextInv'
  <1>1. cut = 0 /\ parsed = NoLog /\ arrived \in 0..Len(text)
    BY DEF TextInv, Placed
  <1>2. Placed'
    BY <1>1 DEF Placed, CutAt
  <1>3. ReadSome'
    BY DEF ReadSome
  <1> QED
    BY <1>2, <1>3 DEF TextInv

(* So does the reading.                                                     *)
LEMMA ReceiveKeeps ==
  ASSUME TextInv, Receive
  PROVE  TextInv'
  <1>1. /\ text \in Seq(Codes) /\ Len(text) \in Nat
        /\ arrived \in 0..Len(text) /\ cut \in 0..arrived /\ CutAt(cut)
    <2>1. text \in Seq(Codes)
      BY DEF TextInv, OneMistake
    <2> QED
      BY <2>1 DEF TextInv, Placed
  <1>2. UNCHANGED <<log, text, damage>>
    BY DEF Receive
  <1>3. PICK n \in arrived..Len(text) :
          LET buffer == SubSeq(text, cut + 1, n)
          IN /\ HasEnd(buffer)
             /\ arrived' = n
             /\ cut' = cut + End(buffer)
             /\ outcome' = Verdict(buffer)
             /\ parsed' = IF outcome' = "parsed" THEN Parse(Incoming(buffer))
                          ELSE NoLog
    BY DEF Receive
  <1> DEFINE b == SubSeq(text, cut + 1, n)
             e == End(b)
  <1>4. /\ HasEnd(b) /\ arrived' = n /\ cut' = cut + e
        /\ outcome' = Verdict(b)
        /\ parsed' = IF outcome' = "parsed" THEN Parse(Incoming(b)) ELSE NoLog
    BY <1>3
  <1>5. cut \in 0..Len(text) /\ n \in cut..Len(text)
    BY <1>1
  <1>6. /\ Len(b) = n - cut
        /\ \A h \in 1..(n - cut) : b[h] = text[cut + h]
    BY <1>1, <1>5, BufferTyped
  <1> HIDE DEF b, e
  <1>7. e \in 1..(n - cut) /\ b[e] = Dollar
    <2>1. Len(b) \in Nat
      BY <1>5, <1>6
    <2> QED
      BY <1>4, <1>6, <2>1, EndPoints DEF EndsAt, e
  <1>8. cut' \in 1..n /\ cut' \in 1..Len(text) /\ text[cut'] = Dollar
    <2>1. text[cut + e] = Dollar
      BY <1>6, <1>7
    <2> QED
      BY <1>1, <1>4, <1>5, <1>7, <2>1
  <1>9. outcome' # "sent"
    BY <1>4, VerdictTyped
  <1>10. OneMistake'
    BY <1>2 DEF TextInv, OneMistake
  <1>11. Placed'
    <2>1. arrived' \in 0..Len(text) /\ cut' \in 0..arrived'
      BY <1>1, <1>4, <1>5, <1>8
    <2> QED
      BY <1>2, <1>8, <1>9, <2>1 DEF Placed, CutAt
  <1>12. ReadSome'
    <2>1. CutAt(cut)
      BY <1>1
    <2> QED
      BY <1>2, <1>4, <1>5, <2>1 DEF ReadSome, ReadFrom, CutAt, b
  <1> QED
    BY <1>10, <1>11, <1>12 DEF TextInv

(* Each action keeps it.                                                    *)
LEMMA NextText == TextInv /\ [Next]_vars => TextInv'
  <1> SUFFICES ASSUME TextInv, [Next]_vars PROVE TextInv'
    OBVIOUS
  <1>1. log \in Logs /\ text \in Seq(Codes) /\ Len(text) \in Nat
        /\ DOMAIN text = 1..Len(text)
    BY DEF TextInv, OneMistake
  <1>2. ASSUME NEW i \in DOMAIN text, NEW code \in Alphabet, Substitute(i, code)
        PROVE  TextInv'
    <2>1. text = Write(log) /\ outcome = "sent" /\ damage' = "substituted"
          /\ UNCHANGED <<log, arrived, cut, outcome, parsed>>
      BY <1>2 DEF Substitute, TextInv, OneMistake
    <2>2. text' = [text EXCEPT ![i] = code] /\ code \in Codes /\ text[i] # code
      BY <1>2, TextAssumption DEF Substitute
    <2>3. /\ text' \in Seq(Codes) /\ Len(text') = Len(text)
          /\ text'[i] = code
          /\ \A h \in 1..Len(text) : h # i => text'[h] = text[h]
      BY <1>1, <2>2
    <2>4. SubstitutedAt(Write(log), text', i) /\ i \in Nat
      BY <1>1, <2>1, <2>2, <2>3 DEF SubstitutedAt
    <2>5. OneMistake'
      BY <1>1, <2>1, <2>3, <2>4 DEF OneMistake
    <2> QED
      BY <1>1, <2>1, <2>3, <2>5, MistakeMade
  <1>3. ASSUME NEW i \in 1..(Len(text) - 1), Swap(i)
        PROVE  TextInv'
    <2>1. text = Write(log) /\ outcome = "sent" /\ damage' = "swapped"
          /\ UNCHANGED <<log, arrived, cut, outcome, parsed>>
      BY <1>3 DEF Swap, TextInv, OneMistake
    <2> DEFINE j == i + 1
               a == text[i]
               b == text[j]
    <2>2. /\ i \in 1..Len(text) /\ j \in 1..Len(text) /\ i # j
          /\ a \in Codes /\ b \in Codes /\ a # b
          /\ text' = [text EXCEPT ![i] = b, ![j] = a]
      BY <1>1, <1>3 DEF Swap
    <2> HIDE DEF j, a, b
    <2>3. /\ text' \in Seq(Codes) /\ Len(text') = Len(text)
          /\ text'[i] = b /\ text'[j] = a
          /\ \A h \in 1..Len(text) : h # i /\ h # j => text'[h] = text[h]
      BY <1>1, <2>2
    <2>4. SwappedAt(Write(log), text', i) /\ i \in Nat
      BY <1>1, <2>1, <2>2, <2>3 DEF SwappedAt, a, b, j
    <2>5. OneMistake'
      BY <1>1, <2>1, <2>3, <2>4 DEF OneMistake
    <2> QED
      BY <1>1, <2>1, <2>3, <2>5, MistakeMade
  <1>4. CASE Receive
    BY <1>4, ReceiveKeeps
  <1>5. ASSUME NEW l \in Logs, Send(l) PROVE TextInv'
    <2>1. Write(l) \in Seq(Codes) /\ Len(Write(l)) \in Nat
      <3>1. Write(l) \in Seq(Codes)
        BY WriteShape
      <3> QED
        BY <3>1
    <2>2. OneMistake'
      BY <1>5, <2>1 DEF Send, OneMistake
    <2>3. Placed'
      BY <1>5, <2>1 DEF Send, Placed, CutAt
    <2>4. ReadSome'
      BY <1>5 DEF Send, ReadSome
    <2> QED
      BY <2>2, <2>3, <2>4 DEF TextInv
  <1>6. CASE UNCHANGED vars
    BY <1>6 DEF vars, TextInv, OneMistake, Placed, CutAt, ReadSome, ReadFrom
  <1> QED
    BY <1>2, <1>3, <1>4, <1>5, <1>6 DEF Next

(* The invariant of the packet text.                                        *)
THEOREM TextKept == Spec => []TextInv
  <1> QED
    BY InitText, NextText, PTL DEF Spec

(* A text of printable characters stays one, and what is made of it is a    *)
(* packet again: sections of the text, and a number.                        *)
THEOREM TextTypeCorrect == Spec => []TypeOK
  <1>1. TextInv => TypeOK
    <2> SUFFICES ASSUME TextInv PROVE TypeOK
      OBVIOUS
    <2>1. /\ log \in Logs /\ text \in Seq(Codes)
          /\ damage \in {"none", "substituted", "swapped"}
          /\ arrived \in 0..Len(text) /\ cut \in 0..arrived
      BY DEF TextInv, OneMistake, Placed
    <2>2. outcome = "sent" => parsed = NoLog
      BY DEF TextInv, Placed
    <2>3. CASE outcome = "sent"
      <3>1. /\ IsText(NoLog.header) /\ IsText(NoLog.message)
            /\ NoLog.timestamp \in Int
        BY DEF NoLog, IsText
      <3> QED
        BY <2>1, <2>2, <2>3, <3>1 DEF TypeOK, IsText
    <2>4. CASE outcome # "sent"
      <3>1. PICK c \in 0..Len(text) : \E n \in c..Len(text) :
                   CutAt(c) /\ ReadFrom(c, n)
        BY <2>4 DEF TextInv, ReadSome
      <3>2. PICK n \in c..Len(text) : CutAt(c) /\ ReadFrom(c, n)
        BY <3>1
      <3> DEFINE b == SubSeq(text, c + 1, n)
                 q == Incoming(b)
      <3>3. /\ HasEnd(b) /\ outcome = Verdict(b)
            /\ parsed = IF outcome = "parsed" THEN Parse(q) ELSE NoLog
        BY <3>2 DEF ReadFrom
      <3>4. b \in Seq(Codes)
        BY <2>1, BufferTyped
      <3> HIDE DEF b
      <3>5. outcome \in {"rejected", "throws", "undefined", "parsed"}
        BY <3>3, VerdictTyped
      <3>6. CASE outcome # "parsed"
        BY <2>1, <3>3, <3>5, <3>6 DEF TypeOK, NoLog, IsText
      <3>7. CASE outcome = "parsed"
        <4>1. Start(b) # 0 /\ OutcomeOf(q) = "parsed" /\ parsed = Parse(q)
          BY <3>3, <3>7 DEF Verdict
        <4>2. q \in Seq(Codes)
          BY <3>3, <3>4, <4>1, IncomingTyped
        <4> HIDE DEF q
        <4> DEFINE s == Split(q)
                   m == Len(s)
        <4>3. s # <<>> /\ ~(m \in 1..2 /\ Len(s[1]) = 3) /\ Len(s[1]) = 3
          BY <4>1 DEF OutcomeOf
        <4>4. s \in Seq(Seq(Codes)) /\ m \in Nat
          BY <4>2, SplitTyped
        <4> HIDE DEF s
        <4>5. m # 0
          BY <4>3, <4>4
        <4> HIDE DEF m
        <4>6. 1 \in 1..m /\ 2 \in 1..m /\ 3 \in 1..m
          BY <4>3, <4>4, <4>5
        <4>7. s[1] \in Seq(Codes) /\ s[2] \in Seq(Codes) /\ s[3] \in Seq(Codes)
          BY <4>4, <4>6 DEF m
        <4>8. LeadingNumber(s[2]) \in Int
          BY <4>7, TextTyped, LeadingNumberTyped
        <4>9. /\ parsed.header = s[1] /\ parsed.timestamp = LeadingNumber(s[2])
              /\ parsed.message = s[3]
          BY <4>1 DEF Parse, s
        <4> QED
          BY <2>1, <3>5, <4>7, <4>8, <4>9 DEF TypeOK, IsText
      <3> QED
        BY <3>6, <3>7
    <2> QED
      BY <2>3, <2>4
  <1> QED
    BY <1>1, TextKept, PTL

----------------------------------------------------------------------------
(* A text that is framed as a packet.                                       *)
Framed(str) ==
  /\ str \in Seq(Codes) /\ Len(str) >= 10
  /\ str[1] = Caret /\ str[Len(str)] = Dollar
  /\ \A h \in 2..(Len(str) - 1) : str[h] \notin {Caret, Dollar}

(* What is in its frame.                                                    *)
Inner(str) == SubSeq(str, 2, Len(str) - 1)

(* It is the text without its first and its last character.                 *)
LEMMA InnerTyped ==
  ASSUME NEW str \in Seq(Codes), Len(str) >= 10
  PROVE  /\ Inner(str) \in Seq(Codes)
         /\ Len(Inner(str)) \in Nat /\ Len(Inner(str)) = Len(str) - 2
         /\ \A h \in 1..(Len(str) - 2) : Inner(str)[h] = str[1 + h]
  <1> DEFINE c == 1
             n == Len(str) - 1
  <1>1. /\ Len(str) \in Nat /\ c \in 0..Len(str) /\ n \in c..Len(str)
        /\ c + 1 = 2 /\ n - c = Len(str) - 2 /\ Len(str) - 2 \in Nat
    OBVIOUS
  <1>2. /\ SubSeq(str, c + 1, n) \in Seq(Codes)
        /\ Len(SubSeq(str, c + 1, n)) = n - c
        /\ \A h \in 1..(n - c) : SubSeq(str, c + 1, n)[h] = str[c + h]
    <2> HIDE DEF c, n
    <2> QED
      BY <1>1, BufferTyped
  <1>3. Inner(str) = SubSeq(str, c + 1, n)
    <2>1. c + 1 = 2
      OBVIOUS
    <2> HIDE DEF c
    <2> QED
      BY <2>1 DEF Inner
  <1> HIDE DEF n
  <1> QED
    BY <1>1, <1>2, <1>3

(* In the frame of a packet's own text is its content.                      *)
LEMMA OwnInner ==
  ASSUME NEW l \in Logs
  PROVE  Inner(Write(l)) = Content(l)
  <1> DEFINE w == Write(l)
             c == Content(l)
             m == Len(c)
  <1>1. /\ w \in Seq(Codes) /\ c \in Seq(Codes) /\ m \in Nat /\ m >= 8
        /\ Len(w) = m + 2 /\ \A h \in 1..m : w[1 + h] = c[h]
    BY WriteShape
  <1> HIDE DEF w, c
  <1>2. Len(w) >= 10 /\ Len(w) - 2 = m
    <2> HIDE DEF m
    <2> QED
      BY <1>1
  <1>3. /\ Inner(w) \in Seq(Codes) /\ Len(Inner(w)) = m
        /\ \A h \in 1..m : Inner(w)[h] = w[1 + h]
    BY <1>1, <1>2, InnerTyped
  <1>4. \A h \in 1..m : Inner(w)[h] = c[h]
    BY <1>1, <1>3
  <1> QED
    BY <1>1, <1>3, <1>4, SeqEqual DEF w, c

(* A mistake in a text that is still framed is one in its content.          *)
LEMMA InnerSubstituted ==
  ASSUME NEW l \in Logs, NEW str, Framed(str),
         NEW i, SubstitutedAt(Write(l), str, i)
  PROVE  /\ i \in 2..(Len(str) - 1)
         /\ SubstitutedAt(Content(l), Inner(str), i - 1)
  <1> DEFINE w == Write(l)
             c == Content(l)
             m == Len(c)
             x == Inner(str)
             j == i - 1
  <1>1. /\ m \in Nat /\ m >= 8 /\ Len(w) = m + 2
        /\ w[1] = Caret /\ w[m + 2] = Dollar
        /\ \A h \in 1..m : w[1 + h] = c[h]
    BY WriteShape
  <1>2. /\ Len(str) = m + 2 /\ i \in 1..(m + 2) /\ str[i] # w[i]
        /\ \A h \in 1..(m + 2) : h # i => str[h] = w[h]
    BY <1>1 DEF SubstitutedAt
  <1>3. str[1] = Caret /\ str[m + 2] = Dollar /\ str \in Seq(Codes)
    BY <1>2 DEF Framed
  <1> HIDE DEF w, c, m
  <1>4. i # 1 /\ i # m + 2
    BY <1>1, <1>2, <1>3
  <1>5. /\ i \in 2..(Len(str) - 1) /\ j \in 1..m /\ 1 + j = i
        /\ Len(str) >= 10 /\ Len(str) - 2 = m
    BY <1>1, <1>2, <1>4
  <1>6. Len(x) = m /\ \A h \in 1..m : x[h] = str[1 + h]
    BY <1>3, <1>5, InnerTyped
  <1> HIDE DEF x, j
  <1>7. \A h \in 1..m : 1 + h \in 1..(m + 2) /\ (h # j => 1 + h # i)
    BY <1>1, <1>5
  <1>8. x[j] # c[j]
    BY <1>1, <1>2, <1>5, <1>6
  <1>9. \A h \in 1..m : h # j => x[h] = c[h]
    BY <1>1, <1>2, <1>6, <1>7
  <1>10. SubstitutedAt(c, x, j)
    BY <1>5, <1>6, <1>8, <1>9 DEF SubstitutedAt, m
  <1> QED
    BY <1>5, <1>10 DEF c, x, j

(* An exchange within the frame is one within the content, a place before.  *)
LEMMA InnerSwapped ==
  ASSUME NEW l \in Logs, NEW str, Framed(str),
         NEW i, SwappedAt(Write(l), str, i)
  PROVE  SwappedAt(Content(l), Inner(str), i - 1)
  <1> DEFINE w == Write(l)
             c == Content(l)
             m == Len(c)
             x == Inner(str)
             j == i - 1
  <1>1. /\ m \in Nat /\ m >= 8 /\ Len(w) = m + 2
        /\ w[1] = Caret /\ w[m + 2] = Dollar
        /\ \A h \in 1..m : w[1 + h] = c[h]
    BY WriteShape
  <1>2. /\ Len(str) = m + 2 /\ i \in 1..((m + 2) - 1)
        /\ str[i] # w[i] /\ str[i] = w[i + 1] /\ str[i + 1] = w[i]
        /\ \A h \in 1..(m + 2) : h # i /\ h # i + 1 => str[h] = w[h]
    BY <1>1 DEF SwappedAt
  <1>3. str[1] = Caret /\ str[m + 2] = Dollar /\ str \in Seq(Codes)
    BY <1>2 DEF Framed
  <1> HIDE DEF w, c, m
  <1>4. i # 1 /\ i + 1 # m + 2
    BY <1>1, <1>2, <1>3
  <1>5. /\ j \in 1..(m - 1) /\ j \in 1..m /\ j + 1 \in 1..m
        /\ 1 + j = i /\ 1 + (j + 1) = i + 1
        /\ Len(str) >= 10 /\ Len(str) - 2 = m
    BY <1>1, <1>2, <1>4
  <1>6. Len(x) = m /\ \A h \in 1..m : x[h] = str[1 + h]
    BY <1>3, <1>5, InnerTyped
  <1> HIDE DEF x, j
  <1>7. \A h \in 1..m : /\ 1 + h \in 1..(m + 2)
                        /\ h # j /\ h # j + 1 => 1 + h # i /\ 1 + h # i + 1
    BY <1>1, <1>5
  <1>8. x[j] = str[i] /\ x[j + 1] = str[i + 1] /\ c[j] = w[i] /\ c[j + 1] = w[i + 1]
    BY <1>1, <1>5, <1>6
  <1>9. x[j] # c[j] /\ x[j] = c[j + 1] /\ x[j + 1] = c[j]
    BY <1>2, <1>8
  <1>10. \A h \in 1..m : h # j /\ h # j + 1 => x[h] = c[h]
    BY <1>1, <1>2, <1>6, <1>7
  <1>11. SwappedAt(c, x, j)
    BY <1>5, <1>6, <1>9, <1>10 DEF SwappedAt, m
  <1> QED
    BY <1>11 DEF c, x, j

(* If it leaves the last delimiter where it is, it does so in the content.  *)
LEMMA InnerDelim ==
  ASSUME NEW l \in Logs, NEW str \in Seq(Codes), Len(str) = Len(Write(l)),
         LastDelim(str) = LastDelim(Write(l))
  PROVE  LastDelim(Inner(str)) = LastDelim(Content(l))
  <1> DEFINE w == Write(l)
             c == Content(l)
             m == Len(c)
             x == Inner(str)
             k == LastOf(l)
             p == k + 1
  <1>1. /\ w \in Seq(Codes) /\ c \in Seq(Codes) /\ m \in Nat /\ m >= 8
        /\ Len(w) = m + 2 /\ w[m + 2] = Dollar
        /\ \A h \in 1..m : w[1 + h] = c[h]
    BY WriteShape
  <1>2. LastIs(c, k)
    BY ContentShape
  <1>3. k \in 1..m /\ c[k] = Delim /\ \A h \in (k + 1)..m : c[h] # Delim
    BY <1>2 DEF LastIs
  <1> HIDE DEF w, c, m, k
  <1>4. /\ p \in 1..(m + 2) /\ p # 0 /\ 1 + k = p
        /\ m + 2 >= 10 /\ (m + 2) - 2 = m /\ m + 2 \in Nat
    BY <1>1, <1>3
  <1>5. ASSUME NEW h \in (p + 1)..(m + 2) PROVE w[h] # Delim
    <2> DEFINE g == h - 1
    <2>1. h = m + 2 \/ (g \in (k + 1)..m /\ g \in 1..m /\ 1 + g = h)
      BY <1>1, <1>3
    <2>2. Dollar # Delim
      BY DEF Dollar, Delim
    <2> HIDE DEF g
    <2> QED
      BY <1>1, <1>3, <2>1, <2>2
  <1>6. w[p] = Delim
    BY <1>1, <1>3, <1>4
  <1> HIDE DEF p
  <1>7. LastIs(w, p)
    BY <1>1, <1>4, <1>5, <1>6 DEF LastIs
  <1>8. Len(str) = m + 2 /\ LastDelim(str) = LastDelim(w)
    BY <1>1 DEF w
  <1>9. LastIs(str, p)
    <2>1. LastDelim(w) = p
      BY <1>1, <1>4, <1>7, LastDelimIs
    <2> QED
      BY <1>4, <1>8, <2>1, LastDelimPoints
  <1>10. /\ str[p] = Delim
         /\ \A h \in (p + 1)..(m + 2) : str[h] # Delim
    BY <1>8, <1>9 DEF LastIs
  <1>11. Len(x) = m /\ \A h \in 1..m : x[h] = str[1 + h]
    BY <1>4, <1>8, InnerTyped
  <1> HIDE DEF x
  <1>12. LastIs(x, k)
    <2>1. x[k] = Delim
      BY <1>3, <1>4, <1>10, <1>11
    <2>2. \A h \in (k + 1)..m : h \in 1..m /\ 1 + h \in (p + 1)..(m + 2)
      BY <1>1, <1>3, <1>4
    <2>3. \A h \in (k + 1)..m : x[h] # Delim
      BY <1>10, <1>11, <2>2
    <2> QED
      BY <1>3, <1>11, <2>1, <2>3 DEF LastIs
  <1>13. LastDelim(x) = k
    BY <1>1, <1>11, <1>12, LastDelimIs
  <1>14. LastDelim(c) = k
    BY <1>1, <1>2, LastDelimIs DEF m, c, k
  <1> QED
    BY <1>13, <1>14 DEF x, c

(* A mistake that leaves no ^ or $ behind: the text is read as a whole, and *)
(* as what is in its frame.                                                 *)
FrameReads ==
  \/ text[1] # Caret /\ outcome = "rejected"
  \/ /\ Framed(text)
     /\ outcome = OutcomeOf(Inner(text)) /\ Incoming(text) = Inner(text)
     /\ parsed = IF outcome = "parsed" THEN Parse(Inner(text)) ELSE NoLog

(* Where the text still holds what frames one, and where it cannot.         *)
LEMMA FrameStays ==
  ASSUME TextInv, Plain(log), ~Reframed
  PROVE  /\ log \in Logs /\ text \in Seq(Codes)
         /\ Len(text) \in Nat /\ Len(text) >= 10
         /\ \A h \in 2..(Len(text) - 1) : text[h] \notin {Caret, Dollar}
         /\ text[1] # Dollar /\ text[Len(text)] # Caret
  <1> DEFINE L == Len(text)
             w == Write(log)
             m == Len(Content(log))
             F == {Caret, Dollar}
  <1>1. log \in Logs /\ text \in Seq(Codes) /\ L \in Nat /\ DOMAIN text = 1..L
    BY DEF TextInv, OneMistake
  <1>2. /\ m \in Nat /\ m >= 8 /\ Len(w) = m + 2
        /\ w[1] = Caret /\ w[m + 2] = Dollar
        /\ \A h \in 1..m : w[1 + h] = Content(log)[h]
    BY <1>1, WriteShape
  <1>3. L = m + 2
    <2>1. Len(text) = Len(w)
      BY DEF TextInv, OneMistake, SubstitutedAt, SwappedAt
    <2> QED
      BY <1>2, <2>1
  <1>4. \A h \in 1..m : Content(log)[h] \notin F
    BY <1>1, ContentPlain DEF Unframed
  <1>5. \A h \in 1..L : text[h] # w[h] => text[h] \notin F
    BY <1>1 DEF Reframed
  <1>6. Caret # Dollar /\ Caret \in F /\ Dollar \in F
    BY DEF Caret, Dollar
  <1> HIDE DEF w, m, L, F
  <1>7. /\ 1 \in 1..L /\ L \in 1..L /\ L >= 10
        /\ \A h \in 2..(L - 1) : h - 1 \in 1..m /\ 1 + (h - 1) = h /\ h \in 1..L
    BY <1>2, <1>3
  <1>8. \A h \in 2..(L - 1) : w[h] \notin F
    <2>1. \A h \in 2..(L - 1) : w[h] = Content(log)[h - 1]
      <3>1. \A h \in 1..m : w[1 + h] = Content(log)[h]
        BY <1>2
      <3> QED
        BY <1>7, <3>1
    <2> QED
      BY <1>4, <1>7, <2>1
  <1>9. \A h \in 2..(L - 1) : text[h] \notin F
    BY <1>5, <1>7, <1>8
  <1>10. text[1] # Dollar /\ text[L] # Caret
    BY <1>2, <1>3, <1>5, <1>6, <1>7
  <1> QED
    BY <1>1, <1>7, <1>9, <1>10 DEF L, F

(* Without a new ^ or $, what has been read is the content of the frame, or *)
(* a part without a frame, which is rejected.                               *)
LEMMA FramedReads ==
  ASSUME TextInv, Plain(log), ~Reframed, outcome # "sent"
  PROVE  FrameReads
  <1> DEFINE L == Len(text)
  <1>1. /\ text \in Seq(Codes) /\ L \in Nat /\ L >= 10
        /\ \A h \in 2..(L - 1) : text[h] # Caret /\ text[h] # Dollar
        /\ text[1] # Dollar /\ text[L] # Caret
    BY FrameStays
  <1>2. PICK c \in 0..L : \E n \in c..L : CutAt(c) /\ ReadFrom(c, n)
    BY DEF TextInv, ReadSome
  <1>3. PICK n \in c..L : CutAt(c) /\ ReadFrom(c, n)
    BY <1>2
  <1> DEFINE b == SubSeq(text, c + 1, n)
  <1>4. /\ HasEnd(b) /\ outcome = Verdict(b)
        /\ parsed = IF outcome = "parsed" THEN Parse(Incoming(b)) ELSE NoLog
    BY <1>3 DEF ReadFrom
  <1>5. /\ Len(b) = n - c /\ b \in Seq(Codes)
        /\ \A h \in 1..(n - c) : b[h] = text[c + h]
    BY <1>1, BufferTyped
  <1>6. c = 0 \/ (c \in 1..L /\ text[c] = Dollar)
    BY <1>3 DEF CutAt
  <1> HIDE DEF L, b
  <1>7. PICK i \in 1..(n - c) : text[c + i] = Dollar
    BY <1>4, <1>5 DEF HasEnd
  <1>8. \A h \in 1..L : text[h] = Dollar => h = L
    <2>1. \A h \in 1..L : h = 1 \/ h = L \/ h \in 2..(L - 1)
      BY <1>1
    <2> QED
      BY <1>1, <2>1
  <1>9. c = 0 /\ n = L /\ text[L] = Dollar
    <2>1. c + i \in 1..L
      BY <1>1
    <2>2. c + i = L
      BY <1>7, <1>8, <2>1
    <2>3. ~(c \in 1..L /\ text[c] = Dollar)
      <3>1. c # L
        BY <1>1, <2>2
      <3> QED
        BY <1>8, <3>1
    <2> QED
      BY <1>1, <1>6, <1>7, <2>2, <2>3
  <1>10. b = text
    <2>1. Len(b) = L
      BY <1>1, <1>5, <1>9
    <2>2. \A h \in 1..L : b[h] = text[h]
      <3>1. \A h \in 1..L : c + h = h /\ h \in 1..(n - c)
        BY <1>1, <1>9
      <3> QED
        BY <1>5, <3>1
    <2> QED
      BY <1>1, <1>5, <2>1, <2>2, SeqEqual DEF L
  <1>11. CASE text[1] # Caret
    <2>1. \A h \in 1..L : text[h] # Caret
      <3>1. \A h \in 1..L : h = 1 \/ h = L \/ h \in 2..(L - 1)
        BY <1>1
      <3> QED
        BY <1>1, <1>11, <3>1
    <2>2. Verdict(text) = "rejected"
      BY <1>1, <1>4, <1>10, <2>1, NothingOpens DEF L
    <2> QED
      BY <1>4, <1>10, <1>11, <2>2 DEF FrameReads
  <1>12. CASE text[1] = Caret
    <2>1. Framed(text)
      BY <1>1, <1>9, <1>12 DEF Framed, L
    <2>2. Opened(text, L)
      <3>1. L \in 1..L /\ L >= 4
            /\ \A h \in 1..(L - 1) : h = 1 \/ h \in 2..(L - 1)
        BY <1>1
      <3> QED
        BY <1>1, <1>9, <1>12, <3>1 DEF Opened, EndsAt, L
    <2>3. Incoming(text) = Inner(text) /\ Verdict(text) = OutcomeOf(Inner(text))
      BY <1>1, <2>2, OpenedRead DEF Inner, L
    <2> QED
      BY <1>4, <1>10, <2>1, <2>3 DEF FrameReads
  <1> QED
    BY <1>11, <1>12

(* An undamaged packet is accepted, and its header and message come back,   *)
(* whatever they are, as long as the message holds no ^ or $.               *)
THEOREM UndamagedAlwaysComesBack == Spec => []UndamagedComesBack
  <1>1. TextInv => UndamagedComesBack
    <2> SUFFICES ASSUME TextInv, outcome # "sent", Plain(log), damage = "none"
                 PROVE  /\ outcome = "parsed"
                        /\ parsed.header = log.header
                        /\ parsed.message = Split(log.message \o <<Delim>>)[1]
      BY DEF UndamagedComesBack, Received
    <2>1. log \in Logs /\ text = Write(log) /\ ~Reframed
      BY DEF TextInv, OneMistake, Reframed
    <2>2. text[1] = Caret /\ Inner(text) = Content(log)
      BY <2>1, WriteShape, OwnInner
    <2> DEFINE c == Content(log)
    <2>3. /\ outcome = OutcomeOf(c)
          /\ parsed = IF outcome = "parsed" THEN Parse(c) ELSE NoLog
      BY <2>1, <2>2, FramedReads DEF FrameReads
    <2>4. /\ OutcomeOf(c) = "parsed" /\ Split(c)[1] = log.header
          /\ Split(c)[3] = Split(log.message \o <<Delim>>)[1]
      BY <2>1, UndamagedParts
    <2> HIDE DEF c
    <2>5. parsed.header = Split(c)[1] /\ parsed.message = Split(c)[3]
      BY <2>3, <2>4 DEF Parse
    <2> QED
      BY <2>3, <2>4, <2>5
  <1> QED
    BY <1>1, TextKept, PTL

(* The digits of a timestamp stand for it in base 16 and are read in base   *)
(* 10: every timestamp from 10 on comes back too small, in every packet     *)
(* whose message holds no ^ or $.                                           *)
THEOREM TimestampAlwaysReadsLow == Spec => []TimestampReadsLow
  <1>1. TextInv => TimestampReadsLow
    <2> SUFFICES ASSUME TextInv, outcome = "parsed", Plain(log), damage = "none"
                 PROVE  /\ ValueOf(16, Split(Incoming(text))[2]) = log.timestamp
                        /\ parsed.timestamp <= log.timestamp
                        /\ parsed.timestamp = log.timestamp <=> log.timestamp < 10
      BY DEF TimestampReadsLow
    <2>1. log \in Logs /\ text = Write(log) /\ ~Reframed
      BY DEF TextInv, OneMistake, Reframed
    <2>2. text[1] = Caret /\ Inner(text) = Content(log)
      BY <2>1, WriteShape, OwnInner
    <2> DEFINE c == Content(log)
               v == log.timestamp
    <2>3. parsed = Parse(c) /\ Incoming(text) = c
      BY <2>1, <2>2, FramedReads DEF FrameReads
    <2>4. v \in Nat /\ 16 \in {10, 16}
      BY <2>1, TextAssumption
    <2>5. Split(c)[2] = Digits(16, v)
      BY <2>1, UndamagedParts DEF Stamp
    <2> HIDE DEF c
    <2>6. parsed.timestamp = LeadingNumber(Digits(16, v))
      BY <2>3, <2>5 DEF Parse
    <2>7. ValueOf(16, Digits(16, v)) = v
      BY <2>4, ValueOfDigits
    <2> QED
      BY <2>3, <2>4, <2>5, <2>6, <2>7, ReadsLow
  <1> QED
    BY <1>1, TextKept, PTL

(* What the checksum notices of one substituted character, in texts of any  *)
(* length: everything, but for a weight of 0, a weight of 27 or more, the   *)
(* delimiter in front of the checksum, and a character read as a ^ or a $.  *)
THEOREM SubstitutionAlwaysCaught == Spec => []SubstitutionCaught
  <1>1. TextInv => SubstitutionCaught
    <2> SUFFICES ASSUME TextInv, outcome # "sent", Plain(log),
                        damage = "substituted", outcome # "rejected",
                        LastDelim(text) = LastDelim(Write(log)), ~Reframed
                 PROVE  \E i \in DOMAIN text :
                          text[i] # Write(log)[i] /\ (i = 2 \/ i > 28)
      BY DEF SubstitutionCaught, Received
    <2> DEFINE q == Inner(text)
    <2>1. log \in Logs /\ text \in Seq(Codes)
      BY DEF TextInv, OneMistake
    <2>2. Framed(text) /\ outcome = OutcomeOf(q)
      BY FramedReads DEF FrameReads
    <2>3. PICK i \in Nat : SubstitutedAt(Write(log), text, i)
      BY DEF TextInv, OneMistake
    <2> DEFINE j == i - 1
    <2>4. SubstitutedAt(Content(log), q, j)
      BY <2>1, <2>2, <2>3, InnerSubstituted
    <2>5. Accepted(q)
      BY <2>2 DEF OutcomeOf
    <2>6. q \in Seq(Codes)
      BY <2>1, <2>2, InnerTyped DEF Framed
    <2>7. LastDelim(q) = LastDelim(Content(log))
      BY <2>1, <2>3, InnerDelim DEF SubstitutedAt
    <2> HIDE DEF q, j
    <2>8. Variant(q, log)
      BY <2>1, <2>4, <2>6, <2>7, DelimStays DEF SubstitutedAt
    <2>9. j = 1 \/ j > 27
      BY <2>4, <2>5, <2>8, SubstitutionNoticed
    <2>10. i \in DOMAIN text /\ text[i] # Write(log)[i]
      BY <2>1, <2>3 DEF SubstitutedAt
    <2> QED
      BY <2>9, <2>10 DEF j
  <1> QED
    BY <1>1, TextKept, PTL

(* A content that has lost its last character is not accepted: what is      *)
(* behind the last delimiter is too short for the checksum.                 *)
LEMMA ShortNoticed ==
  ASSUME NEW l \in Logs, NEW q \in Seq(Codes), Len(q) = Len(Content(l)) - 1,
         \A h \in 1..Len(q) : q[h] = Content(l)[h]
  PROVE  ~Accepted(q)
  <1> DEFINE c == Content(l)
             k == LastOf(l)
             n == Len(Checksum(Body(l)))
             p == SubSeq(q, 1, k - 1)
             s == SubSeq(q, k + 1, Len(q))
  <1>1. /\ c \in Seq(Codes) /\ Len(c) = k + n /\ LastIs(c, k)
        /\ n \in Nat /\ n >= 1 /\ k \in Nat /\ k >= 7 /\ Len(Body(l)) = k - 1
    BY ContentShape, Lengths
  <1>2. /\ Len(q) = (k + n) - 1 /\ \A h \in 1..Len(q) : q[h] = c[h]
    BY <1>1
  <1> HIDE DEF c, k, n
  <1>3. /\ k \in 1..Len(c) /\ c[k] = Delim
        /\ \A h \in (k + 1)..Len(c) : c[h] # Delim
    BY <1>1 DEF LastIs
  <1>4. /\ Len(q) \in Nat /\ k \in 1..Len(q) /\ k - 1 \in 0..Len(q)
        /\ k \in 0..Len(q) /\ Len(q) \in k..Len(q) /\ Len(q) - k = n - 1
        /\ \A h \in (k + 1)..Len(q) : h \in 1..Len(q) /\ h \in (k + 1)..Len(c)
    BY <1>1, <1>2
  <1>5. LastIs(q, k)
    BY <1>2, <1>3, <1>4 DEF LastIs
  <1>6. Accepted(q) <=> Checksum(p) = s
    BY <1>4, <1>5, AcceptedAt
  <1>7. Len(s) = n - 1
    BY <1>4, BufferTyped
  <1>8. p = Body(l)
    <2>1. Ahead(c, l) = Body(l) /\ Variant(c, l)
      BY UndamagedAccepted DEF c
    <2>2. /\ Body(l) \in Seq(Codes)
          /\ \A h \in 1..(k - 1) : Body(l)[h] = c[h]
      BY <2>1, VariantParts DEF k
    <2> DEFINE o == 0
               e == k - 1
    <2>3. o \in 0..Len(q) /\ e \in o..Len(q) /\ o + 1 = 1 /\ e - o = k - 1
          /\ \A h \in 1..(k - 1) : o + h = h /\ h \in 1..Len(q)
      BY <1>1, <1>4
    <2>4. /\ SubSeq(q, o + 1, e) \in Seq(Codes)
          /\ Len(SubSeq(q, o + 1, e)) = e - o
          /\ \A h \in 1..(e - o) : SubSeq(q, o + 1, e)[h] = q[o + h]
      <3> HIDE DEF o, e
      <3> QED
        BY <2>3, BufferTyped
    <2>5. p = SubSeq(q, o + 1, e)
      <3>1. o + 1 = 1
        OBVIOUS
      <3> HIDE DEF o
      <3> QED
        BY <3>1
    <2> HIDE DEF o, e, p
    <2>6. /\ p \in Seq(Codes) /\ Len(p) = k - 1
          /\ \A h \in 1..(k - 1) : p[h] = q[h]
      BY <2>3, <2>4, <2>5
    <2>7. \A h \in 1..(k - 1) : p[h] = Body(l)[h]
      BY <1>2, <2>2, <2>3, <2>6
    <2> QED
      BY <1>1, <2>2, <2>6, <2>7, SeqEqual
  <1> HIDE DEF p, s
  <1>9. n # n - 1
    BY <1>1
  <1> QED
    BY <1>6, <1>7, <1>8, <1>9 DEF n

(* Nor is a packet whose $ has changed places with the last digit of its    *)
(* checksum: it ends one character early, and nothing is read behind it.    *)
LEMMA EarlyEndNoticed ==
  ASSUME TextInv, Plain(log), outcome # "sent",
         SwappedAt(Write(log), text, Len(text) - 1)
  PROVE  outcome = "rejected"
  <1> DEFINE L == Len(text)
             w == Write(log)
             m == Len(Content(log))
             i == L - 1
  <1>1. log \in Logs /\ text \in Seq(Codes) /\ L \in Nat
    BY DEF TextInv, OneMistake
  <1>2. /\ m \in Nat /\ m >= 8 /\ Len(w) = m + 2
        /\ w[1] = Caret /\ w[m + 2] = Dollar
        /\ \A h \in 1..m : w[1 + h] = Content(log)[h]
    BY <1>1, WriteShape
  <1>3. /\ L = m + 2 /\ text[i] = w[i + 1] /\ text[i + 1] = w[i]
        /\ \A h \in 1..(m + 2) : h # i /\ h # i + 1 => text[h] = w[h]
    BY <1>2 DEF SwappedAt
  <1>4. \A h \in 1..m : /\ Content(log)[h] # Caret
                        /\ Content(log)[h] # Dollar
    BY <1>1, ContentPlain DEF Unframed
  <1>5. Caret # Dollar
    BY DEF Caret, Dollar
  <1> HIDE DEF w, m
  <1>6. /\ i = m + 1 /\ i + 1 = L /\ i = 1 + m /\ m \in 1..m /\ i \in 1..L
        /\ L >= 10 /\ i >= 4 /\ i \in Nat
        /\ 1 \in 1..(m + 2) /\ 1 # i /\ 1 # i + 1
        /\ \A h \in 1..(m - 1) : /\ 1 + h \in 1..(m + 2) /\ h \in 1..m
                                 /\ 1 + h # i /\ 1 + h # i + 1
    BY <1>2, <1>3
  <1> HIDE DEF i
  <1>7. text[1] = Caret /\ text[i] = Dollar
        /\ text[L] # Caret /\ text[L] # Dollar
    <2>1. text[1] = w[1] /\ w[1] = Caret
      BY <1>2, <1>3, <1>6
    <2>2. text[i] = w[L] /\ w[L] = Dollar
      <3> HIDE DEF L
      <3> QED
        BY <1>2, <1>3, <1>6
    <2>3. text[L] = w[i] /\ w[i] = Content(log)[m]
      <3> HIDE DEF L
      <3> QED
        BY <1>2, <1>3, <1>6
    <2>4. Content(log)[m] # Caret /\ Content(log)[m] # Dollar
      BY <1>4, <1>6
    <2> QED
      BY <2>1, <2>2, <2>3, <2>4
  <1>8. \A h \in 1..(m - 1) : text[1 + h] = Content(log)[h]
    BY <1>2, <1>3, <1>6
  <1>9. \A h \in 2..(i - 1) : text[h] # Caret /\ text[h] # Dollar
    <2>0. m \in Nat /\ i = m + 1
      BY <1>2, <1>6
    <2>1. \A h \in 2..(i - 1) : h - 1 \in 1..(m - 1) /\ 1 + (h - 1) = h
                                /\ h - 1 \in 1..m
      BY <2>0, SMTT(30)
    <2> QED
      BY <1>4, <1>8, <2>1
  <1>10. PICK c \in 0..L : \E n \in c..L : CutAt(c) /\ ReadFrom(c, n)
    BY DEF TextInv, ReadSome
  <1>11. PICK n \in c..L : CutAt(c) /\ ReadFrom(c, n)
    BY <1>10
  <1> DEFINE b == SubSeq(text, c + 1, n)
  <1>12. HasEnd(b) /\ outcome = Verdict(b)
    BY <1>11 DEF ReadFrom
  <1>13. /\ Len(b) = n - c /\ b \in Seq(Codes)
         /\ \A h \in 1..(n - c) : b[h] = text[c + h]
    BY <1>1, BufferTyped
  <1>14. c = 0 \/ (c \in 1..L /\ text[c] = Dollar)
    BY <1>11 DEF CutAt
  <1> HIDE DEF L, b
  <1>15. \A h \in 1..L : text[h] = Dollar => h = i
    <2>1. i \in Nat /\ L = i + 1
      BY <1>6
    <2>2. \A h \in 1..L : h = 1 \/ h = L \/ h = i \/ h \in 2..(i - 1)
      BY <2>1, SMTT(30)
    <2> QED
      BY <1>5, <1>7, <1>9, <2>2
  <1>16. PICK g \in 1..(n - c) : text[c + g] = Dollar
    BY <1>12, <1>13 DEF HasEnd
  <1>17. c = 0 /\ i \in 1..n
    <2>1. c + g \in 1..L /\ c + g <= n /\ c \in Nat /\ g >= 1
      BY <1>1
    <2>2. c + g = i
      BY <1>15, <1>16, <2>1
    <2>3. ~(c \in 1..L /\ text[c] = Dollar)
      <3>1. c # i
        BY <1>6, <2>1, <2>2
      <3> QED
        BY <1>15, <3>1
    <2> QED
      BY <1>6, <1>14, <2>1, <2>2, <2>3
  <1>18. Len(b) = n /\ n \in Nat /\ \A h \in 1..n : b[h] = text[h]
    <2>1. n - c = n /\ n \in Nat /\ \A h \in 1..n : c + h = h
      BY <1>1, <1>17
    <2> QED
      BY <1>13, <2>1
  <1>19. Opened(b, i)
    <2>1. /\ 1 \in 1..n /\ \A h \in 1..(i - 1) : h \in 1..n
          /\ \A h \in 1..(i - 1) : h = 1 \/ h \in 2..(i - 1)
          /\ \A h \in 2..(i - 1) : h \in 1..n
      BY <1>6, <1>17, <1>18
    <2> QED
      BY <1>5, <1>6, <1>7, <1>9, <1>17, <1>18, <2>1 DEF Opened, EndsAt
  <1> DEFINE q == SubSeq(b, 2, i - 1)
  <1>20. Verdict(b) = OutcomeOf(q)
    BY <1>13, <1>19, OpenedRead
  <1>21. /\ q \in Seq(Codes) /\ Len(q) = m - 1
         /\ \A h \in 1..(m - 1) : q[h] = b[1 + h]
    <2> DEFINE o == 1
               e == i - 1
    <2>1. /\ o \in 0..Len(b) /\ e \in o..Len(b) /\ o + 1 = 2 /\ e - o = m - 1
      BY <1>6, <1>17, <1>18
    <2>2. /\ SubSeq(b, o + 1, e) \in Seq(Codes)
          /\ Len(SubSeq(b, o + 1, e)) = e - o
          /\ \A h \in 1..(e - o) : SubSeq(b, o + 1, e)[h] = b[o + h]
      <3> HIDE DEF o, e
      <3> QED
        BY <1>13, <2>1, BufferTyped
    <2>3. q = SubSeq(b, o + 1, e)
      <3>1. o + 1 = 2
        OBVIOUS
      <3> HIDE DEF o
      <3> QED
        BY <3>1
    <2> HIDE DEF e, q
    <2> QED
      BY <2>1, <2>2, <2>3
  <1> HIDE DEF q
  <1>22. \A h \in 1..Len(q) : q[h] = Content(log)[h]
    <2>1. \A h \in 1..(m - 1) : 1 + h \in 1..n
      BY <1>6, <1>17, <1>18
    <2> QED
      BY <1>8, <1>18, <1>21, <2>1
  <1>23. ~Accepted(q)
    BY <1>1, <1>21, <1>22, ShortNoticed DEF m
  <1> QED
    BY <1>12, <1>20, <1>23 DEF OutcomeOf

(* What it notices of two neighbours that have changed places: everything,  *)
(* but for the delimiter in front of it, and for the ^.                     *)
THEOREM SwapAlwaysCaught == Spec => []SwapCaught
  <1>1. TextInv => SwapCaught
    <2> SUFFICES ASSUME TextInv, outcome # "sent", Plain(log),
                        damage = "swapped",
                        LastDelim(text) = LastDelim(Write(log)),
                        text[2] # Caret
                 PROVE  outcome = "rejected"
      BY DEF SwapCaught, Received
    <2> DEFINE L == Len(text)
               w == Write(log)
               m == Len(Content(log))
               q == Inner(text)
    <2>1. log \in Logs /\ text \in Seq(Codes) /\ L \in Nat /\ DOMAIN text = 1..L
      BY DEF TextInv, OneMistake
    <2>2. PICK i \in Nat : SwappedAt(w, text, i)
      BY DEF TextInv, OneMistake
    <2>3. /\ m \in Nat /\ m >= 8 /\ Len(w) = m + 2
          /\ w[1] = Caret
          /\ \A h \in 1..m : w[1 + h] = Content(log)[h]
      BY <2>1, WriteShape
    <2>4. /\ L = m + 2 /\ i \in 1..(L - 1)
          /\ text[i] = w[i + 1] /\ text[i + 1] = w[i]
          /\ \A h \in 1..L : h # i /\ h # i + 1 => text[h] = w[h]
      BY <2>2, <2>3 DEF SwappedAt
    <2> HIDE DEF L, w, m
    <2>5. i # 1
      <3> SUFFICES ASSUME i = 1 PROVE FALSE
        OBVIOUS
      <3>1. i + 1 = 2
        OBVIOUS
      <3> QED
        BY <2>3, <2>4, <3>1
    <2>6. CASE i = L - 1
      BY <2>2, <2>6, EarlyEndNoticed DEF L, w
    <2>7. CASE i # L - 1
      <3>1. /\ i \in 2..(L - 2) /\ 1 + (i - 1) = i /\ 1 + i = i + 1
            /\ i - 1 \in 1..m /\ i \in 1..m /\ 1 \in 1..L /\ 1 # i + 1
        BY <2>3, <2>4, <2>5, <2>7
      <3>2. text[1] = Caret
        BY <2>3, <2>4, <2>5, <3>1
      <3>3. ~Reframed
        <4>1. \A h \in 1..m : Content(log)[h] \notin {Caret, Dollar}
          BY <2>1, ContentPlain DEF Unframed, m
        <4>2. w[i] \notin {Caret, Dollar} /\ w[i + 1] \notin {Caret, Dollar}
          BY <2>3, <3>1, <4>1
        <4>3. \A h \in 1..L : text[h] # w[h] => text[h] \notin {Caret, Dollar}
          BY <2>4, <4>2
        <4> QED
          BY <2>1, <4>3 DEF Reframed, w
      <3>4. Framed(text) /\ outcome = OutcomeOf(q)
        BY <3>2, <3>3, FramedReads DEF FrameReads
      <3>5. SwappedAt(Content(log), q, i - 1)
        BY <2>1, <2>2, <3>4, InnerSwapped DEF w
      <3>6. q \in Seq(Codes)
        BY <2>1, <3>4, InnerTyped DEF Framed
      <3>7. LastDelim(q) = LastDelim(Content(log))
        BY <2>1, <2>2, InnerDelim DEF SwappedAt, w
      <3> HIDE DEF q
      <3>8. Variant(q, log)
        BY <2>1, <3>5, <3>6, <3>7, DelimStays DEF SwappedAt
      <3>9. ~Accepted(q)
        BY <3>5, <3>8, SwapNoticed
      <3> QED
        BY <3>4, <3>9 DEF OutcomeOf
    <2> QED
      BY <2>6, <2>7
  <1> QED
    BY <1>1, TextKept, PTL

----------------------------------------------------------------------------
(* The decimal digits of a number of up to three.                           *)
OneDigit(v, s) == v \in 0..9 /\ Len(s) = 1 /\ s[1] = 48 + v
TensOf(v, s, a, b) ==
  v = 10 * a + b /\ Len(s) = 2 /\ s[1] = 48 + a /\ s[2] = 48 + b
TwoDigits(v, s) == \E a \in 1..9, b \in 0..9 : TensOf(v, s, a, b)
HundredsOf(v, s, a, b, c) ==
  /\ v = 100 * a + 10 * b + c
  /\ Len(s) = 3 /\ s[1] = 48 + a /\ s[2] = 48 + b /\ s[3] = 48 + c
ThreeDigits(v, s) ==
  \E a \in 1..9, b \in 0..9, c \in 0..9 : HundredsOf(v, s, a, b, c)

(* Every number below 999 is written with one, two or three of them.        *)
LEMMA DecimalDigits ==
  ASSUME NEW v \in Nat, v <= 998
  PROVE  \/ OneDigit(v, Digits(10, v))
         \/ TwoDigits(v, Digits(10, v))
         \/ ThreeDigits(v, Digits(10, v))
  <1>1. \A w \in Nat :
          /\ Digits(10, w) \in Seq(Int)
          /\ w < 10 => Digits(10, w) = <<DigitOf(w)>>
          /\ w >= 10 => Digits(10, w) = Append(Digits(10, w \div 10), DigitOf(w % 10))
    <2>1. 10 \in {10, 16}
      OBVIOUS
    <2>2. \A w \in Nat :
            Digits(10, w) = IF w < 10 THEN <<DigitOf(w)>>
                            ELSE Append(Digits(10, w \div 10), DigitOf(w % 10))
      BY <2>1, DigitsUnfold
    <2>3. \A w \in Nat : w >= 10 => ~(w < 10)
      OBVIOUS
    <2>4. \A w \in Nat : Digits(10, w) \in Seq(Int)
      <3> DEFINE C == DigitCodes(10)
      <3>1. C \subseteq Int
        BY DEF DigitCodes
      <3>2. \A w \in Nat : Digits(10, w) \in Seq(C)
        BY <2>1, DigitsTyped
      <3> HIDE DEF C
      <3> QED
        BY <3>1, <3>2, SeqMonotonic
    <2> QED
      BY <2>2, <2>3, <2>4
  <1>2. \A d \in 0..9 : DigitOf(d) = 48 + d /\ 48 + d \in Int /\ d < 10
    BY DEF DigitOf
  <1>3. ASSUME NEW s \in Seq(Int), NEW c \in Int
        PROVE  /\ Len(s) = 1 => /\ Len(Append(s, c)) = 2 /\ Append(s, c)[1] = s[1]
                                /\ Append(s, c)[2] = c
               /\ Len(s) = 2 => /\ Len(Append(s, c)) = 3 /\ Append(s, c)[1] = s[1]
                                /\ Append(s, c)[2] = s[2] /\ Append(s, c)[3] = c
    <2> DEFINE a == Append(s, c)
               n == Len(s)
    <2>1. /\ Len(a) = n + 1 /\ a[n + 1] = c
          /\ \A i \in 1..n : a[i] = s[i]
      OBVIOUS
    <2> HIDE DEF a, n
    <2>2. n = 1 => Len(a) = 2 /\ a[1] = s[1] /\ a[2] = c
      BY <2>1
    <2>3. n = 2 => Len(a) = 3 /\ a[1] = s[1] /\ a[2] = s[2] /\ a[3] = c
      BY <2>1
    <2> QED
      BY <2>2, <2>3 DEF a, n
  <1>4. \A d \in 0..9 : Len(Digits(10, d)) = 1 /\ Digits(10, d)[1] = 48 + d
    <2> SUFFICES ASSUME NEW d \in 0..9
                 PROVE  Len(Digits(10, d)) = 1 /\ Digits(10, d)[1] = 48 + d
      OBVIOUS
    <2>1. d \in Nat /\ d < 10 /\ DigitOf(d) = 48 + d
      BY <1>2
    <2>2. Digits(10, d) = <<DigitOf(d)>>
      BY <1>1, <2>1
    <2> QED
      BY <2>1, <2>2
  <1>5. \A u \in 0..99 : u >= 10 => TwoDigits(u, Digits(10, u))
    <2> SUFFICES ASSUME NEW u \in 0..99, u >= 10
                 PROVE  TwoDigits(u, Digits(10, u))
      OBVIOUS
    <2> DEFINE a == u \div 10
               b == u % 10
               s == Digits(10, a)
    <2>1. u \in Nat /\ a \in 1..9 /\ b \in 0..9 /\ u = 10 * a + b
      BY Z3
    <2>2. Digits(10, u) = Append(Digits(10, a), DigitOf(b))
      BY <1>1, <2>1
    <2> HIDE DEF a, b
    <2>3. a \in 0..9 /\ a \in Nat /\ DigitOf(b) = 48 + b /\ 48 + b \in Int
      BY <1>2, <2>1
    <2>4. s \in Seq(Int) /\ Len(s) = 1 /\ s[1] = 48 + a
      BY <1>1, <1>4, <2>3
    <2> HIDE DEF s
    <2>5. Len(Append(s, 48 + b)) = 2 /\ Append(s, 48 + b)[1] = 48 + a
          /\ Append(s, 48 + b)[2] = 48 + b
      BY <1>3, <2>3, <2>4
    <2>6. Digits(10, u) = Append(s, 48 + b)
      BY <2>2, <2>3 DEF s
    <2>7. TensOf(u, Append(s, 48 + b), a, b)
      BY <2>1, <2>5 DEF TensOf
    <2>8. TwoDigits(u, Append(s, 48 + b))
      BY <2>1, <2>7, Zenon DEF TwoDigits
    <2> QED
      BY <2>6, <2>8
  <1>6. CASE v < 10
    <2>1. v \in 0..9
      BY <1>6
    <2> QED
      BY <1>4, <2>1 DEF OneDigit
  <1>7. CASE v >= 10 /\ v <= 99
    <2>1. v \in 0..99
      BY <1>7
    <2> QED
      BY <1>5, <1>7, <2>1
  <1>8. CASE v > 99
    <2> DEFINE u == v \div 10
               c == v % 10
               s == Digits(10, u)
    <2>1. u \in Nat /\ u \in 0..99 /\ u >= 10 /\ c \in 0..9 /\ v = 10 * u + c
      BY <1>8, Z3
    <2>2. Digits(10, v) = Append(Digits(10, u), DigitOf(c))
      <3>1. v >= 10
        BY <1>8
      <3> QED
        BY <1>1, <3>1
    <2> HIDE DEF u, c
    <2>3. DigitOf(c) = 48 + c /\ 48 + c \in Int
      BY <1>2, <2>1
    <2>4. u \in 0..99 /\ u >= 10 /\ u \in Nat
      BY <2>1
    <2>5. s \in Seq(Int) /\ TwoDigits(u, s)
      BY <1>1, <1>5, <2>4, Zenon
    <2> HIDE DEF s
    <2>6. PICK a \in 1..9, b \in 0..9 :
            u = 10 * a + b /\ Len(s) = 2 /\ s[1] = 48 + a /\ s[2] = 48 + b
      BY <2>5 DEF TwoDigits, TensOf
    <2>7. /\ Len(Append(s, 48 + c)) = 3 /\ Append(s, 48 + c)[1] = 48 + a
          /\ Append(s, 48 + c)[2] = 48 + b /\ Append(s, 48 + c)[3] = 48 + c
      BY <1>3, <2>3, <2>6, <2>5
    <2>8. v = 100 * a + 10 * b + c
      BY <2>1, <2>6
    <2>9. Digits(10, v) = Append(s, 48 + c)
      BY <2>2, <2>3 DEF s
    <2>10. /\ Len(Digits(10, v)) = 3 /\ Digits(10, v)[1] = 48 + a
          /\ Digits(10, v)[2] = 48 + b /\ Digits(10, v)[3] = 48 + c
      BY <2>7, <2>9
    <2>11. HundredsOf(v, Digits(10, v), a, b, c)
      BY <2>8, <2>10 DEF HundredsOf
    <2>12. c \in 0..9
      BY <2>1
    <2> QED
      BY <2>11, <2>12, Zenon DEF ThreeDigits
  <1> QED
    BY <1>6, <1>7, <1>8

(* Two numbers whose difference is known, and whose rests differ by r.      *)
RestsDiffer(a, b, d, r) == b - a = d /\ (a % 999) - (b % 999) = r

(* The weight of a delimiter in the places that the second one can have is  *)
(* never made up by a digit in front of the checksum, ...                   *)
LEMMA DelimShows ==
  \A a \in Int, b \in Int, n \in 5..15, c \in 1..9, f \in {10, 100} :
    ~RestsDiffer(a, b, 124 * n, f * c)
  <1> SUFFICES ASSUME NEW a \in Int, NEW b \in Int, NEW n \in 5..15,
                      NEW c \in 1..9, NEW f \in {10, 100}
               PROVE  ~RestsDiffer(a, b, 124 * n, f * c)
    OBVIOUS
  <1> SUFFICES ASSUME RestsDiffer(a, b, 124 * n, f * c)
               PROVE  FALSE
    OBVIOUS
  <1> DEFINE u == a \div 999
             v == b \div 999
             x == a % 999
             y == b % 999
             z == v - u
  <1>1. a = 999 * u + x /\ b = 999 * v + y /\ u \in Int /\ v \in Int
        /\ x \in Int /\ y \in Int
    BY Z3
  <1>2. b - a = 124 * n /\ x - y = f * c
    BY DEF RestsDiffer
  <1> HIDE DEF u, v, x, y
  <1>3. z \in Int /\ 999 * z = 124 * n + f * c
    <2>1. f * c \in Int /\ 124 * n \in Int
      OBVIOUS
    <2> QED
      BY <1>1, <1>2, <2>1
  <1> HIDE DEF z
  <1>4. CASE f = 10
    <2>1. 999 * z = 124 * n + 10 * c
      BY <1>3, <1>4
    <2> QED
      BY <1>3, <2>1, SMTT(60)
  <1>5. CASE f = 100
    <2>1. 999 * z = 124 * n + 100 * c
      BY <1>3, <1>5
    <2> QED
      BY <1>3, <2>1, SMTT(60)
  <1> QED
    BY <1>4, <1>5

(* ... nor by the only character of a message and a digit.                  *)
LEMMA DelimAndCharacterShow ==
  \A a \in Int, b \in Int, n \in 5..15, m \in 1..9, c \in 0..9 :
    ~RestsDiffer(a, b, 124 * n + (n + 1) * (48 + m), 100 * m + 10 * c)
  <1> TAKE a \in Int, b \in Int, n \in 5..15, m \in 1..9, c \in 0..9
  <1> SUFFICES ASSUME RestsDiffer(a, b, 124 * n + (n + 1) * (48 + m),
                                  100 * m + 10 * c)
               PROVE  FALSE
    OBVIOUS
  <1> DEFINE u == a \div 999
             v == b \div 999
             x == a % 999
             y == b % 999
             z == v - u
  <1>1. a = 999 * u + x /\ b = 999 * v + y /\ u \in Int /\ v \in Int
        /\ x \in Int /\ y \in Int
    BY Z3
  <1>2. b - a = 124 * n + (n + 1) * (48 + m) /\ x - y = 100 * m + 10 * c
    BY DEF RestsDiffer
  <1> HIDE DEF u, v, x, y
  <1> DEFINE e == (n + 1) * (48 + m)
  <1>3. z \in Int /\ 999 * z = 124 * n + e + 100 * m + 10 * c
    <2>1. e \in Int
      OBVIOUS
    <2> HIDE DEF e
    <2> QED
      BY <1>1, <1>2, <2>1 DEF e
  <1> HIDE DEF z
  <1>4. \/ n = 5 \/ n = 6 \/ n = 7 \/ n = 8 \/ n = 9 \/ n = 10 \/ n = 11
        \/ n = 12 \/ n = 13 \/ n = 14 \/ n = 15
    BY Z3
  <1> QED
    BY <1>3, <1>4, SMTT(60)

(* How the sum of a packet without its checksum goes on behind the digits   *)
(* of its timestamp: with the delimiter there, and a message of up to one   *)
(* character.                                                               *)
LEMMA SumOfShort ==
  ASSUME NEW l \in Logs, NEW p \in Seq(Codes), Len(p) = 4 + Len(Stamp(l)),
         \A h \in 1..Len(p) : p[h] = Body(l)[h]
  PROVE  /\ WeighedSum(p) \in Int /\ WeighedSum(Body(l)) \in Int
         /\ Len(l.message) = 0 =>
              WeighedSum(Body(l)) - WeighedSum(p) = 124 * Len(p)
         /\ Len(l.message) = 1 =>
              WeighedSum(Body(l)) - WeighedSum(p)
                = 124 * Len(p) + (Len(p) + 1) * l.message[1]
  <1> DEFINE b == Body(l)
             n == Len(p)
             g == Len(l.message)
             a == n + 1
             c == n + 2
             m == l.message[1]
  <1>1. /\ b \in Seq(Codes) /\ SumsOf(b) /\ SumsOf(p)
        /\ WeighedSum(p) \in Int /\ WeighedSum(b) \in Int
    BY BodyShape, TextTyped
  <1>2. n \in Nat /\ g \in Nat /\ Len(b) = n + 1 + g
    <2> DEFINE t == Len(Stamp(l))
    <2>1. t \in Nat /\ g \in Nat /\ Len(b) = 5 + t + g /\ n = 4 + t
      BY Lengths, BodyShape
    <2> HIDE DEF t, g, b, n
    <2> QED
      BY <2>1
  <1>3. b[a] = 124
    <2>1. b[5 + Len(Stamp(l))] = Delim
      BY BodyShape DEF Sections
    <2>2. 5 + Len(Stamp(l)) = a
      BY Lengths
    <2> QED
      BY <2>1, <2>2 DEF Delim
  <1>4. g = 1 => b[c] = m
    <2>1. \A i \in 1..g : b[5 + Len(Stamp(l)) + i] = l.message[i]
      BY BodyShape DEF Sections
    <2>2. 5 + Len(Stamp(l)) + 1 = c
      BY Lengths
    <2>3. g = 1 => 1 \in 1..g
      OBVIOUS
    <2> QED
      BY <2>1, <2>2, <2>3
  <1>5. g = 1 => m \in Int
    <2>1. l.message \in Seq(Codes)
      BY TextAssumption DEF IsText
    <2>2. \A i \in 1..g : l.message[i] \in Codes
      BY <2>1
    <2>3. g = 1 => 1 \in 1..g
      OBVIOUS
    <2> HIDE DEF g
    <2> QED
      BY <2>2, <2>3, CodesDiffer
  <1> HIDE DEF b, g, m
  <1>6. Sums(p)[n] = Sums(b)[n]
    <2>1. n <= Len(p) /\ n <= Len(b) /\ \A i \in 1..n : p[i] = b[i]
      BY <1>2 DEF b
    <2> QED
      BY <1>1, <1>2, <2>1, SumsAgree
  <1>7. WeighedSum(p) = Sums(p)[n] /\ WeighedSum(b) = Sums(b)[Len(b)]
    BY <1>1 DEF SumsOf
  <1> DEFINE s == WeighedSum(p)
  <1>8. Sums(b)[a] = s + n * 124
    <2>1. a \in 1..Len(b) /\ n = a - 1 /\ a \in Int /\ n \in Int
      BY <1>2
    <2> HIDE DEF a
    <2>2. Sums(b)[a] = Sums(b)[n] + n * b[a]
      BY <1>1, <2>1 DEF SumsOf
    <2> QED
      BY <1>3, <1>6, <1>7, <2>2
  <1>9. g = 1 => Sums(b)[c] = (s + n * 124) + (n + 1) * m
    <2> SUFFICES ASSUME g = 1 PROVE Sums(b)[c] = (s + n * 124) + (n + 1) * m
      OBVIOUS
    <2>1. c \in 1..Len(b) /\ a = c - 1 /\ c \in Int /\ a \in Int /\ a = n + 1
      BY <1>2
    <2> HIDE DEF a, c
    <2>2. Sums(b)[c] = Sums(b)[a] + a * b[c]
      BY <1>1, <2>1 DEF SumsOf
    <2> QED
      BY <1>4, <1>8, <2>1, <2>2
  <1> HIDE DEF s, n
  <1>10. s \in Int
    BY <1>1 DEF s
  <1>11. g = 0 => WeighedSum(b) - s = 124 * n
    <2>1. g = 0 => Len(b) = a
      BY <1>2
    <2> QED
      BY <1>2, <1>7, <1>8, <1>10, <2>1
  <1>12. g = 1 => WeighedSum(b) - s = 124 * n + (n + 1) * m
    <2> SUFFICES ASSUME g = 1 PROVE WeighedSum(b) - s = 124 * n + (n + 1) * m
      OBVIOUS
    <2> DEFINE e == (n + 1) * m
    <2>1. Len(b) = c /\ e \in Int
      BY <1>2, <1>5
    <2>2. WeighedSum(b) = (s + n * 124) + e
      BY <1>7, <1>9, <2>1
    <2> HIDE DEF e
    <2>3. WeighedSum(b) - s = 124 * n + e
      BY <1>2, <1>10, <2>1, <2>2
    <2> QED
      BY <2>3 DEF e
  <1> QED
    BY <1>1, <1>11, <1>12 DEF s, n, b, g, m

(* Without a delimiter in the message, a text that has lost its last one is *)
(* never accepted: the message, the character that took its place and the   *)
(* checksum would have to be the checksum of what is in front of them.      *)
LEMMA LostDelimNoticed ==
  ASSUME NEW l \in Logs, NEW str \in Seq(Codes),
         SubstitutedAt(Content(l), str, LastOf(l)),
         \A h \in 1..Len(l.message) : l.message[h] # Delim
  PROVE  ~Accepted(str)
  <1> SUFFICES ASSUME Accepted(str) PROVE FALSE
    OBVIOUS
  <1> DEFINE w == Content(l)
             k == LastOf(l)
             t == Len(Stamp(l))
             g == Len(l.message)
             s == Checksum(Body(l))
             n == Len(s)
             b == 5 + t
             m == Len(str)
             z == m + 1
             p == SubSeq(str, 1, b - 1)
             u == SubSeq(str, b + 1, z - 1)
             v == Residue(p)
             c == Residue(Body(l))
  <1>1. /\ t \in Nat /\ t >= 1 /\ t <= 11 /\ g \in Nat /\ k = 6 + t + g
        /\ n \in Nat /\ n >= 1 /\ m = k + n
    <2>1. /\ t \in Nat /\ t >= 1 /\ t <= 11 /\ g \in Nat /\ k = 6 + t + g
          /\ n \in Nat /\ n >= 1
      BY Lengths
    <2>2. m = Len(w) /\ Len(w) = k + n
      BY ContentShape DEF SubstitutedAt
    <2> HIDE DEF w, k, t, g, n, m
    <2> QED
      BY <2>1, <2>2
  <1>2. /\ str[k] # w[k]
        /\ \A h \in 1..m : h # k => str[h] = w[h]
    BY DEF SubstitutedAt
  <1>3. LastIs(w, k) /\ Sections(w, l) /\ Sections(Body(l), l)
    BY ContentShape, BodyShape
  <1>4. /\ w[k] = Delim /\ w[b] = Delim
        /\ \A h \in k + 1 .. Len(w) : w[h] # Delim
        /\ \A h \in 1..g : w[b + h] = l.message[h]
    BY <1>3 DEF LastIs, Sections
  <1>5. Len(w) = m /\ m \in Nat
    <2>1. Len(w) = m
      BY DEF SubstitutedAt
    <2>2. m \in Nat
      OBVIOUS
    <2> QED
      BY <2>1, <2>2
  <1>6. \A h \in 1..n : w[k + h] = s[h]
    <2>1. Variant(w, l) /\ Behind(w, l) = s
      BY UndamagedAccepted
    <2>2. \A h \in 1..(Len(w) - k) : Behind(w, l)[h] = w[k + h]
      <3> HIDE DEF w
      <3> QED
        BY <2>1, VariantParts
    <2>3. Len(w) - k = n
      BY <1>1, <1>5
    <2> QED
      BY <2>1, <2>2, <2>3
  <1>7. \A h \in 1..(4 + t) : Body(l)[h] = w[h]
    <2>1. Ahead(w, l) = Body(l) /\ Variant(w, l)
      BY UndamagedAccepted
    <2>2. \A h \in 1..(k - 1) : Ahead(w, l)[h] = w[h]
      <3> HIDE DEF w
      <3> QED
        BY <2>1, VariantParts
    <2>3. \A h \in 1..(4 + t) : h \in 1..(k - 1)
      <3> HIDE DEF k, t, g
      <3> QED
        BY <1>1
    <2> QED
      BY <2>1, <2>2, <2>3
  <1>8. Digits(10, c) = s /\ c \in Nat /\ c <= 998 /\ Body(l) \in Seq(Codes)
    <2>1. Body(l) \in Seq(Codes)
      BY BodyShape
    <2> QED
      BY <2>1, ChecksumTyped, ResidueTyped
  <1>9. g = 1 => l.message[1] \in Codes
    BY TextAssumption DEF IsText
  <1> HIDE DEF w, k, t, g, s, n, c, m
  <1>10. LastIs(str, b)
    <2>1. b \in 1..m /\ b # k /\ b < k
      BY <1>1
    <2>2. str[b] = Delim
      BY <1>2, <1>4, <2>1
    <2>3. ASSUME NEW h \in b + 1 .. m PROVE str[h] # Delim
      <3>1. CASE h = k
        BY <1>2, <1>4, <3>1
      <3>2. CASE h < k
        <4>1. h - b \in 1..g /\ b + (h - b) = h /\ h \in 1..m /\ h # k
          BY <1>1, <3>2
        <4>2. w[h] = l.message[h - b] /\ str[h] = w[h]
          BY <1>2, <1>4, <4>1
        <4> QED
          BY <4>1, <4>2 DEF g
      <3>3. CASE h > k
        <4>1. h \in k + 1 .. m /\ h \in 1..m /\ h # k
          BY <1>1, <3>3
        <4> QED
          BY <1>2, <1>4, <1>5, <4>1
      <3> QED
        BY <1>1, <3>1, <3>2, <3>3
    <2> HIDE DEF b
    <2> QED
      BY <2>1, <2>2, <2>3 DEF LastIs, m
  <1>11. /\ p \in Seq(Codes) /\ Len(p) = 4 + t
         /\ \A h \in 1..(4 + t) : p[h] = str[h]
    <2>1. /\ 1 \in 1..(m + 1) /\ b \in Nat /\ 1 <= b /\ b <= m + 1
          /\ b - 1 = 4 + t
      BY <1>1
    <2> HIDE DEF b
    <2>2. /\ p \in Seq(Codes) /\ Len(p) = b - 1
          /\ \A h \in 1..(b - 1) : p[h] = str[1 + h - 1]
      BY <2>1, PieceTyped DEF m
    <2>3. \A h \in 1..(4 + t) : 1 + h - 1 = h
      BY <1>1
    <2> HIDE DEF p
    <2> QED
      BY <2>1, <2>2, <2>3
  <1>12. /\ u \in Seq(Codes) /\ Len(u) = g + 1 + n
         /\ \A h \in 1..(g + 1 + n) : u[h] = str[b + h]
    <2>1. /\ b + 1 \in 1..(m + 1) /\ z \in Nat /\ b + 1 <= z /\ z <= m + 1
          /\ z - (b + 1) = g + 1 + n
      BY <1>1
    <2>2. \A h \in 1..(g + 1 + n) : (b + 1) + h - 1 = b + h
      BY <1>1
    <2> DEFINE x == b + 1
    <2>3. /\ SubSeq(str, x, z - 1) \in Seq(Codes)
          /\ Len(SubSeq(str, x, z - 1)) = z - x
          /\ \A h \in 1..(z - x) : SubSeq(str, x, z - 1)[h] = str[x + h - 1]
      <3>1. x \in 1..(m + 1) /\ z \in Nat /\ x <= z /\ z <= m + 1
        BY <2>1
      <3> HIDE DEF x, z
      <3> QED
        BY <3>1, PieceTyped DEF m
    <2> HIDE DEF z
    <2> QED
      BY <2>1, <2>2, <2>3
  <1>13. Digits(10, v) = u /\ v \in Nat /\ v <= 998
    <2>1. z - 1 = m
      BY <1>1
    <2>2. Checksum(p) = u
      <3>1. Len(str) \in Nat
        BY <1>5 DEF m
      <3> HIDE DEF b
      <3> QED
        BY <1>10, <2>1, <3>1, AcceptedAt DEF m
    <2> HIDE DEF p, u
    <2> QED
      BY <1>11, <2>2, ChecksumTyped, ResidueTyped
  <1> DEFINE q == 4 + t
             x == WeighedSum(p)
             y == WeighedSum(Body(l))
  <1>14. /\ x \in Int /\ y \in Int
         /\ g = 0 => y - x = 124 * q
         /\ g = 1 => y - x = 124 * q + (q + 1) * l.message[1]
    <2>1. \A h \in 1..q : p[h] = Body(l)[h]
      <3>1. \A h \in 1..q : h \in 1..m /\ h # k
        BY <1>1
      <3> QED
        BY <1>2, <1>7, <1>11, <3>1
    <2>2. /\ p \in Seq(Codes) /\ Len(p) = 4 + Len(Stamp(l))
          /\ \A h \in 1..Len(p) : p[h] = Body(l)[h]
      <3> HIDE DEF p
      <3> QED
        BY <1>11, <2>1 DEF t
    <2>3. Len(p) = q
      <3> HIDE DEF p
      <3> QED
        BY <1>11
    <2> HIDE DEF p, q
    <2>4. /\ WeighedSum(p) \in Int /\ WeighedSum(Body(l)) \in Int
          /\ Len(l.message) = 0 =>
               WeighedSum(Body(l)) - WeighedSum(p) = 124 * Len(p)
          /\ Len(l.message) = 1 =>
               WeighedSum(Body(l)) - WeighedSum(p)
                 = 124 * Len(p) + (Len(p) + 1) * l.message[1]
      BY <2>2, SumOfShort
    <2> QED
      BY <2>3, <2>4 DEF g
  <1>15. q \in 5..15
    BY <1>1
  <1>16. v = x % 999 /\ c = y % 999
    BY DEF Residue, c
  <1> HIDE DEF p, u, v, x, y, q, b
  <1>17. \A h \in 1..n : u[g + 1 + h] = s[h]
    <2> SUFFICES ASSUME NEW h \in 1..n PROVE u[g + 1 + h] = s[h]
      OBVIOUS
    <2>1. /\ g + 1 + h \in 1..(g + 1 + n) /\ b + (g + 1 + h) = k + h
          /\ k + h \in 1..m /\ k + h # k
      BY <1>1 DEF b
    <2> QED
      BY <1>2, <1>6, <1>12, <2>1
  <1>18. \/ OneDigit(v, u) \/ TwoDigits(v, u) \/ ThreeDigits(v, u)
    BY <1>13, DecimalDigits
  <1>19. \/ OneDigit(c, s) \/ TwoDigits(c, s) \/ ThreeDigits(c, s)
    BY <1>8, DecimalDigits
  <1>20. \/ g = 0 /\ n = 1 /\ Len(u) = 2
         \/ g = 0 /\ n = 2 /\ Len(u) = 3
         \/ g = 1 /\ n = 1 /\ Len(u) = 3
    <2>1. Len(u) = 1 \/ Len(u) = 2 \/ Len(u) = 3
      BY <1>18 DEF OneDigit, TwoDigits, TensOf, ThreeDigits, HundredsOf
    <2> QED
      BY <1>1, <1>12, <2>1
  <1>21. CASE g = 0 /\ n = 1 /\ Len(u) = 2
    <2>1. PICK d \in 1..9, e \in 0..9 : v = 10 * d + e /\ u[2] = 48 + e
      BY <1>18, <1>21 DEF OneDigit, TwoDigits, TensOf, ThreeDigits, HundredsOf
    <2>2. s[1] = 48 + c
      BY <1>19, <1>21 DEF OneDigit, TwoDigits, TensOf, ThreeDigits,
        HundredsOf, n
    <2>3. u[2] = s[1]
      <3>1. 1 \in 1..n /\ g + 1 + 1 = 2
        BY <1>21
      <3> QED
        BY <1>17, <3>1
    <2>4. v - c = 10 * d
      <3>1. c \in Int /\ 48 + e = 48 + c
        BY <1>8, <2>1, <2>2, <2>3
      <3>2. e = c
        BY <3>1
      <3> QED
        BY <2>1, <3>1, <3>2
    <2>5. RestsDiffer(x, y, 124 * q, 10 * d)
      BY <1>14, <1>16, <1>21, <2>4 DEF RestsDiffer
    <2>6. x \in Int /\ y \in Int
      BY <1>14
    <2>7. \A h \in 1..9 : ~RestsDiffer(x, y, 124 * q, 10 * h)
      BY <1>15, <2>6, DelimShows
    <2> QED
      BY <2>5, <2>7, Zenon
  <1>22. CASE g = 0 /\ n = 2 /\ Len(u) = 3
    <2>0. ThreeDigits(v, u)
      BY <1>18, <1>22 DEF OneDigit, TwoDigits, TensOf
    <2>1. PICK d \in 1..9, e \in 0..9, f \in 0..9 :
            /\ v = 100 * d + 10 * e + f
            /\ Len(u) = 3 /\ u[1] = 48 + d /\ u[2] = 48 + e /\ u[3] = 48 + f
      BY <2>0 DEF ThreeDigits, HundredsOf
    <2>2. PICK i \in 1..9, j \in 0..9 :
            c = 10 * i + j /\ s[1] = 48 + i /\ s[2] = 48 + j
      BY <1>19, <1>22 DEF OneDigit, TwoDigits, TensOf, ThreeDigits,
        HundredsOf, n
    <2>3. u[2] = s[1] /\ u[3] = s[2]
      <3>1. 1 \in 1..n /\ 2 \in 1..n /\ g + 1 + 1 = 2 /\ g + 1 + 2 = 3
        BY <1>22
      <3> QED
        BY <1>17, <3>1
    <2>4. v - c = 100 * d
      <3>0. 48 + e = 48 + i /\ 48 + f = 48 + j
        BY <2>1, <2>2, <2>3, Zenon
      <3>1. e = i /\ f = j
        BY <3>0
      <3> QED
        BY <2>1, <2>2, <3>1
    <2>5. RestsDiffer(x, y, 124 * q, 100 * d)
      BY <1>14, <1>16, <1>22, <2>4 DEF RestsDiffer
    <2>6. x \in Int /\ y \in Int
      BY <1>14
    <2>7. \A h \in 1..9 : ~RestsDiffer(x, y, 124 * q, 100 * h)
      BY <1>15, <2>6, DelimShows
    <2> QED
      BY <2>5, <2>7, Zenon
  <1>23. CASE g = 1 /\ n = 1 /\ Len(u) = 3
    <2>0. ThreeDigits(v, u)
      BY <1>18, <1>23 DEF OneDigit, TwoDigits, TensOf
    <2>1. PICK d \in 1..9, e \in 0..9, f \in 0..9 :
            /\ v = 100 * d + 10 * e + f
            /\ Len(u) = 3 /\ u[1] = 48 + d /\ u[2] = 48 + e /\ u[3] = 48 + f
      BY <2>0 DEF ThreeDigits, HundredsOf
    <2>2. s[1] = 48 + c
      BY <1>19, <1>23 DEF OneDigit, TwoDigits, TensOf, ThreeDigits,
        HundredsOf, n
    <2>3. u[3] = s[1] /\ u[1] = l.message[1]
      <3>1. 1 \in 1..n /\ g + 1 + 1 = 3 /\ 1 \in 1..g /\ 1 \in 1..(g + 1 + n)
            /\ b + 1 \in 1..m /\ b + 1 # k
        BY <1>1, <1>23 DEF b
      <3> QED
        BY <1>2, <1>4, <1>12, <1>17, <3>1
    <2>4. v - c = 100 * d + 10 * e
      BY <1>8, <2>1, <2>2, <2>3
    <2>5. RestsDiffer(x, y, 124 * q + (q + 1) * (48 + d), 100 * d + 10 * e)
      <3>1. y - x = 124 * q + (q + 1) * l.message[1]
        BY <1>14, <1>23
      <3>2. l.message[1] = 48 + d
        BY <2>1, <2>3
      <3>3. y - x = 124 * q + (q + 1) * (48 + d)
        BY <3>1, <3>2, Zenon
      <3> QED
        BY <1>16, <2>4, <3>3 DEF RestsDiffer
    <2> QED
      <3>1. x \in Int /\ y \in Int
        BY <1>14
      <3>2. \A h \in 1..9, j \in 0..9 :
              ~RestsDiffer(x, y, 124 * q + (q + 1) * (48 + h), 100 * h + 10 * j)
        BY <1>15, <3>1, DelimAndCharacterShow, Zenon
      <3> QED
        BY <2>5, <3>2, Zenon
  <1> QED
    BY <1>20, <1>21, <1>22, <1>23

----------------------------------------------------------------------------
(* A text that starts with a delimiter is rejected, or its header is empty  *)
(* and from_string throws.                                                  *)
LEMMA FirstThrows ==
  ASSUME NEW str \in Seq(Codes), Len(str) >= 1, str[1] = Delim
  PROVE  OutcomeOf(str) \in {"rejected", "throws"}
  <1>1. Len(str) \in Nat
    OBVIOUS
  <1> DEFINE a == 1
  <1>2. a \in Nat /\ NextIs(str, 1, a) /\ a <= Len(str) /\ a - 1 = 0
    BY <1>1 DEF NextIs
  <1> HIDE DEF a
  <1>3. Len(Split(str)[1]) = 0
    BY <1>2, SplitFirst
  <1> QED
    BY <1>3 DEF OutcomeOf

(* The places in a packet's own text that matter for the rest: the          *)
(* delimiters behind the header, behind the timestamp and in front of the   *)
(* checksum.                                                                *)
Second(l) == 5 + Len(Stamp(l))

(* Where the delimiters are in the text, and where none are.                *)
LEMMA Delimiters ==
  ASSUME NEW l \in Logs
  PROVE  /\ Second(l) \in Nat /\ Second(l) >= 6 /\ Second(l) <= 16
         /\ LastOf(l) \in Nat /\ LastOf(l) > Second(l)
         /\ LastOf(l) = Second(l) + 1 + Len(l.message) /\ Len(l.message) \in Nat
         /\ Content(l) \in Seq(Codes) /\ Len(Content(l)) \in Nat
         /\ Len(Content(l)) > LastOf(l)
         /\ \A h \in 1..3 : Content(l)[h] # Delim
         /\ Content(l)[4] = Delim /\ Content(l)[Second(l)] = Delim
         /\ Content(l)[LastOf(l)] = Delim
         /\ \A h \in LastOf(l) + 1 .. Len(Content(l)) : Content(l)[h] # Delim
         /\ \A h \in 1..Len(l.message) : Content(l)[Second(l) + h] = l.message[h]
  <1> DEFINE w == Content(l)
             k == LastOf(l)
             t == Len(Stamp(l))
             g == Len(l.message)
             n == Len(Checksum(Body(l)))
  <1>1. /\ t \in Nat /\ t >= 1 /\ t <= 11 /\ g \in Nat /\ k = 6 + t + g
        /\ n \in Nat /\ n >= 1
    BY Lengths
  <1>2. w \in Seq(Codes) /\ Len(w) = k + n /\ LastIs(w, k) /\ Sections(w, l)
    BY ContentShape
  <1>3. /\ \A h \in 1..3 : w[h] # Delim
        /\ w[4] = Delim /\ w[Second(l)] = Delim
        /\ \A h \in 1..g : w[Second(l) + h] = l.message[h]
    BY <1>2 DEF Sections, Second
  <1>4. w[k] = Delim /\ \A h \in k + 1 .. Len(w) : w[h] # Delim
    BY <1>2 DEF LastIs
  <1>5. Second(l) = 5 + t
    BY DEF Second
  <1> HIDE DEF w, k, t, g, n
  <1>6. /\ Second(l) \in Nat /\ Second(l) >= 6 /\ Second(l) <= 16
        /\ k \in Nat /\ k > Second(l) /\ k = Second(l) + 1 + g
        /\ Len(w) \in Nat /\ Len(w) > k
    BY <1>1, <1>2, <1>5
  <1> QED
    BY <1>1, <1>2, <1>3, <1>4, <1>6 DEF w, k, g

(* One substituted character: the text is still headed, or the checksum     *)
(* notices it, unless the first character has become a delimiter.           *)
LEMMA SubstitutionReads ==
  ASSUME NEW l \in Logs, NEW str \in Seq(Codes),
         NEW i, SubstitutedAt(Content(l), str, i), str[1] # Delim
  PROVE  OutcomeOf(str) \in {"rejected", "parsed"}
  <1> DEFINE w == Content(l)
             b == Second(l)
             k == LastOf(l)
             n == Len(str)
             g == Len(l.message)
  <1>1. /\ b \in Nat /\ b >= 6 /\ b <= 16 /\ k \in Nat /\ k > b
        /\ g \in Nat /\ k = b + 1 + g
        /\ n \in Nat /\ n > k /\ Len(w) = n
        /\ \A h \in 1..3 : w[h] # Delim
        /\ w[4] = Delim /\ w[b] = Delim /\ w[k] = Delim
        /\ \A h \in k + 1 .. n : w[h] # Delim
        /\ \A h \in 1..g : w[b + h] = l.message[h]
    BY Delimiters DEF SubstitutedAt
  <1>2. /\ i \in 1..n /\ str[i] # w[i]
        /\ \A h \in 1..n : h # i => str[h] = w[h]
    BY <1>1 DEF SubstitutedAt
  <1>3. Headed(str) => OutcomeOf(str) \in {"rejected", "parsed"}
    BY HeaderHolds
  <1>4. ~Accepted(str) => OutcomeOf(str) = "rejected"
    BY DEF OutcomeOf
  <1>5. i < k /\ i # 1 /\ i <= 27 => ~Accepted(str)
    <2> SUFFICES ASSUME i < k, i # 1, i <= 27, Accepted(str) PROVE FALSE
      OBVIOUS
    <2>1. str[k] = Delim /\ \A h \in k + 1 .. n : str[h] # Delim
      <3> HIDE DEF w, b, k, n, g
      <3>1. k \in Nat /\ n \in Nat /\ n > k /\ i \in 1..n /\ k > 6
        BY <1>1, <1>2
      <3>2. /\ k \in 1..n /\ k # i
            /\ \A h \in k + 1 .. n : h \in 1..n /\ h # i
        BY <3>1
      <3> QED
        BY <1>1, <1>2, <3>2
    <2>2. LastIs(str, k)
      BY <1>1, <2>1 DEF LastIs
    <2>3. Variant(str, l)
      BY <1>1, <2>2 DEF Variant
    <2>4. i = 1 \/ i > 27
      BY <2>3, SubstitutionNoticed
    <2> QED
      BY <1>1, <1>2, <2>4
  <1> HIDE DEF w, b, k, n, g
  <1>6. CASE i \in 1..3
    <2>1. CASE str[i] = Delim
      <3>1. i < k /\ i # 1 /\ i <= 27
        BY <1>1, <1>6, <2>1
      <3> QED
        BY <1>4, <1>5, <3>1
    <2>2. CASE str[i] # Delim
      <3>1. \A h \in 1..3 : str[h] # Delim
        <4>1. \A h \in 1..3 : h \in 1..n
          BY <1>1
        <4> QED
          BY <1>1, <1>2, <2>2, <4>1
      <3>2. /\ 4 \in 1..n /\ b \in 1..n /\ k \in 1..n
            /\ 4 # i /\ b # i /\ k # i /\ 4 < b /\ b < k
        BY <1>1, <1>6
      <3>3. 4 \in Delims(str) /\ b \in Delims(str) /\ k \in Delims(str)
        BY <1>1, <1>2, <3>2 DEF Delims, n
      <3> QED
        BY <1>3, <3>1, <3>2, <3>3 DEF Headed
    <2> QED
      BY <2>1, <2>2
  <1>7. CASE i = 4 \/ i = b
    <2>1. i < k /\ i # 1 /\ i <= 27
      BY <1>1, <1>7
    <2> QED
      BY <1>4, <1>5, <2>1
  <1>8. CASE i \notin 1..3 /\ i # 4 /\ i # b
    <2>1. /\ \A h \in 1..3 : h \in 1..n /\ h # i
          /\ 4 \in 1..n /\ b \in 1..n /\ k \in 1..n /\ 4 < b /\ b < k
      BY <1>1, <1>8
    <2>2. \A h \in 1..3 : str[h] # Delim
      BY <1>1, <1>2, <2>1
    <2>3. 4 \in Delims(str) /\ b \in Delims(str)
      BY <1>1, <1>2, <1>8, <2>1 DEF Delims, n
    <2>4. CASE i # k
      <3>1. k \in Delims(str)
        BY <1>1, <1>2, <2>1, <2>4 DEF Delims, n
      <3> QED
        BY <1>3, <2>1, <2>2, <2>3, <3>1 DEF Headed
    <2>5. CASE i = k /\ \E h \in 1..g : l.message[h] = Delim
      <3>1. PICK h \in 1..g : l.message[h] = Delim
        BY <2>5
      <3>2. b + h \in 1..n /\ b + h # k /\ b < b + h
        BY <1>1
      <3>3. b + h \in Delims(str)
        BY <1>1, <1>2, <2>5, <3>1, <3>2 DEF Delims, n
      <3>4. 4 < b
        BY <2>1
      <3>5. \E c, d \in Delims(str) : 4 < c /\ c < d
        BY <2>3, <3>2, <3>3, <3>4
      <3>6. Headed(str)
        BY <2>2, <2>3, <3>5 DEF Headed
      <3> QED
        BY <1>3, <3>6
    <2>6. CASE i = k /\ \A h \in 1..g : l.message[h] # Delim
      <3>1. ~Accepted(str)
        BY <2>6, LostDelimNoticed DEF k, g
      <3> QED
        BY <1>4, <3>1
    <2> QED
      BY <2>4, <2>5, <2>6
  <1> QED
    BY <1>6, <1>7, <1>8

(* Two neighbours that have changed places: the same, without exception.    *)
LEMMA SwapReads ==
  ASSUME NEW l \in Logs, NEW str \in Seq(Codes),
         NEW i, SwappedAt(Content(l), str, i)
  PROVE  OutcomeOf(str) \in {"rejected", "parsed"}
  <1> DEFINE w == Content(l)
             b == Second(l)
             k == LastOf(l)
             n == Len(str)
  <1>1. /\ b \in Nat /\ b >= 6 /\ k \in Nat /\ k > b
        /\ n \in Nat /\ n > k /\ Len(w) = n
        /\ \A h \in 1..3 : w[h] # Delim
        /\ w[4] = Delim /\ w[b] = Delim /\ w[k] = Delim
        /\ \A h \in k + 1 .. n : w[h] # Delim
    BY Delimiters DEF SwappedAt
  <1>2. /\ i \in 1..(n - 1) /\ str[i] # w[i] /\ str[i] = w[i + 1]
        /\ str[i + 1] = w[i]
        /\ \A h \in 1..n : h # i /\ h # i + 1 => str[h] = w[h]
    BY <1>1 DEF SwappedAt
  <1>3. Headed(str) => OutcomeOf(str) \in {"rejected", "parsed"}
    BY HeaderHolds
  <1>4. CASE i + 1 < k
    <2>1. str[k] = Delim /\ \A h \in k + 1 .. n : str[h] # Delim
      <3> HIDE DEF w, b, k, n
      <3>1. /\ k \in 1..n /\ k # i /\ k # i + 1
            /\ \A h \in k + 1 .. n : h \in 1..n /\ h # i /\ h # i + 1
        BY <1>1, <1>2, <1>4
      <3> QED
        BY <1>1, <1>2, <3>1
    <2>2. LastIs(str, k)
      BY <1>1, <2>1 DEF LastIs
    <2>3. Variant(str, l)
      BY <1>1, <2>2 DEF Variant
    <2>4. ~Accepted(str)
      BY <2>3, SwapNoticed
    <2> QED
      BY <2>4 DEF OutcomeOf
  <1> HIDE DEF w, b, k, n
  <1>5. CASE ~(i + 1 < k)
    <2>1. i + 1 # b + 1
      <3> SUFFICES ASSUME i = b PROVE FALSE
        BY <1>1, <1>2
      <3>1. i + 1 = k
        BY <1>1, <1>5
      <3> QED
        BY <1>1, <1>2, <3>1
    <2>2. /\ i \in Int /\ i > b /\ i + 1 \in 1..n /\ i \in 1..n /\ 4 < b
          /\ \A h \in 1..3 : h \in 1..n /\ h # i /\ h # i + 1
          /\ 4 \in 1..n /\ 4 # i /\ 4 # i + 1
          /\ b \in 1..n /\ b # i /\ b # i + 1
      BY <1>1, <1>2, <1>5, <2>1
    <2>3. /\ \A h \in 1..3 : str[h] # Delim
          /\ str[4] = Delim /\ str[b] = Delim
      BY <1>1, <1>2, <2>2
    <2>4. \E c \in 1..n : b < c /\ str[c] = Delim
      <3>1. CASE i = k
        <4>1. str[i + 1] = Delim /\ b < i + 1
          BY <1>1, <1>2, <2>2, <3>1
        <4> QED
          BY <2>2, <4>1
      <3>2. CASE i + 1 = k
        <4>1. str[i] = Delim
          BY <1>1, <1>2, <3>2
        <4> QED
          BY <2>2, <4>1
      <3>3. CASE i > k
        <4>1. k \in 1..n /\ k # i /\ k # i + 1
          BY <1>1, <2>2, <3>3
        <4> QED
          BY <1>1, <1>2, <4>1
      <3> QED
        BY <1>1, <1>5, <2>2, <3>1, <3>2, <3>3
    <2>5. PICK c \in 1..n : b < c /\ str[c] = Delim
      BY <2>4
    <2>6. 4 \in Delims(str) /\ b \in Delims(str) /\ c \in Delims(str)
      BY <2>2, <2>3, <2>5 DEF Delims, n
    <2>7. Headed(str)
      BY <2>2, <2>3, <2>5, <2>6 DEF Headed
    <2> QED
      BY <1>3, <2>7
  <1> QED
    BY <1>4, <1>5

(* One mistake that leaves no ^ or $ behind never makes from_string read    *)
(* past the sections, in no text of any length, and makes it throw in one   *)
(* case only.                                                               *)
THEOREM OnlyFirstEverThrows == Spec => []ThrowsOnlyAtFirst
  <1>1. TextInv => ThrowsOnlyAtFirst
    <2> SUFFICES ASSUME TextInv, outcome # "sent", Plain(log), ~Reframed,
                        outcome \notin {"rejected", "parsed"}
                 PROVE  outcome = "throws" /\ text[2] = Delim
      BY DEF ThrowsOnlyAtFirst, Received
    <2> DEFINE q == Inner(text)
    <2>1. log \in Logs /\ text \in Seq(Codes)
      BY DEF TextInv, OneMistake
    <2>2. Framed(text) /\ outcome = OutcomeOf(q)
      BY FramedReads DEF FrameReads
    <2>3. /\ q \in Seq(Codes) /\ Len(q) >= 1 /\ q[1] = text[2]
      <3>1. /\ Len(text) \in Nat /\ Len(text) >= 10
        BY <2>1, <2>2 DEF Framed
      <3>2. /\ q \in Seq(Codes) /\ Len(q) = Len(text) - 2
            /\ \A h \in 1..(Len(text) - 2) : q[h] = text[1 + h]
        BY <2>1, <3>1, InnerTyped
      <3>3. 1 \in 1..(Len(text) - 2) /\ 1 + 1 = 2 /\ Len(text) - 2 >= 1
        BY <3>1
      <3> HIDE DEF q
      <3> QED
        BY <3>2, <3>3
    <2>4. ~(damage = "none")
      <3> SUFFICES ASSUME damage = "none" PROVE FALSE
        OBVIOUS
      <3>1. q = Content(log)
        BY <2>1, OwnInner DEF TextInv, OneMistake
      <3> QED
        BY <2>1, <2>2, <3>1, UndamagedParts
    <2>5. ~(damage = "swapped")
      <3> SUFFICES ASSUME damage = "swapped" PROVE FALSE
        OBVIOUS
      <3>1. PICK i \in Nat : SwappedAt(Write(log), text, i)
        BY DEF TextInv, OneMistake
      <3>2. SwappedAt(Content(log), q, i - 1)
        BY <2>1, <2>2, <3>1, InnerSwapped
      <3> HIDE DEF q
      <3> QED
        BY <2>1, <2>2, <2>3, <3>2, SwapReads
    <2>6. PICK i \in Nat : SubstitutedAt(Write(log), text, i)
      BY <2>4, <2>5 DEF TextInv, OneMistake
    <2>7. SubstitutedAt(Content(log), q, i - 1)
      BY <2>1, <2>2, <2>6, InnerSubstituted
    <2> HIDE DEF q
    <2>8. q[1] = Delim
      <3> SUFFICES ASSUME q[1] # Delim PROVE FALSE
        OBVIOUS
      <3> QED
        BY <2>1, <2>2, <2>3, <2>7, SubstitutionReads
    <2>9. OutcomeOf(q) \in {"rejected", "throws"}
      BY <2>3, <2>8, FirstThrows
    <2> QED
      BY <2>2, <2>3, <2>8, <2>9
  <1> QED
    BY <1>1, TextKept, PTL
============================================================================
