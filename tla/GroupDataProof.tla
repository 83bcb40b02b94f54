--------------------------- MODULE GroupDataProof ---------------------------
(***************************************************************************)
(* Proof that the group operations deliver the right data, for every       *)
(* number of processes, every program and all bytes.                       *)
(***************************************************************************)
EXTENDS GroupSyncProof, WellFoundedInduction

(***************************************************************************)
(* Bytes that wrap around on the way wrap around to the same result.       *)
(***************************************************************************)
LEMMA Remainders ==
    ASSUME NEW n \in Nat
    PROVE  /\ n % 256 \in Byte /\ n \div 256 \in Nat
           /\ n = 256 * (n \div 256) + (n % 256)
           /\ \A k \in Nat : (256 * k + n) % 256 = n % 256
  BY DEF Byte

LEMMA SumsWrap ==
    ASSUME NEW a \in Nat, NEW b \in Nat
    PROVE  Wrap((a % 256) + (b % 256)) = (a + b) % 256
  <1>1. PICK k \in Nat, r \in Byte : a = 256 * k + r /\ a % 256 = r
    BY Remainders
  <1>2. PICK l \in Nat, s \in Byte : b = 256 * l + s /\ b % 256 = s
    BY Remainders
  <1>3. a + b = 256 * (k + l) + (r + s) /\ k + l \in Nat /\ r + s \in Nat
    BY <1>1, <1>2 DEF Byte
  <1>4. (256 * (k + l) + (r + s)) % 256 = (r + s) % 256
    BY <1>3, Remainders
  <1> QED
    BY <1>1, <1>2, <1>3, <1>4 DEF Wrap

LEMMA ProductsWrap ==
    ASSUME NEW a \in Nat, NEW b \in Nat
    PROVE  Wrap((a % 256) * (b % 256)) = (a * b) % 256
  <1>1. PICK k \in Nat, r \in Byte : a = 256 * k + r /\ a % 256 = r
    BY Remainders
  <1>2. PICK l \in Nat, s \in Byte : b = 256 * l + s /\ b % 256 = s
    BY Remainders
  <1> DEFINE K == 256 * k * l + k * s + r * l
  <1>3. a * b = 256 * K + r * s
    BY <1>1, <1>2 DEF Byte
  <1>4. K \in Nat /\ r * s \in Nat
    BY DEF Byte
  <1> HIDE DEF K
  <1>5. (256 * K + r * s) % 256 = (r * s) % 256
    BY <1>4, Remainders
  <1> QED
    BY <1>1, <1>2, <1>3, <1>5 DEF Wrap

-----------------------------------------------------------------------------
(***************************************************************************)
(* Recursion over ranks.  Induction up to a bound is stated for a set, and *)
(* comes from the least number that would be missing in it; so do the      *)
(* running sums and products.                                              *)
(***************************************************************************)
LEMMA UpTo ==
    ASSUME NEW m \in Nat, NEW Fine, 0 \in Fine, \A n \in 1 .. m : n - 1 \in Fine => n \in Fine
    PROVE  0 .. m \subseteq Fine
  <1> DEFINE Less == {ss \in Nat \X Nat : ss[1] < ss[2]}
             Bad == (0 .. m) \ Fine
  <1> SUFFICES ASSUME Bad # {}  PROVE FALSE
    OBVIOUS
  <1>1. IsWellFoundedOn(Less, Nat)
    BY NatLessThanWellFounded, Zenon DEF OpToRel
  <1>2. Bad \in SUBSET Nat
    OBVIOUS
  <1>3. PICK x \in Bad : \A y \in Bad : ~(<<y, x>> \in Less)
    <2> HIDE DEF Less, Bad
    <2> QED  BY <1>1, <1>2, WFMin
  <1>4. x \in 1 .. m /\ x - 1 \in Bad
    OBVIOUS
  <1>5. <<x - 1, x>> \in Nat \X Nat /\ <<x - 1, x>>[1] < <<x - 1, x>>[2]
    BY <1>4
  <1>6. <<x - 1, x>> \in Less
    BY <1>5, Zenon
  <1> QED
    BY <1>3, <1>4, <1>6

Runs(f, m, first, G) ==
    f = [n \in 0 .. m |-> IF n = 0 THEN first ELSE G[<<n, f[n - 1]>>]]

LEMMA RunsExist ==
    ASSUME NEW first \in Nat, NEW G \in [Nat \X Nat -> Nat], NEW m \in Nat
    PROVE  \E f \in [0 .. m -> Nat] : Runs(f, m, first, G)
  <1> DEFINE Good(k) == \E f \in [0 .. k -> Nat] : Runs(f, k, first, G)
             Fine == {k \in Nat : Good(k)}
  <1>1. 0 \in Fine
    <2> DEFINE f == [n \in 0 .. 0 |-> first]
    <2>1. f \in [0 .. 0 -> Nat] /\ Runs(f, 0, first, G)
      BY DEF Runs
    <2> QED  BY <2>1
  <1>2. ASSUME NEW k \in 1 .. m, k - 1 \in Fine  PROVE k \in Fine
    <2>1. PICK f \in [0 .. k - 1 -> Nat] : Runs(f, k - 1, first, G)
      BY <1>2
    <2> DEFINE g == [n \in 0 .. k |-> IF n = k THEN G[<<k, f[k - 1]>>] ELSE f[n]]
    <2>2. g \in [0 .. k -> Nat]
      <3>1. <<k, f[k - 1]>> \in Nat \X Nat
        OBVIOUS
      <3>2. G[<<k, f[k - 1]>>] \in Nat
        BY <3>1
      <3> QED  BY <3>2
    <2>3. \A n \in 0 .. k : g[n] = IF n = 0 THEN first ELSE G[<<n, g[n - 1]>>]
      <3> SUFFICES ASSUME NEW n \in 0 .. k
                   PROVE  g[n] = IF n = 0 THEN first ELSE G[<<n, g[n - 1]>>]
        OBVIOUS
      <3>1. \A j \in 0 .. k - 1 :
                g[j] = f[j] /\ f[j] = IF j = 0 THEN first ELSE G[<<j, f[j - 1]>>]
        BY <2>1 DEF Runs
      <3>2. n \in 0 .. k - 1 \/ n = k
        OBVIOUS
      <3>3. n # 0 => n - 1 \in 0 .. k - 1
        OBVIOUS
      <3>4. CASE n = k
        <4>1. k - 1 \in 0 .. k - 1 /\ n # 0
          BY <3>4
        <4> QED  BY <3>1, <3>4, <4>1
      <3>5. CASE n # k
        BY <3>1, <3>2, <3>3, <3>5
      <3> QED  BY <3>4, <3>5
    <2>4. g = [n \in 0 .. k |-> g[n]]
      OBVIOUS
    <2> HIDE DEF g
    <2>5. Runs(g, k, first, G)
      BY <2>3, <2>4 DEF Runs
    <2> QED  BY <2>2, <2>5
  <1> HIDE DEF Fine
  <1>3. 0 .. m \subseteq Fine
    BY <1>1, <1>2, UpTo
  <1>4. m \in Fine
    BY <1>3
  <1> QED
    BY <1>4 DEF Fine

SumSteps(s, Q, i) ==
    /\ s[0] = 0
    /\ \A n \in 1 .. N : s[n] = IF n \in Q THEN s[n - 1] + Own(n, i) ELSE s[n - 1]
ProductSteps(t, Q, i) ==
    /\ t[0] = 1
    /\ \A n \in 1 .. N : t[n] = IF n \in Q THEN t[n - 1] * Own(n, i) ELSE t[n - 1]

LEMMA RunningSteps ==
    ASSUME NEW Q \in SUBSET Procs, NEW i \in Nat
    PROVE  SumSteps(Sums(Q, i), Q, i) /\ ProductSteps(Products(Q, i), Q, i)
  <1>0. N \in Nat /\ \A n \in Q : n \in Procs /\ Own(n, i) \in Nat
    BY ChunksTyped, SizesAssumption DEF Chunk, Byte
  <1>1. SumSteps(Sums(Q, i), Q, i)
    <2> DEFINE Solves(f) == f = [n \in 0 .. N |-> IF n = 0 THEN 0
                                   ELSE IF n \in Q THEN f[n - 1] + Own(n, i) ELSE f[n - 1]]
               G == [z \in Nat \X Nat |-> IF z[1] \in Q THEN z[2] + Own(z[1], i) ELSE z[2]]
    <2>1. G \in [Nat \X Nat -> Nat]
      BY <1>0
    <2>2. \A n, v \in Nat : G[<<n, v>>] = IF n \in Q THEN v + Own(n, i) ELSE v
      OBVIOUS
    <2> HIDE DEF G
    <2>3. PICK f \in [0 .. N -> Nat] : Runs(f, N, 0, G)
      BY <1>0, <2>1, RunsExist
    <2>4. \A n \in 0 .. N : n # 0 => n \in Nat /\ f[n - 1] \in Nat
      BY <1>0
    <2>5. Solves(f)
      BY <2>2, <2>3, <2>4 DEF Runs
    <2>6. Sums(Q, i) = CHOOSE g : Solves(g)
      BY Zenon DEF Sums
    <2>7. Solves(Sums(Q, i))
      <3> HIDE DEF Solves
      <3> QED  BY <2>5, <2>6, Zenon
    <2> DEFINE h == Sums(Q, i)
    <2>8. h = [n \in 0 .. N |-> IF n = 0 THEN 0
                                ELSE IF n \in Q THEN h[n - 1] + Own(n, i) ELSE h[n - 1]]
      BY <2>7
    <2> HIDE DEF h
    <2>9. SumSteps(h, Q, i)
      BY <1>0, <2>8 DEF SumSteps
    <2> QED  BY <2>9 DEF h
  <1>2. ProductSteps(Products(Q, i), Q, i)
    <2> DEFINE Solves(f) == f = [n \in 0 .. N |-> IF n = 0 THEN 1
                                   ELSE IF n \in Q THEN f[n - 1] * Own(n, i) ELSE f[n - 1]]
               G == [z \in Nat \X Nat |-> IF z[1] \in Q THEN z[2] * Own(z[1], i) ELSE z[2]]
    <2>1. G \in [Nat \X Nat -> Nat]
      BY <1>0
    <2>2. \A n, v \in Nat : G[<<n, v>>] = IF n \in Q THEN v * Own(n, i) ELSE v
      OBVIOUS
    <2> HIDE DEF G
    <2>3. PICK f \in [0 .. N -> Nat] : Runs(f, N, 1, G)
      BY <1>0, <2>1, RunsExist
    <2>4. \A n \in 0 .. N : n # 0 => n \in Nat /\ f[n - 1] \in Nat
      BY <1>0
    <2>5. Solves(f)
      BY <2>2, <2>3, <2>4 DEF Runs
    <2>6. Products(Q, i) = CHOOSE g : Solves(g)
      BY Zenon DEF Products
    <2>7. Solves(Products(Q, i))
      <3> HIDE DEF Solves
      <3> QED  BY <2>5, <2>6, Zenon
    <2> DEFINE h == Products(Q, i)
    <2>8. h = [n \in 0 .. N |-> IF n = 0 THEN 1
                                ELSE IF n \in Q THEN h[n - 1] * Own(n, i) ELSE h[n - 1]]
      BY <2>7
    <2> HIDE DEF h
    <2>9. ProductSteps(h, Q, i)
      BY <1>0, <2>8 DEF ProductSteps
    <2> QED  BY <2>9 DEF h
  <1> QED
    BY <1>1, <1>2

LEMMA RunningTyped ==
    ASSUME NEW Q \in SUBSET Procs, NEW i \in Nat
    PROVE  \A n \in 0 .. N : Sums(Q, i)[n] \in Nat /\ Products(Q, i)[n] \in Nat
  <1> DEFINE s == Sums(Q, i)
             t == Products(Q, i)
             Fine == {n \in 0 .. N : s[n] \in Nat /\ t[n] \in Nat}
  <1>0. N \in Nat /\ \A n \in Q : n \in Procs /\ Own(n, i) \in Nat
    BY ChunksTyped, SizesAssumption DEF Chunk, Byte
  <1>1. SumSteps(s, Q, i) /\ ProductSteps(t, Q, i)
    BY RunningSteps
  <1> HIDE DEF s, t
  <1>2. 0 \in Fine
    BY <1>0, <1>1 DEF SumSteps, ProductSteps
  <1>3. ASSUME NEW n \in 1 .. N, n - 1 \in Fine  PROVE n \in Fine
    <2>1. s[n - 1] \in Nat /\ t[n - 1] \in Nat
      BY <1>3
    <2>2. n \in Q => s[n - 1] + Own(n, i) \in Nat /\ t[n - 1] * Own(n, i) \in Nat
      BY <1>0, <2>1
    <2> QED  BY <1>1, <2>1, <2>2 DEF SumSteps, ProductSteps
  <1> HIDE DEF Fine
  <1>4. 0 .. N \subseteq Fine
    BY <1>0, <1>2, <1>3, UpTo
  <1> QED
    BY <1>4 DEF Fine, s, t

\* The processes of two sets with no member in common are counted once each.
LEMMA SumsJoin ==
    ASSUME NEW A \in SUBSET Procs, NEW B \in SUBSET Procs, A \cap B = {}, NEW i \in Nat
    PROVE  /\ Sums(A \cup B, i)[N] = Sums(A, i)[N] + Sums(B, i)[N]
           /\ Products(A \cup B, i)[N] = Products(A, i)[N] * Products(B, i)[N]
  <1> DEFINE C == A \cup B
             a == Sums(A, i)
             b == Sums(B, i)
             c == Sums(C, i)
             u == Products(A, i)
             v == Products(B, i)
             w == Products(C, i)
             Fine == {n \in 0 .. N : c[n] = a[n] + b[n] /\ w[n] = u[n] * v[n]}
  <1>0. N \in Nat /\ \A n \in C : n \in Procs /\ Own(n, i) \in Nat
    BY ChunksTyped, SizesAssumption DEF Chunk, Byte
  <1>1. /\ SumSteps(a, A, i) /\ SumSteps(b, B, i)
        /\ ProductSteps(u, A, i) /\ ProductSteps(v, B, i)
    BY RunningSteps
  <1>2. SumSteps(c, C, i) /\ ProductSteps(w, C, i)
    <2>1. C \in SUBSET Procs
      OBVIOUS
    <2> HIDE DEF C
    <2> QED  BY <2>1, RunningSteps
  <1>4. \A n \in 0 .. N : a[n] \in Nat /\ b[n] \in Nat /\ u[n] \in Nat /\ v[n] \in Nat
    BY RunningTyped
  <1> HIDE DEF a, b, c, u, v, w
  <1>5. 0 \in Fine
    BY <1>0, <1>1, <1>2 DEF SumSteps, ProductSteps
  <1>6. ASSUME NEW n \in 1 .. N, n - 1 \in Fine  PROVE n \in Fine
    <2> DEFINE e == Own(n, i)
    <2>1. /\ c[n - 1] = a[n - 1] + b[n - 1] /\ w[n - 1] = u[n - 1] * v[n - 1]
          /\ a[n - 1] \in Nat /\ b[n - 1] \in Nat /\ u[n - 1] \in Nat /\ v[n - 1] \in Nat
      BY <1>4, <1>6
    <2>2. \A x, y, z \in Nat : /\ (x + y) + z = (x + z) + y /\ (x + y) + z = x + (y + z)
                              /\ (x * y) * z = (x * z) * y /\ (x * y) * z = x * (y * z)
      OBVIOUS
    <2>3. n \in C => e \in Nat
      BY <1>0
    <2> HIDE DEF e
    <2>4. CASE n \in A
      <3>1. n \notin B /\ n \in C
        BY <2>4
      <3>2. /\ a[n] = a[n - 1] + e /\ b[n] = b[n - 1] /\ c[n] = c[n - 1] + e
            /\ u[n] = u[n - 1] * e /\ v[n] = v[n - 1] /\ w[n] = w[n - 1] * e
        BY <1>1, <1>2, <2>4, <3>1 DEF e, SumSteps, ProductSteps
      <3> QED  BY <2>1, <2>2, <2>3, <3>1, <3>2
    <2>5. CASE n \in B
      <3>1. n \notin A /\ n \in C
        BY <2>5
      <3>2. /\ a[n] = a[n - 1] /\ b[n] = b[n - 1] + e /\ c[n] = c[n - 1] + e
            /\ u[n] = u[n - 1] /\ v[n] = v[n - 1] * e /\ w[n] = w[n - 1] * e
        BY <1>1, <1>2, <2>5, <3>1 DEF e, SumSteps, ProductSteps
      <3> QED  BY <2>1, <2>2, <2>3, <3>1, <3>2
    <2>6. CASE n \notin C
      BY <1>1, <1>2, <2>1, <2>6 DEF SumSteps, ProductSteps
    <2> QED  BY <2>4, <2>5, <2>6
  <1> HIDE DEF Fine
  <1>7. 0 .. N \subseteq Fine
    BY <1>0, <1>5, <1>6, UpTo
  <1>8. N \in Fine
    BY <1>0, <1>7
  <1> QED
    BY <1>8 DEF Fine, a, b, c, u, v, w

LEMMA SumsOne ==
    ASSUME NEW p \in Procs, NEW i \in Nat
    PROVE  Sums({p}, i)[N] = Own(p, i) /\ Products({p}, i)[N] = Own(p, i)
  <1> DEFINE s == Sums({p}, i)
             t == Products({p}, i)
             Fine == {n \in 0 .. N : /\ s[n] = IF n < p THEN 0 ELSE Own(p, i)
                                     /\ t[n] = IF n < p THEN 1 ELSE Own(p, i)}
  <1>0. N \in Nat /\ p \in 1 .. N /\ Own(p, i) \in Nat
    BY ChunksTyped, SizesAssumption DEF Chunk, Byte, Procs
  <1>1. SumSteps(s, {p}, i) /\ ProductSteps(t, {p}, i)
    BY RunningSteps
  <1> HIDE DEF s, t
  <1>2. 0 \in Fine
    BY <1>0, <1>1 DEF SumSteps, ProductSteps
  <1>3. ASSUME NEW n \in 1 .. N, n - 1 \in Fine  PROVE n \in Fine
    <2>1. CASE n = p
      <3>1. s[n - 1] = 0 /\ t[n - 1] = 1
        BY <1>0, <1>3, <2>1
      <3>2. s[n] = 0 + Own(p, i) /\ t[n] = 1 * Own(p, i)
        BY <1>1, <2>1, <3>1 DEF SumSteps, ProductSteps
      <3> QED  BY <1>0, <2>1, <3>2
    <2>2. CASE n # p
      <3>1. s[n] = s[n - 1] /\ t[n] = t[n - 1] /\ (n < p <=> n - 1 < p)
        BY <1>0, <1>1, <2>2 DEF SumSteps, ProductSteps
      <3> QED  BY <1>3, <3>1
    <2> QED  BY <2>1, <2>2
  <1> HIDE DEF Fine
  <1>4. 0 .. N \subseteq Fine
    BY <1>0, <1>2, <1>3, UpTo
  <1>5. N \in Fine
    BY <1>0, <1>4
  <1> QED
    BY <1>0, <1>5 DEF Fine, s, t

-----------------------------------------------------------------------------
(***************************************************************************)
(* The largest and the smallest of a set of bytes.                         *)
(***************************************************************************)
LEMMA Extremes ==
    ASSUME NEW Q \in SUBSET Byte, Q # {}
    PROVE  /\ Sets!Max(Q) \in Q /\ \A y \in Q : Sets!Max(Q) >= y
           /\ Sets!Min(Q) \in Q /\ \A y \in Q : Sets!Min(Q) <= y
  <1> DEFINE Up == {n \in Nat : \A y \in Q : y >= n}
             Down == {n \in Nat : \A y \in Q : y <= 255 - n}
  <1>1. PICK z \in Q : TRUE
    OBVIOUS
  <1>2. z \in 0 .. 255 /\ \A y \in Q : y \in 0 .. 255
    BY DEF Byte
  <1>3. \E x \in Q : \A y \in Q : y >= x
    <2> SUFFICES ASSUME \A x \in Q : ~(\A y \in Q : y >= x)  PROVE FALSE
      OBVIOUS
    <2>1. 0 \in Up
      BY <1>2
    <2>2. ASSUME NEW n \in 1 .. 256, n - 1 \in Up  PROVE n \in Up
      <3>1. n - 1 \notin Q
        BY <2>2
      <3>2. \A y \in Q : y >= n - 1 /\ y # n - 1
        BY <2>2, <3>1
      <3> QED  BY <1>2, <3>2
    <2> HIDE DEF Up
    <2>3. 0 .. 256 \subseteq Up
      BY <2>1, <2>2, UpTo
    <2> QED  BY <1>1, <1>2, <2>3 DEF Up
  <1>4. \E x \in Q : \A y \in Q : y <= x
    <2> SUFFICES ASSUME \A x \in Q : ~(\A y \in Q : y <= x)  PROVE FALSE
      OBVIOUS
    <2>1. 0 \in Down
      BY <1>2
    <2>2. ASSUME NEW n \in 1 .. 256, n - 1 \in Down  PROVE n \in Down
      <3>1. 256 - n \notin Q
        BY <2>2
      <3>2. \A y \in Q : y <= 256 - n /\ y # 256 - n
        BY <2>2, <3>1
      <3> QED  BY <1>2, <3>2
    <2> HIDE DEF Down
    <2>3. 0 .. 256 \subseteq Down
      BY <2>1, <2>2, UpTo
    <2> QED  BY <1>1, <1>2, <2>3 DEF Down
  <1> HIDE DEF Up, Down
  <1>5. \E x \in Q : \A y \in Q : x >= y
    BY <1>2, <1>4
  <1>6. \E x \in Q : \A y \in Q : x <= y
    BY <1>2, <1>3
  <1> QED
    BY <1>5, <1>6 DEF Sets!Max, Sets!Min

LEMMA OwnsTyped ==
    ASSUME NEW Q \in SUBSET Procs, Q # {}, NEW i \in Nat
    PROVE  Owns(Q, i) \in SUBSET Byte /\ Owns(Q, i) # {}
  BY ChunksTyped DEF Owns, Chunk

LEMMA ReducedOne ==
    ASSUME NEW p \in Procs, NEW i \in Nat, NEW op \in MIMPI_Op
    PROVE  Reduced({p}, i, op) = Own(p, i)
  <1>1. Own(p, i) \in 0 .. 255
    BY ChunksTyped DEF Chunk, Byte
  <1>2. Own(p, i) % 256 = Own(p, i)
    BY <1>1
  <1>3. Sums({p}, i)[N] % 256 = Own(p, i) /\ Products({p}, i)[N] % 256 = Own(p, i)
    BY <1>2, SumsOne
  <1>4. Sets!Max(Owns({p}, i)) = Own(p, i) /\ Sets!Min(Owns({p}, i)) = Own(p, i)
    <2>1. Owns({p}, i) = {Own(p, i)}
      BY DEF Owns
    <2>2. Owns({p}, i) \in SUBSET Byte /\ Owns({p}, i) # {}
      BY <1>1, <2>1 DEF Byte
    <2> QED  BY <2>1, <2>2, Extremes
  <1> QED
    BY <1>3, <1>4 DEF Reduced, MIMPI_Op

LEMMA ReducedJoin ==
    ASSUME NEW A \in SUBSET Procs, NEW B \in SUBSET Procs, A # {}, B # {}, A \cap B = {},
           NEW i \in Nat, NEW op \in MIMPI_Op
    PROVE  Reduced(A \cup B, i, op) = Reducer(Reduced(A, i, op), Reduced(B, i, op), op)
  <1> DEFINE C == A \cup B
  <1>1. C \in SUBSET Procs /\ C # {}
    OBVIOUS
  <1>2. Owns(C, i) = Owns(A, i) \cup Owns(B, i)
    BY DEF Owns
  <1>3. /\ Owns(A, i) \in SUBSET Byte /\ Owns(A, i) # {}
        /\ Owns(B, i) \in SUBSET Byte /\ Owns(B, i) # {}
    BY OwnsTyped
  <1>4. N \in 0 .. N
    BY SizesAssumption
  <1>5. /\ Sums(A, i)[N] \in Nat /\ Sums(B, i)[N] \in Nat
        /\ Products(A, i)[N] \in Nat /\ Products(B, i)[N] \in Nat
    BY <1>4, RunningTyped
  <1>6. /\ Sums(C, i)[N] = Sums(A, i)[N] + Sums(B, i)[N]
        /\ Products(C, i)[N] = Products(A, i)[N] * Products(B, i)[N]
    BY SumsJoin
  <1>7. CASE op \in {"MAX", "MIN"}
    <2>1. Owns(C, i) \in SUBSET Byte /\ Owns(C, i) # {}
      BY <1>2, <1>3
    <2> DEFINE X == Owns(A, i)
               Y == Owns(B, i)
               Z == Owns(C, i)
    <2>2. /\ Z = X \cup Y /\ X \in SUBSET (0 .. 255) /\ Y \in SUBSET (0 .. 255)
          /\ Sets!Max(X) \in X /\ \A y \in X : Sets!Max(X) >= y
          /\ Sets!Min(X) \in X /\ \A y \in X : Sets!Min(X) <= y
          /\ Sets!Max(Y) \in Y /\ \A y \in Y : Sets!Max(Y) >= y
          /\ Sets!Min(Y) \in Y /\ \A y \in Y : Sets!Min(Y) <= y
          /\ Sets!Max(Z) \in Z /\ \A y \in Z : Sets!Max(Z) >= y
          /\ Sets!Min(Z) \in Z /\ \A y \in Z : Sets!Min(Z) <= y
      BY <1>2, <1>3, <2>1, Extremes DEF Byte
    <2> HIDE DEF X, Y, Z
    <2> DEFINE a == Sets!Max(X)
               b == Sets!Max(Y)
               c == Sets!Max(Z)
               d == Sets!Min(X)
               e == Sets!Min(Y)
               f == Sets!Min(Z)
    <2>3. /\ a \in 0 .. 255 /\ b \in 0 .. 255 /\ c \in 0 .. 255
          /\ d \in 0 .. 255 /\ e \in 0 .. 255 /\ f \in 0 .. 255
          /\ (c <= a \/ c <= b) /\ c >= a /\ c >= b
          /\ (f >= d \/ f >= e) /\ f <= d /\ f <= e
      BY <2>2
    <2> HIDE DEF a, b, c, d, e, f
    <2>4. c = (IF a > b THEN a ELSE b) /\ f = (IF d < e THEN d ELSE e)
      BY <2>3
    <2>5. CASE op = "MAX"
      BY <2>4, <2>5 DEF Reduced, Reducer, a, b, c, X, Y, Z
    <2>6. CASE op = "MIN"
      BY <2>4, <2>6 DEF Reduced, Reducer, d, e, f, X, Y, Z
    <2> QED  BY <1>7, <2>5, <2>6
  <1>8. CASE op = "SUM"
    <2>1. Wrap((Sums(A, i)[N] % 256) + (Sums(B, i)[N] % 256)) = Sums(C, i)[N] % 256
      BY <1>5, <1>6, SumsWrap
    <2> QED  BY <1>8, <2>1 DEF Reduced, Reducer
  <1>9. CASE op = "PROD"
    <2>1. Wrap((Products(A, i)[N] % 256) * (Products(B, i)[N] % 256)) = Products(C, i)[N] % 256
      BY <1>5, <1>6, ProductsWrap
    <2> QED  BY <1>9, <2>1 DEF Reduced, Reducer
  <1> QED
    BY <1>7, <1>8, <1>9 DEF MIMPI_Op

-----------------------------------------------------------------------------
(***************************************************************************)
(* The processes below a process: itself, those below its left child and   *)
(* those below its right one, each once.                                   *)
(***************************************************************************)
LEMMA BelowSelf ==
    ASSUME NEW c \in Procs
    PROVE  c \in Below[c] /\ Below[c] \in SUBSET Procs
  BY DEF Below

LEMMA BelowChildren ==
    ASSUME NEW c \in Procs, NEW e \in Below[c], NEW d \in {2 * e, 2 * e + 1}, d \in Procs
    PROVE  d \in Below[c]
  BY DEF Below, Closed

LEMMA BelowLater ==
    ASSUME NEW c \in Procs, NEW d \in Below[c]
    PROVE  d >= c
  <1> DEFINE T == {e \in Procs : e >= c}
  <1>1. N \in Nat /\ c \in 1 .. N
    BY SizesAssumption DEF Procs
  <1>2. c \in T /\ T \in SUBSET Procs
    BY <1>1
  <1>3. Closed(T)
    BY <1>1 DEF Closed, Procs
  <1> HIDE DEF T
  <1>4. d \in T
    BY <1>2, <1>3 DEF Below
  <1> QED
    BY <1>4 DEF T

\* Who is below c is c, or below it with its parent.
LEMMA BelowParent ==
    ASSUME NEW c \in Procs, NEW d \in Below[c], d # c
    PROVE  \E e \in Below[c] : d \in {2 * e, 2 * e + 1}
  <1> DEFINE T == {x \in Below[c] : x = c \/ \E e \in Below[c] : x \in {2 * e, 2 * e + 1}}
  <1>1. c \in T /\ T \in SUBSET Procs
    BY BelowSelf
  <1>2. Closed(T)
    <2> SUFFICES ASSUME NEW e \in T, NEW x \in {2 * e, 2 * e + 1}, x \in Procs  PROVE x \in T
      BY DEF Closed
    <2>1. e \in Below[c]
      OBVIOUS
    <2>2. x \in Below[c]
      BY <2>1, BelowChildren
    <2> QED  BY <2>1, <2>2
  <1> HIDE DEF T
  <1>3. d \in T
    BY <1>1, <1>2 DEF Below
  <1> QED
    BY <1>3 DEF T

LEMMA BelowApart ==
    ASSUME NEW c \in Procs
    PROVE  /\ HasChild(2 * c) => c \notin Below[2 * c]
           /\ HasChild(2 * c + 1) => c \notin Below[2 * c + 1]
           /\ HasChild(2 * c + 1) => Below[2 * c] \cap Below[2 * c + 1] = {}
  <1>0. N \in Nat /\ c \in 1 .. N /\ Procs = 1 .. N
    BY SizesAssumption DEF Procs
  <1>1. HasChild(2 * c) => c \notin Below[2 * c]
    <2> SUFFICES ASSUME HasChild(2 * c), c \in Below[2 * c]  PROVE FALSE
      OBVIOUS
    <2>1. 2 * c \in Procs
      BY <1>0 DEF HasChild
    <2> QED  BY <1>0, <2>1, BelowLater
  <1>2. HasChild(2 * c + 1) => c \notin Below[2 * c + 1]
    <2> SUFFICES ASSUME HasChild(2 * c + 1), c \in Below[2 * c + 1]  PROVE FALSE
      OBVIOUS
    <2>1. 2 * c + 1 \in Procs
      BY <1>0 DEF HasChild
    <2> QED  BY <1>0, <2>1, BelowLater
  <1>3. ASSUME HasChild(2 * c + 1)  PROVE Below[2 * c] \cap Below[2 * c + 1] = {}
    <2> DEFINE l == 2 * c
               r == 2 * c + 1
               T == {d \in Procs : d >= r /\ d \notin Below[l]}
    <2>1. l \in Procs /\ r \in Procs
      BY <1>0, <1>3 DEF HasChild
    <2>2. \A d \in Below[l] : d \in 1 .. N /\ d >= l
      BY <1>0, <2>1, BelowLater, BelowSelf
    <2>3. r \in T
      <3> SUFFICES ASSUME r \in Below[l]  PROVE FALSE
        BY <1>0, <2>1
      <3>1. PICK e \in Below[l] : r \in {2 * e, 2 * e + 1}
        <4>1. r # l
          BY <1>0
        <4> HIDE DEF l, r
        <4> QED  BY <2>1, <4>1, BelowParent
      <3>2. e \in 1 .. N /\ e >= 2 * c
        BY <2>2
      <3> QED  BY <1>0, <3>1, <3>2
    <2>4. Closed(T)
      <3> SUFFICES ASSUME NEW e \in T, NEW x \in {2 * e, 2 * e + 1}, x \in Procs  PROVE x \in T
        BY DEF Closed
      <3>1. e \in 1 .. N /\ e >= 2 * c + 1 /\ x \in 1 .. N
        BY <1>0
      <3>2. x >= r /\ x # l
        BY <1>0, <3>1
      <3> SUFFICES ASSUME x \in Below[l]  PROVE FALSE
        BY <3>2
      <3>3. PICK d \in Below[l] : x \in {2 * d, 2 * d + 1}
        <4> HIDE DEF l
        <4> QED  BY <2>1, <3>2, BelowParent
      <3>4. d = e
        <4>1. d \in 1 .. N
          BY <2>2
        <4> QED  BY <3>1, <3>3, <4>1
      <3> QED  BY <3>3, <3>4
    <2>5. T \in SUBSET Procs
      OBVIOUS
    <2> HIDE DEF T
    <2>6. Below[r] \subseteq T
      BY <2>1, <2>3, <2>4, <2>5 DEF Below
    <2> QED  BY <2>6 DEF T
  <1> QED
    BY <1>1, <1>2, <1>3

LEMMA BelowJoin ==
    ASSUME NEW c \in Procs
    PROVE  Below[c] = {c} \cup {d \in Procs :
                                   \/ HasChild(2 * c) /\ d \in Below[2 * c]
                                   \/ HasChild(2 * c + 1) /\ d \in Below[2 * c + 1]}
  <1>0. N \in Nat /\ c \in 1 .. N /\ Procs = 1 .. N
    BY SizesAssumption DEF Procs
  <1>1. ASSUME NEW b \in {2 * c, 2 * c + 1}, HasChild(b), NEW d \in Below[b]
        PROVE  d \in Below[c]
    <2>1. b \in Procs
      BY <1>0, <1>1 DEF HasChild
    <2>2. b \in Below[c]
      BY <2>1, BelowSelf, BelowChildren
    <2>3. d \in Procs
      BY <1>1, <2>1, BelowSelf
    <2>4. ASSUME NEW T \in SUBSET Procs, c \in T, Closed(T)  PROVE d \in T
      <3>1. b \in T
        BY <2>1, <2>4 DEF Closed
      <3> QED  BY <1>1, <2>1, <2>4, <3>1 DEF Below
    <2> QED  BY <2>3, <2>4 DEF Below
  <1>2. c \in Below[c] /\ Below[c] \in SUBSET Procs
    BY BelowSelf
  <1> QED
    BY <1>1, <1>2, BelowStep

-----------------------------------------------------------------------------
(***************************************************************************)
(* DataExact is inductive.                                                 *)
(***************************************************************************)
LEMMA DataShare ==
    ASSUME TypeOK, NEW p \in Procs, NEW r \in 1 .. Len(script), ValidRoot(script[r]),
           NEW i \in 1 .. script[r].count, NEW ph \in Transfers,
           TakesPart(p, ph, script[r]), CarriesData(ph, script[r])
    PROVE  <<r, i>> \in Share(p, ph, PipeOf(p, ph, script[r]))
  <1>1. i \in Nat /\ i > 0 /\ i <= Size(p, ph, script[r])
    BY ScriptTyped DEF Op, Size, Packets
  <1>2. <<r, i>>[1] = r /\ <<r, i>>[2] = i /\ <<r, i>> = <<<<r, i>>[1], <<r, i>>[2]>>
    OBVIOUS
  <1> DEFINE k == <<r, i>>
             x == PipeOf(p, ph, script[r])
  <1>3. k[1] = r /\ k[2] = i /\ k = <<k[1], k[2]>>
    BY <1>2
  <1> HIDE DEF k
  <1>4. k \in Share(p, ph, x)
    BY <1>1, <1>3, ShareSays
  <1> QED
    BY <1>4 DEF k

\* Which chunks a step of a transfer adds to those that have moved.
LEMMA ChunkMoves ==
    ASSUME TypeOK, NEW p \in Procs, Busy(p), Advance(p), script' = script, round' = round,
           NEW i \in 1 .. Current(p).count, NEW ph \in Transfers,
           TakesPart(p, ph, Current(p)), CarriesData(ph, Current(p))
    PROVE  Moved(p, ph, <<round[p], i>>)'
             <=> Moved(p, ph, <<round[p], i>>) \/ (ph = phase[p] /\ i = moved[p] + 1)
  <1>1. round[p] \in 1 .. Len(script) /\ ValidRoot(Current(p))
    BY BusyTyped
  <1>2. PICK k, x : k = <<round[p], i>> /\ x = PipeOf(p, ph, Current(p))
    OBVIOUS
  <1>3. k \in Share(p, ph, x)
    BY <1>1, <1>2, DataShare DEF Current
  <1>4. k = NextKey(p) <=> i = moved[p] + 1
    BY <1>2 DEF NextKey
  <1>5. Moved(p, ph, k)' <=> Moved(p, ph, k) \/ (ph = phase[p] /\ k = NextKey(p))
    BY <1>3, AdvanceMoves
  <1>6. Moved(p, ph, k)' <=> Moved(p, ph, <<round[p], i>>)'
    BY <1>2 DEF Moved
  <1> QED
    BY <1>2, <1>4, <1>5, <1>6

\* In which phases the chunks of the call in progress have moved.
LEMMA MovedNow ==
    ASSUME TypeOK, NEW p \in Procs, phase[p] # Outside, NEW i \in Nat, NEW ph \in Transfers
    PROVE  /\ phase[p] > ph => Moved(p, ph, <<round[p], i>>)
           /\ phase[p] < ph => ~Moved(p, ph, <<round[p], i>>)
           /\ phase[p] = ph => (Moved(p, ph, <<round[p], i>>) <=> i <= moved[p])
  <1> DEFINE k == <<round[p], i>>
  <1>1. k[1] = round[p] /\ k[2] = i /\ round[p] \in Nat /\ phase[p] \in 0 .. 11 /\ ph \in 1 .. 10
    BY PhaseNumbers DEF TypeOK, Transfers
  <1> HIDE DEF k
  <1>2. /\ phase[p] > ph => Moved(p, ph, k)
        /\ phase[p] < ph => ~Moved(p, ph, k)
        /\ phase[p] = ph => (Moved(p, ph, k) <=> i <= moved[p])
    BY <1>1, PhaseNumbers DEF Moved
  <1> QED
    BY <1>2 DEF k

LEMMA CollectedAll ==
    ASSUME TypeOK, NEW p \in Procs, phase[p] > FromRight, NEW i \in Nat
    PROVE  Collected(p, i) = Below[p]
  <1>1. /\ phase[p] > FromLeft /\ phase[p] > FromRight /\ phase[p] # Outside
        /\ FromLeft \in Transfers /\ FromRight \in Transfers
    <2>1. phase[p] \in 0 .. 11
      BY PhaseNumbers DEF TypeOK
    <2> QED  BY <2>1, PhaseNumbers DEF Transfers
  <1>2. Moved(p, FromLeft, <<round[p], i>>) /\ Moved(p, FromRight, <<round[p], i>>)
    BY <1>1, MovedNow
  <1> QED
    BY <1>2, BelowJoin, Zenon DEF Collected

LEMMA ChunkKept ==
    ASSUME NEW p \in Procs, NEW i, script' = script,
           UNCHANGED <<phase[p], round[p], moved[p], acc[p]>>
    PROVE  ChunkExact(p, i)' <=> ChunkExact(p, i)
  <1> DEFINE o == Current(p)
             copy == HasCopy(p, i)
             Q == IF HasResult(p, i) THEN Procs ELSE Collected(p, i)
  <1>1. \A ph : Moved(p, ph, <<round[p], i>>)' <=> Moved(p, ph, <<round[p], i>>)
    BY DEF Moved
  <1>2. o' = o
    BY DEF Current
  <1>3. copy' <=> copy
    BY <1>1, <1>2 DEF HasCopy
  <1>4. HasResult(p, i)' <=> HasResult(p, i)
    BY <1>1, <1>2 DEF HasResult
  <1>5. Collected(p, i)' = Collected(p, i)
    BY <1>1 DEF Collected
  <1>6. Q' = Q
    BY <1>4, <1>5
  <1>7. acc'[p][i] = acc[p][i]
    OBVIOUS
  <1>8. ChunkExact(p, i) <=> /\ o.kind = "bcast" /\ copy => acc[p][i] = Own(Root(o), i)
                             /\ o.kind = "reduce" => acc[p][i] = Reduced(Q, i, o.op)
    BY DEF ChunkExact
  <1>9. ChunkExact(p, i)' <=> /\ o'.kind = "bcast" /\ copy' => acc'[p][i] = Own(Root(o'), i)
                              /\ o'.kind = "reduce" => acc'[p][i] = Reduced(Q', i, o'.op)
    BY DEF ChunkExact, Reduced
  <1> HIDE DEF o, copy, Q
  <1> QED
    BY <1>2, <1>3, <1>6, <1>7, <1>8, <1>9

LEMMA BufferKept ==
    ASSUME NEW p \in Procs, BufferExact(p), script' = script,
           UNCHANGED <<phase[p], round[p], moved[p], acc[p]>>
    PROVE  BufferExact(p)'
  <1>1. (Current(p).count)' = Current(p).count
    BY DEF Current
  <1>2. \A i : ChunkExact(p, i)' <=> ChunkExact(p, i)
    BY ChunkKept
  <1> QED
    BY <1>1, <1>2 DEF BufferExact

LEMMA PacketsKept ==
    ASSUME TypeOK, NEW x \in Pipes, PacketsExact(x), script' = script,
           pipe'[x] \in {pipe[x], Tail(pipe[x]), <<>>}, pipe[x] = <<>> => pipe'[x] = <<>>
    PROVE  PacketsExact(x)'
  <1>1. pipe[x] \in Seq(Mark)
    BY DEF TypeOK
  <1>2. \A n \in 1 .. Len(pipe'[x]) : \E j \in 1 .. Len(pipe[x]) : pipe'[x][n] = pipe[x][j]
    <2>1. CASE pipe'[x] = <<>>
      BY <2>1
    <2>2. CASE pipe'[x] = pipe[x]
      BY <2>2
    <2>3. CASE pipe[x] # <<>> /\ pipe'[x] = Tail(pipe[x])
      <3>1. /\ Len(pipe'[x]) = Len(pipe[x]) - 1 /\ Len(pipe[x]) \in Nat
            /\ \A n \in 1 .. Len(pipe'[x]) : pipe'[x][n] = pipe[x][n + 1]
        BY <1>1, <2>3, HeadTailProperties
      <3> QED  BY <3>1
    <2> QED  BY <2>1, <2>2, <2>3
  <1> QED
    BY <1>2 DEF PacketsExact

\* The writer of a packet and its reader agree on whether it carries data.
LEMMA DataAgreed ==
    ASSUME NEW x \in Pipes, NEW o \in Op
    PROVE  CarriesData(WritePhase(x), o) <=> CarriesData(ReadPhase(x), o)
  BY PipeParts, PhaseNumbers DEF CarriesData, WritePhase, ReadPhase

\* What a process writes is worth what its place in the tree says.
LEMMA WrittenWorth ==
    ASSUME TypeOK, NEW p \in Procs, BufferExact(p), Sending(p), CarriesData(phase[p], Current(p))
    PROVE  acc[p][moved[p] + 1] = Worth(Here(p), moved[p] + 1, Current(p))
  <1> DEFINE o == Current(p)
             i == moved[p] + 1
  <1>1. /\ Busy(p) /\ phase[p] \in Sends /\ phase[p] # Outside /\ phase[p] \in 1 .. 10
        /\ phase[p] \in Transfers
    BY PhaseNumbers DEF Sending, Busy, Transfers
  <1>2. o \in Op /\ round[p] \in 1 .. Len(script) /\ ValidRoot(o) /\ Here(p) \in Pipes
    BY <1>1, BusyTyped
  <1>3. i \in 1 .. o.count /\ TakesPart(p, phase[p], o) /\ i \in Nat
    <2>1. moved[p] \in Nat /\ moved[p] < Size(p, phase[p], o) /\ o.count \in Nat
      BY <1>1, <1>2 DEF TypeOK, InCall, Op
    <2> QED  BY <2>1 DEF Size, Packets
  <1>4. ChunkExact(p, i)
    BY <1>1, <1>3 DEF BufferExact
  <1>5. CASE o.kind = "bcast"
    <2>1. HasCopy(p, i)
      <3>1. CASE p = Root(o)
        BY <3>1 DEF HasCopy
      <3>2. CASE p # Root(o)
        <4> DEFINE ph == IF p = 1 THEN FromRoot ELSE FromParent
        <4>1. phase[p] \in {ToLeft, ToRight}
          BY <1>1, <1>3, <1>5, <3>2, PhaseNumbers DEF Sends, TakesPart, CarriesData
        <4>2. phase[p] > ph /\ ph \in Transfers
          BY <4>1, PhaseNumbers DEF Transfers
        <4> HIDE DEF ph
        <4>3. Moved(p, ph, <<round[p], i>>)
          BY <1>1, <1>3, <4>2, MovedNow
        <4> QED  BY <4>3 DEF HasCopy, ph
      <3> QED  BY <3>1, <3>2
    <2> QED  BY <1>4, <1>5, <2>1 DEF ChunkExact, Worth
  <1>6. CASE o.kind = "reduce"
    <2>1. phase[p] \in {ToParent, ToRoot}
      BY <1>1, <1>3, <1>6, PhaseNumbers DEF Sends, TakesPart, CarriesData
    <2>2. ~HasResult(p, i)
      <3>1. phase[p] < FromFirst /\ FromFirst \in Transfers
        BY <2>1, PhaseNumbers DEF Transfers
      <3>2. ~Moved(p, FromFirst, <<round[p], i>>)
        BY <1>1, <1>3, <3>1, MovedNow
      <3> QED  BY <3>2 DEF HasResult
    <2>3. Collected(p, i) = Below[p]
      BY <1>3, <2>1, PhaseNumbers, CollectedAll
    <2>4. acc[p][i] = Reduced(Below[p], i, o.op)
      BY <1>4, <1>6, <2>2, <2>3 DEF ChunkExact
    <2>5. CASE phase[p] = ToParent
      <3>1. Here(p) = <<"up", p>>
        BY <2>5, PhaseNumbers DEF Here, PipeOf
      <3> QED  BY <1>6, <2>4, <3>1 DEF Worth
    <2>6. CASE phase[p] = ToRoot
      <3>1. Here(p)[1] = "root" /\ p = 1
        BY <1>3, <2>6, PhaseNumbers DEF Here, PipeOf, TakesPart
      <3> QED  BY <1>6, <2>4, <3>1, BelowRoot DEF Worth
    <2> QED  BY <2>1, <2>5, <2>6
  <1>7. o.kind # "barrier"
    BY <1>1, <1>3, PhaseNumbers DEF CarriesData, TakesPart
  <1> QED
    BY <1>2, <1>5, <1>6, <1>7 DEF Op

\* So is what a process reads: the packet is the one it expects.
LEMMA ReadWorth ==
    ASSUME TypeOK, PacketsInOrder, NEW p \in Procs, GroupRecv(p), PacketsExact(Here(p)),
           CarriesData(phase[p], Current(p))
    PROVE  Head(pipe[Here(p)]).val = Worth(Here(p), moved[p] + 1, Current(p))
  <1> DEFINE x == Here(p)
             m == Head(pipe[x])
  <1>1. Busy(p) /\ phase[p] \notin Sends /\ Receiving(p) /\ open[p] /\ pipe[x] # <<>>
    BY DEF GroupRecv, Receiving
  <1>2. Current(p) \in Op /\ x \in Pipes /\ pipe[x] \in Seq(Mark)
    BY <1>1, BusyTyped
  <1>3. m.round = round[p] /\ m.chunk = moved[p] + 1
    BY <1>1, AlignedInv DEF ReadsAligned
  <1>4. 1 \in 1 .. Len(pipe[x]) /\ m = pipe[x][1]
    BY <1>1, <1>2
  <1>5. CarriesData(WritePhase(x), Current(p))
    BY <1>1, <1>2, AtWork, DataAgreed
  <1>6. script[m.round] = Current(p)
    BY <1>3 DEF Current
  <1> HIDE DEF x
  <1>7. CarriesData(WritePhase(x), script[pipe[x][1].round])
            => pipe[x][1].val = Worth(x, pipe[x][1].chunk, script[pipe[x][1].round])
    BY <1>4 DEF PacketsExact, x
  <1> QED
    BY <1>3, <1>4, <1>5, <1>6, <1>7 DEF x

\* The phases in which a process receives data for its own buffer.
Fills(p, o) ==
    {ph \in {FromRoot, FromLeft, FromRight, FromParent, FromFirst} :
        TakesPart(p, ph, o) /\ CarriesData(ph, o)}

\* A chunk is as it was if its byte is and nothing new has arrived for it.
LEMMA ChunkUntouched ==
    ASSUME TypeOK, NEW p \in Procs, NEW i, Current(p) \in Op, ChunkExact(p, i),
           script' = script, round' = round, acc'[p][i] = acc[p][i],
           \A ph \in Fills(p, Current(p)) :
               Moved(p, ph, <<round[p], i>>)' <=> Moved(p, ph, <<round[p], i>>)
    PROVE  ChunkExact(p, i)'
  <1> DEFINE o == Current(p)
             copy == HasCopy(p, i)
             Q == IF HasResult(p, i) THEN Procs ELSE Collected(p, i)
  <1>1. o' = o
    BY DEF Current
  <1>2. o.kind = "bcast" => (copy' <=> copy)
    <2>1. CASE o.kind = "bcast" /\ p # Root(o)
      <3> DEFINE ph == IF p = 1 THEN FromRoot ELSE FromParent
      <3>1. ph \in Fills(p, o)
        BY <2>1, PhaseNumbers DEF Fills, TakesPart, CarriesData
      <3>2. Moved(p, ph, <<round[p], i>>)' <=> Moved(p, ph, <<round[p], i>>)
        BY <3>1
      <3> QED  BY <1>1, <2>1, <3>2 DEF HasCopy
    <2>2. CASE p = Root(o)
      BY <1>1, <2>2 DEF HasCopy
    <2> QED  BY <2>1, <2>2
  <1>3. o.kind = "reduce" => Q' = Q
    <2> SUFFICES ASSUME o.kind = "reduce"  PROVE Q' = Q
      OBVIOUS
    <2>1. p # 1 /\ p = Root(o) => FromFirst \in Fills(p, o)
      BY PhaseNumbers DEF Fills, TakesPart, CarriesData
    <2>2. /\ HasChild(2 * p) => FromLeft \in Fills(p, o)
          /\ HasChild(2 * p + 1) => FromRight \in Fills(p, o)
      BY PhaseNumbers DEF Fills, TakesPart, CarriesData
    <2>3. HasResult(p, i)' <=> HasResult(p, i)
      BY <1>1, <2>1 DEF HasResult
    <2>4. Collected(p, i)' = Collected(p, i)
      BY <2>2 DEF Collected
    <2> QED  BY <2>3, <2>4
  <1>4. ChunkExact(p, i) <=> /\ o.kind = "bcast" /\ copy => acc[p][i] = Own(Root(o), i)
                             /\ o.kind = "reduce" => acc[p][i] = Reduced(Q, i, o.op)
    BY DEF ChunkExact
  <1>5. ChunkExact(p, i)' <=> /\ o'.kind = "bcast" /\ copy' => acc'[p][i] = Own(Root(o'), i)
                              /\ o'.kind = "reduce" => acc'[p][i] = Reduced(Q', i, o'.op)
    BY DEF ChunkExact, Reduced
  <1> HIDE DEF o, copy, Q
  <1> QED
    BY <1>1, <1>2, <1>3, <1>4, <1>5

LEMMA SendKeepsBuffer ==
    ASSUME TypeOK, NEW p \in Procs, BufferExact(p), GroupSend(p)
    PROVE  BufferExact(p)'
  <1>1. /\ Busy(p) /\ phase[p] \in Sends /\ Advance(p) /\ phase[p] # Outside
        /\ UNCHANGED <<script, round, acc>>
    BY PhaseNumbers DEF GroupSend, Sending, Busy, Transfers
  <1>2. Current(p) \in Op /\ (Current(p).count)' = Current(p).count
    BY <1>1, BusyTyped DEF Current
  <1>3. ASSUME NEW i \in 1 .. Current(p).count  PROVE ChunkExact(p, i)'
    <2>1. ASSUME NEW ph \in Fills(p, Current(p))
          PROVE  Moved(p, ph, <<round[p], i>>)' <=> Moved(p, ph, <<round[p], i>>)
      <3>1. /\ ph \in Transfers /\ ph # phase[p] /\ TakesPart(p, ph, Current(p))
            /\ CarriesData(ph, Current(p))
        BY <1>1, <1>2, PhaseNumbers DEF Fills, Transfers, Sends, CarriesData, TakesPart
      <3> QED  BY <1>1, <3>1, ChunkMoves
    <2>2. ChunkExact(p, i) /\ acc'[p][i] = acc[p][i]
      BY <1>1 DEF BufferExact
    <2> QED  BY <1>1, <1>2, <2>1, <2>2, ChunkUntouched
  <1> QED
    BY <1>2, <1>3 DEF BufferExact

\* A partial result of a child is reduced with what has been collected.
LEMMA CollectStep ==
    ASSUME TypeOK, NEW p \in Procs, Busy(p), Advance(p), script' = script, round' = round,
           Current(p).kind = "reduce", phase[p] \in {FromLeft, FromRight},
           NEW i, i = moved[p] + 1, NEW b, b = IF phase[p] = FromLeft THEN 2 * p ELSE 2 * p + 1
    PROVE  /\ ~HasResult(p, i) /\ ~HasResult(p, i)'
           /\ b \in Procs /\ Below[b] \cap Collected(p, i) = {}
           /\ Collected(p, i)' = Below[b] \cup Collected(p, i)
  <1> DEFINE o == Current(p)
             left == Moved(p, FromLeft, <<round[p], i>>)
             right == Moved(p, FromRight, <<round[p], i>>)
             result == Moved(p, FromFirst, <<round[p], i>>)
  <1>1. /\ o \in Op /\ round[p] \in 1 .. Len(script) /\ phase[p] \in 1 .. 10
        /\ phase[p] # Outside
    BY BusyTyped, PhaseNumbers DEF Busy, Transfers
  <1>2. i \in 1 .. o.count /\ TakesPart(p, phase[p], o) /\ i \in Nat
    <2>1. moved[p] \in Nat /\ moved[p] < Size(p, phase[p], o) /\ o.count \in Nat
      BY <1>1 DEF TypeOK, InCall, Op
    <2>2. Size(p, phase[p], o) > 0 /\ i \in Nat /\ i > 0 /\ i <= Size(p, phase[p], o)
      <3>1. Size(p, phase[p], o) \in Nat
        <4>1. phase[p] \in Outside .. Leaving
          BY <1>1, PhaseNumbers
        <4> QED  BY <1>1, <4>1, SizeTyped
      <3> QED  BY <2>1, <3>1
    <2>3. CarriesData(phase[p], o)
      BY DEF CarriesData
    <2> HIDE DEF o
    <2> QED  BY <2>1, <2>2, <2>3 DEF Size, Packets
  <1>3. FromLeft \in Transfers /\ FromRight \in Transfers /\ FromFirst \in Transfers
    BY PhaseNumbers DEF Transfers
  <1>4. /\ ~result
        /\ phase[p] = FromLeft => ~left /\ ~right
        /\ phase[p] = FromRight => left /\ ~right
    BY <1>1, <1>2, <1>3, MovedNow, PhaseNumbers DEF TypeOK
  <1>5. /\ HasChild(2 * p) => (left' <=> left \/ phase[p] = FromLeft)
        /\ HasChild(2 * p + 1) => (right' <=> right \/ phase[p] = FromRight)
        /\ p # 1 /\ p = Root(o) => ~result'
    <2>1. /\ HasChild(2 * p) => TakesPart(p, FromLeft, o) /\ CarriesData(FromLeft, o)
          /\ HasChild(2 * p + 1) => TakesPart(p, FromRight, o) /\ CarriesData(FromRight, o)
          /\ p # 1 /\ p = Root(o) => TakesPart(p, FromFirst, o) /\ CarriesData(FromFirst, o)
      BY PhaseNumbers DEF TakesPart, CarriesData
    <2> HIDE DEF o
    <2>2. HasChild(2 * p) => (left' <=> left \/ phase[p] = FromLeft)
      BY <1>2, <1>3, <2>1, ChunkMoves DEF o
    <2>3. HasChild(2 * p + 1) => (right' <=> right \/ phase[p] = FromRight)
      BY <1>2, <1>3, <2>1, ChunkMoves DEF o
    <2>4. p # 1 /\ p = Root(o) => ~result'
      <3>1. phase[p] # FromFirst
        BY PhaseNumbers
      <3> QED  BY <1>2, <1>3, <1>4, <2>1, <3>1, ChunkMoves DEF o
    <2> QED  BY <2>2, <2>3, <2>4
  <1>6. ~HasResult(p, i) /\ ~HasResult(p, i)'
    <2>1. Current(p)' = Current(p)
      BY DEF Current
    <2> QED  BY <1>4, <1>5, <2>1 DEF HasResult
  <1>7. N \in Nat /\ Procs = 1 .. N /\ p \in 1 .. N
    BY SizesAssumption DEF Procs
  <1>8. HasChild(b) /\ b \in Procs
    BY <1>2, <1>7, PhaseNumbers DEF TakesPart, HasChild
  <1>9. Below[b] \in SUBSET Procs
    BY <1>8, BelowSelf
  <1>10. CASE phase[p] = FromLeft
    <2>1. b = 2 * p /\ HasChild(2 * p)
      BY <1>8, <1>10
    <2>2. Collected(p, i) = {p}
      BY <1>4, <1>10 DEF Collected
    <2>3. left' /\ (HasChild(2 * p + 1) => ~right')
      BY <1>4, <1>5, <1>10, <2>1, PhaseNumbers
    <2>4. Collected(p, i)' = {p} \cup Below[b]
      BY <1>9, <2>1, <2>3 DEF Collected
    <2> QED  BY <1>6, <1>8, <2>1, <2>2, <2>4, BelowApart
  <1>11. CASE phase[p] = FromRight
    <2>1. b = 2 * p + 1 /\ HasChild(2 * p + 1) /\ HasChild(2 * p)
      BY <1>7, <1>8, <1>11, PhaseNumbers DEF HasChild
    <2>2. Collected(p, i) = {p} \cup {d \in Procs : d \in Below[2 * p]}
      BY <1>4, <1>11, <2>1 DEF Collected
    <2>3. left' /\ right'
      BY <1>4, <1>5, <1>11, <2>1
    <2>4. Collected(p, i)' = {p} \cup {d \in Procs : d \in Below[2 * p] \/ d \in Below[b]}
      BY <2>1, <2>3 DEF Collected
    <2>5. Collected(p, i)' = Below[b] \cup Collected(p, i)
      BY <1>9, <2>2, <2>4
    <2>6. p \notin Below[b] /\ Below[2 * p] \cap Below[b] = {}
      BY <2>1, BelowApart
    <2> QED  BY <1>6, <1>8, <2>2, <2>5, <2>6
  <1> QED
    BY <1>10, <1>11

LEMMA RecvKeepsBuffer ==
    ASSUME TypeOK, PacketsInOrder, NEW p \in Procs, BufferExact(p), GroupRecv(p),
           PacketsExact(Here(p))
    PROVE  BufferExact(p)'
  <1> DEFINE o == Current(p)
             ph == phase[p]
             val == Head(pipe[Here(p)]).val
  <1>1. /\ Busy(p) /\ ph \notin Sends /\ Advance(p) /\ ph # Outside /\ ph \in 1 .. 10
        /\ ph \in Transfers /\ UNCHANGED <<script, round>>
        /\ CarriesData(ph, o) => acc' = [acc EXCEPT ![p] = Absorb(@, moved[p] + 1, val, ph, o)]
        /\ ~CarriesData(ph, o) => acc' = acc
    BY PhaseNumbers DEF GroupRecv, Receiving, Busy, Transfers
  <1>2. o \in Op /\ (Current(p).count)' = o.count
    BY <1>1, BusyTyped DEF Current
  <1>3. TakesPart(p, ph, o) /\ acc \in [Procs -> Seq(Chunk)] /\ acc[p] \in [1 .. o.count -> Chunk]
        /\ moved[p] \in Nat
    <2>1. moved[p] \in Nat /\ moved[p] < Size(p, ph, o)
      BY <1>1 DEF TypeOK, InCall
    <2> QED  BY <1>1, <2>1 DEF Size, TypeOK, InCall
  <1>4. ASSUME NEW i \in 1 .. o.count, ~(CarriesData(ph, o) /\ i = moved[p] + 1)
        PROVE  ChunkExact(p, i)'
    <2>1. ASSUME NEW f \in Fills(p, o)
          PROVE  Moved(p, f, <<round[p], i>>)' <=> Moved(p, f, <<round[p], i>>)
      <3>1. f \in Transfers /\ TakesPart(p, f, o) /\ CarriesData(f, o)
        BY PhaseNumbers DEF Fills, Transfers
      <3>2. ~(f = phase[p] /\ i = moved[p] + 1)
        BY <1>4, <3>1
      <3> QED  BY <1>1, <3>1, <3>2, ChunkMoves
    <2>2. acc'[p][i] = acc[p][i]
      BY <1>1, <1>3, <1>4 DEF Absorb
    <2>3. ChunkExact(p, i)
      BY <1>1 DEF BufferExact
    <2> QED  BY <1>1, <1>2, <2>1, <2>2, <2>3, ChunkUntouched
  <1>5. ASSUME NEW i \in 1 .. o.count, CarriesData(ph, o), i = moved[p] + 1
        PROVE  ChunkExact(p, i)'
    <2>1. val = Worth(Here(p), i, o)
      BY <1>5, ReadWorth
    <2>2. acc'[p][i] = IF ph \in {FromLeft, FromRight} THEN Reducer(val, acc[p][i], o.op) ELSE val
      <3> HIDE DEF val
      <3> QED  BY <1>1, <1>3, <1>5 DEF Absorb
    <2>3. ChunkExact(p, i) /\ i \in Nat
      BY <1>1 DEF BufferExact
    <2>4. Current(p)' = o
      BY <1>1 DEF Current
    <2>5. CASE o.kind = "bcast"
      <3>1. ph \notin {FromLeft, FromRight}
        BY <1>5, <2>5, PhaseNumbers DEF CarriesData
      <3>2. acc'[p][i] = Own(Root(o), i)
        BY <2>1, <2>2, <2>5, <3>1 DEF Worth
      <3> QED  BY <2>4, <2>5, <3>2 DEF ChunkExact
    <2>6. CASE o.kind = "reduce" /\ ph \in {FromLeft, FromRight}
      <3>1. PICK b : b = IF ph = FromLeft THEN 2 * p ELSE 2 * p + 1
        OBVIOUS
      <3>2. PICK C : C = Collected(p, i)
        OBVIOUS
      <3>3. /\ ~HasResult(p, i) /\ ~HasResult(p, i)'
            /\ b \in Procs /\ Below[b] \cap C = {} /\ Collected(p, i)' = Below[b] \cup C
        BY <1>1, <1>5, <2>6, <3>1, <3>2, CollectStep
      <3>4. C \in SUBSET Procs /\ C # {} /\ Below[b] \in SUBSET Procs /\ Below[b] # {}
        BY <3>2, <3>3, BelowSelf DEF Collected
      <3>5. acc[p][i] = Reduced(C, i, o.op)
        BY <2>3, <2>6, <3>2, <3>3 DEF ChunkExact
      <3>6. val = Reduced(Below[b], i, o.op)
        <4>1. Here(p) = <<"up", b>>
          BY <2>6, <3>1, PhaseNumbers DEF Here, PipeOf
        <4> QED  BY <2>1, <2>6, <4>1 DEF Worth
      <3>7. o.op \in MIMPI_Op
        BY <1>2 DEF Op
      <3>8. acc'[p][i] = Reduced(Below[b] \cup C, i, o.op)
        BY <2>2, <2>3, <2>6, <3>3, <3>4, <3>5, <3>6, <3>7, ReducedJoin
      <3> QED  BY <2>4, <2>6, <3>3, <3>8 DEF ChunkExact
    <2>7. CASE o.kind = "reduce" /\ ph \notin {FromLeft, FromRight}
      <3>1. ph = FromFirst /\ p # 1 /\ p = Root(o)
        BY <1>1, <1>3, <1>5, <2>7, PhaseNumbers DEF CarriesData, TakesPart, Sends
      <3>2. Moved(p, FromFirst, <<round[p], i>>)'
        BY <1>1, <1>3, <1>5, <3>1, ChunkMoves
      <3>3. HasResult(p, i)'
        BY <2>4, <3>1, <3>2 DEF HasResult
      <3>4. Here(p)[1] # "up"
        BY <3>1, PhaseNumbers DEF Here, PipeOf
      <3>5. acc'[p][i] = Reduced(Procs, i, o.op)
        BY <2>1, <2>2, <2>7, <3>4 DEF Worth
      <3> QED  BY <2>4, <2>7, <3>3, <3>5 DEF ChunkExact
    <2>8. CASE o.kind = "barrier"
      BY <2>4, <2>8 DEF ChunkExact
    <2> QED  BY <1>2, <2>5, <2>6, <2>7, <2>8 DEF Op
  <1> QED
    BY <1>2, <1>4, <1>5 DEF BufferExact

LEMMA CallFillsBuffer ==
    ASSUME TypeOK, NEW p \in Procs, Call(p)
    PROVE  BufferExact(p)'
  <1>1. PICK r : r = round[p] + 1
    OBVIOUS
  <1>2. PICK o : o = script[r]
    OBVIOUS
  <1>3. /\ phase[p] = Outside /\ r \in 1 .. Len(script) /\ ValidRoot(o) /\ round'[p] = r
        /\ acc'[p] = Initial(p, o) /\ script' = script
    BY <1>1, <1>2 DEF Call, TypeOK
  <1>4. o \in Op /\ Current(p)' = o
    BY <1>2, <1>3, ScriptTyped DEF Current
  <1>5. ASSUME NEW i \in 1 .. o.count, NEW ph \in Fills(p, o)
        PROVE  ~Moved(p, ph, <<r, i>>)'
    <2>1. ph \in Transfers /\ TakesPart(p, ph, o) /\ CarriesData(ph, o)
      BY PhaseNumbers DEF Fills, Transfers
    <2>2. <<r, i>> \in Share(p, ph, PipeOf(p, ph, o))
      BY <1>2, <1>3, <2>1, DataShare
    <2>3. Moved(p, ph, <<r, i>>)' <=> Moved(p, ph, <<r, i>>)
      BY <2>1, <2>2, QuietMoves
    <2>4. r > round[p] /\ r # round[p] /\ ~(r < round[p])
      BY <1>1 DEF TypeOK
    <2>5. <<r, i>>[1] = r
      OBVIOUS
    <2> QED  BY <2>3, <2>4, <2>5 DEF Moved
  <1>6. ASSUME NEW i \in 1 .. o.count
        PROVE  ChunkExact(p, i)'
    <2>1. i \in Nat /\ o.count \in Nat
      BY <1>4 DEF Op
    <2>2. CASE o.kind = "bcast"
      <3>1. HasCopy(p, i)' => p = Root(o)
        <4> SUFFICES ASSUME p # Root(o), HasCopy(p, i)'  PROVE FALSE
          OBVIOUS
        <4>1. PICK ph : ph = IF p = 1 THEN FromRoot ELSE FromParent
          OBVIOUS
        <4>2. Moved(p, ph, <<r, i>>)'
          BY <1>3, <1>4, <4>1 DEF HasCopy
        <4>3. ph \in Fills(p, o)
          BY <2>2, <4>1, PhaseNumbers DEF Fills, TakesPart, CarriesData
        <4> QED  BY <1>5, <4>2, <4>3
      <3>2. p = Root(o) => acc'[p][i] = Own(Root(o), i)
        BY <1>3, <2>2 DEF Initial
      <3> QED  BY <1>4, <2>2, <3>1, <3>2 DEF ChunkExact
    <2>3. CASE o.kind = "reduce"
      <3>1. ~HasResult(p, i)'
        <4>1. p # 1 /\ p = Root(o) => FromFirst \in Fills(p, o)
          BY <2>3, PhaseNumbers DEF Fills, TakesPart, CarriesData
        <4> QED  BY <1>3, <1>4, <1>5, <4>1 DEF HasResult
      <3>2. Collected(p, i)' = {p}
        <4>1. /\ HasChild(2 * p) => FromLeft \in Fills(p, o)
              /\ HasChild(2 * p + 1) => FromRight \in Fills(p, o)
          BY <2>3, PhaseNumbers DEF Fills, TakesPart, CarriesData
        <4>2. /\ HasChild(2 * p) => ~Moved(p, FromLeft, <<r, i>>)'
              /\ HasChild(2 * p + 1) => ~Moved(p, FromRight, <<r, i>>)'
          BY <1>5, <4>1
        <4> QED  BY <1>3, <4>2 DEF Collected
      <3>3. acc'[p][i] = Reduced({p}, i, o.op)
        <4>1. acc'[p][i] = Own(p, i)
          BY <1>3, <2>3 DEF Initial
        <4>2. o.op \in MIMPI_Op
          BY <1>4 DEF Op
        <4> QED  BY <2>1, <4>1, <4>2, ReducedOne
      <3> QED  BY <1>4, <2>3, <3>1, <3>2, <3>3 DEF ChunkExact
    <2>4. CASE o.kind = "barrier"
      BY <1>4, <2>4 DEF ChunkExact
    <2> QED  BY <1>4, <2>2, <2>3, <2>4 DEF Op
  <1> QED
    BY <1>4, <1>6 DEF BufferExact

\* When a call succeeds, the buffer holds what the call promises.
LEMMA SucceedDelivers ==
    ASSUME TypeOK, NEW p \in Procs, BufferExact(p), Succeed(p)
    PROVE  Delivered(p)'
  <1> DEFINE o == Current(p)
  <1>1. phase[p] = Leaving /\ phase[p] # Outside /\ UNCHANGED <<script, round, acc>>
    BY PhaseNumbers DEF Succeed
  <1>2. o \in Op /\ o' = o /\ acc[p] \in [1 .. o.count -> Chunk]
    BY <1>1, ScriptTyped DEF TypeOK, InCall, Current
  <1>3. ret'[p].data = Result(p, o)
    BY DEF Succeed, Return, TypeOK
  <1>4. ASSUME NEW i \in 1 .. o.count, NEW ph \in Transfers
        PROVE  Moved(p, ph, <<round[p], i>>)
    <2>1. phase[p] > ph /\ i \in Nat
      BY <1>1, <1>2, PhaseNumbers DEF Transfers, Op
    <2> QED  BY <1>1, <2>1, MovedNow
  <1>5. FromRoot \in Transfers /\ FromParent \in Transfers /\ FromFirst \in Transfers
    BY PhaseNumbers DEF Transfers
  <1>6. CASE o.kind = "bcast"
    <2>1. ASSUME NEW i \in 1 .. o.count  PROVE acc[p][i] = Own(Root(o), i)
      <3>1. HasCopy(p, i)
        BY <1>4, <1>5 DEF HasCopy
      <3> QED  BY <1>1, <1>6, <3>1 DEF BufferExact, ChunkExact
    <2>2. acc[p] = [i \in 1 .. o.count |-> Own(Root(o), i)]
      BY <1>2, <2>1
    <2>3. ret'[p].data = acc[p]
      BY <1>3, <1>6 DEF Result
    <2> QED  BY <1>2, <1>6, <2>2, <2>3 DEF Delivered
  <1>7. CASE o.kind = "reduce" /\ p = Root(o)
    <2>1. ASSUME NEW i \in 1 .. o.count  PROVE acc[p][i] = Reduced(Procs, i, o.op)
      <3>1. ChunkExact(p, i) /\ i \in Nat
        BY <1>1 DEF BufferExact
      <3>2. CASE p = 1
        <4>1. Collected(p, i) = Procs
          BY <1>1, <3>1, <3>2, PhaseNumbers, CollectedAll, BelowRoot
        <4> QED  BY <1>7, <3>1, <3>2, <4>1 DEF ChunkExact, HasResult
      <3>3. CASE p # 1
        <4>1. HasResult(p, i)
          BY <1>4, <1>5, <1>7, <3>3 DEF HasResult
        <4> QED  BY <1>7, <3>1, <4>1 DEF ChunkExact
      <3> QED  BY <3>2, <3>3
    <2>2. acc[p] = [i \in 1 .. o.count |-> Reduced(Procs, i, o.op)]
      BY <1>2, <2>1
    <2>3. ret'[p].data = acc[p]
      BY <1>3, <1>7 DEF Result
    <2> QED  BY <1>2, <1>7, <2>2, <2>3 DEF Delivered
  <1>8. CASE o.kind # "bcast" /\ ~(o.kind = "reduce" /\ p = Root(o))
    <2>1. ret'[p].data = <<>>
      BY <1>3, <1>8 DEF Result
    <2> QED  BY <1>2, <1>8, <2>1 DEF Delivered
  <1> QED
    BY <1>6, <1>7, <1>8

\* What a call has handed out stays what it was until the next call.
LEMMA DeliveredKept ==
    ASSUME NEW p \in Procs, Delivered(p), script' = script, UNCHANGED <<ret[p], round[p]>>
    PROVE  Delivered(p)'
  <1> DEFINE o == Current(p)
  <1>1. o' = o /\ ret'[p].data = ret[p].data
    BY DEF Current
  <1>2. \A i : Reduced(Procs, i, o.op)' = Reduced(Procs, i, o.op)
    BY <1>1
  <1> HIDE DEF o
  <1> QED
    BY <1>1, <1>2 DEF Delivered, o

LEMMA ArrivesStep ==
    ASSUME TypeOK, DataExact, [Next]_vars
    PROVE  DataArrives'
  <1> SUFFICES ASSUME NEW q \in Procs, (ret[q].code = "SUCCESS")'  PROVE Delivered(q)'
    BY DEF DataArrives
  <1>0. ret \in [Procs -> [code: Codes, data: Seq(Chunk)]] /\ BufferExact(q)
    BY DEF TypeOK, DataExact
  <1>1. ASSUME script' = script, UNCHANGED <<ret[q], round[q]>>  PROVE Delivered(q)'
    <2>1. Delivered(q)
      BY <1>1 DEF DataExact, DataArrives
    <2> QED  BY <1>1, <2>1, DeliveredKept
  <1>2. ASSUME NEW p \in Procs, LibraryStep(p) \/ ProgramStep(p) \/ Die(p)
        PROVE  Delivered(q)'
    <2>1. CASE p # q
      <3>1. script' = script /\ UNCHANGED <<ret[q], round[q]>>
        BY <1>0, <1>2, <2>1
           DEF LibraryStep, ProgramStep, GroupSend, GroupRecv, GroupFails, Abort, Succeed,
               Call, RejectCall, Finalize, Die, Return, TypeOK
      <3> QED  BY <1>1, <3>1
    <2>2. CASE p = q
      <3>1. CASE GroupSend(p) \/ GroupRecv(p) \/ Abort(p) \/ Finalize(p) \/ Die(p)
        BY <1>1, <2>2, <3>1 DEF GroupSend, GroupRecv, Abort, Finalize, Die
      <3>2. CASE GroupFails(p) \/ Call(p) \/ RejectCall(p)
        BY <1>0, <2>2, <3>2 DEF GroupFails, Call, RejectCall, Return
      <3>3. CASE Succeed(p)
        BY <1>0, <2>2, <3>3, SucceedDelivers
      <3> QED  BY <1>2, <3>1, <3>2, <3>3 DEF LibraryStep, ProgramStep
    <2> QED  BY <2>1, <2>2
  <1>3. CASE UNCHANGED vars
    BY <1>1, <1>3 DEF vars
  <1> QED
    BY <1>2, <1>3 DEF Next

LEMMA BufferStep ==
    ASSUME TypeOK, PacketsInOrder, DataExact, [Next]_vars, NEW q \in Procs
    PROVE  BufferExact(q)'
  <1>0. BufferExact(q) /\ acc \in [Procs -> Seq(Chunk)]
    BY DEF DataExact, TypeOK
  <1>1. ASSUME script' = script, UNCHANGED <<phase[q], round[q], moved[q], acc[q]>>
        PROVE  BufferExact(q)'
    BY <1>0, <1>1, BufferKept
  <1>2. ASSUME NEW p \in Procs, LibraryStep(p) \/ ProgramStep(p) \/ Die(p)
        PROVE  BufferExact(q)'
    <2>1. CASE p # q
      <3>1. script' = script /\ acc'[q] = acc[q]
        BY <1>0, <1>2, <2>1
           DEF LibraryStep, ProgramStep, GroupSend, GroupRecv, GroupFails, Abort, Succeed,
               Call, RejectCall, Finalize, Die
      <3>2. UNCHANGED <<phase[q], round[q], moved[q]>>
        BY <1>2, <2>1, OthersIdle
      <3> QED  BY <1>1, <3>1, <3>2
    <2>2. CASE p = q
      <3>1. CASE GroupSend(p)
        BY <1>0, <2>2, <3>1, SendKeepsBuffer
      <3>2. CASE GroupRecv(p)
        <4>1. Here(p) \in Pipes
          BY <3>2, BusyTyped DEF GroupRecv, Receiving
        <4> QED  BY <1>0, <2>2, <3>2, <4>1, RecvKeepsBuffer DEF DataExact
      <3>3. CASE Call(p)
        BY <2>2, <3>3, CallFillsBuffer
      <3>4. CASE GroupFails(p) \/ Succeed(p) \/ RejectCall(p)
        <4>1. phase'[q] = Outside
          BY <2>2, <3>4 DEF GroupFails, Succeed, RejectCall, Return, TypeOK
        <4> QED  BY <4>1 DEF BufferExact
      <3>5. CASE Abort(p) \/ Finalize(p) \/ Die(p)
        BY <1>1, <2>2, <3>5 DEF Abort, Finalize, Die
      <3> QED  BY <1>2, <3>1, <3>2, <3>3, <3>4, <3>5 DEF LibraryStep, ProgramStep
    <2> QED  BY <2>1, <2>2
  <1>3. CASE UNCHANGED vars
    BY <1>1, <1>3 DEF vars
  <1> QED
    BY <1>2, <1>3 DEF Next

\* A write appends a packet that is worth what it should be.
LEMMA SendExact ==
    ASSUME TypeOK, NEW p \in Procs, BufferExact(p), GroupSend(p),
           NEW x, x = Here(p), PacketsExact(x)
    PROVE  PacketsExact(x)'
  <1> DEFINE i == moved[p] + 1
             m == [round |-> round[p], chunk |-> i,
                   val |-> IF CarriesData(phase[p], Current(p)) THEN acc[p][i] ELSE Token]
  <1>1. /\ Sending(p) /\ Busy(p) /\ phase[p] \in Sends /\ script' = script
        /\ pipe' = [pipe EXCEPT ![Here(p)] = Append(@, m)]
    BY DEF GroupSend, Sending
  <1>3. x \in Pipes /\ pipe[x] \in Seq(Mark) /\ pipe \in [Pipes -> Seq(Mark)] /\ Current(p) \in Op
    BY <1>1, BusyTyped DEF TypeOK
  <1>4. WritePhase(x) = phase[p]
    BY <1>1, AtWork
  <1>5. PICK c : c = m
    OBVIOUS
  <1>6. pipe'[x] = Append(pipe[x], c)
    BY <1>1, <1>3, <1>5
  <1>7. /\ Len(pipe'[x]) = Len(pipe[x]) + 1 /\ Len(pipe[x]) \in Nat
        /\ \A n \in 1 .. Len(pipe[x]) : pipe'[x][n] = pipe[x][n]
        /\ pipe'[x][Len(pipe[x]) + 1] = c
    BY <1>3, <1>6
  <1>8. CarriesData(WritePhase(x), script[c.round]) => c.val = Worth(x, c.chunk, script[c.round])
    <2>1. c.round = round[p] /\ c.chunk = i /\ script[c.round] = Current(p)
      BY <1>5 DEF Current
    <2>2. CarriesData(phase[p], Current(p)) => c.val = acc[p][i]
      BY <1>5
    <2> QED  BY <1>1, <1>4, <2>1, <2>2, WrittenWorth
  <1> SUFFICES ASSUME NEW n \in 1 .. Len(pipe'[x]),
                      CarriesData(WritePhase(x), script[pipe'[x][n].round])
               PROVE  pipe'[x][n].val = Worth(x, pipe'[x][n].chunk, script[pipe'[x][n].round])
    BY <1>1 DEF PacketsExact
  <1>9. CASE n = Len(pipe[x]) + 1
    BY <1>7, <1>8, <1>9
  <1>10. CASE n \in 1 .. Len(pipe[x])
    BY <1>7, <1>10 DEF PacketsExact
  <1> QED
    BY <1>7, <1>9, <1>10

LEMMA PacketsStep ==
    ASSUME TypeOK, DataExact, [Next]_vars, NEW x \in Pipes
    PROVE  PacketsExact(x)'
  <1>0. PacketsExact(x) /\ pipe \in [Pipes -> Seq(Mark)]
    BY DEF DataExact, TypeOK
  <1>1. ASSUME script' = script,
               pipe'[x] \in {pipe[x], Tail(pipe[x]), <<>>}, pipe[x] = <<>> => pipe'[x] = <<>>
        PROVE  PacketsExact(x)'
    BY <1>0, <1>1, PacketsKept
  <1>2. ASSUME NEW p \in Procs, LibraryStep(p) \/ ProgramStep(p) \/ Die(p)
        PROVE  PacketsExact(x)'
    <2>1. CASE GroupSend(p)
      <3>1. CASE x = Here(p)
        BY <1>0, <2>1, <3>1, SendExact DEF DataExact
      <3>2. CASE x # Here(p)
        <4>1. script' = script /\ pipe'[x] = pipe[x]
          BY <1>0, <2>1, <3>2 DEF GroupSend
        <4> QED  BY <1>1, <4>1
      <3> QED  BY <3>1, <3>2
    <2>2. CASE GroupRecv(p)
      <3>1. script' = script /\ pipe[Here(p)] # <<>> /\ pipe' = [pipe EXCEPT ![Here(p)] = Tail(@)]
        BY <2>2 DEF GroupRecv
      <3>2. pipe'[x] = pipe[x] \/ (pipe[x] # <<>> /\ pipe'[x] = Tail(pipe[x]))
        BY <1>0, <3>1
      <3> QED  BY <1>1, <3>1, <3>2
    <2>3. CASE GroupFails(p) \/ Finalize(p) \/ Die(p)
      <3>1. script' = script /\ pipe'[x] \in {pipe[x], <<>>}
        BY <2>3 DEF GroupFails, Finalize, Die, CloseGroupPipes
      <3> QED  BY <1>1, <3>1
    <2>4. CASE Abort(p) \/ Succeed(p) \/ Call(p) \/ RejectCall(p)
      <3>1. script' = script /\ pipe' = pipe
        BY <2>4 DEF Abort, Succeed, Call, RejectCall
      <3> QED  BY <1>1, <3>1
    <2> QED  BY <1>2, <2>1, <2>2, <2>3, <2>4 DEF LibraryStep, ProgramStep
  <1>3. CASE UNCHANGED vars
    BY <1>1, <1>3 DEF vars
  <1> QED
    BY <1>2, <1>3 DEF Next

LEMMA DataInit == Init => DataExact
  <1> SUFFICES ASSUME Init  PROVE DataExact
    OBVIOUS
  <1>1. ASSUME NEW p \in Procs  PROVE BufferExact(p) /\ ret[p].code # "SUCCESS"
    BY DEF Init, BufferExact
  <1>2. ASSUME NEW x \in Pipes  PROVE PacketsExact(x)
    BY DEF Init, PacketsExact
  <1> QED
    BY <1>1, <1>2 DEF DataExact, DataArrives

LEMMA DataStep == TypeOK /\ PacketsInOrder /\ DataExact /\ [Next]_vars => DataExact'
  <1> SUFFICES ASSUME TypeOK, PacketsInOrder, DataExact, [Next]_vars  PROVE DataExact'
    OBVIOUS
  <1>1. \A p \in Procs : BufferExact(p)'
    BY BufferStep
  <1>2. \A x \in Pipes : PacketsExact(x)'
    BY PacketsStep
  <1>3. DataArrives'
    BY ArrivesStep
  <1> QED
    BY <1>1, <1>2, <1>3 DEF DataExact

(***************************************************************************)
(* GroupDataExact: at every moment every byte of a buffer, and every one   *)
(* on its way, is the one its place in the tree calls for.                 *)
(***************************************************************************)
THEOREM GroupDataExact == Spec => []DataExact
  <1>1. Init => TypeOK /\ PacketsInOrder /\ DataExact
    BY TypingInit, InOrderInit, DataInit
  <1>2. TypeOK /\ PacketsInOrder /\ DataExact /\ [Next]_vars
            => (TypeOK /\ PacketsInOrder /\ DataExact)'
    BY TypingStep, InOrderStep, DataStep
  <1> QED
    BY <1>1, <1>2, PTL DEF Spec

(***************************************************************************)
(* GroupDataArrives: a Bcast that succeeds has handed out the root's data, *)
(* and a Reduce the data of all processes, each taken once.                *)
(***************************************************************************)
THEOREM GroupDataArrives == Spec => []DataArrives
  <1>1. DataExact => DataArrives
    BY DEF DataExact
  <1> QED
    BY <1>1, GroupDataExact, PTL
=============================================================================
