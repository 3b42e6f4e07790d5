-------------------------- MODULE RecursionTheorems --------------------------
(***************************************************************************)
(* Induction and recursion over the natural numbers, in a form that needs  *)
(* no operator parameter: a property of numbers is the set of those that   *)
(* have it, the step of a recursion is a function.  Then the sums of       *)
(* Totals, and quotients.                                                  *)
(***************************************************************************)
EXTENDS Totals, WellFoundedInduction, TLAPS

\* The natural numbers are well ordered.
LEMMA LeastElement ==
  ASSUME NEW T \in SUBSET Nat, NEW n \in T
  PROVE  \E x \in T : \A y \in T : x <= y
<1> DEFINE R == {ss \in Nat \X Nat : ss[1] < ss[2]}
<1>1. IsWellFoundedOn(R, Nat)
  BY NatLessThanWellFounded DEF OpToRel
<1>2. T # {} /\ T \subseteq Nat
  OBVIOUS
<1> HIDE DEF R
<1>3. PICK x \in T : \A y \in T : ~ (<<y, x>> \in R)
  BY <1>1, <1>2, WFMin
<1>4. \A y \in T : x <= y
  <2> SUFFICES ASSUME NEW y \in T, ~(x <= y) PROVE FALSE
    OBVIOUS
  <2>1. y < x /\ x \in Nat /\ y \in Nat
    OBVIOUS
  <2>2. <<y, x>> \in R
    BY <2>1 DEF R
  <2> QED
    BY <1>3, <2>2
<1> QED
  BY <1>4

\* A set that holds 0, and with a number the next one, holds all.
LEMMA SetInduction ==
  ASSUME NEW T, 0 \in T, \A n \in Nat : n \in T => n + 1 \in T
  PROVE  \A n \in Nat : n \in T
<1> SUFFICES ASSUME NEW n \in Nat, n \notin T PROVE FALSE
  OBVIOUS
<1> DEFINE U == Nat \ T
<1>1. PICK x \in U : \A y \in U : x <= y
  <2>1. U \in SUBSET Nat /\ n \in U
    OBVIOUS
  <2> HIDE DEF U
  <2> QED
    BY <2>1, LeastElement
<1>2. x \in Nat /\ x # 0 /\ x \notin T
  BY <1>1
<1>3. x - 1 \in Nat /\ (x - 1) + 1 = x
  BY <1>2
<1>4. x - 1 \in T
  BY <1>1, <1>3
<1> QED
  BY <1>2, <1>3, <1>4

\* N steps, each a function on S, and whether f takes them from base on.
Steps(N, S) == [1..N -> [S -> S]]
Follows(f, base, step, N) ==
  f[0] = base /\ \A n \in 1..N : f[n] = step[n][f[n - 1]]

\* A step may be repeated N times.
LEMMA RecursionExists ==
  ASSUME NEW S, NEW base \in S, NEW N \in Nat, NEW step \in Steps(N, S)
  PROVE  \E f \in [0..N -> S] : Follows(f, base, step, N)
<1> DEFINE Eq(f, m) == f[0] = base /\ \A n \in 1..m : f[n] = step[n][f[n - 1]]
           T == {m \in Nat : m <= N => \E f \in [0..m -> S] : Eq(f, m)}
<1>1. 0 \in T
  <2> DEFINE f == [n \in 0..0 |-> base]
  <2>1. f \in [0..0 -> S] /\ Eq(f, 0)
    OBVIOUS
  <2> HIDE DEF f, Eq
  <2> QED
    BY <2>1
<1>2. \A m \in Nat : m \in T => m + 1 \in T
  <2> SUFFICES ASSUME NEW m \in Nat, m \in T, m + 1 <= N
               PROVE  \E g \in [0..(m + 1) -> S] : Eq(g, m + 1)
    <3> HIDE DEF Eq
    <3> QED
      OBVIOUS
  <2>1. PICK f \in [0..m -> S] : Eq(f, m)
    <3> HIDE DEF Eq
    <3> QED
      OBVIOUS
  <2> DEFINE g == [n \in 0..(m + 1) |->
                     IF n = m + 1 THEN step[m + 1][f[m]] ELSE f[n]]
  <2>2. m + 1 \in 1..N /\ m \in 0..m /\ f[m] \in S
    OBVIOUS
  <2>3. step[m + 1] \in [S -> S]
    BY <2>2 DEF Steps
  <2>4. step[m + 1][f[m]] \in S
    BY <2>2, <2>3
  <2>5. g \in [0..(m + 1) -> S]
    BY <2>4
  <2>6. g[0] = base
    BY <2>1
  <2>7. ASSUME NEW n \in 1..(m + 1)
        PROVE  g[n] = step[n][g[n - 1]]
    <3>1. CASE n = m + 1
      <4>1. g[n] = step[m + 1][f[m]] /\ g[n - 1] = f[m]
        BY <3>1
      <4> HIDE DEF g
      <4> QED
        BY <3>1, <4>1
    <3>2. CASE n \in 1..m
      <4>1. g[n] = f[n] /\ g[n - 1] = f[n - 1]
        BY <3>2
      <4> HIDE DEF g
      <4> QED
        BY <2>1, <3>2, <4>1
    <3> QED
      BY <3>1, <3>2
  <2> HIDE DEF g
  <2>8. Eq(g, m + 1)
    BY <2>6, <2>7
  <2> HIDE DEF Eq
  <2> QED
    BY <2>5, <2>8
<1>3. N \in T
  <2> HIDE DEF T
  <2> QED
    BY <1>1, <1>2, SetInduction
<1> HIDE DEF Eq
<1>4. \E f \in [0..N -> S] : Eq(f, N)
  BY <1>3
<1> QED
  BY <1>4 DEF Eq, Follows

\* What steps inside S reach stays inside S.
LEMMA RecursionType ==
  ASSUME NEW S, NEW N \in Nat, NEW f, f[0] \in S,
         \A n \in 1..N : f[n - 1] \in S => f[n] \in S
  PROVE  \A n \in 0..N : f[n] \in S
<1> DEFINE T == {m \in Nat : m <= N => f[m] \in S}
<1>1. \A m \in Nat : m \in T
  <2>1. 0 \in T
    OBVIOUS
  <2>2. \A m \in Nat : m \in T => m + 1 \in T
    <3> SUFFICES ASSUME NEW m \in Nat, m \in T, m + 1 <= N
                 PROVE  f[m + 1] \in S
      OBVIOUS
    <3>1. m + 1 \in 1..N /\ (m + 1) - 1 = m /\ f[m] \in S
      OBVIOUS
    <3> QED
      BY <3>1
  <2> HIDE DEF T
  <2> QED
    BY <2>1, <2>2, SetInduction
<1> QED
  BY <1>1
------------------------------------------------------------------------------
(* The sums.                                                                *)

\* The function that UpTo chooses exists.
LEMMA UpToDef ==
  ASSUME NEW w \in Seq(Int)
  PROVE  UpTo(w) = [n \in 0..Len(w) |-> IF n = 0 THEN 0 ELSE UpTo(w)[n - 1] + w[n]]
<1> DEFINE Eq(f, m) == /\ DOMAIN f = 0..m
                       /\ \A n \in 0..m : f[n] = IF n = 0 THEN 0 ELSE f[n - 1] + w[n]
           T == {m \in Nat : m <= Len(w) => \E f \in [0..m -> Int] : Eq(f, m)}
<1>t. Len(w) \in Nat /\ \A n \in 1..Len(w) : w[n] \in Int
  OBVIOUS
<1>1. 0 \in T
  <2> DEFINE f == [n \in 0..0 |-> 0]
  <2>1. f \in [0..0 -> Int] /\ Eq(f, 0)
    OBVIOUS
  <2> HIDE DEF f, Eq
  <2> QED
    BY <2>1
<1>2. \A m \in Nat : m \in T => m + 1 \in T
  <2> SUFFICES ASSUME NEW m \in Nat, m \in T, m + 1 <= Len(w)
               PROVE  \E g \in [0..(m + 1) -> Int] : Eq(g, m + 1)
    <3> HIDE DEF Eq
    <3> QED
      OBVIOUS
  <2>1. PICK f \in [0..m -> Int] : Eq(f, m)
    BY <1>t
  <2> DEFINE g == [n \in 0..(m + 1) |-> IF n = m + 1 THEN f[m] + w[m + 1] ELSE f[n]]
  <2>2. g \in [0..(m + 1) -> Int]
    BY <1>t
  <2>3. \A n \in 0..(m + 1) : g[n] = IF n = 0 THEN 0 ELSE g[n - 1] + w[n]
    BY <2>1, SMTT(30)
  <2> HIDE DEF g
  <2>4. Eq(g, m + 1)
    BY <2>2, <2>3
  <2> QED
    BY <2>2, <2>4
<1>3. Len(w) \in T
  <2> HIDE DEF T
  <2> QED
    BY <1>1, <1>2, <1>t, SetInduction
<1>4. PICK f \in [0..Len(w) -> Int] : Eq(f, Len(w))
  BY <1>3, <1>t
<1>5. f = [n \in 0..Len(w) |-> IF n = 0 THEN 0 ELSE f[n - 1] + w[n]]
  BY <1>4
<1> HIDE DEF T, Eq
<1> QED
  BY <1>5 DEF UpTo

\* The sums are integers, and each is the one before it and one element more.
LEMMA UpToStep ==
  ASSUME NEW w \in Seq(Int)
  PROVE  /\ UpTo(w) \in [0..Len(w) -> Int]
         /\ UpTo(w)[0] = 0
         /\ \A n \in 1..Len(w) : UpTo(w)[n] = UpTo(w)[n - 1] + w[n]
<1>t. Len(w) \in Nat /\ \A n \in 1..Len(w) : w[n] \in Int
  OBVIOUS
<1> DEFINE u == UpTo(w)
<1>1. u = [n \in 0..Len(w) |-> IF n = 0 THEN 0 ELSE u[n - 1] + w[n]]
  BY UpToDef
<1> HIDE DEF u
<1>2. u[0] = 0
  BY <1>1, <1>t
<1>3. \A n \in 1..Len(w) : u[n] = u[n - 1] + w[n]
  <2> TAKE n \in 1..Len(w)
  <2>1. n \in 0..Len(w) /\ n # 0
    BY <1>t
  <2> QED
    BY <1>1, <2>1
<1> DEFINE T == {m \in Nat : m <= Len(w) => u[m] \in Int}
<1>4. \A m \in Nat : m \in T
  <2>1. 0 \in T
    BY <1>2
  <2>2. \A m \in Nat : m \in T => m + 1 \in T
    <3> SUFFICES ASSUME NEW m \in Nat, m \in T, m + 1 <= Len(w)
                 PROVE  u[m + 1] \in Int
      OBVIOUS
    <3>1. m + 1 \in 1..Len(w) /\ (m + 1) - 1 = m /\ u[m] \in Int
      BY <1>t
    <3> QED
      BY <1>3, <1>t, <3>1
  <2> HIDE DEF T
  <2> QED
    BY <2>1, <2>2, SetInduction
<1>5. \A n \in 0..Len(w) : u[n] \in Int
  BY <1>4, <1>t
<1>6. DOMAIN u = 0..Len(w) /\ u = [n \in DOMAIN u |-> u[n]]
  BY <1>1
<1>7. u \in [0..Len(w) -> Int]
  BY <1>5, <1>6
<1> QED
  BY <1>2, <1>3, <1>7 DEF u

\* Nothing else adds up like that.
LEMMA UpToUnique ==
  ASSUME NEW w \in Seq(Int), NEW k \in 0..Len(w), NEW f,
         f[0] = 0, \A n \in 1..k : f[n] = f[n - 1] + w[n]
  PROVE  \A n \in 0..k : UpTo(w)[n] = f[n]
<1> DEFINE u == UpTo(w)
<1>t. Len(w) \in Nat /\ k \in Nat /\ k <= Len(w)
  OBVIOUS
<1>1. u[0] = 0 /\ \A n \in 1..Len(w) : u[n] = u[n - 1] + w[n]
  BY UpToStep
<1> HIDE DEF u
<1> DEFINE T == {m \in Nat : m <= k => u[m] = f[m]}
<1>2. \A m \in Nat : m \in T
  <2>1. 0 \in T
    BY <1>1
  <2>2. \A m \in Nat : m \in T => m + 1 \in T
    <3> SUFFICES ASSUME NEW m \in Nat, m \in T, m + 1 <= k
                 PROVE  u[m + 1] = f[m + 1]
      OBVIOUS
    <3>1. /\ m + 1 \in 1..Len(w) /\ m + 1 \in 1..k /\ (m + 1) - 1 = m
          /\ u[m] = f[m]
      BY <1>t
    <3> QED
      BY <1>1, <3>1
  <2> HIDE DEF T
  <2> QED
    BY <2>1, <2>2, SetInduction
<1> QED
  BY <1>2, <1>t DEF u

\* Nothing adds up to 0.
LEMMA TotalEmpty == Total(<<>>) = 0
<1>1. <<>> \in Seq(Int) /\ Len(<<>>) = 0
  OBVIOUS
<1> QED
  BY <1>1, UpToStep DEF Total

\* Sums do not look ahead.
LEMMA UpToPrefix ==
  ASSUME NEW v \in Seq(Int), NEW w \in Seq(Int), NEW k \in Nat,
         k <= Len(v), k <= Len(w), \A i \in 1..k : v[i] = w[i]
  PROVE  \A n \in 0..k : UpTo(v)[n] = UpTo(w)[n]
<1>1. UpTo(w)[0] = 0 /\ \A n \in 1..k : UpTo(w)[n] = UpTo(w)[n - 1] + v[n]
  BY UpToStep
<1>2. k \in 0..Len(v)
  OBVIOUS
<1> QED
  BY <1>1, <1>2, UpToUnique

\* The total of a prefix is a sum on the way.
LEMMA TotalPrefix ==
  ASSUME NEW v \in Seq(Int), NEW w \in Seq(Int), Len(v) <= Len(w),
         \A i \in 1..Len(v) : v[i] = w[i]
  PROVE  Total(v) = UpTo(w)[Len(v)]
<1>1. Len(v) \in Nat /\ Len(v) \in 0..Len(v)
  OBVIOUS
<1>2. \A n \in 0..Len(v) : UpTo(v)[n] = UpTo(w)[n]
  <2> DEFINE k == Len(v)
  <2>1. k \in Nat /\ k <= Len(v) /\ k <= Len(w) /\ \A i \in 1..k : v[i] = w[i]
    BY <1>1
  <2> HIDE DEF k
  <2>2. \A n \in 0..k : UpTo(v)[n] = UpTo(w)[n]
    BY <2>1, UpToPrefix
  <2> QED
    BY <2>2 DEF k
<1> QED
  BY <1>1, <1>2 DEF Total

\* One element more at the end adds that element.
LEMMA TotalLast ==
  ASSUME NEW v \in Seq(Int), NEW w \in Seq(Int), Len(v) = Len(w) + 1,
         \A i \in 1..Len(w) : v[i] = w[i]
  PROVE  Total(v) = Total(w) + v[Len(v)]
<1>1. Len(w) \in Nat /\ Len(w) <= Len(v) /\ Len(v) \in 1..Len(v)
      /\ Len(v) - 1 = Len(w)
  OBVIOUS
<1>2. Total(w) = UpTo(v)[Len(w)]
  BY <1>1, TotalPrefix
<1>3. UpTo(v)[Len(v)] = UpTo(v)[Len(v) - 1] + v[Len(v)]
  BY <1>1, UpToStep
<1> QED
  BY <1>1, <1>2, <1>3 DEF Total

\* What follows the first k elements adds up to the rest.
LEMMA TotalSuffix ==
  ASSUME NEW v \in Seq(Int), NEW w \in Seq(Int), NEW k \in Nat,
         Len(w) = Len(v) + k, \A i \in 1..Len(v) : v[i] = w[i + k]
  PROVE  Total(v) = Total(w) - UpTo(w)[k]
<1> DEFINE f == [n \in 0..Len(v) |-> UpTo(w)[n + k] - UpTo(w)[k]]
<1>t. Len(v) \in Nat /\ Len(w) \in Nat
  OBVIOUS
<1>u. /\ \A n \in 0..Len(w) : UpTo(w)[n] \in Int
      /\ \A n \in 1..Len(w) : UpTo(w)[n] = UpTo(w)[n - 1] + w[n]
  BY UpToStep
<1>1. f[0] = 0
  <2>1. 0 \in 0..Len(v) /\ 0 + k = k /\ k \in 0..Len(w)
    BY <1>t
  <2>2. f[0] = UpTo(w)[k] - UpTo(w)[k] /\ UpTo(w)[k] \in Int
    BY <1>u, <2>1
  <2> QED
    BY <2>2
<1>2. \A n \in 1..Len(v) : f[n] = f[n - 1] + v[n]
  <2> TAKE n \in 1..Len(v)
  <2>1. /\ n \in 0..Len(v) /\ n - 1 \in 0..Len(v)
        /\ n + k \in 1..Len(w) /\ (n + k) - 1 = (n - 1) + k
    <3> DEFINE a == Len(v)
               b == Len(w)
    <3>1. a \in Nat /\ b \in Nat /\ b = a + k /\ n \in 1..a /\ k \in Nat
      BY <1>t
    <3> HIDE DEF a, b
    <3>2. n \in 0..a /\ n - 1 \in 0..a
      BY <3>1
    <3>3. n + k \in 1..b /\ (n + k) - 1 = (n - 1) + k
      BY <3>1
    <3> QED
      BY <3>2, <3>3 DEF a, b
  <2>2. UpTo(w)[n + k] = UpTo(w)[(n - 1) + k] + v[n]
    BY <1>u, <2>1
  <2>3. UpTo(w)[(n - 1) + k] \in Int /\ UpTo(w)[k] \in Int /\ v[n] \in Int
    <3>1. (n - 1) + k \in 0..Len(w) /\ k \in 0..Len(w)
      BY <1>t, <2>1
    <3>2. v[n] \in Int
      OBVIOUS
    <3> QED
      BY <1>u, <3>1, <3>2
  <2>4. /\ f[n] = UpTo(w)[n + k] - UpTo(w)[k]
        /\ f[n - 1] = UpTo(w)[(n - 1) + k] - UpTo(w)[k]
    BY <2>1
  <2>7. UpTo(w)[n + k] - UpTo(w)[k] = (UpTo(w)[(n - 1) + k] - UpTo(w)[k]) + v[n]
    <3> DEFINE a == UpTo(w)[n + k]
               b == UpTo(w)[(n - 1) + k]
               c == UpTo(w)[k]
               d == v[n]
    <3>1. a = b + d /\ b \in Int /\ c \in Int /\ d \in Int
      BY <2>2, <2>3
    <3> HIDE DEF a, b, c, d, f
    <3>2. a - c = (b - c) + d
      BY <3>1
    <3> QED
      BY <3>2 DEF a, b, c, d
  <2> QED
    BY <2>4, <2>7
<1>3. Len(v) \in 0..Len(v)
  BY <1>t
<1> HIDE DEF f
<1>4. UpTo(v)[Len(v)] = f[Len(v)]
  BY <1>1, <1>2, <1>3, UpToUnique
<1>5. f[Len(v)] = UpTo(w)[Len(v) + k] - UpTo(w)[k]
  BY <1>3 DEF f
<1> QED
  BY <1>4, <1>5 DEF Total

\* Sums of numbers that are not negative grow.
LEMMA UpToMonotonic ==
  ASSUME NEW w \in Seq(Int), \A i \in 1..Len(w) : w[i] >= 0
  PROVE  \A n \in 0..Len(w) : \A k \in 0..n : 0 <= UpTo(w)[k] /\ UpTo(w)[k] <= UpTo(w)[n]
<1> DEFINE u == UpTo(w)
<1>t. Len(w) \in Nat /\ \A n \in 1..Len(w) : w[n] \in Int
  OBVIOUS
<1>1. /\ u[0] = 0 /\ \A n \in 1..Len(w) : u[n] = u[n - 1] + w[n]
      /\ \A n \in 0..Len(w) : u[n] \in Int
  BY UpToStep
<1> HIDE DEF u
<1> DEFINE Grows(m) == \A k \in 0..m : 0 <= u[k] /\ u[k] <= u[m]
           T == {m \in Nat : m <= Len(w) => Grows(m)}
<1>2. \A m \in Nat : m \in T
  <2>1. 0 \in T
    BY <1>1
  <2>2. \A m \in Nat : m \in T => m + 1 \in T
    <3> SUFFICES ASSUME NEW m \in Nat, m \in T, m + 1 <= Len(w)
                 PROVE  Grows(m + 1)
      <4> HIDE DEF Grows
      <4> QED
        OBVIOUS
    <3> SUFFICES ASSUME NEW k \in 0..(m + 1)
                 PROVE  0 <= u[k] /\ u[k] <= u[m + 1]
      OBVIOUS
    <3>1. m + 1 \in 1..Len(w) /\ (m + 1) - 1 = m /\ m \in 0..m
      BY <1>t
    <3>2. u[m + 1] = u[m] + w[m + 1] /\ w[m + 1] >= 0 /\ u[m] \in Int /\ w[m + 1] \in Int
      BY <1>1, <1>t, <3>1
    <3>3. \A j \in 0..m : 0 <= u[j] /\ u[j] <= u[m] /\ u[j] \in Int
      BY <1>1, <1>t, <3>1
    <3>4. CASE k \in 0..m
      BY <3>2, <3>3, <3>4
    <3>5. CASE k = m + 1
      BY <3>1, <3>2, <3>3, <3>5
    <3> QED
      BY <3>4, <3>5
  <2> HIDE DEF T
  <2> QED
    BY <2>1, <2>2, SetInduction
<1> QED
  BY <1>2, <1>t DEF u

\* A total is an integer.
LEMMA TotalType ==
  ASSUME NEW w \in Seq(Int)
  PROVE  Total(w) \in Int
<1>1. Len(w) \in 0..Len(w)
  OBVIOUS
<1> QED
  BY <1>1, UpToStep DEF Total

\* The sum without the first element.
LEMMA TotalFirst ==
  ASSUME NEW v \in Seq(Int), NEW w \in Seq(Int), Len(w) = Len(v) + 1,
         \A i \in 1..Len(v) : v[i] = w[i + 1]
  PROVE  Total(w) = w[1] + Total(v)
<1>1. Len(v) \in Nat /\ 1 \in 1..Len(w) /\ 1 - 1 = 0
  OBVIOUS
<1>2. UpTo(w)[1] = w[1] /\ w[1] \in Int
  <2>1. UpTo(w)[0] = 0 /\ UpTo(w)[1] = UpTo(w)[1 - 1] + w[1] /\ w[1] \in Int
    BY <1>1, UpToStep
  <2> QED
    BY <1>1, <2>1
<1>3. Total(v) = Total(w) - UpTo(w)[1]
  BY <1>1, TotalSuffix
<1>4. Total(w) \in Int
  BY TotalType
<1> QED
  BY <1>2, <1>3, <1>4

\* Natural numbers add up to at least each of them.
LEMMA TotalAtLeast ==
  ASSUME NEW w \in Seq(Int), \A i \in 1..Len(w) : w[i] >= 0
  PROVE  /\ Total(w) \in Nat
         /\ \A i \in 1..Len(w) : w[i] <= Total(w)
<1> DEFINE u == UpTo(w)
<1>t. Len(w) \in Nat /\ Len(w) \in 0..Len(w)
      /\ \A i \in 1..Len(w) : w[i] \in Int
  OBVIOUS
<1>1. \A k \in 0..Len(w) : 0 <= u[k] /\ u[k] <= u[Len(w)]
  BY <1>t, UpToMonotonic
<1>2. /\ \A n \in 1..Len(w) : u[n] = u[n - 1] + w[n]
      /\ \A n \in 0..Len(w) : u[n] \in Int
  BY UpToStep
<1>3. Total(w) = u[Len(w)]
  BY DEF Total
<1> HIDE DEF u
<1>4. Total(w) \in Nat
  BY <1>t, <1>1, <1>2, <1>3
<1>5. ASSUME NEW i \in 1..Len(w)
      PROVE  w[i] <= Total(w)
  <2>1. i \in 0..Len(w) /\ i - 1 \in 0..Len(w)
    BY <1>t
  <2>2. /\ u[i] = u[i - 1] + w[i] /\ 0 <= u[i - 1] /\ u[i] <= Total(w)
        /\ u[i] \in Int /\ u[i - 1] \in Int /\ w[i] \in Int /\ Total(w) \in Int
    BY <1>t, <1>1, <1>2, <1>3, <2>1
  <2> QED
    BY <2>2
<1> QED
  BY <1>4, <1>5

\* Zeros add up to 0.
LEMMA TotalZero ==
  ASSUME NEW w \in Seq(Int), \A i \in 1..Len(w) : w[i] = 0
  PROVE  Total(w) = 0
<1> DEFINE f == [n \in 0..Len(w) |-> 0]
<1>1. Len(w) \in Nat /\ Len(w) \in 0..Len(w)
  OBVIOUS
<1>2. f[0] = 0 /\ \A n \in 1..Len(w) : f[n] = f[n - 1] + w[n]
  BY <1>1
<1>3. f[Len(w)] = 0
  BY <1>1
<1> HIDE DEF f
<1> QED
  BY <1>1, <1>2, <1>3, UpToUnique DEF Total
------------------------------------------------------------------------------
(* Products and quotients.                                                  *)

\* What a quotient is.
LEMMA Quotient ==
  ASSUME NEW x \in Int, NEW t \in Nat \ {0}
  PROVE  /\ x \div t \in Int
         /\ (x \div t) * t <= x /\ x < (x \div t) * t + t
OBVIOUS

\* A product grows with its first factor.
LEMMA ProductMonotonic ==
  ASSUME NEW a \in Int, NEW b \in Int, NEW t \in Nat, a < b
  PROVE  a * t + t <= b * t
<1>1. PICK k \in Nat : b = (a + 1) + k
  <2>1. (b - a) - 1 \in Nat /\ b = (a + 1) + ((b - a) - 1)
    OBVIOUS
  <2> QED
    BY <2>1
<1>2. b * t = (a * t + t) + k * t
  BY <1>1
<1>3. k * t \in Nat /\ a * t \in Int
  OBVIOUS
<1> QED
  BY <1>2, <1>3

\* Quotient and remainder of a number that is given by them.
LEMMA Division ==
  ASSUME NEW t \in Nat \ {0}, NEW r \in Int, NEW k \in 0..(t - 1)
  PROVE  (r * t + k) \div t = r /\ (r * t + k) % t = k
<1> DEFINE x == r * t + k
           q == x \div t
<1>1. x \in Int /\ r * t \in Int
  OBVIOUS
<1>2. q \in Int /\ q * t <= x /\ x < q * t + t /\ q * t \in Int
  BY <1>1, Quotient
<1>3. x % t = x - q * t
  BY <1>1
<1> HIDE DEF q
<1>4. ~(q < r)
  <2> SUFFICES ASSUME q < r PROVE FALSE
    OBVIOUS
  <2>1. q * t + t <= r * t
    BY <1>2, ProductMonotonic
  <2> QED
    BY <1>1, <1>2, <2>1
<1>5. ~(r < q)
  <2> SUFFICES ASSUME r < q PROVE FALSE
    OBVIOUS
  <2>1. r * t + t <= q * t
    BY <1>2, ProductMonotonic
  <2> QED
    BY <1>1, <1>2, <2>1
<1>6. q = r
  BY <1>2, <1>4, <1>5
<1> QED
  BY <1>1, <1>3, <1>6 DEF q
==============================================================================
