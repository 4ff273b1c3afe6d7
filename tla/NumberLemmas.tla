----------------------------- MODULE NumberLemmas -----------------------------
(***************************************************************************)
(* Facts about numbers that the proofs of several components need: least   *)
(* and greatest elements, quotients and remainders, and sums of a function *)
(* over a finite set (SumFunctionOnSet).  Of the sums, for every function  *)
(* and every finite set: the recursion behind the sum has a solution and   *)
(* only one, and the sum may be taken apart at any element.  Each          *)
(* induction over the set is the choice of a smallest counterexample,      *)
(* which the well-foundedness of < on the naturals provides.               *)
(***************************************************************************)
EXTENDS Integers, FiniteSets, FiniteSetsExt, FiniteSetTheorems,
        WellFoundedInduction, TLAPS

\* A non-empty set of naturals has a least element.
LEMMA LeastElement ==
    ASSUME NEW T \in SUBSET Nat, T # {}
    PROVE  \E m \in T : \A k \in T : m <= k
<1> DEFINE R == OpToRel(<, Nat)
<1>1. IsWellFoundedOn(R, Nat)
    BY NatLessThanWellFounded
<1>2. R = {ss \in Nat \X Nat : ss[1] < ss[2]}
    BY DEF OpToRel
<1> HIDE DEF R
<1>3. PICK m \in T : \A k \in T : ~ (<<k, m>> \in R)
    BY <1>1, WFMin
<1>4. \A x, y \in Nat : x < y => <<x, y>> \in R
    BY <1>2
<1>5. ASSUME NEW k \in T PROVE m <= k
  <2>1. m \in Nat /\ k \in Nat /\ ~(k < m)
      BY <1>3, <1>4
  <2> QED
      BY <2>1
<1> QED
    BY <1>5

\* The maximum of a bounded set of naturals is the greatest of its elements.
LEMMA GreatestElement ==
    ASSUME NEW n \in Nat, NEW T \in SUBSET (0..n), T # {}
    PROVE  Max(T) \in T /\ \A x \in T : x <= Max(T)
<1> DEFINE Rest == {n - x : x \in T}
<1>1. Rest \in SUBSET Nat /\ Rest # {}
    OBVIOUS
<1> HIDE DEF Rest
<1>2. PICK r \in Rest : \A y \in Rest : r <= y
    BY <1>1, LeastElement
<1>3. PICK m \in T : r = n - m
    BY DEF Rest
<1>4. ASSUME NEW x \in T PROVE m >= x
  <2>1. n - m <= n - x
      BY <1>2, <1>3 DEF Rest
  <2>2. x \in 0..n /\ m \in 0..n
      OBVIOUS
  <2> QED
      BY <2>1, <2>2
<1>5. Max(T) = CHOOSE x \in T : \A y \in T : x >= y
    BY DEF Max
<1>6. Max(T) \in T /\ \A y \in T : Max(T) >= y
    BY <1>4, <1>5
<1> QED
    BY <1>6

-----------------------------------------------------------------------------
(* Quotients and remainders *)

\* Quotient and remainder are determined by what they are for.
LEMMA DivisionUnique ==
    ASSUME NEW n \in Nat \ {0}, NEW q \in Nat, NEW m \in 0..(n - 1),
           NEW x \in Nat, x = (n * q) + m
    PROVE  x \div n = q /\ x % n = m
<1> DEFINE p == x \div n
           r == x % n
<1>1. p \in Nat /\ r \in 0..(n - 1) /\ x = (n * p) + r
  OBVIOUS
<1> HIDE DEF p, r
<1>2. ASSUME NEW a \in Nat, NEW b \in Nat, a + 1 <= b
      PROVE  (n * a) + n <= n * b
  <2>1. n * (a + 1) <= n * b
    BY <1>2
  <2>2. n * (a + 1) = (n * a) + n
    OBVIOUS
  <2> QED  BY <2>1, <2>2
<1>3. ~(p + 1 <= q)
  <2> SUFFICES ASSUME p + 1 <= q PROVE FALSE
    OBVIOUS
  <2>1. (n * p) + n <= n * q
    BY <1>1, <1>2
  <2>2. n * p \in Nat /\ n * q \in Nat
    BY <1>1
  <2> QED  BY <1>1, <2>1, <2>2
<1>4. ~(q + 1 <= p)
  <2> SUFFICES ASSUME q + 1 <= p PROVE FALSE
    OBVIOUS
  <2>1. (n * q) + n <= n * p
    BY <1>1, <1>2
  <2>2. n * p \in Nat /\ n * q \in Nat
    BY <1>1
  <2> QED  BY <1>1, <2>1, <2>2
<1>5. p = q
  BY <1>1, <1>3, <1>4
<1>6. n * q \in Nat
  OBVIOUS
<1>7. r = m
  BY <1>1, <1>5, <1>6
<1> QED  BY <1>5, <1>7 DEF p, r

\* What is added to a number shows in its quotient and its remainder: the
\* quotients add up, and the remainders carry.
LEMMA Adding ==
    ASSUME NEW n \in Nat \ {0}, NEW a \in Nat, NEW r \in Nat
    PROVE  /\ (a % n) + (r % n) >= n =>
                 /\ (a + r) \div n = (a \div n) + (r \div n) + 1
                 /\ (a + r) % n = (a % n) + (r % n) - n
           /\ ~((a % n) + (r % n) >= n) =>
                 /\ (a + r) \div n = (a \div n) + (r \div n)
                 /\ (a + r) % n = (a % n) + (r % n)
<1> DEFINE p == a \div n
           q == r \div n
           u == a % n
           v == r % n
           c == a + r
           P == n * p
           Q == n * q
<1>1. p \in Nat /\ u \in 0..(n - 1) /\ a = P + u
  OBVIOUS
<1>2. q \in Nat /\ v \in 0..(n - 1) /\ r = Q + v
  OBVIOUS
<1>3. c \in Nat /\ c = a + r
  OBVIOUS
<1> HIDE DEF p, q, u, v, c
<1>4. /\ n * (p + q) = P + Q /\ n * (p + q + 1) = P + Q + n
      /\ P \in Nat /\ Q \in Nat
  BY <1>1, <1>2
<1> HIDE DEF P, Q
<1>5. c = P + u + Q + v
  BY <1>1, <1>2, <1>3, <1>4
<1>6. ASSUME u + v >= n
      PROVE  c \div n = p + q + 1 /\ c % n = u + v - n
  <2> DEFINE w == p + q + 1
             m == u + v - n
  <2>1. m \in 0..(n - 1) /\ w \in Nat /\ c = P + Q + n + m
    BY <1>1, <1>2, <1>4, <1>5, <1>6
  <2>2. c = (n * w) + m
    BY <1>4, <2>1
  <2> HIDE DEF w, m
  <2>3. c \in Nat /\ m \in 0..(n - 1) /\ w \in Nat
    BY <1>3, <2>1
  <2>4. c \div n = w /\ c % n = m
    BY <2>2, <2>3, DivisionUnique
  <2> QED  BY <2>4 DEF w, m
<1>7. ASSUME ~(u + v >= n)
      PROVE  c \div n = p + q /\ c % n = u + v
  <2> DEFINE w == p + q
             m == u + v
  <2>1. m \in 0..(n - 1) /\ w \in Nat /\ c = P + Q + m
    BY <1>1, <1>2, <1>4, <1>5, <1>7
  <2>2. c = (n * w) + m
    BY <1>4, <2>1
  <2> HIDE DEF w, m
  <2>3. c \in Nat /\ m \in 0..(n - 1) /\ w \in Nat
    BY <1>3, <2>1
  <2>4. c \div n = w /\ c % n = m
    BY <2>2, <2>3, DivisionUnique
  <2> QED  BY <2>4 DEF w, m
<1> QED  BY <1>6, <1>7, Zenon DEF c, p, q, u, v

\* Counting to n again and again: the remainder goes up by one, or back to
\* zero.
LEMMA CountingOn ==
    ASSUME NEW n \in Nat \ {0}, NEW x \in Nat
    PROVE  /\ x % n \in 0..(n - 1)
           /\ (x % n) + 1 >= n    => (x + 1) % n = 0
           /\ ~((x % n) + 1 >= n) => (x + 1) % n = (x % n) + 1
<1> DEFINE q == x \div n
           m == x % n
           y == x + 1
<1>1. q \in Nat /\ m \in 0..(n - 1) /\ x = (n * q) + m /\ y \in Nat
    OBVIOUS
<1> DEFINE P == n * q
<1>2. P \in Nat /\ n * (q + 1) = P + n /\ y = P + m + 1
    BY <1>1
<1> HIDE DEF q, m, y
<1>3. ASSUME m + 1 >= n PROVE y % n = 0
  <2> DEFINE w == q + 1
             z == 0
  <2>1. w \in Nat /\ z \in 0..(n - 1) /\ y \in Nat
      BY <1>1
  <2>2. y = (n * w) + z
      BY <1>1, <1>2, <1>3
  <2> HIDE DEF w, z, P
  <2>3. y % n = z
      BY <2>1, <2>2, DivisionUnique
  <2> QED
      BY <2>3 DEF z
<1>4. ASSUME ~(m + 1 >= n) PROVE y % n = m + 1
  <2> DEFINE z == m + 1
  <2>1. q \in Nat /\ z \in 0..(n - 1) /\ y \in Nat
      BY <1>1, <1>4
  <2>2. y = (n * q) + z
      BY <1>1, <1>2
  <2> HIDE DEF z, P
  <2>3. y % n = z
      BY <2>1, <2>2, DivisionUnique
  <2> QED
      BY <2>3 DEF z
<1>5. m \in 0..(n - 1)
    BY <1>1
<1> QED
    BY <1>3, <1>4, <1>5, Zenon DEF m, y

-----------------------------------------------------------------------------
(* Sums *)

\* g is a table of the partial sums of f on the subsets of S.
IsTable(g, f, S) ==
    g = [s \in SUBSET S |->
            IF s = {} THEN 0
            ELSE f[CHOOSE x \in s : TRUE] + g[s \ {CHOOSE x \in s : TRUE}]]

\* The table the recursion of the sum stands for.
Table(f, S) == CHOOSE g : IsTable(g, f, S)

\* The sum is the last entry of the table of partial sums.
LEMMA SumIsTable == \A f, S : SumFunctionOnSet(f, S) = Table(f, S)[S]
    BY Zenon DEF SumFunctionOnSet, FoldFunctionOnSet, MapThenFoldSet, Table, IsTable

\* A non-empty set of finite sets has one of the least size.
LEMMA SmallestSet ==
    ASSUME NEW Bad, Bad # {}, \A s \in Bad : IsFiniteSet(s)
    PROVE  \E s \in Bad : \A t \in Bad : Cardinality(s) <= Cardinality(t)
<1> DEFINE Sizes == {Cardinality(s) : s \in Bad}
<1>1. Sizes \in SUBSET Nat /\ Sizes # {}
    BY FS_CardinalityType
<1> HIDE DEF Sizes
<1>2. PICK m \in Sizes : \A k \in Sizes : m <= k
    BY <1>1, LeastElement
<1> QED
    BY <1>2 DEF Sizes

\* Taking an element out of a finite set makes it smaller.
LEMMA SmallerWithout ==
    ASSUME NEW s, IsFiniteSet(s), NEW x \in s
    PROVE  /\ IsFiniteSet(s \ {x})
           /\ Cardinality(s) \in Nat /\ Cardinality(s \ {x}) \in Nat
           /\ Cardinality(s \ {x}) < Cardinality(s)
<1>1. IsFiniteSet(s \ {x}) /\ Cardinality(s \ {x}) = Cardinality(s) - 1
    BY FS_RemoveElement
<1>2. Cardinality(s) \in Nat /\ Cardinality(s \ {x}) \in Nat
    BY <1>1, FS_CardinalityType
<1> QED
    BY <1>1, <1>2

\* The element a sum takes out of s first.
First(s) == CHOOSE x \in s : TRUE

\* The element a sum takes out first is an element.
LEMMA FirstIn == \A s : s # {} => First(s) \in s
    BY Zenon DEF First

\* What one row of a table says.
LEMMA TableRow ==
    ASSUME NEW g, NEW f, NEW S, IsTable(g, f, S), NEW s \in SUBSET S
    PROVE  g[s] = IF s = {} THEN 0 ELSE f[First(s)] + g[s \ {First(s)}]
    BY Zenon DEF IsTable, First

\* Two tables of a function agree on every finite set both have a row for.
LEMMA TablesAgree ==
    ASSUME NEW f, NEW g, NEW h, NEW S, NEW T,
           IsTable(g, f, S), IsTable(h, f, T),
           NEW s, s \subseteq S, s \subseteq T, IsFiniteSet(s)
    PROVE  g[s] = h[s]
<1> DEFINE Bad == {t \in SUBSET s : g[t] # h[t]}
<1> SUFFICES ASSUME Bad # {} PROVE FALSE
    OBVIOUS
<1>1. \A t \in Bad : IsFiniteSet(t)
    BY FS_Subset
<1>2. PICK t \in Bad : \A u \in Bad : Cardinality(t) <= Cardinality(u)
    BY <1>1, SmallestSet
<1>3. t # {}
    BY TableRow
<1> DEFINE x == First(t)
<1>4. x \in t /\ t \in SUBSET s /\ t \in SUBSET S /\ t \in SUBSET T
    BY <1>3, FirstIn
<1>5. t \ {x} \notin Bad
  <2>1. Cardinality(t \ {x}) < Cardinality(t) /\ Cardinality(t) \in Nat
        /\ Cardinality(t \ {x}) \in Nat
      BY <1>1, <1>4, SmallerWithout
  <2> QED
      BY <1>2, <2>1
<1>6. g[t \ {x}] = h[t \ {x}]
    BY <1>4, <1>5
<1>7. g[t] = f[x] + g[t \ {x}] /\ h[t] = f[x] + h[t \ {x}]
    BY <1>3, <1>4, TableRow
<1> QED
    BY <1>6, <1>7

\* The subsets of a finite set have a table: the recursion has a solution.
LEMMA TableExists ==
    ASSUME NEW f, NEW S, IsFiniteSet(S)
    PROVE  IsTable(Table(f, S), f, S)
<1> DEFINE Bad == {t \in SUBSET S : ~ \E g : IsTable(g, f, t)}
<1>1. ASSUME Bad # {} PROVE FALSE
  <2>1. \A t \in Bad : IsFiniteSet(t)
      BY FS_Subset
  <2>2. PICK t \in Bad : \A u \in Bad : Cardinality(t) <= Cardinality(u)
      BY <1>1, <2>1, SmallestSet
  <2>3. ASSUME NEW u \in SUBSET t, u # t
        PROVE  IsTable(Table(f, u), f, u)
    <3>1. PICK x \in t : x \notin u
        BY <2>3
    <3>2. IsFiniteSet(t \ {x}) /\ u \subseteq t \ {x}
        BY <2>1, <3>1, SmallerWithout
    <3>3. Cardinality(u) <= Cardinality(t \ {x}) /\ Cardinality(u) \in Nat
        BY <3>2, FS_Subset, FS_CardinalityType
    <3>4. Cardinality(t \ {x}) < Cardinality(t) /\ Cardinality(t) \in Nat
          /\ Cardinality(t \ {x}) \in Nat
        BY <2>1, SmallerWithout
    <3>5. u \notin Bad
        BY <2>2, <3>3, <3>4
    <3>6. \E g : IsTable(g, f, u)
        BY <3>5
    <3> QED
        BY <3>6, Zenon DEF Table
  <2> DEFINE V(u) == Table(f, u)[u]
             G == [u \in SUBSET t |->
                     IF u = {} THEN 0 ELSE f[First(u)] + V(u \ {First(u)})]
  <2>4. ASSUME NEW u \in SUBSET t, u # t
        PROVE  G[u] = V(u)
    <3>1. CASE u = {}
      <4>1. V(u) = 0
          BY <2>3, <2>4, <3>1, TableRow
      <4> QED
          BY <3>1, <4>1
    <3>2. CASE u # {}
      <4> DEFINE w == u \ {First(u)}
      <4>0. First(u) \in t /\ IsFiniteSet(t) /\ w \subseteq t
          BY <2>1, <3>2, FirstIn
      <4>1. w \in SUBSET t /\ w \subseteq u /\ w # t /\ IsFiniteSet(w)
        <5>1. IsFiniteSet(w)
            BY <4>0, FS_Subset
        <5> QED
            BY <4>0, <5>1
      <4>2. Table(f, u)[w] = Table(f, w)[w]
          BY <2>3, <2>4, <4>1, TablesAgree
      <4>3. V(u) = f[First(u)] + Table(f, u)[w]
          BY <2>3, <2>4, <3>2, TableRow
      <4> QED
          BY <3>2, <4>2, <4>3
    <3> QED
        BY <3>1, <3>2
  <2>5. ASSUME NEW u \in SUBSET t, u # {}
        PROVE  u \ {First(u)} \in SUBSET t /\ u \ {First(u)} # t
      BY <2>5, FirstIn
  <2>6. G = [u \in SUBSET t |->
               IF u = {} THEN 0 ELSE f[First(u)] + G[u \ {First(u)}]]
    <3>1. ASSUME NEW u \in SUBSET t, u # {}
          PROVE  G[u \ {First(u)}] = V(u \ {First(u)})
        BY <2>4, <2>5, <3>1
    <3>2. ASSUME NEW u \in SUBSET t
          PROVE  G[u] = IF u = {} THEN 0 ELSE f[First(u)] + G[u \ {First(u)}]
        BY <3>1
    <3> HIDE DEF G
    <3>3. G = [u \in SUBSET t |-> G[u]]
        BY DEF G
    <3> QED
        BY <3>2, <3>3
  <2> HIDE DEF G
  <2>7. IsTable(G, f, t)
      BY <2>6, Zenon DEF IsTable, First
  <2> QED
      BY <2>2, <2>7
<1>2. \E g : IsTable(g, f, S)
    BY <1>1
<1> QED
    BY <1>2, Zenon DEF Table

-----------------------------------------------------------------------------
(* The sum of a function over a finite set *)

\* Nothing sums to 0.
LEMMA SumEmpty == \A f : SumFunctionOnSet(f, {}) = 0
<1> TAKE f
<1>1. IsTable(Table(f, {}), f, {})
    BY FS_EmptySet, TableExists
<1> QED
    BY <1>1, TableRow, SumIsTable

\* The sum, taken apart at the element the definition takes out first.
LEMMA SumFirst ==
    ASSUME NEW f, NEW S, IsFiniteSet(S), S # {}
    PROVE  SumFunctionOnSet(f, S)
             = f[First(S)] + SumFunctionOnSet(f, S \ {First(S)})
<1> DEFINE T == S \ {First(S)}
<1>1. IsFiniteSet(T) /\ T \subseteq S
    BY FS_Subset
<1>2. IsTable(Table(f, S), f, S) /\ IsTable(Table(f, T), f, T)
    BY <1>1, TableExists
<1>3. Table(f, S)[T] = Table(f, T)[T]
    BY <1>1, <1>2, TablesAgree
<1>4. Table(f, S)[S] = f[First(S)] + Table(f, S)[T]
    BY <1>2, TableRow
<1> QED
    BY <1>3, <1>4, SumIsTable

\* Integers sum to an integer.
LEMMA SumType ==
    ASSUME NEW f, NEW S, IsFiniteSet(S), \A x \in S : f[x] \in Int
    PROVE  SumFunctionOnSet(f, S) \in Int
<1> DEFINE Bad == {t \in SUBSET S : SumFunctionOnSet(f, t) \notin Int}
<1> SUFFICES ASSUME Bad # {} PROVE FALSE
    OBVIOUS
<1>1. \A t \in Bad : IsFiniteSet(t)
    BY FS_Subset
<1>2. PICK t \in Bad : \A u \in Bad : Cardinality(t) <= Cardinality(u)
    BY <1>1, SmallestSet
<1>3. t # {}
    BY SumEmpty
<1> DEFINE c == First(t)
<1>4. c \in t /\ IsFiniteSet(t) /\ t \subseteq S
    BY <1>1, <1>3, FirstIn
<1>5. t \ {c} \notin Bad
    BY <1>2, <1>4, SmallerWithout
<1>6. SumFunctionOnSet(f, t \ {c}) \in Int
    BY <1>4, <1>5
<1>7. SumFunctionOnSet(f, t) = f[c] + SumFunctionOnSet(f, t \ {c})
    BY <1>3, <1>4, SumFirst
<1> QED
    BY <1>4, <1>6, <1>7

\* The sum may be taken apart at any element.
LEMMA SumRemove ==
    ASSUME NEW f, NEW S, IsFiniteSet(S), \A y \in S : f[y] \in Int,
           NEW x \in S
    PROVE  SumFunctionOnSet(f, S) = f[x] + SumFunctionOnSet(f, S \ {x})
<1> DEFINE Bad == {t \in SUBSET S : \E y \in t :
                     SumFunctionOnSet(f, t) # f[y] + SumFunctionOnSet(f, t \ {y})}
<1> SUFFICES ASSUME Bad # {} PROVE FALSE
    OBVIOUS
<1>1. \A t \in Bad : IsFiniteSet(t)
    BY FS_Subset
<1>2. PICK t \in Bad : \A u \in Bad : Cardinality(t) <= Cardinality(u)
    BY <1>1, SmallestSet
<1>3. PICK y \in t :
        SumFunctionOnSet(f, t) # f[y] + SumFunctionOnSet(f, t \ {y})
    OBVIOUS
<1> HIDE DEF Bad
<1> DEFINE c == First(t)
<1>4. c \in t /\ IsFiniteSet(t) /\ t \subseteq S
    BY <1>1, FirstIn DEF Bad
<1>5. SumFunctionOnSet(f, t) = f[c] + SumFunctionOnSet(f, t \ {c})
    BY <1>4, SumFirst
<1>6. y # c
    BY <1>3, <1>5
<1>7. ASSUME NEW a \in t, NEW b \in t, a # b
      PROVE  SumFunctionOnSet(f, t \ {a})
               = f[b] + SumFunctionOnSet(f, (t \ {a}) \ {b})
  <2>1. t \ {a} \notin Bad
      BY <1>2, <1>4, SmallerWithout
  <2>2. t \ {a} \in SUBSET S /\ b \in t \ {a}
      BY <1>4, <1>7
  <2> QED
      BY <2>1, <2>2 DEF Bad
<1>8. SumFunctionOnSet(f, t \ {c}) = f[y] + SumFunctionOnSet(f, (t \ {c}) \ {y})
    BY <1>4, <1>6, <1>7
<1>9. SumFunctionOnSet(f, t \ {y}) = f[c] + SumFunctionOnSet(f, (t \ {y}) \ {c})
    BY <1>4, <1>6, <1>7
<1>10. (t \ {c}) \ {y} = (t \ {y}) \ {c}
    OBVIOUS
<1>11. /\ SumFunctionOnSet(f, (t \ {c}) \ {y}) \in Int
       /\ f[c] \in Int /\ f[y] \in Int
  <2>1. IsFiniteSet((t \ {c}) \ {y})
      BY <1>4, FS_Subset
  <2>2. \A z \in (t \ {c}) \ {y} : f[z] \in Int
      BY <1>4
  <2>3. SumFunctionOnSet(f, (t \ {c}) \ {y}) \in Int
      BY <2>1, <2>2, SumType
  <2> QED
      BY <1>4, <2>3
<1>12. \A p, q, r, u, v, w \in Int :
          /\ u = p + v /\ v = q + r
          /\ w = p + r
          => u = q + w
    OBVIOUS
<1>13. SumFunctionOnSet(f, t \ {y}) = f[c] + SumFunctionOnSet(f, (t \ {c}) \ {y})
    BY <1>9, <1>10
<1>14. /\ SumFunctionOnSet(f, t \ {c}) \in Int
       /\ SumFunctionOnSet(f, t \ {y}) \in Int
       /\ SumFunctionOnSet(f, t) \in Int
    BY <1>5, <1>8, <1>11, <1>13
<1> QED
    BY <1>3, <1>5, <1>8, <1>11, <1>12, <1>13, <1>14

\* A new element adds its value.
LEMMA SumAdd ==
    ASSUME NEW f, NEW S, IsFiniteSet(S), NEW x, x \notin S,
           \A y \in S \cup {x} : f[y] \in Int
    PROVE  SumFunctionOnSet(f, S \cup {x}) = SumFunctionOnSet(f, S) + f[x]
<1>1. IsFiniteSet(S \cup {x}) /\ (S \cup {x}) \ {x} = S
    BY FS_AddElement
<1>2. SumFunctionOnSet(f, S \cup {x}) = f[x] + SumFunctionOnSet(f, S)
    BY <1>1, SumRemove
<1>3. SumFunctionOnSet(f, S) \in Int
    BY SumType
<1> QED
    BY <1>2, <1>3

\* The sum depends only on the values in the set.
LEMMA SumAgrees ==
    ASSUME NEW f, NEW g, NEW S, IsFiniteSet(S), \A x \in S : f[x] = g[x]
    PROVE  SumFunctionOnSet(f, S) = SumFunctionOnSet(g, S)
<1> DEFINE Bad == {t \in SUBSET S :
                     SumFunctionOnSet(f, t) # SumFunctionOnSet(g, t)}
<1> SUFFICES ASSUME Bad # {} PROVE FALSE
    OBVIOUS
<1>1. \A t \in Bad : IsFiniteSet(t)
    BY FS_Subset
<1>2. PICK t \in Bad : \A u \in Bad : Cardinality(t) <= Cardinality(u)
    BY <1>1, SmallestSet
<1>3. t # {}
    BY SumEmpty
<1> DEFINE c == First(t)
<1>4. c \in t /\ IsFiniteSet(t) /\ t \subseteq S
    BY <1>1, <1>3, FirstIn
<1>5. t \ {c} \notin Bad
    BY <1>2, <1>4, SmallerWithout
<1>6. SumFunctionOnSet(f, t \ {c}) = SumFunctionOnSet(g, t \ {c})
    BY <1>4, <1>5
<1>7. /\ SumFunctionOnSet(f, t) = f[c] + SumFunctionOnSet(f, t \ {c})
      /\ SumFunctionOnSet(g, t) = g[c] + SumFunctionOnSet(g, t \ {c})
    BY <1>3, <1>4, SumFirst
<1> QED
    BY <1>4, <1>6, <1>7

\* The numbers of S, each d further on.
Moved(S, d) == {x + d : x \in S}

\* There are as many, and one of them more is one more of S.
LEMMA MovedCount ==
    ASSUME NEW S \in SUBSET Int, IsFiniteSet(S), NEW d \in Int
    PROVE  IsFiniteSet(Moved(S, d)) /\ Cardinality(Moved(S, d)) = Cardinality(S)
<1> DEFINE f == [x \in S |-> x + d]
           T == Moved(S, d)
<1>1. f \in [S -> T] /\ \A y \in T : \E x \in S : f[x] = y
    BY DEF Moved
<1>2. \A x, y \in S : f[x] = f[y] => x = y
    OBVIOUS
<1> HIDE DEF f, T
<1>3. f \in Bijection(S, T)
    BY <1>1, <1>2 DEF Bijection, Injection, Surjection, IsInjective
<1>4. ExistsBijection(S, T)
    BY <1>3 DEF ExistsBijection
<1>5. IsFiniteSet(T) /\ Cardinality(T) = Cardinality(S)
    BY <1>4, FS_Bijection
<1> QED
    BY <1>5 DEF T

\* On the numbers moved on, g is what f is on S.
Carries(f, g, S, d) == \A x \in S : f[x] \in Int /\ g[x + d] = f[x]

\* Then they have the same sum.
LEMMA SumMoved ==
    ASSUME NEW S \in SUBSET Int, IsFiniteSet(S), NEW d \in Int,
           NEW f, NEW g, Carries(f, g, S, d)
    PROVE  SumFunctionOnSet(f, S) = SumFunctionOnSet(g, Moved(S, d))
<1> DEFINE Bad == {t \in SUBSET S :
                     SumFunctionOnSet(f, t) # SumFunctionOnSet(g, Moved(t, d))}
<1> SUFFICES ASSUME Bad # {} PROVE FALSE
    OBVIOUS
<1>1. \A t \in Bad : IsFiniteSet(t)
    BY FS_Subset
<1>2. PICK t \in Bad : \A u \in Bad : Cardinality(t) <= Cardinality(u)
    BY <1>1, SmallestSet
<1>3. t # {}
  <2>1. Moved({}, d) = {}
      BY DEF Moved
  <2> QED
      BY <2>1, SumEmpty
<1> DEFINE c == First(t)
           r == t \ {c}
           x == c + d
<1>4. c \in t /\ IsFiniteSet(t) /\ t \subseteq S /\ c \in Int
    BY <1>1, <1>3, FirstIn
<1>5. r \notin Bad
    BY <1>2, <1>4, SmallerWithout
<1>6. SumFunctionOnSet(f, r) = SumFunctionOnSet(g, Moved(r, d))
    BY <1>4, <1>5
<1>7. SumFunctionOnSet(f, t) = f[c] + SumFunctionOnSet(f, r)
    BY <1>3, <1>4, SumFirst
<1>8. SumFunctionOnSet(g, Moved(t, d)) = g[x] + SumFunctionOnSet(g, Moved(t, d) \ {x})
  <2>1. IsFiniteSet(Moved(t, d))
      BY <1>4, MovedCount
  <2>2. x \in Moved(t, d) /\ \A y \in Moved(t, d) : g[y] \in Int
      BY <1>4 DEF Moved, Carries
  <2> QED
      BY <2>1, <2>2, SumRemove
<1>9. Moved(t, d) \ {x} = Moved(r, d)
  <2>1. \A y \in t : y \in Int
      BY <1>4
  <2>2. ASSUME NEW y \in Moved(t, d) \ {x} PROVE y \in Moved(r, d)
    <3>1. PICK z \in t : y = z + d
        BY DEF Moved
    <3>2. z # c
        BY <3>1
    <3> QED
        BY <3>1, <3>2 DEF Moved
  <2>3. ASSUME NEW y \in Moved(r, d) PROVE y \in Moved(t, d) \ {x}
    <3>1. PICK z \in r : y = z + d
        BY DEF Moved
    <3>2. z \in t /\ z # c /\ z \in Int
        BY <2>1
    <3>3. y # x
        BY <1>4, <3>1, <3>2
    <3> QED
        BY <3>1, <3>2, <3>3 DEF Moved
  <2> QED
      BY <2>2, <2>3
<1>10. g[x] = f[c]
    BY <1>4 DEF Carries
<1>11. SumFunctionOnSet(f, t) # SumFunctionOnSet(g, Moved(t, d))
    BY <1>2
<1> HIDE DEF c, r, x, Bad
<1> QED
    BY <1>6, <1>7, <1>8, <1>9, <1>10, <1>11

\* After b, g has the n numbers that f has after a.
Repeats(f, g, a, b, n) == \A k \in 1..n : f[a + k] \in Int /\ f[a + k] = g[b + k]

\* Numbers that are repeated have the same sum.
LEMMA SumShifted ==
    ASSUME NEW f, NEW g, NEW a \in Int, NEW b \in Int, NEW n \in Nat,
           Repeats(f, g, a, b, n)
    PROVE  SumFunctionOnSet(f, (a + 1)..(a + n)) = SumFunctionOnSet(g, (b + 1)..(b + n))
<1> DEFINE S == (a + 1)..(a + n)
           T == (b + 1)..(b + n)
           d == b - a
<1>1. S \in SUBSET Int /\ IsFiniteSet(S) /\ d \in Int
    BY FS_Interval
<1>2. Moved(S, d) = T
  <2>1. \A x \in S : x + d \in T
      OBVIOUS
  <2>2. \A y \in T : y - d \in S /\ y = (y - d) + d
      OBVIOUS
  <2> HIDE DEF S, T
  <2> QED
      BY <2>1, <2>2 DEF Moved
<1>3. Carries(f, g, S, d)
  <2> SUFFICES ASSUME NEW x \in S PROVE f[x] \in Int /\ g[x + d] = f[x]
      BY DEF Carries
  <2> DEFINE k == x - a
  <2>1. k \in 1..n /\ a + k = x /\ b + k = x + d
      OBVIOUS
  <2> HIDE DEF k, S, d
  <2> QED
      BY <2>1 DEF Repeats
<1> HIDE DEF S, T, d
<1>4. SumFunctionOnSet(f, S) = SumFunctionOnSet(g, T)
    BY <1>1, <1>2, <1>3, SumMoved
<1> QED
    BY <1>4 DEF S, T

\* SmallerWithout values have a smaller sum.
LEMMA SumAtMost ==
    ASSUME NEW f, NEW g, NEW S, IsFiniteSet(S),
           \A x \in S : f[x] \in Int /\ g[x] \in Int /\ f[x] <= g[x]
    PROVE  SumFunctionOnSet(f, S) <= SumFunctionOnSet(g, S)
<1> DEFINE Bad == {t \in SUBSET S :
                     ~ (SumFunctionOnSet(f, t) <= SumFunctionOnSet(g, t))}
<1> SUFFICES ASSUME Bad # {} PROVE FALSE
    OBVIOUS
<1>1. \A t \in Bad : IsFiniteSet(t)
    BY FS_Subset
<1>2. PICK t \in Bad : \A u \in Bad : Cardinality(t) <= Cardinality(u)
    BY <1>1, SmallestSet
<1>3. t # {}
    BY SumEmpty
<1> DEFINE c == First(t)
<1>4. c \in t /\ IsFiniteSet(t) /\ t \subseteq S
    BY <1>1, <1>3, FirstIn
<1>5. t \ {c} \notin Bad
    BY <1>2, <1>4, SmallerWithout
<1>6. SumFunctionOnSet(f, t \ {c}) <= SumFunctionOnSet(g, t \ {c})
    BY <1>4, <1>5
<1>7. /\ SumFunctionOnSet(f, t) = f[c] + SumFunctionOnSet(f, t \ {c})
      /\ SumFunctionOnSet(g, t) = g[c] + SumFunctionOnSet(g, t \ {c})
    BY <1>3, <1>4, SumFirst
<1>8. /\ SumFunctionOnSet(f, t \ {c}) \in Int
      /\ SumFunctionOnSet(g, t \ {c}) \in Int
  <2>1. IsFiniteSet(t \ {c}) /\ t \ {c} \subseteq S
      BY <1>4, SmallerWithout
  <2> QED
      BY <2>1, SumType
<1>9. f[c] \in Int /\ g[c] \in Int /\ f[c] <= g[c]
    BY <1>4
<1>10. SumFunctionOnSet(f, t) <= SumFunctionOnSet(g, t)
    BY <1>6, <1>7, <1>8, <1>9
<1> QED
    BY <1>10

\* Naturals sum to a natural.
LEMMA SumNat ==
    ASSUME NEW f, NEW S, IsFiniteSet(S), \A x \in S : f[x] \in Nat
    PROVE  SumFunctionOnSet(f, S) \in Nat
<1> DEFINE Bad == {t \in SUBSET S : ~ (SumFunctionOnSet(f, t) \in Nat)}
<1> SUFFICES ASSUME Bad # {} PROVE FALSE
    OBVIOUS
<1>2. \A t \in Bad : IsFiniteSet(t)
    BY FS_Subset
<1>3. PICK t \in Bad : \A u \in Bad : Cardinality(t) <= Cardinality(u)
    BY <1>2, SmallestSet
<1>4. t # {}
    BY SumEmpty
<1> DEFINE c == First(t)
<1>5. c \in t /\ IsFiniteSet(t) /\ t \subseteq S
    BY <1>2, <1>4, FirstIn
<1>6. t \ {c} \notin Bad
    BY <1>3, <1>5, SmallerWithout
<1>7. SumFunctionOnSet(f, t \ {c}) \in Nat
    BY <1>5, <1>6
<1>8. SumFunctionOnSet(f, t) = f[c] + SumFunctionOnSet(f, t \ {c})
    BY <1>4, <1>5, SumFirst
<1>9. SumFunctionOnSet(f, t) \in Nat
    BY <1>5, <1>7, <1>8
<1> QED
    BY <1>9

\* Leaving values out does not raise a sum of naturals.
LEMMA SumSubset ==
    ASSUME NEW f, NEW S, IsFiniteSet(S), \A x \in S : f[x] \in Nat,
           NEW T \in SUBSET S
    PROVE  SumFunctionOnSet(f, T) <= SumFunctionOnSet(f, S)
<1> DEFINE Bad == {t \in SUBSET S :
                     /\ T \subseteq t
                     /\ ~ (SumFunctionOnSet(f, T) <= SumFunctionOnSet(f, t))}
<1> SUFFICES ASSUME Bad # {} PROVE FALSE
    OBVIOUS
<1>1. \A t \in Bad : IsFiniteSet(t)
    BY FS_Subset
<1>2. PICK t \in Bad : \A u \in Bad : Cardinality(t) <= Cardinality(u)
    BY <1>1, SmallestSet
<1>3. SumFunctionOnSet(f, T) \in Nat
  <2>1. IsFiniteSet(T)
      BY FS_Subset
  <2> QED
      BY <2>1, SumNat
<1>4. PICK c \in t : c \notin T
    BY <1>3
<1>5. IsFiniteSet(t) /\ t \subseteq S /\ T \subseteq t \ {c}
    BY <1>1, <1>4
<1>6. t \ {c} \notin Bad
    BY <1>2, <1>5, SmallerWithout
<1>7. SumFunctionOnSet(f, T) <= SumFunctionOnSet(f, t \ {c})
    BY <1>5, <1>6
<1>8. SumFunctionOnSet(f, t) = f[c] + SumFunctionOnSet(f, t \ {c})
    BY <1>5, SumRemove
<1>9. SumFunctionOnSet(f, t \ {c}) \in Nat
  <2>1. IsFiniteSet(t \ {c})
      BY <1>5, FS_Subset
  <2> QED
      BY <1>5, <2>1, SumNat
<1>10. SumFunctionOnSet(f, T) <= SumFunctionOnSet(f, t)
    BY <1>3, <1>5, <1>7, <1>8, <1>9
<1> QED
    BY <1>10

-----------------------------------------------------------------------------
(* Finite sets of integers *)

\* A finite set of integers has a greatest element, which Max returns.
LEMMA FiniteGreatest ==
    ASSUME NEW T \in SUBSET Int, IsFiniteSet(T), T # {}
    PROVE  Max(T) \in T /\ \A x \in T : x <= Max(T)
<1> DEFINE Topped(t) == \E m \in t : \A k \in t : k <= m
           Bad == {t \in SUBSET T : t # {} /\ ~ Topped(t)}
<1>1. ASSUME Bad # {} PROVE FALSE
  <2>1. \A t \in Bad : IsFiniteSet(t)
      BY FS_Subset
  <2>2. PICK t \in Bad : \A u \in Bad : Cardinality(t) <= Cardinality(u)
      BY <1>1, <2>1, SmallestSet
  <2>3. PICK x \in t : TRUE
      OBVIOUS
  <2>4. t \ {x} \notin Bad
    <3>1. /\ Cardinality(t) \in Nat /\ Cardinality(t \ {x}) \in Nat
          /\ Cardinality(t \ {x}) < Cardinality(t)
        BY <2>1, <2>3, SmallerWithout
    <3> HIDE DEF Bad
    <3> QED
        BY <2>2, <3>1
  <2>5. t \subseteq Int /\ ~ Topped(t)
      OBVIOUS
  <2>6. CASE t \ {x} = {}
      BY <2>3, <2>5, <2>6
  <2>7. CASE Topped(t \ {x})
    <3>1. PICK m \in t \ {x} : \A k \in t \ {x} : k <= m
        BY <2>7
    <3>2. CASE x <= m
        BY <2>5, <3>1, <3>2
    <3>3. CASE m <= x
      <4>1. \A k \in t : k <= x
          BY <2>5, <3>1, <3>3
      <4> QED
          BY <2>3, <2>5, <4>1
    <3>4. m \in Int /\ x \in Int
        BY <2>5
    <3> QED
        BY <3>2, <3>3, <3>4
  <2> QED
      BY <2>4, <2>6, <2>7
<1>2. Topped(T)
    BY <1>1
<1>3. PICK m \in T : \A k \in T : k <= m
    BY <1>2
<1>4. m \in T /\ \A y \in T : m >= y
    BY <1>3
<1>5. Max(T) = CHOOSE x \in T : \A y \in T : x >= y
    BY DEF Max
<1>6. Max(T) \in T /\ \A y \in T : Max(T) >= y
    BY <1>4, <1>5
<1> QED
    BY <1>6

\* A finite set of integers has a least element, which Min returns.
LEMMA FiniteLeast ==
    ASSUME NEW T \in SUBSET Int, IsFiniteSet(T), T # {}
    PROVE  Min(T) \in T /\ \A x \in T : Min(T) <= x
<1> DEFINE Bad == {u \in SUBSET T : u # {} /\ ~ \E m \in u : \A k \in u : m <= k}
<1>1. ASSUME Bad # {} PROVE FALSE
  <2>1. \A t \in Bad : IsFiniteSet(t)
      BY FS_Subset
  <2>2. PICK t \in Bad : \A u \in Bad : Cardinality(t) <= Cardinality(u)
      BY <1>1, <2>1, SmallestSet
  <2>3. t \subseteq Int /\ t \in SUBSET T /\ IsFiniteSet(t) /\ t # {}
      BY <2>1
  <2> DEFINE x == Max(t)
  <2>4. x \in t /\ \A y \in t : y <= x
      BY <2>3, FiniteGreatest
  <2> HIDE DEF x
  <2>5. t \ {x} \notin Bad
    <3>1. /\ Cardinality(t) \in Nat /\ Cardinality(t \ {x}) \in Nat
          /\ Cardinality(t \ {x}) < Cardinality(t)
        BY <2>3, <2>4, SmallerWithout
    <3> QED
        BY <2>2, <3>1
  <2>6. ~ \E m \in t : \A k \in t : m <= k
      OBVIOUS
  <2>7. CASE t \ {x} = {}
    <3>1. \A k \in t : x <= k
        BY <2>3, <2>4, <2>7
    <3> QED
        BY <2>4, <2>6, <3>1
  <2>8. CASE \E m \in t \ {x} : \A k \in t \ {x} : m <= k
    <3>1. PICK m \in t \ {x} : \A k \in t \ {x} : m <= k
        BY <2>8
    <3>2. \A k \in t : m <= k
        BY <2>3, <2>4, <3>1
    <3> QED
        BY <2>6, <3>2
  <2>9. t \ {x} \in SUBSET T
      BY <2>3
  <2> QED
      BY <2>5, <2>7, <2>8, <2>9
<1>2. PICK m \in T : \A k \in T : m <= k
    BY <1>1
<1>3. m \in T /\ \A y \in T : m <= y
    BY <1>2
<1>4. Min(T) = CHOOSE x \in T : \A y \in T : x <= y
    BY DEF Min
<1> QED
    BY <1>3, <1>4

\* What a function makes of finitely many things are finitely many.
LEMMA FiniteImage ==
    ASSUME NEW S, IsFiniteSet(S), NEW f
    PROVE  IsFiniteSet({f[x] : x \in S})
<1> DEFINE T == {f[x] : x \in S}
           g == [x \in S |-> f[x]]
<1>1. g \in Surjection(S, T)
  BY DEF Surjection
<1> HIDE DEF g, T
<1> QED  BY <1>1, FS_Surjection DEF T

-----------------------------------------------------------------------------
(* Measures of numbers *)

\* One more number leaves the spread of numbers above zero.
LEMMA SpreadStep ==
    ASSUME NEW n \in Nat, NEW P \in Int, NEW Q \in Int, NEW x \in Int,
           n * Q - P * P >= 0, n = 0 => P = 0 /\ Q = 0
    PROVE  (n + 1) * (Q + x * x) - (P + x) * (P + x) >= 0
<1> DEFINE D == Q - 2 * (P * x) + n * (x * x)
           E == P - n * x
<1>1. D \in Int /\ E \in Int /\ E * E >= 0
  OBVIOUS
<1>2. (n + 1) * (Q + x * x) - (P + x) * (P + x) = (n * Q - P * P) + D
  OBVIOUS
<1>3. n * D = (n * Q - P * P) + E * E
  OBVIOUS
<1>4. CASE n = 0
  BY <1>4
<1>5. CASE n > 0
  <2>1. n * D >= 0
    BY <1>1, <1>3
  <2> HIDE DEF D
  <2>2. D >= 0
    <3>1. ASSUME D <= -1 PROVE FALSE
      <4> DEFINE F == -1 - D
      <4>1. F \in Nat /\ n \in Nat /\ D = -1 - F
        BY <1>1, <3>1
      <4>2. n * F \in Nat
        BY <4>1
      <4> HIDE DEF F
      <4>3. n * D = -n - n * F
        BY <4>1
      <4> QED  BY <1>5, <2>1, <4>1, <4>2, <4>3
    <3> QED  BY <1>1, <3>1
  <2> QED  BY <1>1, <1>2, <2>2
<1> QED  BY <1>4, <1>5

\* The squared spread of finitely many numbers, times the square of how many there are, is not
\* negative.
LEMMA SpreadNat ==
    ASSUME NEW S, IsFiniteSet(S), NEW f, NEW g,
           \A y \in S : f[y] \in Int /\ g[y] = f[y] * f[y]
    PROVE  Cardinality(S) * SumFunctionOnSet(g, S)
              - SumFunctionOnSet(f, S) * SumFunctionOnSet(f, S) \in Nat
<1> DEFINE Spread(s) == Cardinality(s) * SumFunctionOnSet(g, s)
                          - SumFunctionOnSet(f, s) * SumFunctionOnSet(f, s)
           Bad == {s \in SUBSET S : ~ (Spread(s) \in Int /\ Spread(s) >= 0)}
<1>1. ASSUME NEW s \in SUBSET S
      PROVE  /\ IsFiniteSet(s) /\ Cardinality(s) \in Nat
             /\ SumFunctionOnSet(f, s) \in Int /\ SumFunctionOnSet(g, s) \in Int
  <2>1. IsFiniteSet(s)
    BY FS_Subset
  <2>2. \A y \in s : f[y] \in Int /\ g[y] \in Int
    OBVIOUS
  <2> QED  BY <2>1, <2>2, SumType, FS_CardinalityType
<1>2. ASSUME Bad # {} PROVE FALSE
  <2>1. PICK t \in Bad : \A u \in Bad : Cardinality(t) <= Cardinality(u)
    BY <1>1, <1>2, SmallestSet
  <2>2. t # {}
    <3>1. SumFunctionOnSet(f, {}) = 0 /\ SumFunctionOnSet(g, {}) = 0 /\ Cardinality({}) = 0
      BY SumEmpty, FS_EmptySet
    <3>2. Spread({}) \in Int /\ Spread({}) >= 0
      BY <3>1
    <3> QED  BY <3>2
  <2>3. PICK x \in t : TRUE
    BY <2>2
  <2> DEFINE u == t \ {x}
             n == Cardinality(u)
             P == SumFunctionOnSet(f, u)
             Q == SumFunctionOnSet(g, u)
             y == f[x]
  <2>4. u \in SUBSET S /\ n \in Nat /\ P \in Int /\ Q \in Int /\ y \in Int
    BY <1>1
  <2>5. n < Cardinality(t) /\ Cardinality(t) = n + 1
    <3>1. IsFiniteSet(t) /\ Cardinality(t) \in Nat
      BY <1>1
    <3>2. n = Cardinality(t) - 1
      BY <3>1, FS_RemoveElement
    <3> QED  BY <3>1, <3>2, <2>4
  <2>6. Spread(u) \in Int /\ Spread(u) >= 0
    <3>1. ~ (Cardinality(t) <= Cardinality(u))
      BY <2>4, <2>5
    <3> QED  BY <2>1, <2>4, <3>1
  <2>7. /\ SumFunctionOnSet(f, t) = y + P
        /\ SumFunctionOnSet(g, t) = y * y + Q
    <3>1. IsFiniteSet(t) /\ \A z \in t : f[z] \in Int /\ g[z] \in Int
      BY <1>1
    <3>2. SumFunctionOnSet(f, t) = f[x] + P /\ SumFunctionOnSet(g, t) = g[x] + Q
      BY <3>1, SumRemove
    <3> QED  BY <3>2
  <2>8. n = 0 => P = 0 /\ Q = 0
    <3>1. n = 0 => u = {}
      BY <1>1, <2>4, FS_EmptySet
    <3> QED  BY <3>1, SumEmpty
  <2>9. n * Q - P * P >= 0
    BY <2>6
  <2>10. Spread(t) = (n + 1) * (y * y + Q) - (y + P) * (y + P)
    BY <2>5, <2>7
  <2> HIDE DEF n, P, Q, y, u, Spread
  <2>11. (n + 1) * (Q + y * y) - (P + y) * (P + y) >= 0
    BY <2>4, <2>8, <2>9, SpreadStep
  <2>12. Spread(t) \in Int /\ Spread(t) >= 0
    BY <2>4, <2>10, <2>11
  <2> QED  BY <2>12
<1>3. Spread(S) \in Int /\ Spread(S) >= 0
  BY <1>2
<1> QED  BY <1>3

\* A number has a root, rounded down.
LEMMA RootExists ==
    ASSUME NEW x \in Nat
    PROVE  \E r \in 0..x : r * r <= x /\ (r + 1) * (r + 1) > x
<1> DEFINE T == {r \in 0..x : r * r <= x}
<1>1. T \in SUBSET (0..x) /\ 0 \in T
  OBVIOUS
<1>2. Max(T) \in T /\ \A r \in T : r <= Max(T)
  BY <1>1, GreatestElement
<1>3. PICK m \in T : \A r \in T : r <= m
  BY <1>2
<1>4. ASSUME (m + 1) * (m + 1) <= x PROVE FALSE
  <2>1. m + 1 <= (m + 1) * (m + 1)
    OBVIOUS
  <2>2. m + 1 \in T
    BY <1>4, <2>1
  <2> QED  BY <1>3, <2>2
<1> QED  BY <1>3, <1>4

\* The places where a table stays below a number, and where it does not exceed it.
PlacesBelow(f, S, r) == {i \in S : f[i] < r}
PlacesUpTo(f, S, r) == {i \in S : f[i] <= r}

\* Among finitely many numbers there is one of every rank.
LEMMA RankExists ==
    ASSUME NEW S, IsFiniteSet(S), NEW f \in [S -> Int],
           NEW rank \in Nat, rank < Cardinality(S)
    PROVE  \E k \in S :
              /\ Cardinality(PlacesBelow(f, S, f[k])) <= rank
              /\ Cardinality(PlacesUpTo(f, S, f[k])) > rank
<1> DEFINE V == {f[i] : i \in S}
           Below(r) == {i \in S : f[i] < r}
           UpToIt(r) == {i \in S : f[i] <= r}
           High == {r \in V : Cardinality(UpToIt(r)) > rank}
<1>1. V \in SUBSET Int /\ IsFiniteSet(V)
  BY FiniteImage
<1>2. \A r : Cardinality(Below(r)) \in Nat /\ Cardinality(UpToIt(r)) \in Nat
  <2>1. \A r : IsFiniteSet(Below(r)) /\ IsFiniteSet(UpToIt(r))
    BY FS_Subset
  <2> QED  BY <2>1, FS_CardinalityType
<1>3. V # {}
  <2>1. S # {}
    BY FS_EmptySet
  <2> QED  BY <2>1
<1>4. High # {}
  <2>1. Max(V) \in V /\ \A v \in V : v <= Max(V)
    BY <1>1, <1>3, FiniteGreatest
  <2>2. PICK m \in V : \A v \in V : v <= m
    BY <2>1
  <2>3. UpToIt(m) = S
    BY <2>2
  <2> QED  BY <2>2, <2>3
<1>5. IsFiniteSet(High) /\ High \in SUBSET Int
  BY <1>1, FS_Subset
<1>6. Min(High) \in High /\ \A v \in High : Min(High) <= v
  BY <1>4, <1>5, FiniteLeast
<1>7. PICK r \in High : \A v \in High : r <= v
  BY <1>6
<1>8. ASSUME Cardinality(Below(r)) > rank PROVE FALSE
  <2> DEFINE Less == {v \in V : v < r}
  <2>1. Less # {}
    <3>1. Cardinality(Below(r)) # 0
      BY <1>2, <1>8
    <3>2. Below(r) # {}
      BY <3>1, FS_EmptySet
    <3> QED  BY <3>2
  <2>2. IsFiniteSet(Less) /\ Less \in SUBSET Int
    BY <1>1, FS_Subset
  <2>3. Max(Less) \in Less /\ \A v \in Less : v <= Max(Less)
    BY <2>1, <2>2, FiniteGreatest
  <2>4. PICK w \in Less : \A v \in Less : v <= w
    BY <2>3
  <2>5. r \in Int /\ w \in Int /\ w < r
    BY <1>1
  <2>6. UpToIt(w) = Below(r)
    <3>1. \A i \in S : f[i] \in V
      OBVIOUS
    <3> HIDE DEF V
    <3>2. \A i \in S : f[i] < r <=> f[i] <= w
      BY <2>4, <2>5, <3>1
    <3> QED  BY <3>2
  <2>7. w \in High
    BY <1>8, <2>6
  <2> QED  BY <1>7, <2>5, <2>7
<1>9. Cardinality(Below(r)) <= rank
  BY <1>2, <1>8
<1>10. PICK k \in S : r = f[k]
  BY <1>7
<1> QED  BY <1>7, <1>9, <1>10 DEF PlacesBelow, PlacesUpTo
=============================================================================
