----------------------------- MODULE RootsProofs -----------------------------
(***************************************************************************)
(* Proofs about Roots.tla, for headers of any length.                      *)
(***************************************************************************)
EXTENDS Roots, WellFoundedInduction, TLAPS

LEMMA LeastOfNat ==
  ASSUME NEW T, T \subseteq Nat, T # {}
  PROVE  \E n \in T : \A m \in T : n <= m
<1>1. PICK x \in T : \A y \in T : ~ (<<y, x>> \in OpToRel(<, Nat))
  BY NatLessThanWellFounded, WFMin
<1>2. ASSUME NEW y \in T, y < x PROVE FALSE
  <2>1. <<y, x>> \in {ss \in Nat \X Nat : ss[1] < ss[2]}
    BY <1>2
  <2>2. <<y, x>> \in OpToRel(<, Nat)
    BY <2>1, Zenon DEF OpToRel
  <2> QED
    BY <1>1, <2>2, Zenon
<1> QED
  BY <1>2

\* Induction, over a set instead of a predicate.
LEMMA SetInduction ==
  ASSUME NEW S, 0 \in S, \A n \in Nat : n \in S => n + 1 \in S
  PROVE  Nat \subseteq S
<1> SUFFICES ASSUME Nat \ S # {} PROVE FALSE
  OBVIOUS
<1>1. PICK n \in Nat \ S : \A m \in Nat \ S : n <= m
  BY LeastOfNat
<1>2. n - 1 \in Nat /\ n - 1 \in S
  BY <1>1
<1> QED
  BY <1>1, <1>2

LEMMA MinOfNat ==
  ASSUME NEW T, T \subseteq Nat, T # {}
  PROVE  Min(T) \in T /\ \A m \in T : Min(T) <= m
  BY LeastOfNat DEF Min

ListStep(parts, list, i) ==
  IF i = 0 THEN <<>>
  ELSE IF IsRoot(parts[i]) THEN Append(list[i - 1], FileURIToPath(parts[i]))
  ELSE list[i - 1]

LEMMA ListedExists ==
  ASSUME NEW parts, NEW n \in Nat
  PROVE  \E f : f = [i \in 0..n |-> ListStep(parts, f, i)]
<1> DEFINE S == {k \in Nat : \E f : f = [i \in 0..k |-> ListStep(parts, f, i)]}
<1>1. 0 \in S
  <2> DEFINE f == [i \in 0..0 |-> <<>>]
  <2>1. f = [i \in 0..0 |-> ListStep(parts, f, i)]
    BY DEF ListStep
  <2> QED
    BY <2>1
<1>2. ASSUME NEW k \in Nat, k \in S PROVE k + 1 \in S
  <2>1. PICK f : f = [i \in 0..k |-> ListStep(parts, f, i)]
    BY <1>2
  <2> DEFINE g == [i \in 0..(k + 1) |-> IF i \in 0..k THEN f[i] ELSE ListStep(parts, f, i)]
  <2>2. \A i \in 0..k : g[i] = f[i]
    OBVIOUS
  <2>3. ASSUME NEW i \in 0..(k + 1) PROVE g[i] = ListStep(parts, g, i)
    <3>1. i = 0 \/ g[i - 1] = f[i - 1]
      BY <2>2
    <3>2. ListStep(parts, g, i) = ListStep(parts, f, i)
      BY <3>1 DEF ListStep
    <3> QED
      BY <2>1, <3>2
  <2>4. g = [i \in 0..(k + 1) |-> ListStep(parts, g, i)]
    BY <2>3
  <2> HIDE DEF g
  <2> QED
    BY <2>4
<1> HIDE DEF S
<1>3. n \in S
  BY <1>1, <1>2, SetInduction
<1> QED
  BY <1>3 DEF S

LEMMA ListedStep ==
  ASSUME NEW parts, Len(parts) \in Nat
  PROVE  Listed(parts) = [i \in 0..Len(parts) |-> ListStep(parts, Listed(parts), i)]
<1>1. \E f : f = [i \in 0..Len(parts) |-> ListStep(parts, f, i)]
  BY ListedExists
<1> QED
  BY <1>1, Zenon DEF Listed, ListStep

-----------------------------------------------------------------------------

NamesRoot(part, configured) == IsRoot(part) /\ part.path \in configured

\* Of the first i parts and the roots listed from them: the first part that
\* names a configured root and the first such root agree.
Agree(parts, i, roots, configured) ==
  \/ /\ \A j \in 1..i : ~ NamesRoot(parts[j], configured)
     /\ \A x \in DOMAIN roots : roots[x] \notin configured
  \/ \E j \in 1..i, x \in DOMAIN roots :
        /\ NamesRoot(parts[j], configured) /\ parts[j].path = roots[x]
        /\ \A k \in 1..(j - 1) : ~ NamesRoot(parts[k], configured)
        /\ \A y \in 1..(x - 1) : roots[y] \notin configured

LEMMA RootsHavePaths ==
  ASSUME NEW part \in Part, IsRoot(part)
  PROVE  FileURIToPath(part) = part.path /\ part.path \in Paths
  BY DEF IsRoot, FileURIToPath, Part

LEMMA PassedOver ==
  ASSUME NEW parts \in Seq(Part), NEW i \in Nat, i + 1 <= Len(parts),
         NEW roots \in Seq(Paths), NEW C, Agree(parts, i, roots, C),
         ~ IsRoot(parts[i + 1])
  PROVE  Agree(parts, i + 1, roots, C)
<1>1. ~ NamesRoot(parts[i + 1], C)
  BY DEF NamesRoot
<1>2. \A j \in 1..(i + 1) : j \in 1..i \/ j = i + 1
  OBVIOUS
<1> QED
  BY <1>1, <1>2, SMTT(20) DEF Agree

LEMMA Taken ==
  ASSUME NEW parts \in Seq(Part), NEW i \in Nat, i + 1 <= Len(parts),
         NEW roots \in Seq(Paths), NEW C, Agree(parts, i, roots, C),
         IsRoot(parts[i + 1])
  PROVE  Agree(parts, i + 1, Append(roots, parts[i + 1].path), C)
<1> DEFINE path == parts[i + 1].path
           longer == Append(roots, path)
<1>1. parts[i + 1] \in Part /\ path \in Paths
  BY RootsHavePaths
<1>2. /\ longer \in Seq(Paths)
      /\ DOMAIN longer = 1..(Len(roots) + 1)
      /\ \A x \in DOMAIN roots : longer[x] = roots[x]
      /\ longer[Len(roots) + 1] = path
      /\ DOMAIN roots = 1..Len(roots) /\ Len(roots) \in Nat
  BY <1>1
<1> HIDE DEF longer
<1>3. CASE \E j \in 1..i, x \in DOMAIN roots :
             /\ NamesRoot(parts[j], C) /\ parts[j].path = roots[x]
             /\ \A k \in 1..(j - 1) : ~ NamesRoot(parts[k], C)
             /\ \A y \in 1..(x - 1) : roots[y] \notin C
  <2>1. PICK j \in 1..i, x \in DOMAIN roots :
             /\ NamesRoot(parts[j], C) /\ parts[j].path = roots[x]
             /\ \A k \in 1..(j - 1) : ~ NamesRoot(parts[k], C)
             /\ \A y \in 1..(x - 1) : roots[y] \notin C
    BY <1>3
  <2>2. j \in 1..(i + 1) /\ x \in DOMAIN longer /\ longer[x] = roots[x]
    BY <1>2
  <2>3. \A y \in 1..(x - 1) : longer[y] \notin C
    BY <1>2, <2>1
  <2> QED
    BY <2>1, <2>2, <2>3 DEF Agree, longer
<1>4. CASE /\ \A j \in 1..i : ~ NamesRoot(parts[j], C)
           /\ \A x \in DOMAIN roots : roots[x] \notin C
  <2>1. CASE path \in C
    <3>1. NamesRoot(parts[i + 1], C) /\ i + 1 \in 1..(i + 1)
      BY <2>1 DEF NamesRoot
    <3>2. Len(roots) + 1 \in DOMAIN longer
      BY <1>2
    <3>3. \A y \in 1..(Len(roots) + 1 - 1) : longer[y] \notin C
      BY <1>2, <1>4
    <3>4. \A k \in 1..(i + 1 - 1) : ~ NamesRoot(parts[k], C)
      BY <1>4
    <3> QED
      BY <1>2, <3>1, <3>2, <3>3, <3>4 DEF Agree, longer
  <2>2. CASE path \notin C
    <3>1. ~ NamesRoot(parts[i + 1], C)
      BY <2>2 DEF NamesRoot
    <3>2. \A j \in 1..(i + 1) : ~ NamesRoot(parts[j], C)
      BY <1>4, <3>1
    <3>3. \A x \in DOMAIN longer : longer[x] \notin C
      BY <1>2, <1>4, <2>2
    <3> QED
      BY <3>2, <3>3 DEF Agree, longer
  <2> QED
    BY <2>1, <2>2
<1> QED
  BY <1>3, <1>4 DEF Agree

\* Whatever the parts, the listed roots agree with them.
LEMMA ListedAgrees ==
  ASSUME NEW parts \in Seq(Part), NEW C
  PROVE  \A i \in 0..Len(parts) :
            Listed(parts)[i] \in Seq(Paths) /\ Agree(parts, i, Listed(parts)[i], C)
<1> DEFINE L == Listed(parts)
           S == {i \in Nat : i <= Len(parts) => L[i] \in Seq(Paths) /\ Agree(parts, i, L[i], C)}
<1>0. Len(parts) \in Nat
  OBVIOUS
<1>1. \A i \in 0..Len(parts) : L[i] = ListStep(parts, L, i)
  BY <1>0, ListedStep, Zenon
<1> HIDE DEF L
<1>2. 0 \in S
  <2>1. L[0] = <<>>
    BY <1>0, <1>1 DEF ListStep
  <2>2. Agree(parts, 0, <<>>, C) /\ <<>> \in Seq(Paths)
    BY DEF Agree
  <2>3. L[0] \in Seq(Paths) /\ Agree(parts, 0, L[0], C)
    BY <2>1, <2>2, Zenon
  <2> QED
    BY <2>3
<1>3. ASSUME NEW i \in Nat, i \in S PROVE i + 1 \in S
  <2> SUFFICES ASSUME i + 1 <= Len(parts)
               PROVE  L[i + 1] \in Seq(Paths) /\ Agree(parts, i + 1, L[i + 1], C)
    BY DEF S
  <2>1. L[i] \in Seq(Paths) /\ Agree(parts, i, L[i], C)
    BY <1>0, <1>3
  <2>2. L[i + 1] = ListStep(parts, L, i + 1) /\ i + 1 - 1 = i /\ i + 1 # 0 /\ parts[i + 1] \in Part
    BY <1>0, <1>1
  <2>3. CASE IsRoot(parts[i + 1])
    <3>1. L[i + 1] = Append(L[i], parts[i + 1].path) /\ parts[i + 1].path \in Paths
      BY <2>2, <2>3, RootsHavePaths DEF ListStep
    <3> QED
      BY <2>1, <2>3, <3>1, Taken
  <2>4. CASE ~ IsRoot(parts[i + 1])
    <3>1. L[i + 1] = L[i]
      BY <2>2, <2>4 DEF ListStep
    <3> QED
      BY <2>1, <2>4, <3>1, PassedOver
  <2> QED
    BY <2>3, <2>4
<1> HIDE DEF S
<1>4. Nat \subseteq S
  BY <1>2, <1>3, SetInduction
<1> QED
  BY <1>0, <1>4 DEF S, L

LEMMA FirstConfigured ==
  ASSUME NEW roots \in Seq(Paths), NEW C
  PROVE  LET path == FirstRootConfig(roots, C)
         IN  \/ path = NoPath /\ \A x \in DOMAIN roots : roots[x] \notin C
             \/ /\ path \in C \cap Paths
                /\ \E x \in DOMAIN roots :
                      path = roots[x] /\ \A y \in 1..(x - 1) : roots[y] \notin C
<1> DEFINE having == Having(roots, C)
<1>1. CASE having = {}
  BY <1>1 DEF FirstRootConfig, Having
<1>2. CASE having # {}
  <2>1. having \subseteq Nat /\ having \subseteq DOMAIN roots /\ DOMAIN roots = 1..Len(roots)
    BY DEF Having
  <2>2. Min(having) \in having /\ \A x \in having : Min(having) <= x
    BY <1>2, <2>1, MinOfNat
  <2>3. FirstRootConfig(roots, C) = roots[Min(having)]
    BY <1>2 DEF FirstRootConfig
  <2>4. \A y \in 1..(Min(having) - 1) : roots[y] \notin C
    <3> SUFFICES ASSUME NEW y \in 1..(Min(having) - 1), roots[y] \in C PROVE FALSE
      OBVIOUS
    <3>1. y \in having
      BY <2>1, <2>2 DEF Having
    <3> QED
      BY <2>1, <2>2, <3>1
  <2>5. roots[Min(having)] \in C \cap Paths
    BY <2>1, <2>2 DEF Having
  <2> QED
    BY <2>1, <2>2, <2>3, <2>4, <2>5
<1> QED
  BY <1>1, <1>2
-----------------------------------------------------------------------------
\* Where the parts of header n start, in the parts of all headers.
Offset(h, n) ==
  CASE n = 1 -> 0
    [] n = 2 -> Len(h[1])
    [] n = 3 -> Len(h[1]) + Len(h[2])
    [] n = 4 -> Len(h[1]) + Len(h[2]) + Len(h[3])

LEMMA HeadersAreFour ==
  ASSUME NEW h \in Headers
  PROVE  /\ DOMAIN h = 1..4
         /\ \A n \in 1..4 : h[n] \in Seq(Part) /\ Len(h[n]) \in Nat /\ DOMAIN h[n] = 1..Len(h[n])
<1>1. DOMAIN RootHeaders = 1..4
  BY DEF RootHeaders
<1>2. DOMAIN h = 1..4 /\ \A n \in 1..4 : h[n] \in Seq(Part)
  BY <1>1 DEF Headers
<1> QED
  BY <1>2

Joins(st, s, t) ==
  /\ Len(st) = Len(s) + Len(t)
  /\ \A i \in 1..Len(s) : st[i] = s[i]
  /\ \A i \in 1..Len(t) : st[Len(s) + i] = t[i]

LEMMA Concatenation ==
  ASSUME NEW S, NEW s \in Seq(S), NEW t \in Seq(S)
  PROVE  s \o t \in Seq(S) /\ Joins(s \o t, s, t)
  BY DEF Joins

LEMMA PartsInOrder ==
  ASSUME NEW h \in Headers
  PROVE  /\ Parts(h) \in Seq(Part)
         /\ Len(Parts(h)) = Offset(h, 4) + Len(h[4])
         /\ \A n \in 1..4 : \A i \in 1..Len(h[n]) : Parts(h)[Offset(h, n) + i] = h[n][i]
<1>1. h[1] \in Seq(Part) /\ h[2] \in Seq(Part) /\ h[3] \in Seq(Part) /\ h[4] \in Seq(Part)
  BY HeadersAreFour
<1>2. PICK a, b, c, d : a = h[1] /\ b = h[2] /\ c = h[3] /\ d = h[4]
  OBVIOUS
<1>3. a \in Seq(Part) /\ b \in Seq(Part) /\ c \in Seq(Part) /\ d \in Seq(Part)
  BY <1>1, <1>2
<1>4. PICK ab : ab = a \o b /\ ab \in Seq(Part) /\ Joins(ab, a, b)
  BY <1>3, Concatenation
<1>5. PICK abc : abc = ab \o c /\ abc \in Seq(Part) /\ Joins(abc, ab, c)
  BY <1>3, <1>4, Concatenation
<1>6. PICK all : all = abc \o d /\ all \in Seq(Part) /\ Joins(all, abc, d)
  BY <1>3, <1>5, Concatenation
<1>7. all = Parts(h)
  BY <1>2, <1>4, <1>5, <1>6 DEF Parts
<1>8. Len(a) \in Nat /\ Len(b) \in Nat /\ Len(c) \in Nat /\ Len(d) \in Nat
  BY <1>3
<1>9. /\ Offset(h, 1) = 0 /\ Offset(h, 2) = Len(a)
       /\ Offset(h, 3) = Len(a) + Len(b) /\ Offset(h, 4) = Len(a) + Len(b) + Len(c)
  BY <1>2 DEF Offset
<1>10. Len(all) = Offset(h, 4) + Len(d)
  BY <1>4, <1>5, <1>6, <1>9 DEF Joins
<1>11. ASSUME NEW n \in 1..4, NEW i \in 1..Len(h[n])
       PROVE  all[Offset(h, n) + i] = h[n][i]
  <2>1. CASE n = 1
    <3>1. i \in 1..Len(a) /\ Offset(h, n) = 0 /\ h[n] = a
      BY <1>2, <1>9, <2>1
    <3>2. all[0 + i] = a[i]
      BY <1>4, <1>5, <1>6, <1>8, <3>1 DEF Joins
    <3> QED
      BY <3>1, <3>2, Zenon
  <2>2. CASE n = 2
    <3>1. i \in 1..Len(b) /\ Offset(h, n) = Len(a) /\ h[n] = b
      BY <1>2, <1>9, <2>2
    <3>2. all[Len(a) + i] = b[i]
      BY <1>4, <1>5, <1>6, <1>8, <3>1 DEF Joins
    <3> QED
      BY <3>1, <3>2, Zenon
  <2>3. CASE n = 3
    <3>1. i \in 1..Len(c) /\ Offset(h, n) = Len(a) + Len(b) /\ h[n] = c
      BY <1>2, <1>9, <2>3
    <3>2. all[Len(a) + Len(b) + i] = c[i]
      BY <1>4, <1>5, <1>6, <1>8, <3>1 DEF Joins
    <3> QED
      BY <3>1, <3>2, Zenon
  <2>4. CASE n = 4
    <3>1. i \in 1..Len(d) /\ Offset(h, n) = Len(a) + Len(b) + Len(c) /\ h[n] = d
      BY <1>2, <1>9, <2>4
    <3>2. all[Len(a) + Len(b) + Len(c) + i] = d[i]
      BY <1>4, <1>5, <1>6, <1>8, <3>1 DEF Joins
    <3> QED
      BY <3>1, <3>2, Zenon
  <2> QED
    BY <2>1, <2>2, <2>3, <2>4
<1> QED
  BY <1>2, <1>6, <1>7, <1>10, <1>11

LEMMA Offsets ==
  ASSUME NEW h \in Headers
  PROVE  /\ Offset(h, 1) = 0
         /\ \A n \in 1..4 : Offset(h, n) \in Nat
         /\ Offset(h, 2) = Offset(h, 1) + Len(h[1])
         /\ Offset(h, 3) = Offset(h, 2) + Len(h[2])
         /\ Offset(h, 4) = Offset(h, 3) + Len(h[3])
         /\ \A n \in 1..4, m \in 1..4 : m < n => Offset(h, m) + Len(h[m]) <= Offset(h, n)
<1>1. /\ Offset(h, 1) = 0 /\ Offset(h, 2) = Len(h[1])
      /\ Offset(h, 3) = Len(h[1]) + Len(h[2]) /\ Offset(h, 4) = Len(h[1]) + Len(h[2]) + Len(h[3])
  BY DEF Offset
<1>2. Len(h[1]) \in Nat /\ Len(h[2]) \in Nat /\ Len(h[3]) \in Nat
  BY HeadersAreFour
<1>3. \A n \in 1..4 : n = 1 \/ n = 2 \/ n = 3 \/ n = 4
  OBVIOUS
<1>4. /\ Offset(h, 2) = Offset(h, 1) + Len(h[1])
      /\ Offset(h, 3) = Offset(h, 2) + Len(h[2])
      /\ Offset(h, 4) = Offset(h, 3) + Len(h[3])
      /\ Offset(h, 2) \in Nat /\ Offset(h, 3) \in Nat /\ Offset(h, 4) \in Nat
  <2>0. PICK h1, h2, h3, h4 : h1 = Offset(h, 1) /\ h2 = Offset(h, 2) /\ h3 = Offset(h, 3) /\ h4 = Offset(h, 4)
    OBVIOUS
  <2>1. PICK x \in Nat, y \in Nat, z \in Nat : x = Len(h[1]) /\ y = Len(h[2]) /\ z = Len(h[3])
    BY <1>2
  <2>2. Offset(h, 1) = 0 /\ Offset(h, 2) = x /\ Offset(h, 3) = x + y /\ Offset(h, 4) = x + y + z
    BY <1>1, <2>1
  <2>3. h1 = 0 /\ h2 = x /\ h3 = x + y /\ h4 = x + y + z
    BY <2>0, <2>2
  <2>4. h2 = h1 + x /\ h3 = h2 + y /\ h4 = h3 + z /\ h2 \in Nat /\ h3 \in Nat /\ h4 \in Nat
    BY <2>3
  <2> QED
    BY <2>0, <2>1, <2>4, Zenon
<1>5. \A n \in 1..4 : Offset(h, n) \in Nat
  BY <1>1, <1>3, <1>4
<1>6. /\ Offset(h, 1) + Len(h[1]) <= Offset(h, 2)
      /\ Offset(h, 1) + Len(h[1]) <= Offset(h, 3)
      /\ Offset(h, 1) + Len(h[1]) <= Offset(h, 4)
      /\ Offset(h, 2) + Len(h[2]) <= Offset(h, 3)
      /\ Offset(h, 2) + Len(h[2]) <= Offset(h, 4)
      /\ Offset(h, 3) + Len(h[3]) <= Offset(h, 4)
  <2>1. \A x, y, z \in Nat :
          /\ 0 + x <= x /\ 0 + x <= x + y /\ 0 + x <= x + y + z
          /\ x + y <= x + y /\ x + y <= x + y + z /\ x + y + z <= x + y + z
    OBVIOUS
  <2> QED
    BY <1>1, <1>2, <2>1, Zenon
<1>7. ASSUME NEW n \in 1..4, NEW m \in 1..4, m < n
      PROVE  Offset(h, m) + Len(h[m]) <= Offset(h, n)
  <2>1. \/ m = 1 /\ (n = 2 \/ n = 3 \/ n = 4)
        \/ m = 2 /\ (n = 3 \/ n = 4)
        \/ m = 3 /\ n = 4
    BY <1>7
  <2> QED
    BY <1>6, <2>1, Zenon
<1> QED
  BY <1>1, <1>4, <1>5, <1>7

\* Every part of the whole is one of a header, and they are in the same order.
LEMMA PartsAreOfHeaders ==
  ASSUME NEW h \in Headers, NEW k \in 1..Len(Parts(h))
  PROVE  \E n \in 1..4 : \E i \in DOMAIN h[n] : k = Offset(h, n) + i
<1>1. Len(Parts(h)) = Offset(h, 4) + Len(h[4]) /\ Len(h[4]) \in Nat /\ Offset(h, 4) \in Nat
  BY HeadersAreFour, PartsInOrder, Offsets
<1>2. k \in Nat /\ k > 0 /\ k <= Offset(h, 4) + Len(h[4])
  BY <1>1
<1>3. ASSUME NEW n \in 1..4, Offset(h, n) < k, k <= Offset(h, n) + Len(h[n])
      PROVE  \E i \in DOMAIN h[n] : k = Offset(h, n) + i
  <2>1. Len(h[n]) \in Nat /\ DOMAIN h[n] = 1..Len(h[n]) /\ Offset(h, n) \in Nat
    BY HeadersAreFour, Offsets
  <2>2. k - Offset(h, n) \in DOMAIN h[n] /\ k = Offset(h, n) + (k - Offset(h, n))
    BY <1>2, <1>3, <2>1
  <2> QED
    BY <2>2
<1>4. /\ Offset(h, 2) = 0 + Len(h[1]) /\ Offset(h, 1) = 0
      /\ Offset(h, 3) = Offset(h, 2) + Len(h[2])
      /\ Offset(h, 4) = Offset(h, 3) + Len(h[3])
      /\ Offset(h, 2) \in Nat /\ Offset(h, 3) \in Nat
  BY Offsets
<1>5. CASE k <= Offset(h, 2)
  BY <1>2, <1>3, <1>4, <1>5
<1>6. CASE Offset(h, 2) < k /\ k <= Offset(h, 3)
  BY <1>3, <1>4, <1>6
<1>7. CASE Offset(h, 3) < k /\ k <= Offset(h, 4)
  BY <1>3, <1>4, <1>7
<1>8. CASE Offset(h, 4) < k
  BY <1>2, <1>3, <1>8
<1> QED
  BY <1>1, <1>2, <1>4, <1>5, <1>6, <1>7, <1>8

\* The roots of the headers are what they name, and in its order.
THEOREM HeaderRootsInOrder ==
  ASSUME NEW h \in Headers, NEW C
  PROVE  LET path == FirstRootConfig(RootsFromHeaders(h), C)
         IN  \/ path = NoPath /\ NoneNamed(h, C)
             \/ path \in C /\ IsFirstNamed(path, h, C)
<1> DEFINE parts == Parts(h)
           roots == RootsFromHeaders(h)
           path == FirstRootConfig(roots, C)
<1>1. parts \in Seq(Part) /\ Len(parts) \in Nat
  BY PartsInOrder
<1>2. roots \in Seq(Paths) /\ Agree(parts, Len(parts), roots, C)
  <2>1. roots = Listed(parts)[Len(parts)]
    BY DEF RootsFromHeaders
  <2>2. Len(parts) \in 0..Len(parts)
    BY <1>1
  <2> QED
    BY <1>1, <2>1, <2>2, ListedAgrees, Zenon
<1>3. \A n \in 1..4 : \A i \in DOMAIN h[n] :
         /\ Offset(h, n) + i \in 1..Len(parts)
         /\ parts[Offset(h, n) + i] = h[n][i]
         /\ Naming(h, n, i, C) <=> NamesRoot(parts[Offset(h, n) + i], C)
  <2> TAKE n \in 1..4
  <2> TAKE i \in DOMAIN h[n]
  <2>1. i \in 1..Len(h[n]) /\ Len(h[n]) \in Nat /\ Len(h[4]) \in Nat
    BY HeadersAreFour
  <2>2. parts[Offset(h, n) + i] = h[n][i] /\ Len(parts) = Offset(h, 4) + Len(h[4])
    BY <2>1, PartsInOrder
  <2>3. Offset(h, n) \in Nat /\ Offset(h, 4) \in Nat /\ (n = 4 \/ Offset(h, n) + Len(h[n]) <= Offset(h, 4))
    BY Offsets
  <2>4. Offset(h, n) + i \in 1..Len(parts)
    <3>1. /\ i \in Nat /\ i >= 1 /\ i <= Len(h[n])
          /\ Offset(h, 4) + Len(h[4]) >= Offset(h, 4)
      BY <2>1, <2>3
    <3>2. CASE n = 4
      BY <2>1, <2>2, <2>3, <3>1, <3>2
    <3>3. CASE Offset(h, n) + Len(h[n]) <= Offset(h, 4)
      <4>1. /\ Offset(h, n) + i \in Nat /\ Offset(h, n) + i >= 1
            /\ Offset(h, n) + i <= Offset(h, n) + Len(h[n])
        BY <2>1, <2>3, <3>1
      <4>2. Offset(h, n) + i <= Offset(h, 4)
        BY <2>1, <2>3, <3>3, <4>1
      <4>3. Offset(h, 4) <= Len(parts)
        BY <2>2, <3>1, Zenon
      <4> QED
        BY <1>1, <2>3, <4>1, <4>2, <4>3
    <3> QED
      BY <2>3, <3>2, <3>3
  <2>5. Naming(h, n, i, C) <=> NamesRoot(h[n][i], C)
    BY Zenon DEF Naming, NamesRoot
  <2> QED
    BY <2>2, <2>4, <2>5, Zenon
<1> HIDE DEF roots, parts
<1>4. CASE (\A j \in 1..Len(parts) : ~ NamesRoot(parts[j], C)) /\ \A x \in DOMAIN roots : roots[x] \notin C
  <2>1. path = NoPath
    BY <1>2, <1>4, FirstConfigured
  <2>2. NoneNamed(h, C)
    BY <1>3, <1>4, HeadersAreFour, Zenon DEF NoneNamed
  <2> QED
    BY <2>1, <2>2 DEF roots
<1>5. CASE \E k \in 1..Len(parts), x \in DOMAIN roots :
             /\ NamesRoot(parts[k], C) /\ parts[k].path = roots[x]
             /\ \A j \in 1..(k - 1) : ~ NamesRoot(parts[j], C)
             /\ \A y \in 1..(x - 1) : roots[y] \notin C
  <2>1. PICK k \in 1..Len(parts), x \in DOMAIN roots :
             /\ NamesRoot(parts[k], C) /\ parts[k].path = roots[x]
             /\ \A j \in 1..(k - 1) : ~ NamesRoot(parts[j], C)
             /\ \A y \in 1..(x - 1) : roots[y] \notin C
    BY <1>5
  <2>2. roots[x] \in C
    BY <2>1 DEF NamesRoot
  <2>3. path = roots[x] /\ path \in C
    <3>1. PICK z \in DOMAIN roots : path = roots[z] /\ path \in C /\ \A y \in 1..(z - 1) : roots[y] \notin C
      BY <1>2, <2>2, FirstConfigured
    <3>2. x = z
      BY <1>2, <2>1, <2>2, <3>1
    <3> QED
      BY <3>1, <3>2
  <2>4. PICK n \in 1..4 : \E i \in DOMAIN h[n] : k = Offset(h, n) + i
    BY PartsAreOfHeaders DEF parts
  <2>5. PICK i \in DOMAIN h[n] : k = Offset(h, n) + i
    BY <2>4
  <2>6. h[n][i].path = path /\ Naming(h, n, i, C)
    BY <1>3, <2>1, <2>3, <2>5
  <2>7. ASSUME NEW m \in 1..n, NEW j \in DOMAIN h[m], m < n \/ j < i
        PROVE  ~ Naming(h, m, j, C)
    <3>1. m \in 1..4 /\ (m < n \/ (m = n /\ j < i))
      BY <2>7
    <3>2. i \in 1..Len(h[n]) /\ j \in 1..Len(h[m]) /\ Len(h[m]) \in Nat /\ Len(h[n]) \in Nat
      BY <3>1, HeadersAreFour, Zenon
    <3>3. /\ Offset(h, m) \in Nat /\ Offset(h, n) \in Nat
          /\ m < n => Offset(h, m) + Len(h[m]) <= Offset(h, n)
      BY <3>1, Offsets
    <3>4. Offset(h, m) + j < k
      BY <2>5, <3>1, <3>2, <3>3
    <3>5. Offset(h, m) + j \in 1..Len(parts)
      BY <1>3, <3>1
    <3>6. ~ NamesRoot(parts[Offset(h, m) + j], C)
      BY <2>1, <3>4, <3>5
    <3> QED
      BY <1>3, <3>1, <3>6
  <2> QED
    BY <2>3, <2>6, <2>7, HeadersAreFour DEF IsFirstNamed, roots
<1> QED
  BY <1>2, <1>4, <1>5 DEF Agree
=============================================================================
