------------------------- MODULE FileSystemProofs ---------------------------
(***************************************************************************)
(* Proofs about FileSystem, for volumes, clusters and files of any size.   *)
(* First the chains: what the table says of a Path stays true of it until  *)
(* one of its own entries is written.                                      *)
(***************************************************************************)
EXTENDS FileSystem, FiniteSetTheorems, SequenceTheorems, WellFoundedInduction, TLAPS

-----------------------------------------------------------------------------
\* Numbers

\* A set of natural numbers has a least one, and one closed under successor
\* that holds 0 holds them all.
LEMMA NatLeast == ASSUME NEW T, T \subseteq Nat, T # {} PROVE \E n \in T : \A m \in T : n <= m
<1> DEFINE R == {ss \in Nat \X Nat : ss[1] < ss[2]}
<1>1. IsWellFoundedOn(R, Nat)
  BY NatLessThanWellFounded DEF OpToRel
<1>2. \A x, y \in Nat : x < y => <<x, y>> \in R
  OBVIOUS
<1> HIDE DEF R
<1>3. PICK x \in T : \A y \in T : ~ (<<y, x>> \in R)
  BY <1>1, WFMin
<1>4. \A m \in T : ~ (m < x)
  BY <1>2, <1>3
<1>5. QED
  BY <1>4

LEMMA NatSet ==
  ASSUME NEW P, 0 \in P, \A n \in Nat : n \in P => n + 1 \in P
  PROVE  Nat \subseteq P
<1> SUFFICES ASSUME Nat \ P # {} PROVE FALSE
  OBVIOUS
<1>1. PICK n \in Nat \ P : \A m \in Nat \ P : n <= m
  BY NatLeast
<1>2. n # 0 /\ n - 1 \in Nat
  BY <1>1
<1>3. n - 1 \in P
  BY <1>1, <1>2
<1>4. n - 1 + 1 \in P
  BY <1>2, <1>3
<1>5. QED
  BY <1>1, <1>4

LEMMA MinIs ==
  ASSUME NEW T, T \subseteq Nat, T # {}
  PROVE  Min(T) \in T /\ \A m \in T : Min(T) <= m
<1>1. \E n \in T : \A m \in T : n <= m
  BY NatLeast
<1>2. QED
  BY <1>1 DEF Min

\* The clusters that s cells take.
LEMMA ClustersIs ==
  ASSUME NEW s \in Nat, NEW n \in Nat
  PROVE  ClustersFor(s) \in Nat /\ (ClustersFor(s) <= n <=> s <= n * Cells)
<1> DEFINE q == ClustersFor(s)
           d == Cells
<1>1. d \in Nat /\ d > 0
  BY FileSystemAssumption
<1>2. q = (s + d - 1) \div d
  BY DEF ClustersFor
<1> HIDE DEF d
<1>3. q \in Nat /\ q * d <= s + d - 1 /\ s + d - 1 < q * d + d
  BY <1>1, <1>2
<1> HIDE DEF q
<1>4. CASE q <= n
  <2>1. q * d <= n * d
    BY <1>1, <1>3, <1>4
  <2>2. QED
    BY <1>1, <1>3, <1>4, <2>1 DEF q, d
<1>5. CASE ~(q <= n)
  <2>1. n + 1 <= q
    BY <1>3, <1>5
  <2>2. (n + 1) * d <= q * d
    BY <1>1, <1>3, <2>1
  <2>3. n * d + d <= q * d
    BY <1>1, <2>2
  <2>4. n * d < s
    BY <1>1, <1>3, <2>3
  <2>5. QED
    BY <1>1, <1>3, <1>5, <2>4 DEF q, d
<1>6. QED
  BY <1>4, <1>5

-----------------------------------------------------------------------------
\* Chains

Tables == [0 .. LastCluster -> 0 .. EOC]

\* The clusters s are those that table t leads to from c on, once each.
Path(t, c, s) ==
  /\ s \in Seq(Cluster) /\ IsInjective(s)
  /\ s = <<>> <=> c \notin Cluster
  /\ s # <<>> => s[1] = c /\ t[s[Len(s)]] \notin Cluster
  /\ \A i \in 1 .. Len(s) - 1 : t[s[i]] = s[i + 1]

LEMMA Numbers ==
  /\ Cells \in Nat /\ Cells > 2 /\ LastCluster \in Nat /\ LastCluster >= 2
  /\ root_cluster \in Cluster /\ EOC \in Nat /\ EOC \notin Cluster /\ 0 \notin Cluster
  /\ Cluster \subseteq 0 .. LastCluster /\ EOC # 0
  BY FileSystemAssumption DEF Cluster, EOC

LEMMA PathLength ==
  ASSUME NEW s \in Seq(Cluster), IsInjective(s)
  PROVE  Len(s) < LastCluster
<1> DEFINE D == 1 .. Len(s)
<1>1. Len(s) \in Nat /\ s \in [D -> Cluster] /\ DOMAIN s = D
  BY LenProperties
<1>2. s \in Injection(D, Cluster)
  BY <1>1 DEF Injection, IsInjective
<1>3. IsFiniteSet(Cluster) /\ Cardinality(Cluster) = LastCluster - 2 + 1
  BY Numbers, FS_Interval DEF Cluster
<1>4. Cardinality(D) = Len(s)
  <2>1. Cardinality(1 .. Len(s)) = IF 1 > Len(s) THEN 0 ELSE Len(s) - 1 + 1
    BY <1>1, FS_Interval
  <2>2. QED
    BY <1>1, <2>1
<1> HIDE DEF D
<1>5. Cardinality(D) <= Cardinality(Cluster)
  BY <1>2, <1>3, FS_Injection
<1>6. QED
  BY <1>1, <1>3, <1>4, <1>5, Numbers

Walk(t, c, n, g) ==
  g = [i \in 0 .. n |-> IF i = 0 THEN c ELSE NextCluster(t, g[i - 1])]

LEMMA WalkExists ==
  ASSUME NEW t, NEW c, NEW n \in Nat
  PROVE  \E g : Walk(t, c, n, g)
<1> DEFINE P == {k \in Nat : \E g : Walk(t, c, k, g)}
<1>1. 0 \in P
  <2> DEFINE g == [i \in 0 .. 0 |-> c]
  <2>1. Walk(t, c, 0, g)
    BY DEF Walk
  <2>2. QED
    BY <2>1
<1>2. ASSUME NEW k \in Nat, k \in P PROVE k + 1 \in P
  <2>1. PICK g : Walk(t, c, k, g)
    BY <1>2
  <2> DEFINE h == [i \in 0 .. k + 1 |-> IF i = k + 1 THEN NextCluster(t, g[k]) ELSE g[i]]
  <2>2. ASSUME NEW i \in 0 .. k + 1
        PROVE  h[i] = IF i = 0 THEN c ELSE NextCluster(t, h[i - 1])
    <3>1. CASE i = k + 1
      <4>1. h[i] = NextCluster(t, g[k]) /\ i # 0 /\ i - 1 = k
            /\ k \in 0 .. k + 1 /\ k # k + 1
        BY <3>1
      <4>2. h[k] = g[k]
        BY <4>1
      <4>3. QED
        BY <4>1, <4>2
    <3>2. CASE i # k + 1
      <4>1. i \in 0 .. k /\ h[i] = g[i]
        BY <3>2
      <4>2. g[i] = IF i = 0 THEN c ELSE NextCluster(t, g[i - 1])
        BY <2>1, <4>1 DEF Walk
      <4>3. i # 0 => i - 1 \in 0 .. k + 1 /\ i - 1 # k + 1
        BY <4>1
      <4>4. i # 0 => h[i - 1] = g[i - 1]
        BY <4>3
      <4>5. QED
        BY <4>1, <4>2, <4>4
    <3>3. QED
      BY <3>1, <3>2
  <2>3. h = [i \in 0 .. k + 1 |-> h[i]]
    OBVIOUS
  <2> HIDE DEF h
  <2>4. Walk(t, c, k + 1, h)
    BY <2>2, <2>3 DEF Walk
  <2>5. QED
    BY <2>4
<1> HIDE DEF P
<1>3. Nat \subseteq P
  BY <1>1, <1>2, NatSet
<1>4. QED
  BY <1>3 DEF P

\* A chain is a walk as far as it leads to clusters, or as far as anybody looks.
LEMMA ChainInIs ==
  ASSUME NEW t, NEW c
  PROVE  \E g, n : /\ Walk(t, c, LastCluster, g) /\ n \in 0 .. LastCluster
                   /\ ChainIn(t, c) = [i \in 1 .. n |-> g[i - 1]]
                   /\ \A i \in 0 .. n - 1 : g[i] \in Cluster
                   /\ n < LastCluster => g[n] \notin Cluster
<1> DEFINE at == CHOOSE g : Walk(t, c, LastCluster, g)
           ends == {i \in 0 .. LastCluster : at[i] \notin Cluster}
           n == Min(ends \cup {LastCluster})
<1>1. Walk(t, c, LastCluster, at)
  BY WalkExists, Numbers
<1>2. ChainIn(t, c) = [i \in 1 .. n |-> at[i - 1]]
  BY DEF ChainIn, Walk
<1> HIDE DEF at
<1>3. n \in ends \cup {LastCluster} /\ \A m \in ends \cup {LastCluster} : n <= m
  <2>1. ends \cup {LastCluster} \subseteq Nat /\ ends \cup {LastCluster} # {}
    BY Numbers
  <2> HIDE DEF ends
  <2>2. QED
    BY <2>1, MinIs
<1> HIDE DEF n
<1>4. n \in 0 .. LastCluster /\ (n < LastCluster => at[n] \notin Cluster)
  BY <1>3, Numbers
<1>5. ASSUME NEW i \in 0 .. n - 1 PROVE at[i] \in Cluster
  <2>1. i \in 0 .. LastCluster /\ ~(n <= i)
    BY <1>4, Numbers
  <2>2. i \notin ends
    BY <1>3, <2>1
  <2>3. QED
    BY <2>1, <2>2
<1>6. QED
  BY <1>1, <1>2, <1>4, <1>5

LEMMA ChainSeq == ASSUME NEW t, NEW c PROVE ChainIn(t, c) \in Seq(Cluster)
<1>1. PICK g, n : /\ n \in 0 .. LastCluster /\ ChainIn(t, c) = [i \in 1 .. n |-> g[i - 1]]
                  /\ \A i \in 0 .. n - 1 : g[i] \in Cluster
  BY ChainInIs
<1>2. \A i \in 1 .. n : g[i - 1] \in Cluster
  BY <1>1, Numbers
<1>3. QED
  BY <1>1, <1>2, Numbers

\* An injective chain is a path, ...
LEMMA ChainPath ==
  ASSUME NEW t \in Tables, NEW c, IsInjective(ChainIn(t, c))
  PROVE  Path(t, c, ChainIn(t, c))
<1> DEFINE s == ChainIn(t, c)
<1>1. PICK g, n : /\ Walk(t, c, LastCluster, g) /\ n \in 0 .. LastCluster
                  /\ s = [i \in 1 .. n |-> g[i - 1]]
                  /\ \A i \in 0 .. n - 1 : g[i] \in Cluster
                  /\ n < LastCluster => g[n] \notin Cluster
  BY ChainInIs
<1>2. s \in Seq(Cluster) /\ Len(s) = n
  BY <1>1, ChainSeq, Numbers
<1>3. n < LastCluster /\ n \in Nat
  BY <1>1, <1>2, PathLength, Numbers
<1>4. \A i \in 0 .. LastCluster : g[i] = IF i = 0 THEN c ELSE NextCluster(t, g[i - 1])
  BY <1>1 DEF Walk
<1>5. g[0] = c /\ \A i \in 0 .. n - 1 : g[i + 1] = t[g[i]]
  <2>1. g[0] = c
    BY <1>4, Numbers
  <2>2. ASSUME NEW i \in 0 .. n - 1 PROVE g[i + 1] = t[g[i]]
    <3>1. i + 1 \in 0 .. LastCluster /\ i + 1 # 0 /\ i + 1 - 1 = i /\ g[i] \in Cluster
      BY <1>1, <1>3, Numbers
    <3>2. QED
      BY <1>4, <3>1 DEF NextCluster
  <2>3. QED
    BY <2>1, <2>2
<1> HIDE DEF s
<1>6. s = <<>> <=> c \notin Cluster
  <2>1. s = <<>> <=> n = 0
    BY <1>2, <1>3, EmptySeq
  <2>2. n = 0 => c \notin Cluster
    BY <1>1, <1>3, <1>5
  <2>3. n # 0 => 0 \in 0 .. n - 1
    BY <1>3
  <2>4. n # 0 => c \in Cluster
    BY <1>1, <1>5, <2>3
  <2>5. QED
    BY <2>1, <2>2, <2>4
<1>7. ASSUME s # <<>> PROVE s[1] = c /\ t[s[Len(s)]] \notin Cluster
  <2>1. n # 0
    BY <1>2, <1>7
  <2>2. s[1] = g[0] /\ s[n] = g[n - 1] /\ g[n - 1 + 1] = t[g[n - 1]]
    BY <1>1, <1>3, <1>5, <2>1
  <2>3. QED
    BY <1>1, <1>2, <1>3, <1>5, <2>2
<1>8. ASSUME NEW i \in 1 .. Len(s) - 1 PROVE t[s[i]] = s[i + 1]
  <2>1. i - 1 \in 0 .. n - 1 /\ i \in 1 .. n /\ i + 1 \in 1 .. n /\ i - 1 + 1 = i
        /\ i + 1 - 1 = i
    BY <1>2, <1>3
  <2>2. s[i] = g[i - 1] /\ s[i + 1] = g[i] /\ g[i] = t[g[i - 1]]
    BY <1>1, <1>5, <2>1
  <2>3. QED
    BY <2>2
<1>9. IsInjective(s)
  BY DEF s
<1>10. QED
  BY <1>2, <1>6, <1>7, <1>8, <1>9 DEF Path, s

\* ... and a path is the chain.
LEMMA PathChain ==
  ASSUME NEW t, NEW c, NEW s, Path(t, c, s)
  PROVE  ChainIn(t, c) = s
<1>1. PICK g, n : /\ Walk(t, c, LastCluster, g) /\ n \in 0 .. LastCluster
                  /\ ChainIn(t, c) = [i \in 1 .. n |-> g[i - 1]]
                  /\ \A i \in 0 .. n - 1 : g[i] \in Cluster
                  /\ n < LastCluster => g[n] \notin Cluster
  BY ChainInIs
<1> DEFINE k == Len(s)
<1>2. s \in Seq(Cluster) /\ k \in Nat /\ k < LastCluster
      /\ \A i \in 1 .. k : s[i] \in Cluster
  BY PathLength, LenProperties, ElementOfSeq DEF Path
<1>3. \A i \in 0 .. LastCluster : g[i] = IF i = 0 THEN c ELSE NextCluster(t, g[i - 1])
  BY <1>1 DEF Walk
<1> DEFINE P == {i \in Nat : i < k => g[i] = s[i + 1]}
<1>4. 0 \in P
  <2> SUFFICES ASSUME 0 < k PROVE g[0] = s[1]
    OBVIOUS
  <2>1. s # <<>>
    OBVIOUS
  <2>2. QED
    BY <1>3, <2>1, Numbers DEF Path
<1>5. ASSUME NEW i \in Nat, i \in P PROVE i + 1 \in P
  <2> SUFFICES ASSUME i + 1 < k PROVE g[i + 1] = s[i + 1 + 1]
    OBVIOUS
  <2>1. g[i] = s[i + 1] /\ s[i + 1] \in Cluster
    BY <1>2, <1>5
  <2>2. i + 1 \in 0 .. LastCluster /\ i + 1 # 0 /\ i + 1 - 1 = i /\ i + 1 \in 1 .. k - 1
    BY <1>2, Numbers
  <2>3. t[s[i + 1]] = s[i + 1 + 1]
    BY <2>2 DEF Path
  <2>4. QED
    BY <1>3, <2>1, <2>2, <2>3 DEF NextCluster
<1> HIDE DEF P
<1>6. Nat \subseteq P
  BY <1>4, <1>5, NatSet
<1>7. \A i \in 0 .. k - 1 : g[i] = s[i + 1] /\ g[i] \in Cluster
  <2> SUFFICES ASSUME NEW i \in 0 .. k - 1 PROVE g[i] = s[i + 1] /\ g[i] \in Cluster
    OBVIOUS
  <2>1. i \in Nat /\ i < k /\ i + 1 \in 1 .. k
    BY <1>2
  <2>2. QED
    BY <1>2, <1>6, <2>1 DEF P
<1>8. g[k] \notin Cluster
  <2>1. CASE k = 0
    <3>1. g[0] = c /\ s = <<>>
      BY <1>2, <1>3, <2>1, Numbers
    <3>2. QED
      BY <2>1, <3>1 DEF Path
  <2>2. CASE k # 0
    <3>1. k \in 0 .. LastCluster /\ k - 1 \in 0 .. k - 1 /\ s # <<>> /\ k - 1 + 1 = k
      BY <1>2, <2>2, Numbers, EmptySeq
    <3>2. g[k] = NextCluster(t, g[k - 1]) /\ g[k - 1] = s[k] /\ s[k] \in Cluster
      BY <1>3, <1>7, <2>2, <3>1
    <3>3. t[s[k]] \notin Cluster
      BY <3>1 DEF Path
    <3>4. QED
      BY <3>2, <3>3 DEF NextCluster
  <2>3. QED
    BY <2>1, <2>2
<1>9. n = k
  <2>1. ~(k < n)
    BY <1>1, <1>2, <1>8
  <2>2. ~(n < k)
    <3> SUFFICES ASSUME n < k PROVE FALSE
      OBVIOUS
    <3>1. n \in 0 .. k - 1 /\ n < LastCluster
      BY <1>1, <1>2, Numbers
    <3>2. QED
      BY <1>1, <1>7, <3>1
  <2>3. QED
    BY <1>1, <1>2, <2>1, <2>2, Numbers
<1>10. \A i \in 1 .. k : g[i - 1] = s[i]
  BY <1>2, <1>7
<1>11. s = [i \in 1 .. k |-> s[i]]
  BY <1>2
<1>12. QED
  BY <1>1, <1>9, <1>10, <1>11

-----------------------------------------------------------------------------
\* Paths, and what a write to the table does to them

LEMMA PathFacts ==
  ASSUME NEW t, NEW c, NEW s, Path(t, c, s)
  PROVE  /\ s \in Seq(Cluster) /\ Len(s) \in Nat /\ DOMAIN s = 1 .. Len(s)
         /\ \A i \in 1 .. Len(s) : s[i] \in Cluster /\ s[i] \in ToSet(s)
         /\ \A x \in ToSet(s) : \E i \in 1 .. Len(s) : x = s[i]
         /\ ToSet(s) \subseteq Cluster
         /\ \A i, j \in 1 .. Len(s) : s[i] = s[j] => i = j
         /\ c \notin Cluster => s = <<>> /\ Len(s) = 0 /\ ToSet(s) = {}
         /\ c \in Cluster =>
              /\ Len(s) >= 1 /\ s[1] = c /\ c \in ToSet(s) /\ s # <<>>
              /\ Last(s) = s[Len(s)] /\ Last(s) \in ToSet(s)
              /\ t[Last(s)] \notin Cluster
<1>1. s \in Seq(Cluster) /\ Len(s) \in Nat /\ DOMAIN s = 1 .. Len(s)
  BY LenProperties DEF Path
<1>2. \A i \in 1 .. Len(s) : s[i] \in Cluster /\ s[i] \in ToSet(s)
  BY <1>1, ElementOfSeq DEF ToSet
<1>3. \A x \in ToSet(s) : \E i \in 1 .. Len(s) : x = s[i]
  BY <1>1 DEF ToSet
<1>4. ToSet(s) \subseteq Cluster
  BY <1>2, <1>3
<1>5. \A i, j \in 1 .. Len(s) : s[i] = s[j] => i = j
  BY <1>1 DEF Path, IsInjective
<1>6. ASSUME c \notin Cluster PROVE s = <<>> /\ Len(s) = 0 /\ ToSet(s) = {}
  <2>1. s = <<>>
    BY <1>6 DEF Path
  <2>2. Len(s) = 0
    BY <2>1, EmptySeq
  <2>3. QED
    BY <1>3, <2>1, <2>2
<1>7. ASSUME c \in Cluster
      PROVE  /\ Len(s) >= 1 /\ s[1] = c /\ c \in ToSet(s) /\ s # <<>>
             /\ Last(s) = s[Len(s)] /\ Last(s) \in ToSet(s)
             /\ t[Last(s)] \notin Cluster
  <2>1. s # <<>> /\ s[1] = c /\ t[s[Len(s)]] \notin Cluster
    BY <1>7 DEF Path
  <2>2. Len(s) >= 1
    BY <1>1, <2>1, EmptySeq
  <2>3. 1 \in 1 .. Len(s) /\ Len(s) \in 1 .. Len(s)
    BY <1>1, <2>2
  <2>4. s[1] \in ToSet(s) /\ s[Len(s)] \in ToSet(s)
    BY <1>2, <2>3
  <2>5. QED
    BY <2>1, <2>2, <2>4 DEF Last
<1>8. QED
  BY <1>1, <1>2, <1>3, <1>4, <1>5, <1>6, <1>7

\* On a path only the last entry leads nowhere.
LEMMA PathInner ==
  ASSUME NEW t, NEW c, NEW s, Path(t, c, s), NEW x \in ToSet(s), x # Last(s)
  PROVE  t[x] \in Cluster
<1>1. PICK i \in 1 .. Len(s) : x = s[i]
  BY PathFacts
<1>2. Len(s) \in Nat /\ i # Len(s)
  BY <1>1, PathFacts DEF Last
<1>3. i \in 1 .. Len(s) - 1 /\ i + 1 \in 1 .. Len(s)
  BY <1>2
<1>4. t[x] = s[i + 1]
  BY <1>1, <1>3 DEF Path
<1>5. s[i + 1] \in Cluster
  BY <1>3, PathFacts
<1>6. QED
  BY <1>4, <1>5

LEMMA PathSame ==
  ASSUME NEW t, NEW u, NEW c, NEW s, Path(t, c, s),
         \A x \in ToSet(s) : x # Last(s) => u[x] = t[x],
         c \in Cluster => u[Last(s)] \notin Cluster
  PROVE  Path(u, c, s)
<1>1. ASSUME NEW i \in 1 .. Len(s) - 1 PROVE u[s[i]] = s[i + 1]
  <2>1. i \in 1 .. Len(s) /\ Len(s) \in 1 .. Len(s) /\ i # Len(s)
    BY PathFacts
  <2>2. s[i] \in ToSet(s) /\ s[i] # s[Len(s)]
    BY <2>1, PathFacts
  <2>3. u[s[i]] = t[s[i]]
    BY <2>2 DEF Last
  <2>4. QED
    BY <2>3 DEF Path
<1>2. QED
  BY <1>1 DEF Path, Last

LEMMA PathGrows ==
  ASSUME NEW t, NEW u, NEW c \in Cluster, NEW s, Path(t, c, s),
         \A x \in ToSet(s) : x # Last(s) => u[x] = t[x],
         NEW y \in Cluster, y \notin ToSet(s), u[Last(s)] = y, u[y] \notin Cluster
  PROVE  /\ Path(u, c, Append(s, y))
         /\ ToSet(Append(s, y)) = ToSet(s) \cup {y}
         /\ Len(Append(s, y)) = Len(s) + 1 /\ Last(Append(s, y)) = y
<1> DEFINE r == Append(s, y)
           n == Len(s)
<1>1. n \in Nat /\ n >= 1 /\ s \in Seq(Cluster) /\ s[1] = c
  BY PathFacts
<1>2. /\ r \in Seq(Cluster) /\ r # <<>> /\ Len(r) = n + 1
      /\ \A i \in 1 .. n : r[i] = s[i]
      /\ r[n + 1] = y
  BY <1>1, AppendProperties
<1>3. DOMAIN r = 1 .. n + 1
  BY <1>1, <1>2, LenProperties
<1> HIDE DEF r
<1>4. \A i \in 1 .. n : s[i] \in ToSet(s) /\ s[i] # y
  BY PathFacts
<1>5. IsInjective(r)
  <2> SUFFICES ASSUME NEW i \in 1 .. n + 1, NEW j \in 1 .. n + 1, r[i] = r[j] PROVE i = j
    BY <1>3 DEF IsInjective
  <2>1. CASE i = n + 1 /\ j = n + 1
    BY <2>1
  <2>2. CASE i = n + 1 /\ j # n + 1
    <3>1. j \in 1 .. n
      BY <1>1, <2>2
    <3>2. QED
      BY <1>2, <1>4, <2>2, <3>1
  <2>3. CASE i # n + 1 /\ j = n + 1
    <3>1. i \in 1 .. n
      BY <1>1, <2>3
    <3>2. QED
      BY <1>2, <1>4, <2>3, <3>1
  <2>4. CASE i # n + 1 /\ j # n + 1
    <3>1. i \in 1 .. n /\ j \in 1 .. n
      BY <1>1, <2>4
    <3>2. s[i] = s[j]
      BY <1>2, <3>1
    <3>3. QED
      BY <3>1, <3>2, PathFacts
  <2>5. QED
    BY <2>1, <2>2, <2>3, <2>4
<1>6. ASSUME NEW i \in 1 .. Len(r) - 1 PROVE u[r[i]] = r[i + 1]
  <2>1. i \in 1 .. n
    BY <1>1, <1>2
  <2>2. CASE i = n
    BY <1>2, <2>1, <2>2 DEF Last
  <2>3. CASE i # n
    <3>1. i \in 1 .. n - 1 /\ i + 1 \in 1 .. n /\ n \in 1 .. n
      BY <1>1, <2>1, <2>3
    <3>2. s[i] # s[n]
      BY <2>3, <3>1, <2>1, PathFacts
    <3>3. u[s[i]] = t[s[i]]
      BY <1>4, <2>1, <3>2 DEF Last
    <3>4. t[s[i]] = s[i + 1]
      BY <3>1 DEF Path
    <3>5. QED
      BY <1>2, <2>1, <3>1, <3>3, <3>4
  <2>4. QED
    BY <2>2, <2>3
<1>7. r[1] = c /\ u[r[Len(r)]] \notin Cluster
  <2>1. 1 \in 1 .. n
    BY <1>1
  <2>2. QED
    BY <1>1, <1>2, <2>1
<1>8. Path(u, c, r)
  BY <1>2, <1>5, <1>6, <1>7 DEF Path
<1>9. ToSet(r) = ToSet(s) \cup {y}
  <2>1. \A x \in ToSet(r) : x \in ToSet(s) \cup {y}
    <3> SUFFICES ASSUME NEW i \in 1 .. n + 1 PROVE r[i] \in ToSet(s) \cup {y}
      BY <1>3 DEF ToSet
    <3>1. i = n + 1 \/ i \in 1 .. n
      BY <1>1
    <3>2. QED
      BY <1>2, <1>4, <3>1
  <2>2. \A x \in ToSet(s) : x \in ToSet(r)
    <3> SUFFICES ASSUME NEW i \in 1 .. n PROVE s[i] \in ToSet(r)
      BY PathFacts
    <3>1. i \in 1 .. n + 1 /\ r[i] = s[i]
      BY <1>1, <1>2
    <3>2. QED
      BY <1>3, <3>1 DEF ToSet
  <2>3. y \in ToSet(r)
    <3>1. n + 1 \in 1 .. n + 1
      BY <1>1
    <3>2. QED
      BY <1>2, <1>3, <3>1 DEF ToSet
  <2>4. QED
    BY <2>1, <2>2, <2>3
<1>10. QED
  BY <1>2, <1>8, <1>9 DEF r, Last

LEMMA PathTail ==
  ASSUME NEW t \in Tables, NEW u, NEW c \in Cluster, NEW s, Path(t, c, s),
         \A x \in Cluster : x # c => u[x] = t[x]
  PROVE  /\ Path(u, t[c], Tail(s))
         /\ ToSet(Tail(s)) = ToSet(s) \ {c}
<1> DEFINE r == Tail(s)
           n == Len(s)
<1>1. /\ n \in Nat /\ n >= 1 /\ s \in Seq(Cluster) /\ s[1] = c /\ s # <<>>
      /\ \A i \in 1 .. n : s[i] \in Cluster
      /\ \A i, j \in 1 .. n : s[i] = s[j] => i = j
  BY PathFacts
<1>2. r \in Seq(Cluster) /\ Len(r) = n - 1 /\ \A i \in 1 .. n - 1 : r[i] = s[i + 1]
  BY <1>1, HeadTailProperties
<1>3. DOMAIN r = 1 .. n - 1
  BY <1>2, LenProperties
<1> HIDE DEF r
<1>4. \A i \in 2 .. n : s[i] # c /\ u[s[i]] = t[s[i]]
  <2> SUFFICES ASSUME NEW i \in 2 .. n PROVE s[i] # c /\ u[s[i]] = t[s[i]]
    OBVIOUS
  <2>1. i \in 1 .. n /\ 1 \in 1 .. n /\ i # 1
    BY <1>1
  <2>2. QED
    BY <1>1, <2>1
<1>5. IsInjective(r)
  <2> SUFFICES ASSUME NEW i \in 1 .. n - 1, NEW j \in 1 .. n - 1, r[i] = r[j] PROVE i = j
    BY <1>3 DEF IsInjective
  <2>1. i + 1 \in 1 .. n /\ j + 1 \in 1 .. n /\ s[i + 1] = s[j + 1]
    BY <1>1, <1>2
  <2>2. i + 1 = j + 1
    BY <1>1, <2>1
  <2>3. QED
    BY <2>2
<1>6. CASE n = 1
  <2>1. r = <<>>
    BY <1>2, <1>6, EmptySeq
  <2>2. t[c] \notin Cluster
    BY <1>1, <1>6 DEF Path
  <2>3. Path(u, t[c], r)
    <3>1. \A i \in 1 .. Len(r) - 1 : FALSE
      BY <1>2, <1>6
    <3>2. QED
      BY <1>2, <1>5, <2>1, <2>2, <3>1 DEF Path
  <2>4. ToSet(s) = {c}
    BY <1>1, <1>6, PathFacts
  <2>5. ToSet(r) = {}
    BY <1>3, <1>6 DEF ToSet
  <2>6. QED
    BY <2>3, <2>4, <2>5 DEF r
<1>7. CASE n # 1
  <2>1. n >= 2 /\ n - 1 \in 1 .. n - 1 /\ 1 \in 1 .. n - 1 /\ r # <<>> /\ n \in 2 .. n
    BY <1>1, <1>2, <1>7, EmptySeq
  <2>2. r[1] = s[2] /\ r[n - 1] = s[n]
    <3>1. r[1] = s[1 + 1] /\ r[n - 1] = s[n - 1 + 1]
      BY <1>2, <2>1
    <3>2. QED
      BY <1>1, <3>1
  <2>3. t[c] = s[2]
    <3>1. t[s[1]] = s[1 + 1]
      BY <2>1 DEF Path
    <3>2. QED
      BY <1>1, <3>1
  <2>4. t[c] \in Cluster
    <3>1. 2 \in 1 .. n
      BY <2>1
    <3>2. QED
      BY <1>1, <2>3, <3>1
  <2>5. u[r[Len(r)]] \notin Cluster
    BY <1>1, <1>2, <1>4, <2>1, <2>2 DEF Path
  <2>6. ASSUME NEW i \in 1 .. Len(r) - 1 PROVE u[r[i]] = r[i + 1]
    <3>1. /\ i \in 1 .. n - 1 /\ i + 1 \in 1 .. n - 1 /\ i + 1 \in 2 .. n
          /\ i + 1 \in 1 .. Len(s) - 1
      BY <1>1, <1>2
    <3>2. r[i] = s[i + 1] /\ r[i + 1] = s[i + 1 + 1]
      BY <1>2, <3>1
    <3>3. u[s[i + 1]] = t[s[i + 1]] /\ t[s[i + 1]] = s[i + 1 + 1]
      BY <1>4, <3>1 DEF Path
    <3>4. QED
      BY <3>2, <3>3
  <2>7. Path(u, t[c], r)
    BY <1>2, <1>5, <2>1, <2>2, <2>3, <2>4, <2>5, <2>6 DEF Path
  <2>8. \A x \in ToSet(r) : x \in ToSet(s) \ {c}
    <3> SUFFICES ASSUME NEW i \in 1 .. n - 1 PROVE r[i] \in ToSet(s) \ {c}
      BY <1>3 DEF ToSet
    <3>1. i + 1 \in 2 .. n /\ i + 1 \in 1 .. n
      BY <1>1
    <3>2. QED
      BY <1>2, <1>4, <3>1, PathFacts
  <2>9. \A x \in ToSet(s) \ {c} : x \in ToSet(r)
    <3> SUFFICES ASSUME NEW i \in 1 .. n, s[i] # c PROVE s[i] \in ToSet(r)
      BY PathFacts
    <3>1. i # 1
      BY <1>1
    <3>2. i - 1 \in 1 .. n - 1 /\ i - 1 + 1 = i
      BY <1>1, <3>1
    <3>3. r[i - 1] = s[i]
      BY <1>2, <3>2
    <3>4. QED
      BY <1>3, <3>2, <3>3 DEF ToSet
  <2>10. QED
    BY <2>7, <2>8, <2>9 DEF r
<1>8. QED
  BY <1>6, <1>7

LEMMA PathOne ==
  ASSUME NEW t, NEW x \in Cluster, t[x] \notin Cluster
  PROVE  /\ Path(t, x, <<x>>) /\ ToSet(<<x>>) = {x} /\ Len(<<x>>) = 1 /\ Last(<<x>>) = x
<1> DEFINE s == <<x>>
<1>1. s \in Seq(Cluster) /\ Len(s) = 1 /\ s[1] = x /\ s # <<>> /\ DOMAIN s = 1 .. 1
  OBVIOUS
<1> HIDE DEF s
<1>2. ToSet(s) = {x} /\ Last(s) = x
  BY <1>1 DEF ToSet, Last
<1>3. IsInjective(s)
  BY <1>1 DEF IsInjective
<1>4. Path(t, x, s)
  BY <1>1, <1>3 DEF Path
<1>5. QED
  BY <1>1, <1>2, <1>4 DEF s

LEMMA PathNone == ASSUME NEW t, NEW x, x \notin Cluster PROVE Path(t, x, <<>>)
<1> DEFINE s == <<>>
<1>1. s \in Seq(Cluster) /\ Len(s) = 0 /\ s = <<>> /\ DOMAIN s = {}
  BY EmptySeq
<1>2. IsInjective(s)
  BY DEF IsInjective
<1>3. \A i \in 1 .. Len(s) - 1 : FALSE
  BY <1>1
<1> HIDE DEF s
<1>4. Path(t, x, s)
  BY <1>1, <1>2, <1>3 DEF Path
<1>5. QED
  BY <1>4 DEF s

-----------------------------------------------------------------------------
\* Chains that share no cluster

\* From each of the clusters K, table t leads along a path of its own, and past
\* the root directory.
Apart(t, K) ==
  /\ K \subseteq Cluster
  /\ \A c \in K : /\ Path(t, c, ChainIn(t, c))
                  /\ root_cluster \notin ToSet(ChainIn(t, c))
  /\ \A c, d \in K : c # d => ToSet(ChainIn(t, c)) \cap ToSet(ChainIn(t, d)) = {}

On(t, K, x) == \E c \in K : x \in ToSet(ChainIn(t, c))

LEMMA ChainNone ==
  ASSUME NEW t, NEW x, x \notin Cluster
  PROVE  ChainIn(t, x) = <<>> /\ Len(ChainIn(t, x)) = 0 /\ ToSet(ChainIn(t, x)) = {}
<1>1. Path(t, x, <<>>)
  BY PathNone
<1>2. ChainIn(t, x) = <<>>
  BY <1>1, PathChain
<1>3. Path(t, x, ChainIn(t, x))
  BY <1>1, <1>2
<1>4. QED
  BY <1>2, <1>3, PathFacts

LEMMA ChainFacts ==
  ASSUME NEW t, NEW K, Apart(t, K), NEW c \in K
  PROVE  /\ c \in Cluster /\ Len(ChainIn(t, c)) \in Nat \ {0}
         /\ ToSet(ChainIn(t, c)) \subseteq Cluster
         /\ c \in ToSet(ChainIn(t, c)) /\ Last(ChainIn(t, c)) \in ToSet(ChainIn(t, c))
         /\ t[Last(ChainIn(t, c))] \notin Cluster
         /\ \A x \in ToSet(ChainIn(t, c)) : x # Last(ChainIn(t, c)) => t[x] \in Cluster
<1>1. Path(t, c, ChainIn(t, c)) /\ c \in Cluster
  BY DEF Apart
<1>2. QED
  BY <1>1, PathFacts, PathInner

LEMMA ApartLess ==
  ASSUME NEW t, NEW K, Apart(t, K), NEW J, J \subseteq K
  PROVE  Apart(t, J)
BY DEF Apart

\* A cluster whose entry is free lies on no chain that ends as such.
LEMMA FreeOff ==
  ASSUME NEW t, NEW K, Apart(t, K), NEW x, t[x] = 0,
         \A c \in K : t[Last(ChainIn(t, c))] # 0
  PROVE  ~On(t, K, x)
<1> SUFFICES ASSUME NEW c \in K, x \in ToSet(ChainIn(t, c)) PROVE FALSE
  BY DEF On
<1>1. x # Last(ChainIn(t, c))
  OBVIOUS
<1>2. t[x] \in Cluster
  BY <1>1, ChainFacts
<1>3. QED
  BY <1>2, Numbers

\* A write off the chains, or of one end for another, leaves them all.
LEMMA ApartKeep ==
  ASSUME NEW t, NEW u, NEW K, Apart(t, K), NEW x,
         \A y \in Cluster : y # x => u[y] = t[y],
         ~On(t, K, x) \/ (t[x] \notin Cluster /\ u[x] \notin Cluster)
  PROVE  Apart(u, K) /\ \A c \in K : ChainIn(u, c) = ChainIn(t, c)
<1>1. ASSUME NEW c \in K
      PROVE  Path(u, c, ChainIn(t, c)) /\ ChainIn(u, c) = ChainIn(t, c)
  <2> DEFINE s == ChainIn(t, c)
  <2>1. Path(t, c, s) /\ c \in Cluster
    BY DEF Apart
  <2>2. /\ ToSet(s) \subseteq Cluster /\ Last(s) \in ToSet(s) /\ t[Last(s)] \notin Cluster
        /\ \A y \in ToSet(s) : y # Last(s) => t[y] \in Cluster
    BY ChainFacts
  <2>3. x \in ToSet(s) => t[x] \notin Cluster /\ u[x] \notin Cluster
    BY DEF On
  <2>4. \A y \in ToSet(s) : y # Last(s) => u[y] = t[y]
    BY <2>2, <2>3
  <2>5. u[Last(s)] \notin Cluster
    BY <2>2, <2>3
  <2> HIDE DEF s
  <2>6. Path(u, c, s)
    BY <2>1, <2>4, <2>5, PathSame
  <2>7. QED
    BY <2>6, PathChain DEF s
<1>2. QED
  BY <1>1 DEF Apart

\* One chain is lengthened by a cluster on none.
LEMMA ApartGrow ==
  ASSUME NEW t, NEW u, NEW K, Apart(t, K), NEW a \in K,
         NEW y \in Cluster, ~On(t, K, y), y # root_cluster, u[y] \notin Cluster,
         NEW l, l = Last(ChainIn(t, a)), u[l] = y,
         \A z \in Cluster : z # l /\ z # y => u[z] = t[z]
  PROVE  /\ Apart(u, K)
         /\ \A c \in K : c # a => ChainIn(u, c) = ChainIn(t, c)
         /\ ToSet(ChainIn(u, a)) = ToSet(ChainIn(t, a)) \cup {y}
         /\ Len(ChainIn(u, a)) = Len(ChainIn(t, a)) + 1
         /\ Last(ChainIn(u, a)) = y
<1> DEFINE s == ChainIn(t, a)
           r == Append(s, y)
<1>1. /\ a \in Cluster /\ Path(t, a, s) /\ Last(s) \in ToSet(s) /\ ToSet(s) \subseteq Cluster
      /\ root_cluster \notin ToSet(s) /\ y \notin ToSet(s)
  BY ChainFacts DEF Apart, On
<1>2. \A z \in ToSet(s) : z # Last(s) => u[z] = t[z]
  BY <1>1
<1>3. u[Last(s)] = y
  OBVIOUS
<1> HIDE DEF s
<1>4. /\ Path(u, a, r) /\ ToSet(r) = ToSet(s) \cup {y}
      /\ Len(r) = Len(s) + 1 /\ Last(r) = y
  BY <1>1, <1>2, <1>3, PathGrows
<1> HIDE DEF r
<1>5. ChainIn(u, a) = r
  BY <1>4, PathChain
<1>6. ASSUME NEW c \in K, c # a
      PROVE  Path(u, c, ChainIn(t, c)) /\ ChainIn(u, c) = ChainIn(t, c)
  <2> DEFINE w == ChainIn(t, c)
  <2>1. /\ Path(t, c, w) /\ c \in Cluster /\ ToSet(w) \subseteq Cluster
        /\ Last(w) \in ToSet(w) /\ t[Last(w)] \notin Cluster
    BY ChainFacts DEF Apart
  <2>2. ToSet(w) \cap ToSet(s) = {} /\ y \notin ToSet(w)
    BY <1>6 DEF Apart, On, s
  <2>3. \A z \in ToSet(w) : u[z] = t[z]
    BY <1>1, <2>1, <2>2 DEF s
  <2> HIDE DEF w
  <2>4. Path(u, c, w)
    BY <2>1, <2>3, PathSame
  <2>5. QED
    BY <2>4, PathChain DEF w
<1>7. \A c \in K : Path(u, c, ChainIn(u, c)) /\ root_cluster \notin ToSet(ChainIn(u, c))
  BY <1>1, <1>4, <1>5, <1>6 DEF Apart
<1>8. ASSUME NEW c \in K, NEW d \in K, c # d
      PROVE  ToSet(ChainIn(u, c)) \cap ToSet(ChainIn(u, d)) = {}
  <2>1. ToSet(ChainIn(t, c)) \cap ToSet(ChainIn(t, d)) = {}
    BY <1>8 DEF Apart
  <2>2. y \notin ToSet(ChainIn(t, c)) /\ y \notin ToSet(ChainIn(t, d))
    BY DEF On
  <2>3. CASE c = a
    BY <1>4, <1>5, <1>6, <1>8, <2>1, <2>2, <2>3 DEF s
  <2>4. CASE d = a
    BY <1>4, <1>5, <1>6, <1>8, <2>1, <2>2, <2>4 DEF s
  <2>5. CASE c # a /\ d # a
    BY <1>6, <2>1, <2>5
  <2>6. QED
    BY <2>3, <2>4, <2>5
<1>9. Apart(u, K)
  BY <1>7, <1>8 DEF Apart
<1>10. QED
  BY <1>4, <1>5, <1>6, <1>9 DEF s

\* A chain of one cluster joins them.
LEMMA ApartNew ==
  ASSUME NEW t, NEW K, Apart(t, K),
         NEW y \in Cluster, ~On(t, K, y), y # root_cluster, t[y] \notin Cluster
  PROVE  /\ Apart(t, K \cup {y}) /\ ToSet(ChainIn(t, y)) = {y}
         /\ Len(ChainIn(t, y)) = 1 /\ Last(ChainIn(t, y)) = y
<1>1. /\ Path(t, y, <<y>>) /\ ToSet(<<y>>) = {y} /\ Len(<<y>>) = 1 /\ Last(<<y>>) = y
  BY PathOne
<1>2. ChainIn(t, y) = <<y>>
  BY <1>1, PathChain
<1>3. /\ Path(t, y, ChainIn(t, y)) /\ ToSet(ChainIn(t, y)) = {y}
      /\ Len(ChainIn(t, y)) = 1 /\ Last(ChainIn(t, y)) = y
  BY <1>1, <1>2
<1>4. \A c \in K : y \notin ToSet(ChainIn(t, c))
  BY DEF On
<1>5. Apart(t, K \cup {y})
  BY <1>3, <1>4 DEF Apart
<1>6. QED
  BY <1>3, <1>5

\* A chain loses its first cluster.
LEMMA ApartPop ==
  ASSUME NEW t \in Tables, NEW u, NEW K, Apart(t, K), NEW a \in K, NEW J,
         \A y \in Cluster : y # a => u[y] = t[y],
         J \subseteq Cluster, J \subseteq (K \ {a}) \cup {t[a]}
  PROVE  /\ Apart(u, J)
         /\ \A c \in K \ {a} : ChainIn(u, c) = ChainIn(t, c)
         /\ ToSet(ChainIn(u, t[a])) = ToSet(ChainIn(t, a)) \ {a}
<1> DEFINE s == ChainIn(t, a)
           b == t[a]
<1>1. a \in Cluster /\ Path(t, a, s) /\ root_cluster \notin ToSet(s)
  BY ChainFacts DEF Apart
<1> HIDE DEF s
<1>2. Path(u, b, Tail(s)) /\ ToSet(Tail(s)) = ToSet(s) \ {a}
  BY <1>1, PathTail
<1>3. ChainIn(u, b) = Tail(s)
  BY <1>2, PathChain
<1>4. Path(u, b, ChainIn(u, b)) /\ ToSet(ChainIn(u, b)) = ToSet(s) \ {a}
  BY <1>2, <1>3
<1>5. Apart(t, K \ {a})
  BY ApartLess
<1>6. ~On(t, K \ {a}, a)
  BY ChainFacts DEF Apart, On
<1>7. Apart(u, K \ {a}) /\ \A c \in K \ {a} : ChainIn(u, c) = ChainIn(t, c)
  BY <1>5, <1>6, ApartKeep
<1>8. \A c \in K \ {a} : ToSet(ChainIn(u, c)) \cap ToSet(ChainIn(u, b)) = {}
  <2> SUFFICES ASSUME NEW c \in K \ {a}
               PROVE  ToSet(ChainIn(u, c)) \cap ToSet(ChainIn(u, b)) = {}
    OBVIOUS
  <2>1. ToSet(ChainIn(t, c)) \cap ToSet(s) = {}
    BY DEF Apart, s
  <2>2. QED
    BY <1>4, <1>7, <2>1
<1> HIDE DEF b
<1>9. \A c \in J : Path(u, c, ChainIn(u, c)) /\ root_cluster \notin ToSet(ChainIn(u, c))
  <2> SUFFICES ASSUME NEW c \in J
               PROVE  Path(u, c, ChainIn(u, c)) /\ root_cluster \notin ToSet(ChainIn(u, c))
    OBVIOUS
  <2>1. CASE c = b
    BY <1>1, <1>4, <2>1
  <2>2. CASE c \in K \ {a}
    BY <1>7, <2>2 DEF Apart
  <2>3. QED
    BY <2>1, <2>2 DEF b
<1>10. \A c, d \in J : c # d => ToSet(ChainIn(u, c)) \cap ToSet(ChainIn(u, d)) = {}
  <2> SUFFICES ASSUME NEW c \in J, NEW d \in J, c # d
               PROVE  ToSet(ChainIn(u, c)) \cap ToSet(ChainIn(u, d)) = {}
    OBVIOUS
  <2>1. c \in (K \ {a}) \cup {b} /\ d \in (K \ {a}) \cup {b}
    BY DEF b
  <2>2. CASE c = b
    BY <1>8, <2>1, <2>2
  <2>3. CASE d = b
    BY <1>8, <2>1, <2>3
  <2>4. CASE c # b /\ d # b
    BY <1>7, <2>1, <2>4 DEF Apart
  <2>5. QED
    BY <2>2, <2>3, <2>4
<1>11. Apart(u, J)
  BY <1>9, <1>10 DEF Apart
<1>12. QED
  BY <1>4, <1>7, <1>11 DEF s, b

-----------------------------------------------------------------------------
\* Volumes: a table and a disk

Disks == [Cluster -> [Row -> Cell]]

At(dk, p) == dk[p[1]][p[2]]

\* Entries and Directories, of a disk.
Listed(dk) == {p \in Place : Live(At(dk, p)) /\ At(dk, p).name \notin Dots}
Dirs(dk) == {root_cluster} \cup {At(dk, p).first : p \in {q \in Listed(dk) : At(dk, q).is = "dir"}}

\* Where the chains in use begin: those of entries, and the one in hand from h on.
Starts(dk, h) == Cluster \cap ({h} \cup {At(dk, p).first : p \in Listed(dk)})

OwnFirst(dk, h) ==
  \A p \in Listed(dk) : At(dk, p).first \in Cluster =>
    /\ At(dk, p).first # h
    /\ \A q \in Listed(dk) : q # p => At(dk, q).first # At(dk, p).first

\* A cluster without entries.
Clean(dk, c) == \A i \in Row : dk[c][i] \in DataCell

\* A directory of cluster c whose entry lies in d.
Dotted(dk, c, d) ==
  /\ dk[c][0] = Entry("dir", ".", c, 0)
  /\ dk[c][1] = Entry("dir", "..", ParentOf(d, c), 0)

Tied(dk, p) ==
  /\ p[1] \in Dirs(dk)
  /\ At(dk, p).is = "dir" => /\ At(dk, p).first \in Cluster /\ At(dk, p).size = 0
                             /\ Dotted(dk, At(dk, p).first, p[1])

Backed(t, dk, p) ==
  /\ At(dk, p).size <= Len(ChainIn(t, At(dk, p).first)) * Cells
  /\ At(dk, p).is = "file" => \A c \in ToSet(ChainIn(t, At(dk, p).first)) : Clean(dk, c)

Ended(t, dk, p) ==
  At(dk, p).first \in Cluster => t[Last(ChainIn(t, At(dk, p).first))] = EOC

\* "." and ".." of a directory lie in its first two places.
DotsPlaced(dk) ==
  \A p \in Place :
    /\ Live(At(dk, p)) /\ At(dk, p).name \in Dots
    /\ p[1] \in Dirs(dk)
    => p[1] # root_cluster /\ p[2] \in {0, 1}

\* A sound volume, on which the entry at x may lack the end of its chain and
\* the chain from h on is in the hands of a call.
Volume(t, dk, h, x) ==
  /\ t \in Tables /\ dk \in Disks /\ t[root_cluster] # 0
  /\ Apart(t, Starts(dk, h))
  /\ OwnFirst(dk, h)
  /\ \A p \in Listed(dk) : Tied(dk, p) /\ Backed(t, dk, p) /\ (p # x => Ended(t, dk, p))
  /\ \A c \in Cluster : t[c] = 0 => Clean(dk, c)
  /\ DotsPlaced(dk)

LEMMA Places ==
  /\ \A p \in Place : p[1] \in Cluster /\ p[2] \in Row /\ p = <<p[1], p[2]>>
  /\ \A c \in Cluster, i \in Row : <<c, i>> \in Place
  /\ 0 \in Row /\ 1 \in Row
  BY Numbers DEF Place, Row

LEMMA DotNames == "." \in Dots /\ ".." \in Dots /\ "." # ".." /\ Dots \cap Names = {}
  BY FileSystemAssumption DEF Dots

LEMMA Cells9 ==
  ASSUME NEW dk \in Disks, NEW p \in Place
  PROVE  /\ At(dk, p) \in Cell /\ At(dk, p).first \in 0 .. LastCluster
         /\ At(dk, p).size \in Nat
         /\ At(dk, p).is \in {"zero", "deleted", "data", "file", "dir"}
<1>1. p[1] \in Cluster /\ p[2] \in Row
  BY Places
<1>2. At(dk, p) \in Cell
  BY <1>1 DEF At, Disks
<1>3. QED
  BY <1>2 DEF Cell

LEMMA CleanCells ==
  ASSUME NEW dk, NEW c, Clean(dk, c), NEW i \in Row
  PROVE  ~Live(dk[c][i]) /\ dk[c][i].first = 0 /\ dk[c][i].is # "deleted"
  BY DEF Clean, DataCell, Live

\* The clusters of directories lie on no chain but their own.
LEMMA DirOff ==
  ASSUME NEW t, NEW dk, NEW h, NEW x, Volume(t, dk, h, x), NEW d \in Dirs(dk)
  PROVE  /\ d \in Cluster
         /\ d # h /\ d \notin ToSet(ChainIn(t, h))
         /\ \A p \in Listed(dk) : At(dk, p).is # "dir" =>
              d \notin ToSet(ChainIn(t, At(dk, p).first))
<1> DEFINE K == Starts(dk, h)
<1>1. Apart(t, K) /\ OwnFirst(dk, h) /\ \A p \in Listed(dk) : Tied(dk, p)
  BY DEF Volume
<1>2. \A k \in K : root_cluster \notin ToSet(ChainIn(t, k))
  BY <1>1 DEF Apart
<1>3. h \in Cluster => h \in K
  BY DEF Starts
<1>4. \A p \in Listed(dk) : At(dk, p).first \in Cluster => At(dk, p).first \in K
  BY DEF Starts
<1> HIDE DEF K
<1>5. \A k : k \notin Cluster => ToSet(ChainIn(t, k)) = {}
  BY ChainNone
<1>6. CASE d = root_cluster
  <2>1. d \in Cluster
    BY <1>6, Numbers
  <2>2. h \in Cluster => h \in ToSet(ChainIn(t, h))
    BY <1>1, <1>3, ChainFacts
  <2>3. QED
    BY <1>2, <1>3, <1>4, <1>5, <1>6, <2>1, <2>2
<1>7. CASE d # root_cluster
  <2>1. PICK p \in Listed(dk) : At(dk, p).is = "dir" /\ d = At(dk, p).first
    BY <1>7 DEF Dirs
  <2>2. d \in Cluster /\ d \in K /\ d # h
    BY <1>1, <1>4, <2>1 DEF Tied, OwnFirst
  <2>3. d \in ToSet(ChainIn(t, d))
    BY <1>1, <2>2, ChainFacts
  <2>4. \A k \in K : d # k => d \notin ToSet(ChainIn(t, k))
    BY <1>1, <2>2, <2>3 DEF Apart
  <2>5. \A q \in Listed(dk) : At(dk, q).is # "dir" => At(dk, q).first # d
    BY <1>1, <2>1, <2>2 DEF OwnFirst
  <2>6. QED
    BY <1>3, <1>4, <1>5, <2>2, <2>4, <2>5
<1>8. QED
  BY <1>6, <1>7

\* Nor are they free.
LEMMA DirUsed ==
  ASSUME NEW t, NEW dk, NEW h, NEW x, Volume(t, dk, h, x), x \notin Listed(dk),
         NEW d \in Dirs(dk)
  PROVE  t[d] # 0
<1>1. CASE d = root_cluster
  BY <1>1 DEF Volume
<1>2. CASE d # root_cluster
  <2>1. PICK p \in Listed(dk) : At(dk, p).is = "dir" /\ d = At(dk, p).first
    BY <1>2 DEF Dirs
  <2>2. d \in Cluster /\ d \in Starts(dk, h) /\ Ended(t, dk, p) /\ Apart(t, Starts(dk, h))
    BY <2>1 DEF Volume, Tied, Starts
  <2>3. d \in ToSet(ChainIn(t, d)) /\ t[Last(ChainIn(t, d))] = EOC
    BY <2>1, <2>2, ChainFacts DEF Ended
  <2>4. d = Last(ChainIn(t, d)) \/ t[d] \in Cluster
    BY <2>2, <2>3, ChainFacts
  <2>5. QED
    BY <2>3, <2>4, Numbers
<1>3. QED
  BY <1>1, <1>2

-----------------------------------------------------------------------------
\* What writes do to a volume

\* A write to the table.
LEMMA VolumeTable ==
  ASSUME NEW t, NEW dk, NEW h, NEW x, Volume(t, dk, h, x),
         NEW u \in Tables, NEW g, NEW y,
         u[root_cluster] # 0,
         Apart(u, Starts(dk, g)),
         \A p \in Listed(dk) : At(dk, p).first \in Cluster => At(dk, p).first # g,
         \A p \in Listed(dk) : p # y => Ended(u, dk, p),
         \A p \in Listed(dk) : At(dk, p).first \in Cluster =>
           LET c == At(dk, p).first
           IN /\ Len(ChainIn(u, c)) \in Nat /\ Len(ChainIn(u, c)) >= Len(ChainIn(t, c))
              /\ \A b \in ToSet(ChainIn(u, c)) : b \in ToSet(ChainIn(t, c)) \/ Clean(dk, b),
         \A b \in Cluster : u[b] = 0 => t[b] = 0 \/ Clean(dk, b)
  PROVE  Volume(u, dk, g, y)
<1>1. OwnFirst(dk, g)
  BY DEF Volume, OwnFirst
<1>2. ASSUME NEW p \in Listed(dk) PROVE Backed(u, dk, p)
  <2> DEFINE c == At(dk, p).first
             z == At(dk, p).size
  <2>1. Backed(t, dk, p) /\ dk \in Disks /\ p \in Place
    BY DEF Volume, Listed
  <2>2. z <= Len(ChainIn(t, c)) * Cells /\ z \in Nat
    BY <2>1, Cells9 DEF Backed
  <2>3. CASE c \in Cluster
    <3>1. Apart(t, Starts(dk, h)) /\ c \in Starts(dk, h)
      BY <2>3 DEF Volume, Starts
    <3>2. Len(ChainIn(t, c)) \in Nat
      BY <3>1, ChainFacts
    <3>3. /\ Len(ChainIn(u, c)) \in Nat /\ Len(ChainIn(u, c)) >= Len(ChainIn(t, c))
          /\ \A b \in ToSet(ChainIn(u, c)) : b \in ToSet(ChainIn(t, c)) \/ Clean(dk, b)
      BY <2>3
    <3> DEFINE m == Len(ChainIn(t, c))
               n == Len(ChainIn(u, c))
    <3> HIDE DEF c, z, m, n
    <3>4. m * Cells <= n * Cells
      BY <3>2, <3>3, Numbers DEF m, n
    <3>5. m * Cells \in Nat /\ n * Cells \in Nat
      BY <3>2, <3>3, Numbers DEF m, n
    <3>6. z <= n * Cells
      BY <2>2, <3>4, <3>5 DEF m
    <3>7. QED
      BY <2>1, <3>3, <3>6 DEF Backed, c, z, n
  <2>4. CASE c \notin Cluster
    <3>1. ChainIn(t, c) = <<>> /\ ChainIn(u, c) = <<>>
      BY <2>4, ChainNone
    <3>2. QED
      BY <2>1, <3>1 DEF Backed
  <2>5. QED
    BY <2>3, <2>4
<1>3. QED
  BY <1>1, <1>2 DEF Volume

\* A row that lies in no directory is written.
LEMMA VolumeRow ==
  ASSUME NEW t, NEW dk, NEW h, NEW x, Volume(t, dk, h, x),
         NEW c \in Cluster, c \notin Dirs(dk), NEW ek \in Disks,
         \A b \in Cluster : b # c => ek[b] = dk[b],
         \A i \in Row : Live(ek[c][i]) => ek[c][i].name \in Dots,
         \/ Clean(ek, c)
         \/ t[c] # 0 /\ \A p \in Listed(dk) : c \notin ToSet(ChainIn(t, At(dk, p).first))
  PROVE  /\ Volume(t, ek, h, x)
         /\ Listed(ek) = Listed(dk) /\ Dirs(ek) = Dirs(dk)
         /\ \A g : Starts(ek, g) = Starts(dk, g)
         /\ \A p \in Listed(dk) : At(ek, p) = At(dk, p)
<1>1. \A p \in Place : p[1] # c => At(ek, p) = At(dk, p)
  BY Places DEF At
<1>2. \A p \in Listed(dk) : p \in Place /\ p[1] # c
  BY DEF Volume, Tied, Listed
<1>3. ASSUME NEW p \in Listed(ek) PROVE p \in Listed(dk)
  <2>1. p \in Place /\ Live(At(ek, p)) /\ At(ek, p).name \notin Dots
    BY DEF Listed
  <2>2. p[1] # c
    BY <2>1, Places DEF At
  <2>3. QED
    BY <1>1, <2>1, <2>2 DEF Listed
<1>4. \A p \in Listed(dk) : At(ek, p) = At(dk, p)
  BY <1>1, <1>2
<1>5. Listed(ek) = Listed(dk)
  <2>1. \A p \in Listed(dk) : p \in Listed(ek)
    BY <1>2, <1>4 DEF Listed
  <2>2. QED
    BY <1>3, <2>1
<1>6. Dirs(ek) = Dirs(dk)
  BY <1>4, <1>5 DEF Dirs
<1>7. \A g : Starts(ek, g) = Starts(dk, g)
  BY <1>4, <1>5 DEF Starts
<1>8. \A b \in Cluster : Clean(dk, b) /\ b # c => Clean(ek, b)
  BY DEF Clean
<1>9. Apart(t, Starts(ek, h)) /\ OwnFirst(ek, h)
  BY <1>4, <1>5, <1>7 DEF Volume, OwnFirst
<1>10. ASSUME NEW p \in Listed(ek) PROVE Tied(ek, p)
  <2>1. p \in Listed(dk) /\ Tied(dk, p) /\ At(ek, p) = At(dk, p)
    BY <1>4, <1>5 DEF Volume
  <2>2. CASE At(ek, p).is = "dir"
    <3>1. At(dk, p).first \in Dirs(dk) /\ At(dk, p).first \in Cluster
      BY <2>1, <2>2 DEF Dirs, Tied
    <3>2. ek[At(dk, p).first] = dk[At(dk, p).first]
      BY <3>1
    <3>3. QED
      BY <1>6, <2>1, <2>2, <3>2 DEF Tied, Dotted
  <2>3. CASE At(ek, p).is # "dir"
    BY <1>6, <2>1, <2>3 DEF Tied
  <2>4. QED
    BY <2>2, <2>3
<1>11. ASSUME NEW p \in Listed(ek) PROVE Backed(t, ek, p) /\ (p # x => Ended(t, ek, p))
  <2>1. /\ p \in Listed(dk) /\ Backed(t, dk, p) /\ At(ek, p) = At(dk, p)
        /\ (p # x => Ended(t, dk, p)) /\ p \in Place
    BY <1>4, <1>5 DEF Volume, Listed
  <2>2. ASSUME At(dk, p).is = "file", NEW b \in ToSet(ChainIn(t, At(dk, p).first))
        PROVE  Clean(ek, b)
    <3>1. Clean(dk, b)
      BY <2>1, <2>2 DEF Backed
    <3>2. b \in Cluster
      <4>1. At(dk, p).first \in Cluster
        BY ChainNone
      <4>2. At(dk, p).first \in Starts(dk, h) /\ Apart(t, Starts(dk, h))
        BY <2>1, <4>1 DEF Starts, Volume
      <4>3. QED
        BY <4>2, ChainFacts
    <3>3. CASE b # c
      BY <1>8, <3>1, <3>2, <3>3
    <3>4. CASE b = c
      BY <2>1, <3>4
    <3>5. QED
      BY <3>3, <3>4
  <2>3. QED
    BY <2>1, <2>2 DEF Backed, Ended
<1>12. \A b \in Cluster : t[b] = 0 => Clean(ek, b)
  BY <1>8 DEF Volume
<1>13. DotsPlaced(ek)
  <2> SUFFICES ASSUME NEW p \in Place, Live(At(ek, p)), At(ek, p).name \in Dots,
                      p[1] \in Dirs(ek)
               PROVE  p[1] # root_cluster /\ p[2] \in {0, 1}
    BY DEF DotsPlaced
  <2>1. p[1] # c /\ p[1] \in Dirs(dk)
    BY <1>6
  <2>2. QED
    BY <1>1, <2>1 DEF Volume, DotsPlaced
<1>14. QED
  BY <1>4, <1>5, <1>6, <1>7, <1>9, <1>10, <1>11, <1>12, <1>13 DEF Volume

\* An entry is given another name or size.
LEMMA VolumeEdit ==
  ASSUME NEW t, NEW dk, NEW h, NEW x, Volume(t, dk, h, x),
         NEW p \in Listed(dk), NEW ek \in Disks,
         \A q \in Place : q # p => At(ek, q) = At(dk, q),
         At(ek, p).is = At(dk, p).is, At(ek, p).first = At(dk, p).first,
         At(ek, p).name \notin Dots,
         At(ek, p).is = "dir" => At(ek, p).size = 0,
         At(ek, p).size <= Len(ChainIn(t, At(dk, p).first)) * Cells
  PROVE  /\ Volume(t, ek, h, x)
         /\ Listed(ek) = Listed(dk) /\ Dirs(ek) = Dirs(dk)
         /\ \A g : Starts(ek, g) = Starts(dk, g)
         /\ \A q \in Listed(dk) : At(ek, q).first = At(dk, q).first /\ At(ek, q).is = At(dk, q).is
<1>1. p \in Place /\ Live(At(dk, p)) /\ At(dk, p).name \notin Dots /\ Live(At(ek, p))
  BY DEF Listed, Live
<1>2. Listed(ek) = Listed(dk)
  <2>1. \A q \in Place : q \in Listed(ek) <=> q \in Listed(dk)
    BY <1>1 DEF Listed
  <2>2. QED
    BY <2>1 DEF Listed
<1>3. \A q \in Place : At(ek, q).first = At(dk, q).first /\ At(ek, q).is = At(dk, q).is
  BY <1>1
<1>4. \A q \in Listed(dk) : q \in Place
  BY DEF Listed
<1>5. Dirs(ek) = Dirs(dk)
  BY <1>2, <1>3, <1>4 DEF Dirs
<1>6. \A g : Starts(ek, g) = Starts(dk, g)
  BY <1>2, <1>3, <1>4 DEF Starts
<1>7. ASSUME NEW b \in Cluster, Clean(dk, b) PROVE Clean(ek, b)
  <2> SUFFICES ASSUME NEW i \in Row PROVE ek[b][i] \in DataCell
    BY DEF Clean
  <2>1. ~Live(dk[b][i]) /\ dk[b][i] \in DataCell
    BY <1>7, CleanCells DEF Clean
  <2>2. <<b, i>> \in Place /\ <<b, i>> # p
    BY <1>1, <2>1, Places DEF At
  <2>3. At(ek, <<b, i>>) = At(dk, <<b, i>>)
    BY <2>2
  <2>4. QED
    BY <2>1, <2>3 DEF At
<1>8. ASSUME NEW c \in Cluster, NEW i \in Row, dk[c][i].name \in Dots
      PROVE  ek[c][i] = dk[c][i]
  <2>1. <<c, i>> \in Place /\ <<c, i>> # p
    BY <1>1, <1>8, Places DEF At
  <2>2. At(ek, <<c, i>>) = At(dk, <<c, i>>)
    BY <2>1
  <2>3. QED
    BY <2>2 DEF At
<1>9. Apart(t, Starts(ek, h)) /\ OwnFirst(ek, h)
  <2>1. Apart(t, Starts(dk, h)) /\ OwnFirst(dk, h)
    BY DEF Volume
  <2>2. QED
    BY <1>2, <1>3, <1>4, <1>6, <2>1 DEF OwnFirst
<1>10. ASSUME NEW q \in Listed(ek) PROVE Tied(ek, q)
  <2>1. q \in Listed(dk) /\ q \in Place /\ Tied(dk, q)
    BY <1>2, <1>4 DEF Volume
  <2> DEFINE c == At(dk, q).first
  <2>2. ASSUME At(ek, q).is = "dir"
        PROVE  At(ek, q).first \in Cluster /\ At(ek, q).size = 0 /\ Dotted(ek, c, q[1])
    <3>1. c \in Cluster /\ At(dk, q).size = 0 /\ Dotted(dk, c, q[1])
      BY <1>3, <2>1, <2>2 DEF Tied
    <3>2. ek[c][0] = dk[c][0] /\ ek[c][1] = dk[c][1]
      BY <1>8, <3>1, Places, DotNames DEF Dotted, Entry
    <3>3. At(ek, q).size = 0
      BY <2>1, <2>2, <3>1
    <3>4. QED
      BY <1>3, <2>1, <3>1, <3>2, <3>3 DEF Dotted
  <2>3. QED
    BY <1>3, <1>5, <2>1, <2>2 DEF Tied
<1>11. ASSUME NEW q \in Listed(ek) PROVE Backed(t, ek, q) /\ (q # x => Ended(t, ek, q))
  <2>1. /\ q \in Listed(dk) /\ q \in Place /\ Backed(t, dk, q)
        /\ (q # x => Ended(t, dk, q))
    BY <1>2, <1>4 DEF Volume
  <2> DEFINE c == At(dk, q).first
  <2>2. At(ek, q).size <= Len(ChainIn(t, c)) * Cells
    BY <2>1 DEF Backed
  <2>3. ASSUME At(dk, q).is = "file", NEW b \in ToSet(ChainIn(t, c)) PROVE Clean(ek, b)
    <3>1. Clean(dk, b)
      BY <2>1, <2>3 DEF Backed
    <3>2. c \in Cluster
      BY ChainNone
    <3>3. c \in Starts(dk, h) /\ Apart(t, Starts(dk, h))
      BY <2>1, <3>2 DEF Starts, Volume
    <3>4. b \in Cluster
      BY <3>3, ChainFacts
    <3>5. QED
      BY <1>7, <3>1, <3>4
  <2>4. QED
    BY <1>3, <2>1, <2>2, <2>3 DEF Backed, Ended
<1>12. DotsPlaced(ek)
  <2> SUFFICES ASSUME NEW q \in Place, Live(At(ek, q)), At(ek, q).name \in Dots,
                      q[1] \in Dirs(ek)
               PROVE  q[1] # root_cluster /\ q[2] \in {0, 1}
    BY DEF DotsPlaced
  <2>1. q # p
    OBVIOUS
  <2>2. QED
    BY <1>5, <2>1 DEF Volume, DotsPlaced
<1>13. QED
  BY <1>2, <1>3, <1>4, <1>5, <1>6, <1>7, <1>9, <1>10, <1>11, <1>12 DEF Volume

\* The entry of a file is struck out, and its chain is in hand.
LEMMA VolumeRemove ==
  ASSUME NEW t, NEW dk, NEW h, NEW x, Volume(t, dk, h, x), h \notin Cluster,
         NEW p \in Listed(dk), At(dk, p).is = "file", NEW ek \in Disks,
         \A q \in Place : q # p => At(ek, q) = At(dk, q),
         At(ek, p) = Deleted
  PROVE  /\ Volume(t, ek, At(dk, p).first, x)
         /\ Listed(ek) = Listed(dk) \ {p} /\ Dirs(ek) = Dirs(dk)
         /\ Starts(ek, At(dk, p).first) = Starts(dk, h)
         /\ \A b \in Cluster : Clean(dk, b) => Clean(ek, b)
<1> DEFINE f == At(dk, p).first
<1>1. p \in Place /\ Live(At(dk, p)) /\ At(dk, p).name \notin Dots /\ ~Live(At(ek, p))
  BY DEF Listed, Live, Deleted, Zero
<1>2. Listed(ek) = Listed(dk) \ {p}
  <2>1. \A q \in Place : q \in Listed(ek) <=> q \in Listed(dk) \ {p}
    BY <1>1 DEF Listed
  <2>2. QED
    BY <2>1 DEF Listed
<1>3. \A q \in Listed(ek) : q \in Listed(dk) /\ q \in Place /\ q # p /\ At(ek, q) = At(dk, q)
  BY <1>2 DEF Listed
<1>4. Dirs(ek) = Dirs(dk)
  <2>1. \A q \in Listed(dk) : At(dk, q).is = "dir" =>
          q \in Listed(ek) /\ At(ek, q) = At(dk, q)
    BY <1>2, <1>3
  <2>2. QED
    BY <1>3, <2>1 DEF Dirs
<1>5. Starts(ek, f) = Starts(dk, h)
  <2>1. \A q \in Listed(dk) : q = p \/ (q \in Listed(ek) /\ At(ek, q) = At(dk, q))
    BY <1>2, <1>3
  <2>2. QED
    BY <1>3, <2>1 DEF Starts
<1>6. ASSUME NEW b \in Cluster, Clean(dk, b) PROVE Clean(ek, b)
  <2> SUFFICES ASSUME NEW i \in Row PROVE ek[b][i] \in DataCell
    BY DEF Clean
  <2>1. ~Live(dk[b][i]) /\ dk[b][i] \in DataCell
    BY <1>6, CleanCells DEF Clean
  <2>2. <<b, i>> \in Place /\ <<b, i>> # p
    BY <1>1, <2>1, Places DEF At
  <2>3. At(ek, <<b, i>>) = At(dk, <<b, i>>)
    BY <2>2
  <2>4. QED
    BY <2>1, <2>3 DEF At
<1>7. ASSUME NEW c \in Cluster, NEW i \in Row, dk[c][i].name \in Dots
      PROVE  ek[c][i] = dk[c][i]
  <2>1. <<c, i>> \in Place /\ <<c, i>> # p
    BY <1>1, <1>7, Places DEF At
  <2>2. At(ek, <<c, i>>) = At(dk, <<c, i>>)
    BY <2>1
  <2>3. QED
    BY <2>2 DEF At
<1>8. Apart(t, Starts(ek, f)) /\ OwnFirst(ek, f)
  <2>1. Apart(t, Starts(dk, h)) /\ OwnFirst(dk, h)
    BY DEF Volume
  <2>2. QED
    BY <1>3, <1>5, <2>1 DEF OwnFirst
<1>9. ASSUME NEW q \in Listed(ek) PROVE Tied(ek, q)
  <2>1. q \in Listed(dk) /\ q \in Place /\ Tied(dk, q) /\ At(ek, q) = At(dk, q)
    BY <1>3 DEF Volume
  <2> DEFINE c == At(dk, q).first
  <2>2. ASSUME At(ek, q).is = "dir" PROVE Dotted(ek, c, q[1])
    <3>1. c \in Cluster /\ Dotted(dk, c, q[1])
      BY <2>1, <2>2 DEF Tied
    <3>2. ek[c][0] = dk[c][0] /\ ek[c][1] = dk[c][1]
      BY <1>7, <3>1, Places, DotNames DEF Dotted, Entry
    <3>3. QED
      BY <3>1, <3>2 DEF Dotted
  <2>3. QED
    BY <1>4, <2>1, <2>2 DEF Tied
<1>10. ASSUME NEW q \in Listed(ek) PROVE Backed(t, ek, q) /\ (q # x => Ended(t, ek, q))
  <2>1. /\ q \in Listed(dk) /\ q \in Place /\ Backed(t, dk, q) /\ At(ek, q) = At(dk, q)
        /\ (q # x => Ended(t, dk, q))
    BY <1>3 DEF Volume
  <2> DEFINE c == At(dk, q).first
  <2>2. ASSUME At(dk, q).is = "file", NEW b \in ToSet(ChainIn(t, c)) PROVE Clean(ek, b)
    <3>1. Clean(dk, b)
      BY <2>1, <2>2 DEF Backed
    <3>2. c \in Cluster
      BY ChainNone
    <3>3. c \in Starts(dk, h) /\ Apart(t, Starts(dk, h))
      BY <2>1, <3>2 DEF Starts, Volume
    <3>4. b \in Cluster
      BY <3>3, ChainFacts
    <3>5. QED
      BY <1>6, <3>1, <3>4
  <2>3. QED
    BY <2>1, <2>2 DEF Backed, Ended
<1>11. DotsPlaced(ek)
  <2> SUFFICES ASSUME NEW q \in Place, Live(At(ek, q)), At(ek, q).name \in Dots,
                      q[1] \in Dirs(ek)
               PROVE  q[1] # root_cluster /\ q[2] \in {0, 1}
    BY DEF DotsPlaced
  <2>1. q # p
    BY <1>1
  <2>2. QED
    BY <1>4, <2>1 DEF Volume, DotsPlaced
<1>12. QED
  BY <1>2, <1>4, <1>5, <1>6, <1>8, <1>9, <1>10, <1>11 DEF Volume

\* The chain in hand becomes that of a new entry, in a free place of a directory.
LEMMA VolumeAdd ==
  ASSUME NEW t, NEW dk, NEW h \in Cluster, NEW x, Volume(t, dk, h, x),
         x \notin Listed(dk),
         NEW p \in Place, p[1] \in Dirs(dk), ~Live(At(dk, p)), NEW ek \in Disks,
         \A q \in Place : q # p => At(ek, q) = At(dk, q),
         Live(At(ek, p)), At(ek, p).name \notin Dots, At(ek, p).first = h,
         t[Last(ChainIn(t, h))] = EOC,
         At(ek, p).size <= Len(ChainIn(t, h)) * Cells,
         At(ek, p).is = "file" => \A c \in ToSet(ChainIn(t, h)) : Clean(dk, c),
         At(ek, p).is = "dir" =>
           /\ At(ek, p).size = 0 /\ Dotted(dk, h, p[1])
           /\ \A i \in Row : Live(dk[h][i]) => i \in {0, 1},
         NEW g, g \notin Cluster
  PROVE  /\ Volume(t, ek, g, x)
         /\ Starts(ek, g) = Starts(dk, h)
         /\ Dirs(dk) \subseteq Dirs(ek)
<1>1. Listed(ek) = Listed(dk) \cup {p} /\ p \notin Listed(dk)
  <2>1. \A q \in Place : q \in Listed(ek) <=> q \in Listed(dk) \cup {p}
    BY DEF Listed
  <2>2. QED
    BY <2>1 DEF Listed
<1>2. \A q \in Listed(dk) : q \in Listed(ek) /\ q \in Place /\ q # p /\ At(ek, q) = At(dk, q)
  BY <1>1 DEF Listed
<1>3. /\ Dirs(dk) \subseteq Dirs(ek)
      /\ \A d \in Dirs(ek) : d \in Dirs(dk) \/ (d = h /\ At(ek, p).is = "dir")
  BY <1>1, <1>2 DEF Dirs
<1>4. Starts(ek, g) = Starts(dk, h)
  BY <1>1, <1>2 DEF Starts
<1>5. ASSUME NEW b \in Cluster, b \notin Dirs(dk) PROVE ek[b] = dk[b]
  <2>1. \A i \in Row : <<b, i>> \in Place /\ <<b, i>> # p
    BY <1>5, Places
  <2>2. \A i \in Row : ek[b][i] = dk[b][i]
    BY <2>1 DEF At
  <2>3. QED
    BY <2>2 DEF Volume, Disks
<1>6. ASSUME NEW c \in Cluster, NEW i \in Row, Live(dk[c][i])
      PROVE  ek[c][i] = dk[c][i]
  <2>1. <<c, i>> \in Place /\ <<c, i>> # p
    BY <1>6, Places DEF At
  <2>2. At(ek, <<c, i>>) = At(dk, <<c, i>>)
    BY <2>1
  <2>3. QED
    BY <2>2 DEF At
<1>7. ASSUME NEW c \in Cluster, NEW d, Dotted(dk, c, d) PROVE Dotted(ek, c, d)
  BY <1>6, <1>7, Places DEF Dotted, Entry, Live
<1>8. OwnFirst(ek, g)
  <2> SUFFICES ASSUME NEW q \in Listed(ek), At(ek, q).first \in Cluster
               PROVE  /\ At(ek, q).first # g
                      /\ \A r \in Listed(ek) : r # q => At(ek, r).first # At(ek, q).first
    BY DEF OwnFirst
  <2>1. OwnFirst(dk, h)
    BY DEF Volume
  <2>2. CASE q = p
    BY <1>1, <1>2, <2>1, <2>2 DEF OwnFirst
  <2>3. CASE q \in Listed(dk)
    BY <1>1, <1>2, <2>1, <2>3 DEF OwnFirst
  <2>4. QED
    BY <1>1, <2>2, <2>3
<1>9. ASSUME NEW q \in Listed(ek) PROVE Tied(ek, q)
  <2>1. CASE q \in Listed(dk)
    <3>1. Tied(dk, q) /\ At(ek, q) = At(dk, q)
      BY <1>2, <2>1 DEF Volume
    <3>2. QED
      BY <1>3, <1>7, <3>1 DEF Tied
  <2>2. CASE q = p
    BY <1>3, <1>7, <2>2 DEF Tied
  <2>3. QED
    BY <1>1, <2>1, <2>2
<1>10. ASSUME NEW q \in Listed(ek) PROVE Backed(t, ek, q) /\ (q # x => Ended(t, ek, q))
  <2>1. CASE q \in Listed(dk)
    <3>1. /\ Backed(t, dk, q) /\ At(ek, q) = At(dk, q) /\ (q # x => Ended(t, dk, q))
      BY <1>2, <2>1 DEF Volume
    <3> DEFINE c == At(dk, q).first
    <3>2. ASSUME At(dk, q).is = "file", NEW b \in ToSet(ChainIn(t, c)) PROVE Clean(ek, b)
      <4>1. Clean(dk, b) /\ b \notin Dirs(dk)
        BY <2>1, <3>1, <3>2, DirOff DEF Backed
      <4>2. c \in Cluster
        BY ChainNone
      <4>3. c \in Starts(dk, h) /\ Apart(t, Starts(dk, h))
        BY <2>1, <4>2 DEF Starts, Volume
      <4>4. b \in Cluster
        BY <4>3, ChainFacts
      <4>5. QED
        BY <1>5, <4>1, <4>4 DEF Clean
    <3>3. QED
      BY <3>1, <3>2 DEF Backed, Ended
  <2>2. CASE q = p
    <3>1. h \in Starts(dk, h) /\ Apart(t, Starts(dk, h))
      BY DEF Starts, Volume
    <3>2. \A b \in ToSet(ChainIn(t, h)) : b \in Cluster /\ b \notin Dirs(dk)
      BY <3>1, ChainFacts, DirOff
    <3>3. \A b \in ToSet(ChainIn(t, h)) : ek[b] = dk[b]
      BY <1>5, <3>2
    <3>4. At(ek, p).is = "file" => \A b \in ToSet(ChainIn(t, h)) : Clean(ek, b)
      BY <3>3 DEF Clean
    <3>5. QED
      BY <2>2, <3>4 DEF Backed, Ended
  <2>3. QED
    BY <1>1, <2>1, <2>2
<1>11. ASSUME NEW b \in Cluster, t[b] = 0 PROVE Clean(ek, b)
  <2>1. b \notin Dirs(dk) /\ Clean(dk, b)
    BY <1>11, DirUsed DEF Volume
  <2>2. QED
    BY <1>5, <2>1 DEF Clean
<1>12. DotsPlaced(ek)
  <2> SUFFICES ASSUME NEW q \in Place, Live(At(ek, q)), At(ek, q).name \in Dots,
                      q[1] \in Dirs(ek)
               PROVE  q[1] # root_cluster /\ q[2] \in {0, 1}
    BY DEF DotsPlaced
  <2>1. q # p /\ At(ek, q) = At(dk, q)
    OBVIOUS
  <2>2. CASE q[1] \in Dirs(dk)
    BY <2>1, <2>2 DEF Volume, DotsPlaced
  <2>3. CASE q[1] = h /\ At(ek, p).is = "dir"
    <3>1. q[2] \in Row /\ Live(dk[h][q[2]])
      BY <2>1, <2>3, Places DEF At
    <3>2. h # root_cluster
      <4>1. h \in Starts(dk, h) /\ Apart(t, Starts(dk, h))
        BY DEF Starts, Volume
      <4>2. QED
        BY <4>1, ChainFacts DEF Apart
    <3>3. QED
      BY <2>3, <3>1, <3>2
  <2>4. QED
    BY <1>3, <2>2, <2>3
<1>13. QED
  BY <1>3, <1>4, <1>8, <1>9, <1>10, <1>11, <1>12 DEF Volume

-----------------------------------------------------------------------------
\* The inductive invariant

HandOf(k) == IF k.pc = "free" THEN k.cur ELSE k.first
Unmarked(k) == IF k.pc = "mark" THEN k.at ELSE <<0, 0>>

\* The fields of a call, as they are used at each point of its progress.
CallTyped(k) ==
  /\ k \in Call /\ k.done <= Len(k.data)
  /\ k.pc = "idle" => k = Idle
  /\ k.pc = "free" => k.cur \in Cluster /\ (k.data # <<>> => k.dir \in Cluster)
  /\ k.pc \in {"take", "fill", "close", "enter", "dots"} => k.dir \in Cluster
  /\ k.pc \in {"fill", "close", "mark", "pour"} => k.cur \in Cluster
  /\ k.pc = "dots" => k.first \in Cluster
  /\ k.pc \in {"grow", "mark", "pour", "commit"} => k.at \in Place

TypeInv ==
  /\ fat \in Tables /\ disk \in Disks /\ current_dir_cluster \in Cluster
  /\ CallTyped(call)
  /\ suspect \in BOOLEAN /\ lost \in BOOLEAN

AllClean(t, dk, c) == \A b \in ToSet(ChainIn(t, c)) : Clean(dk, b)

\* A deletion, which may be the first half of a copy.
Removing(t, dk, k) ==
  k.pc = "free" =>
    /\ k.cur \in Cluster /\ k.first = 0 /\ k.prev = 0 /\ k.done = 0
    /\ AllClean(t, dk, k.cur)
    /\ k.data # <<>> => k.dir \in Dirs(dk)

\* A copy: the clusters in hand hold what is done, and nothing but data.
Copying(t, dk, k) ==
  LET s == ChainIn(t, k.first)
  IN /\ k.pc \in {"take", "fill", "close"} =>
          k.data # <<>> /\ k.dir \in Dirs(dk) /\ AllClean(t, dk, k.first)
     /\ k.pc = "take" =>
          /\ k.done = Len(s) * Cells
          /\ \/ k.first = 0 /\ k.prev = 0
             \/ k.first \in Cluster /\ k.prev = Last(s) /\ t[Last(s)] = EOC
     /\ k.pc \in {"fill", "close"} =>
          k.first \in Cluster /\ k.cur = Last(s) /\ k.done + Cells = Len(s) * Cells

\* A file or directory that has its clusters and not yet its entry.
Entering(t, dk, k) ==
  LET s == ChainIn(t, k.first)
  IN /\ k.pc \in {"dots", "enter"} =>
          k.first \in Cluster /\ k.dir \in Dirs(dk) /\ t[Last(s)] = EOC
     /\ k.pc = "dots" => k.data = <<>>
     /\ k.pc = "enter" =>
          IF k.data = <<>>
          THEN Dotted(dk, k.first, k.dir) /\ \A i \in Row : Live(dk[k.first][i]) => i \in {0, 1}
          ELSE AllClean(t, dk, k.first) /\ Len(k.data) <= Len(s) * Cells

\* An append: the file has room for what is done.
Appending(t, dk, k) ==
  LET e == At(dk, k.at)
      s == ChainIn(t, e.first)
  IN /\ k.pc \in {"grow", "mark", "pour", "commit"} =>
          k.first = 0 /\ k.at \in Listed(dk) /\ e.is = "file" /\ e.first \in Cluster
     /\ k.pc = "grow" => k.prev = Last(s) /\ e.size + k.done = Len(s) * Cells
     /\ k.pc = "commit" => e.size + k.done <= Len(s) * Cells /\ k.done = Len(k.data)
     /\ k.pc \in {"mark", "pour"} =>
          k.cur = Last(s) /\ e.size + k.done + Cells = Len(s) * Cells

Working(t, dk, k) ==
  Removing(t, dk, k) /\ Copying(t, dk, k) /\ Entering(t, dk, k) /\ Appending(t, dk, k)

\* The marked clusters are the root directory's and those on the chains from K.
Kept(t, K) == \A c \in Cluster : t[c] # 0 => c = root_cluster \/ On(t, K, c)

Sound(t, dk, cd, k, l) ==
  /\ Volume(t, dk, HandOf(k), Unmarked(k))
  /\ cd \in Dirs(dk)
  /\ Working(t, dk, k)
  /\ ~l => Kept(t, Starts(dk, HandOf(k)))

SoundInv == ~suspect => Sound(fat, disk, current_dir_cluster, call, lost)

IInv == TypeInv /\ SoundInv

-----------------------------------------------------------------------------
\* What it implies

LEMMA EntriesListed ==
  /\ Entries = Listed(disk) /\ Directories = Dirs(disk)
  /\ \A p : CellAt(p) = At(disk, p)
  /\ \A p : ChainOf(p) = ChainIn(fat, At(disk, p).first)
BY DEF Entries, Listed, Directories, DirEntries, Dirs, CellAt, At, ChainOf, Chain

LEMMA TypeInvTypeOK == TypeInv => TypeOK
BY DEF TypeInv, TypeOK, CallTyped, Tables, Disks

LEMMA StartsApart ==
  ASSUME NEW t, NEW dk, NEW h, NEW x, Volume(t, dk, h, x)
  PROVE  /\ Apart(t, Starts(dk, h))
         /\ h \in Cluster => h \in Starts(dk, h)
         /\ \A p \in Listed(dk) : /\ p \in Place
                                  /\ At(dk, p).first \in Cluster =>
                                       At(dk, p).first \in Starts(dk, h)
BY DEF Volume, Starts, Listed

LEMMA SoundNoCrossLink == ASSUME IInv PROVE NoCrossLink
<1> SUFFICES ASSUME ~suspect, NEW p \in Entries
             PROVE  /\ IsInjective(ChainOf(p))
                    /\ root_cluster \notin ToSet(ChainOf(p))
                    /\ \A q \in Entries \ {p} : ToSet(ChainOf(p)) \cap ToSet(ChainOf(q)) = {}
  BY DEF NoCrossLink
<1> DEFINE h == HandOf(call)
           K == Starts(disk, h)
           First(q) == At(disk, q).first
<1>1. Volume(fat, disk, h, Unmarked(call))
  BY DEF IInv, SoundInv, Sound
<1>2. Apart(fat, K) /\ \A q \in Listed(disk) : First(q) \in Cluster => First(q) \in K
  BY <1>1, StartsApart
<1>3. p \in Listed(disk) /\ ChainOf(p) = ChainIn(fat, First(p))
  BY EntriesListed
<1>4. CASE First(p) \in Cluster
  <2>1. Path(fat, First(p), ChainOf(p)) /\ root_cluster \notin ToSet(ChainOf(p))
    BY <1>2, <1>3, <1>4 DEF Apart
  <2>2. IsInjective(ChainOf(p))
    BY <2>1 DEF Path
  <2>3. ASSUME NEW q \in Entries \ {p}
        PROVE  ToSet(ChainOf(p)) \cap ToSet(ChainOf(q)) = {}
    <3>1. q \in Listed(disk) /\ ChainOf(q) = ChainIn(fat, First(q))
      BY EntriesListed
    <3>2. CASE First(q) \in Cluster
      <4>1. First(p) # First(q)
        BY <1>1, <1>3, <1>4, <2>3, <3>1 DEF Volume, OwnFirst
      <4>2. QED
        BY <1>2, <1>3, <1>4, <3>1, <3>2, <4>1 DEF Apart
    <3>3. CASE First(q) \notin Cluster
      BY <3>1, <3>3, ChainNone
    <3>4. QED
      BY <3>2, <3>3
  <2>4. QED
    BY <2>1, <2>2, <2>3
<1>5. CASE First(p) \notin Cluster
  <2>1. ChainOf(p) = <<>> /\ ToSet(ChainOf(p)) = {}
    BY <1>3, <1>5, ChainNone
  <2>2. Path(fat, First(p), <<>>)
    BY <1>5, PathNone
  <2>3. QED
    BY <2>1, <2>2 DEF Path
<1>6. QED
  BY <1>4, <1>5

LEMMA SoundChainsWhole == ASSUME IInv PROVE ChainsWhole
<1> SUFFICES ASSUME ~suspect,
                    NEW p \in Entries \ (IF call.pc = "mark" THEN {call.at} ELSE {})
             PROVE  /\ Len(ChainOf(p)) >= ClustersFor(CellAt(p).size)
                    /\ ChainOf(p) # <<>> => fat[Last(ChainOf(p))] = EOC
                    /\ CellAt(p).is = "dir" => ChainOf(p) # <<>>
  BY DEF ChainsWhole
<1> DEFINE h == HandOf(call)
           K == Starts(disk, h)
           First(q) == At(disk, q).first
<1>1. Volume(fat, disk, h, Unmarked(call))
  BY DEF IInv, SoundInv, Sound
<1>2. Apart(fat, K) /\ \A q \in Listed(disk) : First(q) \in Cluster => First(q) \in K
  BY <1>1, StartsApart
<1>3. /\ p \in Listed(disk) /\ ChainOf(p) = ChainIn(fat, First(p))
      /\ CellAt(p) = At(disk, p) /\ p \in Place
  BY EntriesListed DEF Listed
<1>4. p # Unmarked(call)
  <2>1. p[1] # 0
    BY <1>3, Places, Numbers
  <2>2. QED
    BY <2>1 DEF Unmarked
<1>5. Tied(disk, p) /\ Backed(fat, disk, p) /\ Ended(fat, disk, p) /\ disk \in Disks
  BY <1>1, <1>3, <1>4 DEF Volume
<1>6. Len(ChainOf(p)) \in Nat /\ (First(p) \in Cluster => ChainOf(p) # <<>>)
  <2>1. CASE First(p) \in Cluster
    <3>1. Path(fat, First(p), ChainOf(p))
      BY <1>2, <1>3, <2>1 DEF Apart
    <3>2. QED
      BY <3>1, PathFacts
  <2>2. CASE First(p) \notin Cluster
    BY <1>3, <2>2, ChainNone
  <2>3. QED
    BY <2>1, <2>2
<1>7. CellAt(p).size \in Nat /\ CellAt(p).size <= Len(ChainOf(p)) * Cells
  BY <1>3, <1>5, Cells9 DEF Backed
<1>8. ClustersFor(CellAt(p).size) \in Nat /\ ClustersFor(CellAt(p).size) <= Len(ChainOf(p))
  BY <1>6, <1>7, ClustersIs
<1>9. ChainOf(p) # <<>> => fat[Last(ChainOf(p))] = EOC
  BY <1>3, <1>5, ChainNone DEF Ended
<1>10. CellAt(p).is = "dir" => ChainOf(p) # <<>>
  BY <1>3, <1>5, <1>6 DEF Tied
<1>11. QED
  BY <1>6, <1>8, <1>9, <1>10

LEMMA SoundNoLeak == ASSUME IInv PROVE NoLeak
<1> SUFFICES ASSUME ~suspect, ~lost, NEW c \in Cluster, fat[c] # 0
             PROVE  \/ c \in {root_cluster} \cup InHand
                    \/ \E p \in Entries : c \in ToSet(ChainOf(p))
  BY DEF NoLeak
<1>1. c = root_cluster \/ On(fat, Starts(disk, HandOf(call)), c)
  BY DEF IInv, SoundInv, Sound, Kept
<1>2. CASE c = root_cluster
  BY <1>2
<1>3. CASE On(fat, Starts(disk, HandOf(call)), c)
  <2>1. PICK k \in Starts(disk, HandOf(call)) : c \in ToSet(ChainIn(fat, k))
    BY <1>3 DEF On
  <2>2. CASE k = HandOf(call)
    BY <2>1, <2>2 DEF HandOf, InHand, Chain
  <2>3. CASE \E p \in Listed(disk) : k = At(disk, p).first
    BY <2>1, <2>3, EntriesListed
  <2>4. QED
    BY <2>2, <2>3 DEF Starts
<1>4. QED
  BY <1>1, <1>2, <1>3

LEMMA SoundTree == ASSUME IInv PROVE TreeSound
<1> SUFFICES ASSUME ~suspect PROVE TreeSound
  BY DEF TreeSound
<1>1. Volume(fat, disk, HandOf(call), Unmarked(call)) /\ current_dir_cluster \in Directories
  BY EntriesListed DEF IInv, SoundInv, Sound
<1>2. \A p \in Entries : Tied(disk, p) /\ p[1] \in Directories
  BY <1>1, EntriesListed DEF Volume, Tied
<1>3. ASSUME NEW p \in DirEntries, NEW c, c = CellAt(p).first
      PROVE  /\ \E q \in Find(c, ".") : CellAt(q).first = c
             /\ \E q \in Find(c, "..") :
                  p[1] = IF CellAt(q).first = 0 THEN 2 ELSE CellAt(q).first
  <2>1. p \in Entries /\ CellAt(p).is = "dir" /\ p \in Listed(disk) /\ p \in Place
    BY EntriesListed DEF DirEntries, Listed
  <2>2. Dotted(disk, c, p[1]) /\ c \in Cluster
    BY <1>2, <1>3, <2>1, EntriesListed DEF Tied
  <2>3. /\ disk[c][0] = Entry("dir", ".", c, 0)
        /\ disk[c][1] = Entry("dir", "..", ParentOf(p[1], c), 0)
    BY <2>2 DEF Dotted
  <2>4. /\ Named(disk[c][0], ".") /\ disk[c][0].is # "zero" /\ ~Named(disk[c][0], "..")
        /\ Named(disk[c][1], "..") /\ disk[c][0].first = c
        /\ disk[c][1].first = ParentOf(p[1], c)
    BY <2>3, DotNames DEF Named, Live, Entry
  <2>5. <<c, 0>> \in Find(c, ".")
    <3>1. \A j \in 0 .. 0 - 1 : FALSE
      OBVIOUS
    <3>2. QED
      BY <2>4, <3>1, Places DEF Find
  <2>6. <<c, 1>> \in Find(c, "..")
    <3>1. \A j \in 0 .. 1 - 1 : j = 0
      OBVIOUS
    <3>2. QED
      BY <2>4, <3>1, Places DEF Find
  <2>7. CellAt(<<c, 0>>).first = c /\ CellAt(<<c, 1>>).first = ParentOf(p[1], c)
    BY <2>4 DEF CellAt
  <2>8. p[1] = IF ParentOf(p[1], c) = 0 THEN 2 ELSE ParentOf(p[1], c)
    <3>1. p[1] # 0
      BY <2>1, Places, Numbers
    <3>2. QED
      BY <3>1 DEF ParentOf
  <2>9. QED
    BY <2>5, <2>6, <2>7, <2>8
<1>4. QED
  BY <1>1, <1>2, <1>3 DEF TreeSound

LEMMA SoundIsSound == ASSUME IInv PROVE DiskSound
BY TypeInvTypeOK, SoundNoCrossLink, SoundChainsWhole, SoundNoLeak, SoundTree
   DEF IInv, DiskSound

-----------------------------------------------------------------------------
\* What the model's operators return

LEMMA MinOfTwo ==
  ASSUME NEW a \in Nat, NEW b \in Nat
  PROVE  Min({a, b}) \in Nat /\ Min({a, b}) = IF a <= b THEN a ELSE b
<1>1. Min({a, b}) \in {a, b} /\ Min({a, b}) <= a /\ Min({a, b}) <= b
  BY MinIs
<1>2. QED
  BY <1>1

LEMMA NoPlace == <<0, 0>> \notin Place /\ \A dk : <<0, 0>> \notin Listed(dk)
<1>1. <<0, 0>> \notin Place
  <2>1. <<0, 0>> \in Place => <<0, 0>>[1] \in Cluster
    BY Places
  <2>2. <<0, 0>>[1] = 0
    OBVIOUS
  <2>3. QED
    BY <2>1, <2>2, Numbers
<1>2. QED
  BY <1>1 DEF Listed

LEMMA CellKinds ==
  /\ Zero \in DataCell /\ Zero \in Cell /\ Deleted \in Cell /\ DataCell \subseteq Cell
  /\ ~Live(Zero) /\ ~Live(Deleted)
  /\ \A e \in DataCell : ~Live(e)
<1>1. 0 \in 0 .. LastCluster /\ 0 \in Nat
  BY Numbers
<1>2. DataCell \subseteq Cell
  BY <1>1 DEF Cell, DataCell
<1>3. Zero \in DataCell
  BY DEF Zero, DataCell
<1>4. Deleted \in Cell
  BY <1>1 DEF Zero, Deleted, Cell
<1>5. \A e \in DataCell : ~Live(e)
  BY DEF DataCell, Live
<1>6. ~Live(Deleted)
  BY DEF Live, Deleted, Zero
<1>7. QED
  BY <1>2, <1>3, <1>4, <1>5, <1>6

LEMMA EntryCell ==
  ASSUME NEW is \in {"file", "dir"}, NEW n \in Names \cup Dots \cup {""},
         NEW c \in 0 .. LastCluster, NEW s \in Nat
  PROVE  /\ Entry(is, n, c, s) \in Cell /\ Live(Entry(is, n, c, s))
         /\ Entry(is, n, c, s).is = is /\ Entry(is, n, c, s).name = n
         /\ Entry(is, n, c, s).first = c /\ Entry(is, n, c, s).size = s
  BY DEF Entry, Cell, Live

LEMMA FindIs ==
  ASSUME disk \in Disks, NEW d \in Cluster, NEW n, NEW p \in Find(d, n)
  PROVE  /\ p \in Place /\ p[1] = d /\ CellAt(p) = At(disk, p) /\ CellAt(p) \in Cell
         /\ Live(CellAt(p)) /\ CellAt(p).name = n
<1>1. PICK k \in Row : p = <<d, k>> /\ Named(disk[d][k], n)
  BY DEF Find
<1>2. p \in Place /\ p[1] = d /\ p[2] = k
  BY <1>1, Places
<1>3. CellAt(p) = disk[d][k] /\ CellAt(p) = At(disk, p)
  BY <1>2 DEF CellAt, At
<1>4. QED
  BY <1>1, <1>2, <1>3, Cells9 DEF Named

LEMMA SlotIs ==
  ASSUME NEW d \in Cluster, NEW p \in Slot(d)
  PROVE  p \in Place /\ p[1] = d /\ ~Live(At(disk, p))
<1>1. PICK k \in Row : p = <<d, k>> /\ Vacant(disk[d][k])
  BY DEF Slot
<1>2. p \in Place /\ p[1] = d /\ p[2] = k
  BY <1>1, Places
<1>3. QED
  BY <1>1, <1>2 DEF At, Vacant, Live

LEMMA PutIs ==
  ASSUME disk \in Disks, NEW p \in Place, NEW e \in Cell
  PROVE  /\ Put(p, e) \in Disks /\ At(Put(p, e), p) = e
         /\ \A q \in Place : q # p => At(Put(p, e), q) = At(disk, q)
<1>1. p[1] \in Cluster /\ p[2] \in Row /\ p = <<p[1], p[2]>>
  BY Places
<1>2. Put(p, e) \in Disks /\ At(Put(p, e), p) = e
  BY <1>1 DEF Put, Disks, At
<1>3. ASSUME NEW q \in Place, q # p PROVE At(Put(p, e), q) = At(disk, q)
  <2>1. q[1] \in Cluster /\ q[2] \in Row /\ q = <<q[1], q[2]>>
    BY Places
  <2>2. q[1] # p[1] \/ q[2] # p[2]
    BY <1>1, <1>3, <2>1
  <2>3. QED
    BY <1>1, <2>1, <2>2 DEF Put, Disks, At
<1>4. QED
  BY <1>2, <1>3

LEMMA FilledIs ==
  ASSUME NEW data \in Seq(DataCell), NEW done \in Nat
  PROVE  Filled(data, done) \in [Row -> DataCell]
<1> SUFFICES ASSUME NEW i \in Row
             PROVE  (IF done + i < Len(data) THEN data[done + i + 1] ELSE Zero) \in DataCell
  BY DEF Filled
<1>1. Len(data) \in Nat /\ i \in Nat
  BY LenProperties DEF Row
<1>2. done + i < Len(data) => done + i + 1 \in 1 .. Len(data)
  BY <1>1
<1>3. QED
  BY <1>2, CellKinds, ElementOfSeq

LEMMA ChainEndIs ==
  ASSUME NEW c \in 0 .. LastCluster
  PROVE  ChainEnd(c) \in 0 .. LastCluster /\ Located(ChainEnd(c)) \in Cluster
<1> DEFINE s == Chain(c)
<1>1. s \in Seq(Cluster)
  BY ChainSeq DEF Chain
<1> HIDE DEF s
<1>2. s # <<>> => Last(s) \in Cluster
  <2>1. s # <<>> => Len(s) \in 1 .. Len(s)
    BY <1>1, EmptySeq, LenProperties
  <2>2. QED
    BY <1>1, <2>1, ElementOfSeq DEF Last
<1>3. ChainEnd(c) \in {c, 0} \cup Cluster
  BY <1>2 DEF ChainEnd, s
<1>4. ChainEnd(c) \in 0 .. LastCluster
  <2>1. 0 \in 0 .. LastCluster /\ Cluster \subseteq 0 .. LastCluster
    BY Numbers
  <2> HIDE DEF s
  <2>2. QED
    BY <1>3, <2>1
<1>5. QED
  BY <1>4, Numbers DEF Located, Cluster

\* What a file holds can be read, as long as its chain backs its size.
LEMMA ContentIs ==
  ASSUME NEW h, NEW x, Volume(fat, disk, h, x), NEW p \in Listed(disk),
         At(disk, p).is = "file"
  PROVE  /\ Content(At(disk, p)) \in Seq(DataCell)
         /\ Len(Content(At(disk, p))) = At(disk, p).size
<1> DEFINE e == At(disk, p)
           ch == Chain(e.first)
           m == Min({e.size, Len(ch) * Cells})
<1>1. /\ p \in Place /\ disk \in Disks /\ e.size \in Nat /\ Backed(fat, disk, p)
  BY Cells9 DEF Volume, Listed
<1>2. e.size <= Len(ch) * Cells /\ \A c \in ToSet(ch) : Clean(disk, c)
  BY <1>1 DEF Backed, Chain
<1>3. ch \in Seq(Cluster) /\ Len(ch) \in Nat
  BY ChainSeq, LenProperties DEF Chain
<1>4. Content(e) = [i \in 1 .. m |-> disk[ch[(i - 1) \div Cells + 1]][(i - 1) % Cells]]
  BY DEF Content
<1> HIDE DEF ch, e
<1>5. m = e.size
  <2>1. Len(ch) * Cells \in Nat
    BY <1>3, Numbers
  <2>2. QED
    BY <1>1, <1>2, <2>1, MinOfTwo
<1> HIDE DEF m
<1>6. ASSUME NEW i \in 1 .. m
      PROVE  disk[ch[(i - 1) \div Cells + 1]][(i - 1) % Cells] \in DataCell
  <2> DEFINE q == (i - 1) \div Cells
             r == (i - 1) % Cells
             l == Len(ch)
  <2>1. i \in Nat /\ i - 1 \in Nat /\ i - 1 < l * Cells
    <3>1. l * Cells \in Nat
      BY <1>3, Numbers
    <3>2. QED
      BY <1>1, <1>2, <1>5, <3>1
  <2>2. q \in Nat /\ q * Cells <= i - 1 /\ r \in 0 .. Cells - 1
    BY <2>1, Numbers
  <2> HIDE DEF q, r
  <2>3. q < l
    <3> SUFFICES ASSUME l <= q PROVE FALSE
      BY <1>3, <2>2
    <3>1. l * Cells <= q * Cells
      BY <1>3, <2>2, Numbers
    <3>2. l * Cells \in Nat /\ q * Cells \in Nat
      BY <1>3, <2>2, Numbers
    <3>3. QED
      BY <2>1, <2>2, <3>1, <3>2
  <2>4. q + 1 \in 1 .. Len(ch)
    BY <1>3, <2>2, <2>3
  <2>5. ch[q + 1] \in ToSet(ch)
    BY <1>3, <2>4, LenProperties DEF ToSet
  <2>6. r \in Row /\ Clean(disk, ch[q + 1])
    BY <1>2, <2>2, <2>5 DEF Row
  <2>7. QED
    BY <2>6 DEF Clean, q, r
<1>7. QED
  BY <1>1, <1>4, <1>5, <1>6 DEF e

-----------------------------------------------------------------------------
\* Types

LEMMA IdleTyped ==
  /\ CallTyped(Idle) /\ Idle.pc = "idle" /\ Idle.data = <<>> /\ Idle.done = 0
  /\ Idle.first = 0 /\ Idle.prev = 0 /\ Idle.cur = 0
<1>1. 0 \in 0 .. LastCluster /\ <<>> \in Seq(DataCell) /\ Len(<<>>) = 0 /\ 0 \in Nat
  BY Numbers, EmptySeq
<1>2. Idle \in Call
  BY <1>1 DEF Idle, Call
<1>3. /\ Idle.pc = "idle" /\ Idle.data = <<>> /\ Idle.done = 0
      /\ Idle.first = 0 /\ Idle.prev = 0 /\ Idle.cur = 0
  BY DEF Idle
<1>4. CallTyped(Idle)
  BY <1>1, <1>2, <1>3 DEF CallTyped
<1>5. QED
  BY <1>3, <1>4

LEMMA ProgressIs ==
  ASSUME call \in Call
  PROVE  /\ call.done \in Nat /\ Len(call.data) \in Nat /\ Progress \in Nat
         /\ Progress = IF call.done + Cells <= Len(call.data) THEN call.done + Cells
                                                              ELSE Len(call.data)
<1>1. call.done \in Nat /\ call.data \in Seq(DataCell)
  BY DEF Call
<1>2. Len(call.data) \in Nat /\ call.done + Cells \in Nat
  BY <1>1, LenProperties, Numbers
<1>3. QED
  BY <1>1, <1>2, MinOfTwo DEF Progress

LEMMA FreeIs == \A c \in FindFree : c \in Cluster /\ fat[c] = 0 /\ c \in 0 .. LastCluster /\ c # 0
  BY Numbers DEF FindFree, FreeClusters

LEMMA FreeingTyped ==
  ASSUME NEW k \in Call, k.done <= Len(k.data), k.data # <<>> => k.dir \in Cluster, NEW c
  PROVE  /\ CallTyped(Freeing(k, c))
         /\ c \in Cluster =>
              /\ Freeing(k, c).pc = "free" /\ Freeing(k, c).cur = c
              /\ Freeing(k, c).data = k.data /\ Freeing(k, c).dir = k.dir
              /\ Freeing(k, c).first = k.first /\ Freeing(k, c).prev = k.prev
              /\ Freeing(k, c).done = k.done
         /\ c \notin Cluster /\ k.data = <<>> => Freeing(k, c) = Idle
         /\ c \notin Cluster /\ k.data # <<>> =>
              /\ Freeing(k, c).pc = "take"
              /\ Freeing(k, c).data = k.data /\ Freeing(k, c).dir = k.dir
              /\ Freeing(k, c).first = k.first /\ Freeing(k, c).prev = k.prev
              /\ Freeing(k, c).done = k.done
<1>1. CASE c \in Cluster
  <2> DEFINE j == [k EXCEPT !.pc = "free", !.cur = c]
  <2>1. Freeing(k, c) = j
    BY <1>1 DEF Freeing
  <2>2. c \in 0 .. LastCluster
    BY <1>1, Numbers
  <2>3. j \in Call
    BY <2>2 DEF Call
  <2>4. /\ j.pc = "free" /\ j.cur = c /\ j.data = k.data /\ j.dir = k.dir
        /\ j.first = k.first /\ j.prev = k.prev /\ j.done = k.done
    BY DEF Call
  <2> HIDE DEF j
  <2>5. CallTyped(j)
    BY <1>1, <2>3, <2>4 DEF CallTyped
  <2>6. QED
    BY <1>1, <2>1, <2>4, <2>5
<1>2. CASE c \notin Cluster /\ k.data = <<>>
  <2>1. Freeing(k, c) = Idle
    BY <1>2 DEF Freeing
  <2>2. QED
    BY <1>2, <2>1, IdleTyped
<1>3. CASE c \notin Cluster /\ k.data # <<>>
  <2> DEFINE j == [k EXCEPT !.pc = "take"]
  <2>1. Freeing(k, c) = j
    BY <1>3 DEF Freeing
  <2>2. j \in Call
    BY DEF Call
  <2>3. /\ j.pc = "take" /\ j.data = k.data /\ j.dir = k.dir
        /\ j.first = k.first /\ j.prev = k.prev /\ j.done = k.done
    BY DEF Call
  <2> HIDE DEF j
  <2>4. CallTyped(j)
    BY <1>3, <2>2, <2>3 DEF CallTyped
  <2>5. QED
    BY <1>3, <2>1, <2>3, <2>4
<1>4. QED
  BY <1>1, <1>2, <1>3

\* Between calls: what a call starts from.
LEMMA AtRest ==
  ASSUME IInv, Begin
  PROVE  /\ TypeInv /\ call = Idle /\ ~suspect /\ HandOf(call) = 0
         /\ Unmarked(call) = <<0, 0>>
         /\ Volume(fat, disk, 0, <<0, 0>>) /\ current_dir_cluster \in Dirs(disk)
         /\ ~lost => Kept(fat, Starts(disk, 0))
         /\ disk \in Disks /\ current_dir_cluster \in Cluster
<1>1. call = Idle /\ TypeInv /\ ~suspect
  BY DEF IInv, TypeInv, CallTyped, Begin
<1>2. HandOf(call) = 0 /\ Unmarked(call) = <<0, 0>>
  BY <1>1, IdleTyped DEF HandOf, Unmarked
<1>3. QED
  BY <1>1, <1>2 DEF IInv, SoundInv, Sound, TypeInv

\* An entry found in the current directory is that of a file or directory, or
\* one of the two that lead to the directory itself and to its parent.
LEMMA FoundIs ==
  ASSUME IInv, Begin, NEW n, NEW p \in Find(current_dir_cluster, n)
  PROVE  /\ p \in Place /\ CellAt(p) = At(disk, p) /\ CellAt(p) \in Cell
         /\ CellAt(p).name = n /\ Live(CellAt(p))
         /\ n \notin Dots => p \in Listed(disk)
         /\ n \in Dots => CellAt(p).is = "dir" /\ CellAt(p).size = 0
         /\ CellAt(p).is = "dir" => /\ CellAt(p).size = 0
                                    /\ (IF CellAt(p).first = 0 THEN 2 ELSE CellAt(p).first)
                                         \in Dirs(disk)
<1>1. /\ Volume(fat, disk, 0, <<0, 0>>) /\ current_dir_cluster \in Dirs(disk)
      /\ disk \in Disks /\ current_dir_cluster \in Cluster
  BY AtRest
<1>2. /\ p \in Place /\ p[1] = current_dir_cluster /\ CellAt(p) = At(disk, p)
      /\ CellAt(p) \in Cell /\ Live(CellAt(p)) /\ CellAt(p).name = n
  BY <1>1, FindIs
<1>3. CASE n \notin Dots
  <2>1. p \in Listed(disk) /\ Tied(disk, p)
    BY <1>1, <1>2, <1>3 DEF Listed, Volume
  <2>2. ASSUME CellAt(p).is = "dir"
        PROVE  CellAt(p).size = 0 /\ CellAt(p).first # 0 /\ CellAt(p).first \in Dirs(disk)
    BY <1>2, <2>1, <2>2, Numbers DEF Tied, Dirs
  <2>3. QED
    BY <1>2, <1>3, <2>1, <2>2
<1>4. CASE n \in Dots
  <2>1. p[1] # root_cluster /\ p[2] \in {0, 1} /\ p = <<p[1], p[2]>>
    BY <1>1, <1>2, <1>4, Places DEF Volume, DotsPlaced
  <2>2. PICK q \in Listed(disk) : At(disk, q).is = "dir" /\ At(disk, q).first = p[1]
    BY <1>1, <1>2, <2>1 DEF Dirs
  <2>3. /\ Dotted(disk, p[1], q[1]) /\ q[1] \in Dirs(disk) /\ p[1] \in Dirs(disk)
        /\ q[1] # 0 /\ p[1] # 0
    BY <1>1, <1>2, <2>2, Places, Numbers DEF Volume, Tied, Listed
  <2>4. CellAt(p) = disk[p[1]][p[2]]
    BY DEF CellAt
  <2>5. CellAt(p) \in {Entry("dir", ".", p[1], 0), Entry("dir", "..", ParentOf(q[1], p[1]), 0)}
    BY <2>1, <2>3, <2>4 DEF Dotted
  <2>6. /\ CellAt(p).is = "dir" /\ CellAt(p).size = 0
        /\ CellAt(p).first = p[1] \/ CellAt(p).first = ParentOf(q[1], p[1])
    BY <2>5 DEF Entry
  <2>7. (IF CellAt(p).first = 0 THEN 2 ELSE CellAt(p).first) \in {p[1], q[1]}
    BY <2>3, <2>6 DEF ParentOf
  <2>8. QED
    BY <1>2, <1>4, <2>3, <2>6, <2>7
<1>5. QED
  BY <1>3, <1>4

-----------------------------------------------------------------------------
\* Steps that let go of clusters

LEMMA IdleWorks ==
  ASSUME NEW t, NEW dk
  PROVE  Working(t, dk, Idle) /\ HandOf(Idle) = 0 /\ Unmarked(Idle) = <<0, 0>>
BY IdleTyped DEF Working, Removing, Copying, Entering, Appending, HandOf, Unmarked

\* A hand that lets go.
LEMMA VolumeDrop ==
  ASSUME NEW t, NEW dk, NEW h, NEW x, Volume(t, dk, h, x), NEW g, g \notin Cluster
  PROVE  /\ Volume(t, dk, g, x)
         /\ h \notin Cluster => Starts(dk, g) = Starts(dk, h)
<1>1. Starts(dk, g) \subseteq Starts(dk, h)
  BY DEF Starts
<1>2. h \notin Cluster => Starts(dk, g) = Starts(dk, h)
  BY DEF Starts
<1>3. Apart(t, Starts(dk, g))
  BY <1>1, StartsApart, ApartLess
<1>4. OwnFirst(dk, g)
  BY DEF Volume, OwnFirst
<1>5. QED
  BY <1>2, <1>3, <1>4 DEF Volume

\* A call that gives up leaves what it has in hand marked.
LEMMA GivingUp ==
  ASSUME NEW t, NEW dk, NEW h, Volume(t, dk, h, <<0, 0>>),
         NEW cd \in Dirs(dk), NEW l \in BOOLEAN, NEW m \in BOOLEAN,
         ~l => Kept(t, Starts(dk, h)), h \in Cluster \/ l => m
  PROVE  Sound(t, dk, cd, Idle, m)
<1>1. Working(t, dk, Idle) /\ HandOf(Idle) = 0 /\ Unmarked(Idle) = <<0, 0>>
  BY IdleWorks
<1>2. Volume(t, dk, 0, <<0, 0>>) /\ (h \notin Cluster => Starts(dk, 0) = Starts(dk, h))
  BY VolumeDrop, Numbers
<1>3. ~m => Kept(t, Starts(dk, 0))
  BY <1>2
<1>4. QED
  BY <1>1, <1>2, <1>3 DEF Sound

LEMMA FreeingWorks ==
  ASSUME NEW t, NEW dk, NEW k \in Call,
         k.first = 0, k.prev = 0, k.done = 0, k.done <= Len(k.data),
         k.data # <<>> => k.dir \in Cluster /\ k.dir \in Dirs(dk),
         NEW c, AllClean(t, dk, c)
  PROVE  /\ Working(t, dk, Freeing(k, c))
         /\ HandOf(Freeing(k, c)) = IF c \in Cluster THEN c ELSE 0
         /\ Unmarked(Freeing(k, c)) = <<0, 0>>
<1> DEFINE j == Freeing(k, c)
<1>1. /\ c \in Cluster =>
           /\ j.pc = "free" /\ j.cur = c /\ j.data = k.data /\ j.dir = k.dir
           /\ j.first = k.first /\ j.prev = k.prev /\ j.done = k.done
      /\ c \notin Cluster /\ k.data = <<>> => j = Idle
      /\ c \notin Cluster /\ k.data # <<>> =>
           /\ j.pc = "take" /\ j.data = k.data /\ j.dir = k.dir
           /\ j.first = k.first /\ j.prev = k.prev /\ j.done = k.done
  BY FreeingTyped
<1> HIDE DEF j
<1>2. CASE c \in Cluster
  BY <1>1, <1>2 DEF Working, Removing, Copying, Entering, Appending, HandOf, Unmarked, j
<1>3. CASE c \notin Cluster /\ k.data = <<>>
  BY <1>1, <1>3, IdleWorks DEF j
<1>4. CASE c \notin Cluster /\ k.data # <<>>
  <2>1. /\ j.pc = "take" /\ j.data # <<>> /\ j.dir \in Dirs(dk)
        /\ j.first = 0 /\ j.prev = 0 /\ j.done = 0
    BY <1>1, <1>4
  <2>2. Len(ChainIn(t, 0)) = 0 /\ AllClean(t, dk, 0)
    BY ChainNone, Numbers DEF AllClean
  <2>3. j.done = Len(ChainIn(t, j.first)) * Cells
    <3>1. 0 * Cells = 0
      BY Numbers
    <3>2. QED
      BY <2>1, <2>2, <3>1
  <2>4. Copying(t, dk, j)
    BY <2>1, <2>2, <2>3 DEF Copying
  <2>5. Removing(t, dk, j) /\ Entering(t, dk, j) /\ Appending(t, dk, j)
    BY <2>1 DEF Removing, Entering, Appending
  <2>6. HandOf(j) = 0 /\ Unmarked(j) = <<0, 0>>
    BY <2>1 DEF HandOf, Unmarked
  <2>7. QED
    BY <1>4, <2>4, <2>5, <2>6 DEF Working, j
<1>5. QED
  BY <1>2, <1>3, <1>4

LEMMA StrikeKeeps ==
  ASSUME IInv, Begin, NEW n, NEW p \in Find(current_dir_cluster, n), NEW k \in Call,
         k.first = 0, k.prev = 0, k.done = 0, k.done <= Len(k.data),
         k.data # <<>> => k.dir \in Cluster /\ k.dir \in Dirs(disk),
         Strike(p, k), UNCHANGED <<fat, current_dir_cluster, lost>>
  PROVE  IInv'
<1> DEFINE f == CellAt(p).first
<1>1. /\ TypeInv /\ disk \in Disks /\ Volume(fat, disk, 0, <<0, 0>>)
      /\ current_dir_cluster \in Dirs(disk) /\ (~lost => Kept(fat, Starts(disk, 0)))
  BY AtRest
<1>2. /\ p \in Place /\ CellAt(p) = At(disk, p) /\ CellAt(p) \in Cell /\ Live(CellAt(p))
      /\ CellAt(p).is # "dir" => p \in Listed(disk)
  BY FoundIs
<1>3. /\ disk' = Put(p, Deleted) /\ call' = Freeing(k, f)
      /\ suspect' = (CellAt(p).is = "dir")
  BY DEF Strike, Misuse, RemoveMisused
<1>4. /\ disk' \in Disks /\ At(disk', p) = Deleted
      /\ \A q \in Place : q # p => At(disk', q) = At(disk, q)
  BY <1>1, <1>2, <1>3, PutIs, CellKinds
<1>5. TypeInv'
  <2>1. CallTyped(call')
    BY <1>3, FreeingTyped
  <2>2. suspect' \in BOOLEAN
    BY <1>3
  <2>3. QED
    BY <1>1, <1>4, <2>1, <2>2 DEF TypeInv
<1>6. SoundInv'
  <2> SUFFICES ASSUME ~suspect'
               PROVE  Sound(fat', disk', current_dir_cluster', call', lost')
    BY DEF SoundInv
  <2>1. CellAt(p).is = "file" /\ p \in Listed(disk)
    BY <1>2, <1>3 DEF Live
  <2>2. /\ Volume(fat, disk', f, <<0, 0>>)
        /\ Dirs(disk') = Dirs(disk)
        /\ Starts(disk', f) = Starts(disk, 0)
        /\ \A b \in Cluster : Clean(disk, b) => Clean(disk', b)
    BY <1>1, <1>2, <1>4, <2>1, VolumeRemove, Numbers
  <2>3. AllClean(fat, disk', f)
    <3> SUFFICES ASSUME NEW b \in ToSet(ChainIn(fat, f)) PROVE Clean(disk', b)
      BY DEF AllClean
    <3>1. Clean(disk, b)
      BY <1>1, <1>2, <2>1 DEF Volume, Backed
    <3>2. f \in Cluster
      BY ChainNone
    <3>3. f \in Starts(disk, 0) /\ Apart(fat, Starts(disk, 0))
      BY <1>1, <1>2, <2>1, <3>2, StartsApart
    <3>4. b \in Cluster
      BY <3>3, ChainFacts
    <3>5. QED
      BY <2>2, <3>1, <3>4
  <2> DEFINE g == IF f \in Cluster THEN f ELSE 0
  <2>4. /\ Working(fat, disk', call') /\ HandOf(call') = g
        /\ Unmarked(call') = <<0, 0>>
    <3>1. k.data # <<>> => k.dir \in Cluster /\ k.dir \in Dirs(disk')
      BY <2>2
    <3> HIDE DEF f
    <3>2. /\ Working(fat, disk', Freeing(k, f))
          /\ HandOf(Freeing(k, f)) = IF f \in Cluster THEN f ELSE 0
          /\ Unmarked(Freeing(k, f)) = <<0, 0>>
      BY <2>3, <3>1, FreeingWorks
    <3>3. QED
      BY <1>3, <3>2
  <2>5. Volume(fat, disk', g, <<0, 0>>) /\ Starts(disk', g) = Starts(disk, 0)
    <3>1. CASE f \in Cluster
      BY <2>2, <3>1
    <3>2. CASE f \notin Cluster
      BY <2>2, <3>2, VolumeDrop, Numbers
    <3>3. QED
      BY <3>1, <3>2
  <2> HIDE DEF g
  <2>6. QED
    BY <1>1, <2>2, <2>4, <2>5 DEF Sound
<1>7. QED
  BY <1>5, <1>6 DEF IInv

LEMMA DeleteFileKeeps == ASSUME IInv, NEW n, DeleteFile(n) PROVE IInv'
<1>1. PICK p \in Find(current_dir_cluster, n) : Strike(p, Idle)
  BY DEF DeleteFile
<1>2. Begin /\ UNCHANGED <<fat, current_dir_cluster, lost>>
  BY DEF DeleteFile
<1>3. Idle \in Call /\ Idle.done <= Len(Idle.data)
  BY IdleTyped DEF CallTyped
<1>4. QED
  BY <1>1, <1>2, <1>3, IdleTyped, StrikeKeeps

\* The next cluster of the chain in hand is freed.
LEMMA FreeNextKeeps == ASSUME IInv, FreeNext PROVE IInv'
<1> DEFINE a == call.cur
           b == fat[a]
<1>1. /\ TypeInv /\ call.pc = "free" /\ fat' = [fat EXCEPT ![a] = 0]
      /\ call' = Freeing(call, b) /\ UNCHANGED <<disk, current_dir_cluster, suspect, lost>>
  BY DEF IInv, FreeNext
<1>2. /\ fat \in Tables /\ CallTyped(call) /\ a \in Cluster /\ a \in 0 .. LastCluster
      /\ (call.data # <<>> => call.dir \in Cluster) /\ b \in 0 .. EOC
  BY <1>1, Numbers DEF TypeInv, CallTyped, Tables
<1>3. /\ fat' \in Tables /\ fat'[a] = 0
      /\ \A y \in 0 .. LastCluster : y # a => fat'[y] = fat[y]
  BY <1>1, <1>2, Numbers DEF Tables
<1>4. CallTyped(call) /\ call \in Call /\ call.done <= Len(call.data)
  BY <1>2 DEF CallTyped
<1>5. TypeInv'
  <2>1. CallTyped(call')
    BY <1>1, <1>2, <1>4, FreeingTyped
  <2>2. QED
    BY <1>1, <1>3, <2>1 DEF TypeInv
<1>6. SoundInv'
  <2> SUFFICES ASSUME ~suspect'
               PROVE  Sound(fat', disk', current_dir_cluster', call', lost')
    BY DEF SoundInv
  <2>1. Sound(fat, disk, current_dir_cluster, call, lost)
    BY <1>1 DEF IInv, SoundInv
  <2>2. HandOf(call) = a /\ Unmarked(call) = <<0, 0>>
    BY <1>1 DEF HandOf, Unmarked
  <2>3. /\ Volume(fat, disk, a, <<0, 0>>) /\ Removing(fat, disk, call)
        /\ current_dir_cluster \in Dirs(disk)
        /\ (~lost => Kept(fat, Starts(disk, a)))
    BY <2>1, <2>2 DEF Sound, Working
  <2> DEFINE K == Starts(disk, a)
             g == IF b \in Cluster THEN b ELSE 0
             J == Starts(disk, g)
             First(p) == At(disk, p).first
  <2>4. Apart(fat, K) /\ a \in K /\ \A p \in Listed(disk) : First(p) \in Cluster => First(p) \in K
    BY <1>2, <2>3, StartsApart
  <2>5. \A p \in Listed(disk) : First(p) \in Cluster => First(p) \in K \ {a} /\ First(p) \in J
    BY <2>3, <2>4 DEF Volume, OwnFirst, Starts
  <2>6. J \subseteq Cluster /\ J \subseteq (K \ {a}) \cup {b}
    <3> SUFFICES ASSUME NEW j \in J PROVE j \in Cluster /\ j \in (K \ {a}) \cup {b}
      OBVIOUS
    <3>1. j \in Cluster /\ (j = g \/ \E p \in Listed(disk) : j = First(p))
      BY DEF Starts
    <3>2. QED
      BY <2>5, <3>1, Numbers
  <2>7. K \ {a} \subseteq J
    BY DEF Starts
  <2> HIDE DEF K, J
  <2>8. /\ Apart(fat', J)
        /\ \A c \in K \ {a} : ChainIn(fat', c) = ChainIn(fat, c)
        /\ ToSet(ChainIn(fat', b)) = ToSet(ChainIn(fat, a)) \ {a}
    <3>1. \A y \in Cluster : y # a => fat'[y] = fat[y]
      BY <1>3, Numbers
    <3>2. fat \in Tables /\ Apart(fat, K) /\ a \in K
      BY <1>2, <2>4
    <3> HIDE DEF a
    <3>3. J \subseteq Cluster /\ J \subseteq (K \ {a}) \cup {fat[a]}
      BY <2>6
    <3>4. QED
      BY <3>1, <3>2, <3>3, ApartPop
  <2>9. b \in Cluster => b \in J
    BY DEF J, Starts
  <2>10. \A p \in Listed(disk) : First(p) \in Cluster => First(p) # g
    <3> SUFFICES ASSUME NEW p \in Listed(disk), First(p) \in Cluster, First(p) = b
                 PROVE  FALSE
      BY Numbers
    <3>1. First(p) \in ToSet(ChainIn(fat', b))
      BY <2>8, <2>9, ChainFacts
    <3>2. First(p) \in ToSet(ChainIn(fat, First(p))) /\ First(p) \in K /\ First(p) # a
      BY <2>4, <2>5, ChainFacts
    <3>3. ToSet(ChainIn(fat, First(p))) \cap ToSet(ChainIn(fat, a)) = {}
      BY <2>4, <3>2 DEF Apart
    <3>4. QED
      BY <2>8, <3>1, <3>2, <3>3
  <2>11. \A p \in Listed(disk) : p # <<0, 0>> => Ended(fat', disk, p)
    <3> SUFFICES ASSUME NEW p \in Listed(disk), First(p) \in Cluster
                 PROVE  fat'[Last(ChainIn(fat', First(p)))] = EOC
      BY DEF Ended
    <3>1. fat[Last(ChainIn(fat, First(p)))] = EOC
      BY <2>3, NoPlace DEF Volume, Ended
    <3>2. First(p) \in K \ {a} /\ First(p) \in K
      BY <2>5
    <3>3. Last(ChainIn(fat, First(p))) \in Cluster /\ Last(ChainIn(fat, First(p))) # a
      <4>1. Last(ChainIn(fat, First(p))) \in ToSet(ChainIn(fat, First(p)))
        BY <2>4, <3>2, ChainFacts
      <4>2. a \in ToSet(ChainIn(fat, a))
        BY <2>4, ChainFacts
      <4>3. QED
        BY <2>4, <3>2, <4>1, <4>2, ChainFacts DEF Apart
    <3>4. ChainIn(fat', First(p)) = ChainIn(fat, First(p))
      BY <2>8, <3>2
    <3>5. QED
      BY <1>3, <3>1, <3>3, <3>4, Numbers
  <2>12. a # root_cluster /\ fat'[root_cluster] # 0
    <3>1. a # root_cluster
      BY <2>4, ChainFacts DEF Apart
    <3>2. QED
      BY <1>3, <2>3, <3>1, Numbers DEF Volume
  <2>13. \A p \in Listed(disk) : First(p) \in Cluster =>
           /\ Len(ChainIn(fat', First(p))) \in Nat
           /\ Len(ChainIn(fat', First(p))) >= Len(ChainIn(fat, First(p)))
           /\ \A y \in ToSet(ChainIn(fat', First(p))) :
                y \in ToSet(ChainIn(fat, First(p))) \/ Clean(disk, y)
    <3> SUFFICES ASSUME NEW p \in Listed(disk), First(p) \in Cluster
                 PROVE  /\ ChainIn(fat', First(p)) = ChainIn(fat, First(p))
                        /\ Len(ChainIn(fat, First(p))) \in Nat
      OBVIOUS
    <3>1. First(p) \in K \ {a} /\ First(p) \in K
      BY <2>5
    <3>2. QED
      BY <2>4, <2>8, <3>1, ChainFacts
  <2>14. AllClean(fat, disk, a)
    BY <1>1, <2>3 DEF Removing
  <2>15. \A y \in Cluster : fat'[y] = 0 => fat[y] = 0 \/ Clean(disk, y)
    <3>1. Clean(disk, a)
      BY <2>4, <2>14, ChainFacts DEF AllClean
    <3>2. QED
      BY <1>3, <3>1, Numbers
  <2>16. Volume(fat', disk, g, <<0, 0>>)
    <3>1. Apart(fat', Starts(disk, g))
      BY <2>8 DEF J
    <3> HIDE DEF g
    <3>2. QED
      BY <1>3, <2>3, <2>10, <2>11, <2>12, <2>13, <2>15, <3>1, VolumeTable
  <2>17. AllClean(fat', disk, b)
    BY <2>8, <2>14 DEF AllClean
  <2>18. /\ Working(fat', disk, call') /\ HandOf(call') = g
         /\ Unmarked(call') = <<0, 0>>
    <3>1. /\ call.first = 0 /\ call.prev = 0 /\ call.done = 0
          /\ (call.data # <<>> => call.dir \in Dirs(disk))
      BY <1>1, <2>3 DEF Removing
    <3>2. call.data # <<>> => call.dir \in Cluster /\ call.dir \in Dirs(disk)
      BY <1>2, <3>1
    <3>3. call \in Call /\ call.done <= Len(call.data)
      BY <1>4
    <3> HIDE DEF b
    <3>4. /\ Working(fat', disk, Freeing(call, b))
          /\ HandOf(Freeing(call, b)) = IF b \in Cluster THEN b ELSE 0
          /\ Unmarked(Freeing(call, b)) = <<0, 0>>
      BY <2>17, <3>1, <3>2, <3>3, FreeingWorks
    <3>5. QED
      BY <1>1, <3>4
  <2>19. Kept(fat, K) => Kept(fat', J)
    <3> SUFFICES ASSUME Kept(fat, K), NEW c \in Cluster, fat'[c] # 0, c # root_cluster
                 PROVE  On(fat', J, c)
      BY DEF Kept
    <3>1. c # a /\ fat[c] # 0
      BY <1>3, Numbers
    <3>2. PICK k \in K : c \in ToSet(ChainIn(fat, k))
      BY <3>1 DEF Kept, On
    <3>3. CASE k = a
      <4>1. c \in ToSet(ChainIn(fat', b))
        BY <2>8, <3>1, <3>2, <3>3
      <4>2. b \in J
        BY <2>9, <4>1, ChainNone
      <4>3. QED
        BY <4>1, <4>2 DEF On
    <3>4. CASE k # a
      BY <2>7, <2>8, <3>2, <3>4 DEF On
    <3>5. QED
      BY <3>3, <3>4
  <2>20. QED
    <3> HIDE DEF g
    <3>1. QED
      BY <1>1, <2>3, <2>16, <2>18, <2>19 DEF Sound, J, K
<1>7. QED
  BY <1>5, <1>6 DEF IInv

-----------------------------------------------------------------------------
\* Steps that take clusters

\* A free cluster is nobody's.
LEMMA FreeCluster ==
  ASSUME NEW t, NEW dk, NEW h, Volume(t, dk, h, <<0, 0>>),
         h \in Cluster => t[Last(ChainIn(t, h))] # 0,
         NEW c \in Cluster, t[c] = 0
  PROVE  /\ c # root_cluster /\ ~On(t, Starts(dk, h), c) /\ Clean(dk, c)
         /\ \A p \in Listed(dk) : At(dk, p).first # c
         /\ \A a \in Starts(dk, h) : t[Last(ChainIn(t, a))] # 0
<1> DEFINE K == Starts(dk, h)
           First(p) == At(dk, p).first
<1>1. Apart(t, K) /\ \A p \in Listed(dk) : First(p) \in Cluster => First(p) \in K
  BY StartsApart
<1>2. ASSUME NEW a \in K PROVE t[Last(ChainIn(t, a))] # 0
  <2>1. a \in Cluster /\ (a = h \/ \E p \in Listed(dk) : a = First(p))
    BY DEF Starts
  <2>2. CASE a = h
    BY <2>1, <2>2
  <2>3. ASSUME NEW p \in Listed(dk), a = First(p) PROVE t[Last(ChainIn(t, a))] # 0
    <3>1. p # <<0, 0>>
      BY NoPlace
    <3>2. Ended(t, dk, p)
      BY <3>1 DEF Volume
    <3>3. QED
      BY <2>1, <2>3, <3>2, Numbers DEF Ended
  <2>4. QED
    BY <2>1, <2>2, <2>3
<1> HIDE DEF K
<1>3. ~On(t, K, c)
  BY <1>1, <1>2, FreeOff
<1>4. \A p \in Listed(dk) : First(p) # c
  BY <1>1, <1>3, ChainFacts DEF On
<1>5. c # root_cluster /\ Clean(dk, c)
  BY DEF Volume
<1>6. QED
  BY <1>2, <1>3, <1>4, <1>5 DEF K

\* Empty hands take a free cluster.
LEMMA VolumeNew ==
  ASSUME NEW t, NEW dk, NEW h, Volume(t, dk, h, <<0, 0>>), h \notin Cluster,
         NEW c \in Cluster, t[c] = 0, NEW u \in Tables, u[c] \notin Cluster,
         \A y \in Cluster : y # c => u[y] = t[y]
  PROVE  /\ Volume(u, dk, c, <<0, 0>>)
         /\ ToSet(ChainIn(u, c)) = {c} /\ Len(ChainIn(u, c)) = 1 /\ Last(ChainIn(u, c)) = c
         /\ Clean(dk, c)
         /\ Kept(t, Starts(dk, h)) => Kept(u, Starts(dk, c))
<1> DEFINE K == Starts(dk, h)
           First(p) == At(dk, p).first
<1>1. Apart(t, K) /\ \A p \in Listed(dk) : First(p) \in Cluster => First(p) \in K
  BY StartsApart
<1>2. /\ c # root_cluster /\ ~On(t, K, c) /\ Clean(dk, c)
      /\ \A p \in Listed(dk) : First(p) # c
  BY FreeCluster
<1>3. Starts(dk, c) = K \cup {c}
  BY DEF Starts
<1> HIDE DEF K
<1>4. Apart(u, K) /\ \A a \in K : ChainIn(u, a) = ChainIn(t, a)
  BY <1>1, <1>2, ApartKeep
<1>5. \A y : On(u, K, y) <=> On(t, K, y)
  BY <1>4 DEF On
<1>6. /\ Apart(u, K \cup {c}) /\ ToSet(ChainIn(u, c)) = {c}
      /\ Len(ChainIn(u, c)) = 1 /\ Last(ChainIn(u, c)) = c
  BY <1>2, <1>4, <1>5, ApartNew
<1>7. ASSUME NEW p \in Listed(dk), First(p) \in Cluster
      PROVE  /\ ChainIn(u, First(p)) = ChainIn(t, First(p))
             /\ Len(ChainIn(t, First(p))) \in Nat
             /\ p # <<0, 0>> => u[Last(ChainIn(u, First(p)))] = EOC
  <2>1. First(p) \in K
    BY <1>1, <1>7
  <2>2. ChainIn(u, First(p)) = ChainIn(t, First(p))
    BY <1>4, <2>1
  <2>3. /\ Last(ChainIn(t, First(p))) \in ToSet(ChainIn(t, First(p)))
        /\ Last(ChainIn(t, First(p))) \in Cluster
        /\ Len(ChainIn(t, First(p))) \in Nat
    BY <1>1, <2>1, ChainFacts
  <2>4. Last(ChainIn(t, First(p))) # c
    BY <1>2, <2>1, <2>3 DEF On
  <2>5. p # <<0, 0>> => t[Last(ChainIn(t, First(p)))] = EOC
    BY <1>7 DEF Volume, Ended
  <2>6. QED
    BY <2>2, <2>3, <2>4, <2>5
<1>8. \A p \in Listed(dk) : p # <<0, 0>> => Ended(u, dk, p)
  BY <1>7 DEF Ended
<1>9. u[root_cluster] # 0
  BY <1>2, Numbers DEF Volume
<1>10. \A b \in Cluster : u[b] = 0 => t[b] = 0 \/ Clean(dk, b)
  BY <1>2
<1>11. Apart(u, Starts(dk, c))
  BY <1>3, <1>6
<1>12. Volume(u, dk, c, <<0, 0>>)
  BY <1>2, <1>7, <1>8, <1>9, <1>10, <1>11, VolumeTable
<1>13. Kept(t, K) => Kept(u, K \cup {c})
  <2> SUFFICES ASSUME Kept(t, K), NEW y \in Cluster, u[y] # 0, y # root_cluster, y # c
               PROVE  On(u, K \cup {c}, y)
    BY <1>6 DEF Kept, On
  <2>1. On(t, K, y)
    BY DEF Kept
  <2>2. QED
    BY <1>5, <2>1 DEF On
<1>14. QED
  BY <1>2, <1>3, <1>6, <1>12, <1>13 DEF K

\* A chain is given one more cluster, which is not marked yet.
LEMMA VolumeGrow ==
  ASSUME NEW t, NEW dk, NEW h, Volume(t, dk, h, <<0, 0>>),
         h \in Cluster => t[Last(ChainIn(t, h))] # 0,
         NEW a \in Starts(dk, h), NEW c \in Cluster, t[c] = 0,
         NEW l, l = Last(ChainIn(t, a)),
         NEW u \in Tables, u[l] = c, \A z \in Cluster : z # l => u[z] = t[z],
         NEW y, \A p \in Listed(dk) : p # y => At(dk, p).first # a
  PROVE  /\ Volume(u, dk, h, y)
         /\ ToSet(ChainIn(u, a)) = ToSet(ChainIn(t, a)) \cup {c}
         /\ Len(ChainIn(u, a)) = Len(ChainIn(t, a)) + 1 /\ Last(ChainIn(u, a)) = c
         /\ Len(ChainIn(t, a)) \in Nat
         /\ Clean(dk, c)
         /\ Kept(t, Starts(dk, h)) => Kept(u, Starts(dk, h))
<1> DEFINE K == Starts(dk, h)
           First(p) == At(dk, p).first
<1>1. Apart(t, K) /\ \A p \in Listed(dk) : First(p) \in Cluster => First(p) \in K
  BY StartsApart
<1>2. /\ c # root_cluster /\ ~On(t, K, c) /\ Clean(dk, c) /\ t[l] # 0
      /\ \A p \in Listed(dk) : First(p) # c
  BY FreeCluster
<1>3. a \in K /\ u[l] = c /\ \A z \in Cluster : z # l => u[z] = t[z]
  OBVIOUS
<1> HIDE DEF K
<1>4. l \in ToSet(ChainIn(t, a)) /\ l \in Cluster /\ Len(ChainIn(t, a)) \in Nat
  BY <1>1, <1>3, ChainFacts
<1>5. c # l /\ u[c] \notin Cluster /\ l # root_cluster
  BY <1>1, <1>2, <1>3, <1>4, Numbers DEF Apart
<1>6. /\ Apart(u, K)
      /\ \A k \in K : k # a => ChainIn(u, k) = ChainIn(t, k)
      /\ ToSet(ChainIn(u, a)) = ToSet(ChainIn(t, a)) \cup {c}
      /\ Len(ChainIn(u, a)) = Len(ChainIn(t, a)) + 1
      /\ Last(ChainIn(u, a)) = c
  <2>1. \A z \in Cluster : z # l /\ z # c => u[z] = t[z]
    BY <1>3
  <2>2. /\ Apart(t, K) /\ a \in K /\ ~On(t, K, c) /\ c # root_cluster
        /\ u[c] \notin Cluster /\ u[l] = c
    BY <1>1, <1>2, <1>3, <1>5
  <2>3. l = Last(ChainIn(t, a))
    OBVIOUS
  <2>4. QED
    BY ONLY <2>1, <2>2, <2>3, ApartGrow, c \in Cluster, SMTT(60)
<1>7. ASSUME NEW p \in Listed(dk), First(p) \in Cluster, First(p) # a
      PROVE  /\ ChainIn(u, First(p)) = ChainIn(t, First(p))
             /\ Len(ChainIn(t, First(p))) \in Nat
             /\ u[Last(ChainIn(u, First(p)))] = EOC
  <2>1. First(p) \in K /\ p # <<0, 0>>
    BY <1>1, <1>7, NoPlace
  <2>2. ChainIn(u, First(p)) = ChainIn(t, First(p))
    BY <1>6, <1>7, <2>1
  <2>3. /\ Last(ChainIn(t, First(p))) \in ToSet(ChainIn(t, First(p)))
        /\ Last(ChainIn(t, First(p))) \in Cluster
        /\ Len(ChainIn(t, First(p))) \in Nat
    BY <1>1, <2>1, ChainFacts
  <2>4. Last(ChainIn(t, First(p))) # l
    BY <1>1, <1>3, <1>4, <1>7, <2>1, <2>3 DEF Apart
  <2>5. t[Last(ChainIn(t, First(p)))] = EOC
    BY <1>7, <2>1 DEF Volume, Ended
  <2>6. QED
    BY <1>3, <2>2, <2>3, <2>4, <2>5
<1>8. \A p \in Listed(dk) : p # y => Ended(u, dk, p)
  BY <1>7 DEF Ended
<1>9. \A p \in Listed(dk) : First(p) \in Cluster =>
        /\ Len(ChainIn(u, First(p))) \in Nat
        /\ Len(ChainIn(u, First(p))) >= Len(ChainIn(t, First(p)))
        /\ \A b \in ToSet(ChainIn(u, First(p))) :
             b \in ToSet(ChainIn(t, First(p))) \/ Clean(dk, b)
  <2> SUFFICES ASSUME NEW p \in Listed(dk), First(p) \in Cluster
               PROVE  /\ Len(ChainIn(u, First(p))) \in Nat
                      /\ Len(ChainIn(u, First(p))) >= Len(ChainIn(t, First(p)))
                      /\ \A b \in ToSet(ChainIn(u, First(p))) :
                           b \in ToSet(ChainIn(t, First(p))) \/ Clean(dk, b)
    OBVIOUS
  <2>1. CASE First(p) = a
    BY <1>2, <1>4, <1>6, <2>1
  <2>2. CASE First(p) # a
    BY <1>7, <2>2
  <2>3. QED
    BY <2>1, <2>2
<1>10. u[root_cluster] # 0
  BY <1>3, <1>5, Numbers DEF Volume
<1>11. \A b \in Cluster : u[b] = 0 => t[b] = 0 \/ Clean(dk, b)
  BY <1>3, Numbers
<1>12. \A p \in Listed(dk) : First(p) \in Cluster => First(p) # h
  BY DEF Volume, OwnFirst
<1>13. Volume(u, dk, h, y)
  <2>1. Apart(u, Starts(dk, h))
    BY <1>6 DEF K
  <2>2. QED
    BY <1>8, <1>9, <1>10, <1>11, <1>12, <2>1, VolumeTable
<1>14. Kept(t, K) => Kept(u, K)
  <2> SUFFICES ASSUME Kept(t, K), NEW z \in Cluster, u[z] # 0, z # root_cluster
               PROVE  On(u, K, z)
    BY DEF Kept
  <2>1. CASE z = l
    BY <1>3, <1>4, <1>6, <2>1 DEF On
  <2>2. CASE z # l
    <3>1. On(t, K, z)
      BY <1>3, <2>2 DEF Kept
    <3>2. PICK k \in K : z \in ToSet(ChainIn(t, k))
      BY <3>1 DEF On
    <3>3. z \in ToSet(ChainIn(u, k))
      BY <1>6, <3>2
    <3>4. QED
      BY <3>3 DEF On
  <2>3. QED
    BY <2>1, <2>2
<1>15. QED
  BY <1>2, <1>4, <1>6, <1>13, <1>14 DEF K

\* The last cluster of a chain is marked as its end.
LEMMA VolumeEnd ==
  ASSUME NEW t, NEW dk, NEW h, NEW x, Volume(t, dk, h, x),
         NEW a \in Starts(dk, h),
         NEW u \in Tables, u[Last(ChainIn(t, a))] = EOC,
         \A z \in Cluster : z # Last(ChainIn(t, a)) => u[z] = t[z],
         NEW y, \A p \in Listed(dk) : p # y => p # x \/ At(dk, p).first = a
  PROVE  /\ Volume(u, dk, h, y)
         /\ ChainIn(u, a) = ChainIn(t, a) /\ u[Last(ChainIn(u, a))] = EOC
         /\ Len(ChainIn(t, a)) \in Nat
         /\ Kept(t, Starts(dk, h)) => Kept(u, Starts(dk, h))
<1> DEFINE K == Starts(dk, h)
           First(p) == At(dk, p).first
           l == Last(ChainIn(t, a))
<1>1. Apart(t, K) /\ \A p \in Listed(dk) : First(p) \in Cluster => First(p) \in K
  BY StartsApart
<1>2. a \in K /\ u[l] = EOC /\ \A z \in Cluster : z # l => u[z] = t[z]
  OBVIOUS
<1> HIDE DEF K
<1>3. /\ l \in ToSet(ChainIn(t, a)) /\ l \in Cluster /\ Len(ChainIn(t, a)) \in Nat
      /\ t[l] \notin Cluster
  BY <1>1, <1>2, ChainFacts
<1>4. l # root_cluster
  BY <1>1, <1>2, <1>3 DEF Apart
<1>5. Apart(u, K) /\ \A k \in K : ChainIn(u, k) = ChainIn(t, k)
  <2>1. t[l] \notin Cluster /\ u[l] \notin Cluster
    BY <1>2, <1>3, Numbers
  <2> HIDE DEF l
  <2>2. QED
    BY <1>1, <1>2, <2>1, ApartKeep
<1>6. ASSUME NEW p \in Listed(dk), First(p) \in Cluster
      PROVE  /\ ChainIn(u, First(p)) = ChainIn(t, First(p))
             /\ Len(ChainIn(t, First(p))) \in Nat
             /\ p # y => u[Last(ChainIn(u, First(p)))] = EOC
  <2>1. First(p) \in K
    BY <1>1, <1>6
  <2>2. ChainIn(u, First(p)) = ChainIn(t, First(p))
    BY <1>5, <2>1
  <2>3. /\ Last(ChainIn(t, First(p))) \in ToSet(ChainIn(t, First(p)))
        /\ Last(ChainIn(t, First(p))) \in Cluster
        /\ Len(ChainIn(t, First(p))) \in Nat
    BY <1>1, <2>1, ChainFacts
  <2>4. ASSUME p # y PROVE u[Last(ChainIn(u, First(p)))] = EOC
    <3>1. CASE First(p) = a
      BY <1>2, <2>2, <3>1
    <3>2. CASE First(p) # a
      <4>1. Last(ChainIn(t, First(p))) # l
        BY <1>1, <1>2, <1>3, <2>1, <2>3, <3>2 DEF Apart
      <4>2. t[Last(ChainIn(t, First(p)))] = EOC
        BY <1>6, <2>4, <3>2 DEF Volume, Ended
      <4>3. QED
        BY <1>2, <2>2, <2>3, <4>1, <4>2
    <3>3. QED
      BY <3>1, <3>2
  <2>5. QED
    BY <2>2, <2>3, <2>4
<1>7. \A p \in Listed(dk) : p # y => Ended(u, dk, p)
  BY <1>6 DEF Ended
<1>8. u[root_cluster] # 0
  BY <1>2, <1>4, Numbers DEF Volume
<1>9. \A b \in Cluster : u[b] = 0 => t[b] = 0 \/ Clean(dk, b)
  BY <1>2, Numbers
<1>10. \A p \in Listed(dk) : First(p) \in Cluster => First(p) # h
  BY DEF Volume, OwnFirst
<1>11. Volume(u, dk, h, y)
  <2>1. Apart(u, Starts(dk, h))
    BY <1>5 DEF K
  <2>2. QED
    BY <1>6, <1>7, <1>8, <1>9, <1>10, <2>1, VolumeTable
<1>12. Kept(t, K) => Kept(u, K)
  <2> SUFFICES ASSUME Kept(t, K), NEW z \in Cluster, u[z] # 0, z # root_cluster
               PROVE  On(u, K, z)
    BY DEF Kept
  <2>1. On(t, K, z)
    BY <1>2, <1>3 DEF Kept, On
  <2>2. QED
    BY <1>5, <2>1 DEF On
<1>13. QED
  BY <1>2, <1>3, <1>5, <1>11, <1>12 DEF K

-----------------------------------------------------------------------------
\* Copying

LEMMA CopyKeeps ==
  ASSUME IInv, NEW s \in Names, NEW n \in Names, NEW d \in Names \cup Dots \cup {Here},
         Copy(s, d, n)
  PROVE  IInv'
<1>1. /\ Begin /\ TypeInv /\ call = Idle /\ ~suspect /\ disk \in Disks
      /\ Volume(fat, disk, 0, <<0, 0>>) /\ current_dir_cluster \in Dirs(disk)
      /\ (~lost => Kept(fat, Starts(disk, 0))) /\ current_dir_cluster \in Cluster
  BY AtRest DEF Copy
<1>2. UNCHANGED <<fat, current_dir_cluster, lost>>
  BY DEF Copy
<1>3. PICK p \in Find(current_dir_cluster, s), t \in TargetDir(d) :
        LET k == [Idle EXCEPT !.data = Content(CellAt(p)), !.dir = t, !.name = n]
        IN /\ CellAt(p).size > 0
           /\ IF Replaced(d, n) = {}
              THEN /\ call' = [k EXCEPT !.pc = "take"]
                   /\ UNCHANGED <<disk, suspect>>
              ELSE \E q \in Replaced(d, n) : Strike(q, k)
  BY DEF Copy
<1> DEFINE data == Content(CellAt(p))
           k == [Idle EXCEPT !.data = data, !.dir = t, !.name = n]
<1>4. p \in Listed(disk) /\ CellAt(p).is = "file" /\ CellAt(p) = At(disk, p)
  BY <1>1, <1>3, FoundIs, DotNames DEF Live
<1>5. data \in Seq(DataCell) /\ data # <<>>
  <2>1. data \in Seq(DataCell) /\ Len(data) = CellAt(p).size
    BY <1>1, <1>4, ContentIs
  <2>2. data # <<>>
    BY <1>3, <2>1, EmptySeq
  <2>3. QED
    BY <2>1, <2>2
<1>6. t \in Dirs(disk) /\ t \in Cluster
  <2>1. t \in Dirs(disk)
    <3>1. CASE d = Here
      BY <1>1, <3>1 DEF TargetDir
    <3>2. CASE d # Here
      <4>1. PICK q \in Find(current_dir_cluster, d) :
              CellAt(q).is = "dir" /\ t = IF CellAt(q).first = 0 THEN 2 ELSE CellAt(q).first
        BY <3>2 DEF TargetDir
      <4>2. QED
        BY <1>1, <4>1, FoundIs
    <3>3. QED
      BY <3>1, <3>2
  <2>2. QED
    BY <1>1, <2>1, DirOff
<1> HIDE DEF data
<1>7. /\ k \in Call /\ k.data = data /\ k.dir = t /\ k.pc = "idle"
      /\ k.first = 0 /\ k.prev = 0 /\ k.done = 0
  <2>1. 0 \in 0 .. LastCluster /\ 0 \in Nat
    BY Numbers
  <2>2. k \in Call
    BY <1>5, <1>6, <2>1 DEF Idle, Call
  <2>3. QED
    BY <2>2 DEF Idle
<1>8. k.done <= Len(k.data)
  BY <1>5, <1>7, LenProperties
<1>9. CASE Replaced(d, n) = {}
  <2>1. call' = [k EXCEPT !.pc = "take"] /\ UNCHANGED <<disk, suspect>>
    BY <1>3, <1>9 DEF data
  <2> HIDE DEF k
  <2>2. call' = Freeing(k, EOC)
    BY <1>5, <1>7, <2>1, Numbers DEF Freeing
  <2>3. AllClean(fat, disk, EOC)
    BY ChainNone, Numbers DEF AllClean
  <2>4. /\ Working(fat, disk, Freeing(k, EOC))
        /\ HandOf(Freeing(k, EOC)) = IF EOC \in Cluster THEN EOC ELSE 0
        /\ Unmarked(Freeing(k, EOC)) = <<0, 0>>
    BY <1>6, <1>7, <1>8, <2>3, FreeingWorks
  <2>5. CallTyped(Freeing(k, EOC))
    BY <1>6, <1>7, <1>8, FreeingTyped
  <2>6. TypeInv'
    BY <1>1, <1>2, <2>1, <2>2, <2>5 DEF TypeInv
  <2>7. SoundInv'
    BY <1>1, <1>2, <2>1, <2>2, <2>4, Numbers DEF SoundInv, Sound
  <2>8. QED
    BY <2>6, <2>7 DEF IInv
<1>10. CASE Replaced(d, n) # {}
  <2>1. PICK q \in Replaced(d, n) : Strike(q, k)
    BY <1>3, <1>10 DEF data
  <2>2. q \in Find(current_dir_cluster, n)
    BY DEF Replaced
  <2> HIDE DEF k
  <2>3. k.data # <<>> => k.dir \in Cluster /\ k.dir \in Dirs(disk)
    BY <1>6, <1>7
  <2>4. QED
    BY <1>1, <1>2, <1>7, <1>8, <2>1, <2>2, <2>3, StrikeKeeps
<1>11. QED
  BY <1>9, <1>10

LEMMA TakeKeeps == ASSUME IInv, Take PROVE IInv'
<1>1. PICK c \in FindFree :
        /\ fat' = IF call.prev = 0 THEN fat ELSE [fat EXCEPT ![call.prev] = c]
        /\ call' = [call EXCEPT !.pc = "fill", !.cur = c,
                                !.first = IF @ = 0 THEN c ELSE @]
  BY DEF Take
<1>2. /\ TypeInv /\ call.pc = "take" /\ UNCHANGED <<disk, current_dir_cluster, suspect, lost>>
  BY DEF Take, IInv
<1>3. c \in Cluster /\ fat[c] = 0 /\ c \in 0 .. LastCluster /\ c # 0
  BY FreeIs
<1>4. /\ fat \in Tables /\ call \in Call /\ call.done <= Len(call.data) /\ call.dir \in Cluster
      /\ call.prev \in 0 .. LastCluster
  BY <1>2 DEF TypeInv, CallTyped, Call
<1> DEFINE f == IF call.first = 0 THEN c ELSE call.first
<1>5. f \in 0 .. LastCluster
  BY <1>3, <1>4 DEF Call
<1>6. /\ call' \in Call /\ call'.pc = "fill" /\ call'.cur = c /\ call'.first = f
      /\ call'.data = call.data /\ call'.done = call.done /\ call'.dir = call.dir
  <2>1. call' = [call EXCEPT !.pc = "fill", !.cur = c, !.first = f]
    BY <1>1
  <2> HIDE DEF f
  <2>2. QED
    BY <1>3, <1>4, <1>5, <2>1 DEF Call
<1>7. fat' \in Tables
  <2>1. c \in 0 .. EOC
    BY <1>3, Numbers DEF EOC
  <2>2. QED
    BY <1>1, <1>4, <2>1 DEF Tables
<1>8. TypeInv'
  <2>1. CallTyped(call')
    BY <1>3, <1>4, <1>6 DEF CallTyped
  <2>2. QED
    BY <1>2, <1>7, <2>1 DEF TypeInv
<1>9. SoundInv'
  <2> SUFFICES ASSUME ~suspect'
               PROVE  Sound(fat', disk', current_dir_cluster', call', lost')
    BY DEF SoundInv
  <2>1. Sound(fat, disk, current_dir_cluster, call, lost)
    BY <1>2 DEF IInv, SoundInv
  <2>2. HandOf(call) = call.first /\ Unmarked(call) = <<0, 0>>
    BY <1>2 DEF HandOf, Unmarked
  <2> DEFINE h == call.first
             s == ChainIn(fat, h)
  <2>3. /\ Volume(fat, disk, h, <<0, 0>>) /\ Copying(fat, disk, call)
        /\ current_dir_cluster \in Dirs(disk)
        /\ (~lost => Kept(fat, Starts(disk, h)))
    BY <2>1, <2>2 DEF Sound, Working
  <2>4. /\ call.data # <<>> /\ call.dir \in Dirs(disk) /\ AllClean(fat, disk, h)
        /\ call.done = Len(s) * Cells
        /\ \/ h = 0 /\ call.prev = 0
           \/ h \in Cluster /\ call.prev = Last(s) /\ fat[Last(s)] = EOC
    BY <1>2, <2>3 DEF Copying
  <2>5. /\ Volume(fat', disk, f, <<0, 0>>)
        /\ Last(ChainIn(fat', f)) = c /\ Len(ChainIn(fat', f)) = Len(s) + 1
        /\ AllClean(fat', disk, f) /\ f \in Cluster
        /\ (Kept(fat, Starts(disk, h)) => Kept(fat', Starts(disk, f)))
        /\ Len(s) \in Nat
    <3>1. CASE h = 0
      <4>1. fat' = fat /\ f = c /\ h \notin Cluster
        BY <1>1, <1>3, <2>4, <3>1, Numbers
      <4>2. Len(s) = 0
        BY <4>1, ChainNone
      <4>3. fat[c] \notin Cluster
        BY <1>3, Numbers
      <4>4. /\ Volume(fat, disk, c, <<0, 0>>)
            /\ ToSet(ChainIn(fat, c)) = {c} /\ Len(ChainIn(fat, c)) = 1
            /\ Last(ChainIn(fat, c)) = c /\ Clean(disk, c)
            /\ Kept(fat, Starts(disk, h)) => Kept(fat, Starts(disk, c))
        BY <1>3, <1>4, <2>3, <4>1, <4>3, VolumeNew
      <4>5. AllClean(fat, disk, c)
        BY <4>4 DEF AllClean
      <4> HIDE DEF s, f, h
      <4>6. QED
        BY <1>3, <4>1, <4>2, <4>4, <4>5
    <3>2. CASE h # 0
      <4>1. h \in Cluster /\ f = h /\ call.prev = Last(s) /\ fat[Last(s)] = EOC
        BY <2>4, <3>2
      <4>2. h \in Starts(disk, h) /\ Apart(fat, Starts(disk, h))
        BY <2>3, <4>1, StartsApart
      <4>3. Last(s) \in Cluster /\ Last(s) # 0
        BY <4>2, ChainFacts, Numbers
      <4>4. fat' = [fat EXCEPT ![Last(s)] = c]
        BY <1>1, <4>1, <4>3
      <4>5. fat'[Last(s)] = c /\ \A z \in Cluster : z # Last(s) => fat'[z] = fat[z]
        BY <1>4, <4>3, <4>4, Numbers DEF Tables
      <4>6. \A p \in Listed(disk) : p # <<0, 0>> => At(disk, p).first # h
        BY <2>3, <4>1 DEF Volume, OwnFirst
      <4>7. fat[Last(ChainIn(fat, h))] # 0
        BY <4>1, Numbers
      <4>8. /\ Volume(fat', disk, h, <<0, 0>>)
            /\ ToSet(ChainIn(fat', h)) = ToSet(s) \cup {c}
            /\ Len(ChainIn(fat', h)) = Len(s) + 1 /\ Last(ChainIn(fat', h)) = c
            /\ Len(s) \in Nat
            /\ Clean(disk, c)
            /\ Kept(fat, Starts(disk, h)) => Kept(fat', Starts(disk, h))
        <5> DEFINE l == Last(s)
        <5>1. /\ Volume(fat, disk, h, <<0, 0>>) /\ h \in Starts(disk, h)
              /\ c \in Cluster /\ fat[c] = 0 /\ fat' \in Tables
              /\ fat[Last(ChainIn(fat, h))] # 0
          BY <1>3, <1>7, <2>3, <4>2, <4>7
        <5>2. l = Last(ChainIn(fat, h)) /\ fat'[l] = c
          BY <4>5
        <5>3. \A z \in Cluster : z # l => fat'[z] = fat[z]
          BY <4>5
        <5> HIDE DEF l, h
        <5>4. QED
          BY ONLY <4>6, <5>1, <5>2, <5>3, VolumeGrow, SMTT(60)
      <4>9. AllClean(fat', disk, h)
        BY <2>4, <4>8 DEF AllClean
      <4> HIDE DEF s, f, h
      <4>10. QED
        BY <4>1, <4>8, <4>9
    <3>3. QED
      BY <3>1, <3>2
  <2>6. call'.done + Cells = Len(ChainIn(fat', f)) * Cells
    <3> DEFINE m == Len(s)
    <3>1. m \in Nat /\ call.done = m * Cells /\ call.done \in Nat
      BY <1>4, <2>4, <2>5 DEF Call
    <3>2. call'.done = call.done /\ Len(ChainIn(fat', f)) = m + 1
      BY <1>6, <2>5
    <3> HIDE DEF m, f
    <3>3. (m + 1) * Cells = m * Cells + Cells /\ m * Cells \in Nat
      BY <3>1, Numbers
    <3>4. QED
      BY <3>1, <3>2, <3>3, Numbers
  <2> HIDE DEF f, h, s
  <2>7. Working(fat', disk, call')
    <3>1. Copying(fat', disk, call')
      BY <1>6, <2>4, <2>5, <2>6 DEF Copying
    <3>2. Removing(fat', disk, call') /\ Entering(fat', disk, call') /\ Appending(fat', disk, call')
      BY <1>6 DEF Removing, Entering, Appending
    <3>3. QED
      BY <3>1, <3>2 DEF Working
  <2>8. HandOf(call') = f /\ Unmarked(call') = <<0, 0>>
    BY <1>6 DEF HandOf, Unmarked
  <2>9. QED
    BY <1>2, <2>3, <2>5, <2>7, <2>8 DEF Sound
<1>10. QED
  BY <1>8, <1>9 DEF IInv

\* A call that ends without having written anything leaves the volume sound.
LEMMA StopKeeps ==
  ASSUME IInv, call.pc # "free", call.pc # "mark",
         call' = Idle, UNCHANGED <<fat, disk, current_dir_cluster, suspect>>,
         lost' \in BOOLEAN, call.first \in Cluster \/ lost => lost'
  PROVE  IInv'
<1>1. TypeInv'
  BY IdleTyped DEF IInv, TypeInv
<1>2. SoundInv'
  <2> SUFFICES ASSUME ~suspect'
               PROVE  Sound(fat', disk', current_dir_cluster', call', lost')
    BY DEF SoundInv
  <2>1. Sound(fat, disk, current_dir_cluster, call, lost) /\ lost \in BOOLEAN
    BY DEF IInv, SoundInv, TypeInv
  <2>2. HandOf(call) = call.first /\ Unmarked(call) = <<0, 0>>
    BY DEF HandOf, Unmarked
  <2>3. QED
    BY <2>1, <2>2, GivingUp DEF Sound
<1>3. QED
  BY <1>1, <1>2 DEF IInv

LEMMA TakeFailsKeeps == ASSUME IInv, TakeFails PROVE IInv'
<1>1. /\ call.pc = "take" /\ call' = Idle /\ lost' = (lost \/ call.first # 0)
      /\ UNCHANGED <<fat, disk, current_dir_cluster, suspect>> /\ lost \in BOOLEAN
  BY DEF TakeFails, IInv, TypeInv
<1>2. call.first \in Cluster \/ lost => lost'
  BY <1>1, Numbers
<1>3. QED
  BY <1>1, <1>2, StopKeeps

LEMMA EnterFailsKeeps == ASSUME IInv, EnterFails PROVE IInv'
BY StopKeeps DEF EnterFails

LEMMA DotsFailKeeps == ASSUME IInv, DotsFail PROVE IInv'
BY StopKeeps DEF DotsFail

LEMMA FillKeeps == ASSUME IInv, Fill PROVE IInv'
<1> DEFINE c == call.cur
           h == call.first
           s == ChainIn(fat, h)
           row == Filled(call.data, call.done)
<1>1. /\ TypeInv /\ call.pc = "fill" /\ disk' = [disk EXCEPT ![c] = row]
      /\ call' = [call EXCEPT !.pc = "close"]
      /\ UNCHANGED <<fat, current_dir_cluster, suspect, lost>>
  BY DEF Fill, IInv
<1>2. /\ disk \in Disks /\ call \in Call /\ call.done <= Len(call.data)
      /\ call.dir \in Cluster /\ c \in Cluster
  BY <1>1 DEF TypeInv, CallTyped
<1>3. row \in [Row -> DataCell]
  BY <1>2, FilledIs DEF Call
<1> HIDE DEF row
<1>4. row \in [Row -> Cell]
  BY <1>3, CellKinds
<1>5. /\ disk' \in Disks /\ disk'[c] = row
      /\ \A b \in Cluster : b # c => disk'[b] = disk[b]
  BY <1>1, <1>2, <1>4 DEF Disks
<1>6. /\ call' \in Call /\ call'.pc = "close" /\ call'.data = call.data
      /\ call'.done = call.done /\ call'.dir = call.dir /\ call'.cur = c /\ call'.first = h
  BY <1>1, <1>2 DEF Call
<1>7. TypeInv'
  <2>1. CallTyped(call')
    BY <1>2, <1>6 DEF CallTyped
  <2>2. QED
    BY <1>1, <1>5, <2>1 DEF TypeInv
<1>8. SoundInv'
  <2> SUFFICES ASSUME ~suspect'
               PROVE  Sound(fat', disk', current_dir_cluster', call', lost')
    BY DEF SoundInv
  <2>1. Sound(fat, disk, current_dir_cluster, call, lost)
    BY <1>1 DEF IInv, SoundInv
  <2>2. /\ HandOf(call) = h /\ Unmarked(call) = <<0, 0>>
        /\ HandOf(call') = h /\ Unmarked(call') = <<0, 0>>
    BY <1>1, <1>6 DEF HandOf, Unmarked
  <2>3. /\ Volume(fat, disk, h, <<0, 0>>) /\ Copying(fat, disk, call)
        /\ current_dir_cluster \in Dirs(disk)
        /\ (~lost => Kept(fat, Starts(disk, h)))
    BY <2>1, <2>2 DEF Sound, Working
  <2>4. /\ call.data # <<>> /\ call.dir \in Dirs(disk) /\ AllClean(fat, disk, h)
        /\ h \in Cluster /\ c = Last(s) /\ call.done + Cells = Len(s) * Cells
    BY <1>1, <2>3 DEF Copying
  <2>5. h \in Starts(disk, h) /\ Apart(fat, Starts(disk, h))
    BY <2>3, <2>4, StartsApart
  <2>6. c \in ToSet(s) /\ ToSet(s) \subseteq Cluster
    BY <2>4, <2>5, ChainFacts
  <2>7. c \notin Dirs(disk)
    BY <2>3, <2>6, DirOff
  <2>8. Clean(disk', c)
    BY <1>3, <1>5 DEF Clean
  <2>9. \A i \in Row : Live(disk'[c][i]) => disk'[c][i].name \in Dots
    BY <2>8, CleanCells
  <2>10. /\ Volume(fat, disk', h, <<0, 0>>) /\ Dirs(disk') = Dirs(disk)
         /\ \A g : Starts(disk', g) = Starts(disk, g)
    <3> HIDE DEF c, h
    <3>1. QED
      BY <1>2, <1>5, <2>3, <2>7, <2>8, <2>9, VolumeRow
  <2>11. AllClean(fat, disk', h)
    BY <1>5, <2>4, <2>6, <2>8 DEF AllClean, Clean
  <2>12. Working(fat, disk', call')
    <3>1. Copying(fat, disk', call')
      BY <1>6, <2>4, <2>10, <2>11 DEF Copying
    <3>2. Removing(fat, disk', call') /\ Entering(fat, disk', call') /\ Appending(fat, disk', call')
      BY <1>6 DEF Removing, Entering, Appending
    <3>3. QED
      BY <3>1, <3>2 DEF Working
  <2>13. QED
    BY <1>1, <2>2, <2>3, <2>10, <2>12 DEF Sound
<1>9. QED
  BY <1>7, <1>8 DEF IInv

LEMMA CloseKeeps == ASSUME IInv, Close PROVE IInv'
<1> DEFINE c == call.cur
           h == call.first
           s == ChainIn(fat, h)
           to == IF Progress < Len(call.data) THEN "take" ELSE "enter"
<1>1. /\ TypeInv /\ call.pc = "close" /\ fat' = [fat EXCEPT ![c] = EOC]
      /\ call' = [call EXCEPT !.pc = to, !.done = Progress, !.prev = c]
      /\ UNCHANGED <<disk, current_dir_cluster, suspect, lost>>
  BY DEF Close, IInv
<1>2. /\ fat \in Tables /\ call \in Call /\ call.done <= Len(call.data)
      /\ call.dir \in Cluster /\ c \in Cluster /\ c \in 0 .. LastCluster
  BY <1>1, Numbers DEF TypeInv, CallTyped
<1>3. /\ call.done \in Nat /\ Len(call.data) \in Nat /\ Progress \in Nat
      /\ Progress = IF call.done + Cells <= Len(call.data) THEN call.done + Cells
                                                           ELSE Len(call.data)
  BY <1>2, ProgressIs
<1>4. Progress <= Len(call.data)
  BY <1>3
<1>5. /\ fat' \in Tables /\ fat'[c] = EOC /\ \A y \in Cluster : y # c => fat'[y] = fat[y]
  BY <1>1, <1>2, Numbers DEF Tables
<1>6. /\ call' \in Call /\ call'.pc = to /\ call'.data = call.data
      /\ call'.done = Progress /\ call'.dir = call.dir /\ call'.first = h /\ call'.prev = c
  BY <1>1, <1>2, <1>3 DEF Call
<1>7. to \in {"take", "enter"}
  OBVIOUS
<1>8. TypeInv'
  <2>1. CallTyped(call')
    <3> HIDE DEF to
    <3>1. QED
      BY <1>2, <1>4, <1>6, <1>7 DEF CallTyped
  <2>2. QED
    BY <1>1, <1>5, <2>1 DEF TypeInv
<1>9. SoundInv'
  <2> SUFFICES ASSUME ~suspect'
               PROVE  Sound(fat', disk', current_dir_cluster', call', lost')
    BY DEF SoundInv
  <2>1. Sound(fat, disk, current_dir_cluster, call, lost)
    BY <1>1 DEF IInv, SoundInv
  <2>2. /\ HandOf(call) = h /\ Unmarked(call) = <<0, 0>>
        /\ HandOf(call') = h /\ Unmarked(call') = <<0, 0>>
    <3> HIDE DEF to
    <3>1. QED
      BY <1>1, <1>6, <1>7 DEF HandOf, Unmarked
  <2>3. /\ Volume(fat, disk, h, <<0, 0>>) /\ Copying(fat, disk, call)
        /\ current_dir_cluster \in Dirs(disk)
        /\ (~lost => Kept(fat, Starts(disk, h)))
    BY <2>1, <2>2 DEF Sound, Working
  <2>4. /\ call.data # <<>> /\ call.dir \in Dirs(disk) /\ AllClean(fat, disk, h)
        /\ h \in Cluster /\ c = Last(s) /\ call.done + Cells = Len(s) * Cells
    BY <1>1, <2>3 DEF Copying
  <2>5. h \in Starts(disk, h)
    BY <2>3, <2>4, StartsApart
  <2>6. /\ Volume(fat', disk, h, <<0, 0>>)
        /\ ChainIn(fat', h) = ChainIn(fat, h) /\ fat'[Last(ChainIn(fat', h))] = EOC
        /\ Len(ChainIn(fat, h)) \in Nat
        /\ Kept(fat, Starts(disk, h)) => Kept(fat', Starts(disk, h))
    <3>1. fat'[Last(ChainIn(fat, h))] = EOC
      BY <1>5, <2>4
    <3>2. \A z \in Cluster : z # Last(ChainIn(fat, h)) => fat'[z] = fat[z]
      BY <1>5, <2>4
    <3>3. \A p \in Listed(disk) : p # <<0, 0>> => p # <<0, 0>> \/ At(disk, p).first = h
      OBVIOUS
    <3> HIDE DEF h
    <3>4. QED
      BY <1>5, <2>3, <2>5, <3>1, <3>2, <3>3, VolumeEnd
  <2>7. AllClean(fat', disk, h)
    BY <2>4, <2>6 DEF AllClean
  <2>8. Len(ChainIn(fat', h)) = Len(s) /\ Len(s) * Cells \in Nat
    BY <2>6, Numbers
  <2>9. Working(fat', disk, call')
    <3>1. CASE Progress < Len(call.data)
      <4>1. to = "take" /\ call'.done = Len(ChainIn(fat', h)) * Cells
        BY <1>3, <1>6, <2>4, <2>8, <3>1
      <4> HIDE DEF to
      <4>2. Copying(fat', disk, call')
        BY <1>6, <2>4, <2>6, <2>7, <4>1 DEF Copying
      <4>3. Removing(fat', disk, call') /\ Entering(fat', disk, call') /\ Appending(fat', disk, call')
        BY <1>6, <4>1 DEF Removing, Entering, Appending
      <4>4. QED
        BY <4>2, <4>3 DEF Working
    <3>2. CASE ~(Progress < Len(call.data))
      <4>1. to = "enter" /\ Len(call.data) <= Len(ChainIn(fat', h)) * Cells
        BY <1>3, <2>4, <2>8, <3>2, Numbers
      <4> HIDE DEF to
      <4>2. Entering(fat', disk, call')
        BY <1>6, <2>4, <2>6, <2>7, <4>1 DEF Entering
      <4>3. Removing(fat', disk, call') /\ Copying(fat', disk, call') /\ Appending(fat', disk, call')
        BY <1>6, <4>1 DEF Removing, Copying, Appending
      <4>4. QED
        BY <4>2, <4>3 DEF Working
    <3>3. QED
      BY <3>1, <3>2
  <2>10. QED
    BY <1>1, <2>2, <2>3, <2>6, <2>9 DEF Sound
<1>10. QED
  BY <1>8, <1>9 DEF IInv

LEMMA EnterKeeps == ASSUME IInv, Enter PROVE IInv'
<1> DEFINE h == call.first
           s == ChainIn(fat, h)
           e == NewEntry
<1>1. PICK p \in Slot(call.dir) : disk' = Put(p, e)
  BY DEF Enter
<1>2. /\ TypeInv /\ call.pc = "enter" /\ call' = Idle
      /\ UNCHANGED <<fat, current_dir_cluster, suspect, lost>>
  BY DEF Enter, IInv
<1>3. /\ disk \in Disks /\ call \in Call /\ call.dir \in Cluster
      /\ h \in 0 .. LastCluster /\ Len(call.data) \in Nat
      /\ call.name \in Names \cup {""}
  <2>1. call.data \in Seq(DataCell)
    BY <1>2 DEF TypeInv, CallTyped, Call
  <2>2. QED
    BY <1>2, <2>1, LenProperties DEF TypeInv, CallTyped, Call
<1>4. p \in Place /\ p[1] = call.dir /\ ~Live(At(disk, p))
  BY <1>1, <1>3, SlotIs
<1>5. /\ e \in Cell /\ Live(e) /\ e.name = call.name /\ e.first = h
      /\ call.data = <<>> => e.is = "dir" /\ e.size = 0
      /\ call.data # <<>> => e.is = "file" /\ e.size = Len(call.data)
  <2>1. CASE call.data = <<>>
    <3>1. e = Entry("dir", call.name, h, 0)
      BY <2>1 DEF NewEntry
    <3>2. /\ e \in Cell /\ Live(e) /\ e.is = "dir" /\ e.name = call.name
          /\ e.first = h /\ e.size = 0
      <4> DEFINE x == Entry("dir", call.name, h, 0)
      <4>1. call.name \in Names \cup Dots \cup {""} /\ 0 \in Nat
        BY <1>3
      <4>2. /\ x \in Cell /\ Live(x) /\ x.is = "dir" /\ x.name = call.name
            /\ x.first = h /\ x.size = 0
        BY <1>3, <4>1 DEF Entry, Cell, Live
      <4> HIDE DEF x
      <4>3. QED
        BY <3>1, <4>2 DEF x
    <3>3. QED
      BY <2>1, <3>2
  <2>2. CASE call.data # <<>>
    <3>1. e = Entry("file", call.name, h, Len(call.data))
      BY <2>2 DEF NewEntry
    <3>2. /\ e \in Cell /\ Live(e) /\ e.is = "file" /\ e.name = call.name
          /\ e.first = h /\ e.size = Len(call.data)
      <4> DEFINE x == Entry("file", call.name, h, Len(call.data))
      <4>1. call.name \in Names \cup Dots \cup {""}
        BY <1>3
      <4>2. /\ x \in Cell /\ Live(x) /\ x.is = "file" /\ x.name = call.name
            /\ x.first = h /\ x.size = Len(call.data)
        BY <1>3, <4>1 DEF Entry, Cell, Live
      <4> HIDE DEF x
      <4>3. QED
        BY <3>1, <4>2 DEF x
    <3>3. QED
      BY <2>2, <3>2
  <2>3. QED
    BY <2>1, <2>2
<1> HIDE DEF e
<1>6. /\ disk' \in Disks /\ At(disk', p) = e
      /\ \A q \in Place : q # p => At(disk', q) = At(disk, q)
  BY <1>1, <1>3, <1>4, <1>5, PutIs
<1>7. TypeInv'
  BY <1>2, <1>6, IdleTyped DEF TypeInv
<1>8. SoundInv'
  <2> SUFFICES ASSUME ~suspect'
               PROVE  Sound(fat', disk', current_dir_cluster', call', lost')
    BY DEF SoundInv
  <2>1. Sound(fat, disk, current_dir_cluster, call, lost)
    BY <1>2 DEF IInv, SoundInv
  <2>2. HandOf(call) = h /\ Unmarked(call) = <<0, 0>>
    BY <1>2 DEF HandOf, Unmarked
  <2>3. /\ Volume(fat, disk, h, <<0, 0>>) /\ Entering(fat, disk, call)
        /\ current_dir_cluster \in Dirs(disk)
        /\ (~lost => Kept(fat, Starts(disk, h)))
    BY <2>1, <2>2 DEF Sound, Working
  <2>4. /\ h \in Cluster /\ call.dir \in Dirs(disk) /\ fat[Last(s)] = EOC
        /\ call.data = <<>> => /\ Dotted(disk, h, call.dir)
                               /\ \A i \in Row : Live(disk[h][i]) => i \in {0, 1}
        /\ call.data # <<>> => AllClean(fat, disk, h) /\ Len(call.data) <= Len(s) * Cells
    BY <1>2, <2>3 DEF Entering
  <2>5. e.size <= Len(s) * Cells
    <3>1. h \in Starts(disk, h) /\ Apart(fat, Starts(disk, h))
      BY <2>3, <2>4, StartsApart
    <3>2. Len(s) \in Nat
      BY <3>1, ChainFacts
    <3>3. Len(s) * Cells \in Nat
      BY <3>2, Numbers
    <3>4. QED
      BY <1>5, <2>4, <3>3
  <2>6. e.name \notin Dots
    <3>1. "" \notin Dots
      BY DEF Dots
    <3>2. QED
      BY <1>3, <1>5, <3>1, DotNames
  <2>7. e.is = "file" => \A c \in ToSet(s) : Clean(disk, c)
    BY <1>5, <2>4 DEF AllClean
  <2>8. e.is = "dir" => /\ e.size = 0 /\ Dotted(disk, h, p[1])
                        /\ \A i \in Row : Live(disk[h][i]) => i \in {0, 1}
    BY <1>4, <1>5, <2>4
  <2>9. <<0, 0>> \notin Listed(disk) /\ 0 \notin Cluster
    BY NoPlace, Numbers
  <2>10. /\ Volume(fat, disk', 0, <<0, 0>>)
         /\ Starts(disk', 0) = Starts(disk, h)
         /\ Dirs(disk) \subseteq Dirs(disk')
    <3>1. /\ Live(At(disk', p)) /\ At(disk', p).name \notin Dots /\ At(disk', p).first = h
          /\ At(disk', p).size <= Len(ChainIn(fat, h)) * Cells
          /\ At(disk', p).is = "file" => \A c \in ToSet(ChainIn(fat, h)) : Clean(disk, c)
          /\ At(disk', p).is = "dir" =>
               /\ At(disk', p).size = 0 /\ Dotted(disk, h, p[1])
               /\ \A i \in Row : Live(disk[h][i]) => i \in {0, 1}
      BY <1>5, <1>6, <2>5, <2>6, <2>7, <2>8
    <3>2. fat[Last(ChainIn(fat, h))] = EOC /\ p[1] \in Dirs(disk)
      BY <1>4, <2>4
    <3> HIDE DEF h
    <3>3. QED
      BY <1>4, <1>6, <2>3, <2>4, <2>9, <3>1, <3>2, VolumeAdd
  <2>11. QED
    BY <1>2, <2>3, <2>10, IdleWorks DEF Sound
<1>9. QED
  BY <1>7, <1>8 DEF IInv

-----------------------------------------------------------------------------
\* Directories

LEMMA MakeDirKeeps == ASSUME IInv, NEW n \in Names, MakeDir(n) PROVE IInv'
<1>1. PICK c \in FindFree :
        /\ fat' = [fat EXCEPT ![c] = EOC]
        /\ call' = [Idle EXCEPT !.pc = "dots", !.dir = current_dir_cluster,
                                !.name = n, !.first = c]
  BY DEF MakeDir
<1>2. /\ Begin /\ TypeInv /\ ~suspect /\ disk \in Disks
      /\ Volume(fat, disk, 0, <<0, 0>>) /\ current_dir_cluster \in Dirs(disk)
      /\ (~lost => Kept(fat, Starts(disk, 0))) /\ current_dir_cluster \in Cluster
  BY AtRest DEF MakeDir
<1>3. UNCHANGED <<disk, current_dir_cluster, suspect, lost>>
  BY DEF MakeDir
<1>4. c \in Cluster /\ fat[c] = 0 /\ c \in 0 .. LastCluster /\ fat \in Tables
  BY <1>2, FreeIs DEF TypeInv
<1>5. /\ fat' \in Tables /\ fat'[c] = EOC /\ \A y \in Cluster : y # c => fat'[y] = fat[y]
  BY <1>1, <1>4, Numbers DEF Tables
<1>6. /\ call' \in Call /\ call'.pc = "dots" /\ call'.data = <<>> /\ call'.done = 0
      /\ call'.dir = current_dir_cluster /\ call'.first = c
  <2>1. 0 \in 0 .. LastCluster /\ 0 \in Nat /\ <<>> \in Seq(DataCell)
    BY Numbers, EmptySeq
  <2>2. call' \in Call
    BY <1>1, <1>2, <1>4, <2>1 DEF Idle, Call
  <2>3. QED
    BY <1>1, <2>2 DEF Idle
<1>7. TypeInv'
  <2>1. call'.done <= Len(call'.data)
    BY <1>6, EmptySeq
  <2>2. CallTyped(call')
    BY <1>2, <1>4, <1>6, <2>1 DEF CallTyped
  <2>3. QED
    BY <1>2, <1>3, <1>5, <2>2 DEF TypeInv
<1>8. SoundInv'
  <2>1. HandOf(call') = c /\ Unmarked(call') = <<0, 0>>
    BY <1>6 DEF HandOf, Unmarked
  <2>2. /\ Volume(fat', disk, c, <<0, 0>>)
        /\ Last(ChainIn(fat', c)) = c
        /\ Kept(fat, Starts(disk, 0)) => Kept(fat', Starts(disk, c))
    <3>1. 0 \notin Cluster /\ fat'[c] \notin Cluster
      BY <1>5, Numbers
    <3>2. QED
      BY <1>2, <1>4, <1>5, <3>1, VolumeNew
  <2>3. Working(fat', disk, call')
    <3>1. Entering(fat', disk, call')
      BY <1>2, <1>4, <1>5, <1>6, <2>2 DEF Entering
    <3>2. Removing(fat', disk, call') /\ Copying(fat', disk, call') /\ Appending(fat', disk, call')
      BY <1>6 DEF Removing, Copying, Appending
    <3>3. QED
      BY <3>1, <3>2 DEF Working
  <2>4. QED
    BY <1>2, <1>3, <2>1, <2>2, <2>3 DEF SoundInv, Sound
<1>9. QED
  BY <1>7, <1>8 DEF IInv

LEMMA WriteDotsKeeps == ASSUME IInv, WriteDots PROVE IInv'
<1> DEFINE c == call.first
           d == call.dir
           row == [i \in Row |->
                     CASE i = 0 -> Entry("dir", ".", c, 0)
                       [] i = 1 -> Entry("dir", "..", ParentOf(d, c), 0)
                       [] OTHER -> Zero]
<1>1. /\ TypeInv /\ call.pc = "dots" /\ disk' = [disk EXCEPT ![c] = row]
      /\ call' = [call EXCEPT !.pc = "enter"]
      /\ UNCHANGED <<fat, current_dir_cluster, suspect, lost>>
  BY DEF WriteDots, IInv
<1>2. /\ disk \in Disks /\ call \in Call /\ call.done <= Len(call.data)
      /\ d \in Cluster /\ c \in Cluster
  BY <1>1 DEF TypeInv, CallTyped
<1>3. c \in 0 .. LastCluster /\ ParentOf(d, c) \in 0 .. LastCluster
  <2>1. 0 \in 0 .. LastCluster /\ Cluster \subseteq 0 .. LastCluster
    BY Numbers
  <2>2. QED
    BY <1>2, <2>1 DEF ParentOf
<1>4. /\ row[0] = Entry("dir", ".", c, 0)
      /\ row[1] = Entry("dir", "..", ParentOf(d, c), 0)
      /\ \A i \in Row : i \notin {0, 1} => row[i] = Zero
  <2>1. 0 \in Row /\ 1 \in Row
    BY Places
  <2>2. QED
    BY <2>1
<1>5. row \in [Row -> Cell]
  <2>1. /\ Entry("dir", ".", c, 0) \in Cell
        /\ Entry("dir", "..", ParentOf(d, c), 0) \in Cell
    BY <1>3, DotNames, EntryCell
  <2>2. \A i \in Row : row[i] \in Cell
    BY <1>4, <2>1, CellKinds
  <2>3. row = [i \in Row |-> row[i]]
    OBVIOUS
  <2> HIDE DEF row
  <2>4. QED
    BY <2>2, <2>3
<1> HIDE DEF row
<1>6. /\ disk' \in Disks /\ disk'[c] = row
      /\ \A b \in Cluster : b # c => disk'[b] = disk[b]
  BY <1>1, <1>2, <1>5 DEF Disks
<1>7. /\ call' \in Call /\ call'.pc = "enter" /\ call'.data = call.data
      /\ call'.done = call.done /\ call'.dir = d /\ call'.first = c
  BY <1>1, <1>2 DEF Call
<1>8. TypeInv'
  <2>1. CallTyped(call')
    BY <1>2, <1>7 DEF CallTyped
  <2>2. QED
    BY <1>1, <1>6, <2>1 DEF TypeInv
<1>9. SoundInv'
  <2> SUFFICES ASSUME ~suspect'
               PROVE  Sound(fat', disk', current_dir_cluster', call', lost')
    BY DEF SoundInv
  <2>1. Sound(fat, disk, current_dir_cluster, call, lost)
    BY <1>1 DEF IInv, SoundInv
  <2>2. /\ HandOf(call) = c /\ Unmarked(call) = <<0, 0>>
        /\ HandOf(call') = c /\ Unmarked(call') = <<0, 0>>
    BY <1>1, <1>7 DEF HandOf, Unmarked
  <2>3. /\ Volume(fat, disk, c, <<0, 0>>) /\ Entering(fat, disk, call)
        /\ current_dir_cluster \in Dirs(disk)
        /\ (~lost => Kept(fat, Starts(disk, c)))
    BY <2>1, <2>2 DEF Sound, Working
  <2>4. d \in Dirs(disk) /\ fat[Last(ChainIn(fat, c))] = EOC /\ call.data = <<>>
    BY <1>1, <2>3 DEF Entering
  <2>5. c \in Starts(disk, c) /\ Apart(fat, Starts(disk, c)) /\ OwnFirst(disk, c)
    BY <1>2, <2>3, StartsApart DEF Volume
  <2>6. c \in ToSet(ChainIn(fat, c))
    BY <2>5, ChainFacts
  <2>7. c \notin Dirs(disk)
    BY <2>3, DirOff
  <2>8. fat[c] # 0
    <3>1. c = Last(ChainIn(fat, c)) \/ fat[c] \in Cluster
      BY <2>5, <2>6, ChainFacts
    <3>2. QED
      BY <2>4, <3>1, Numbers
  <2>9. \A p \in Listed(disk) : c \notin ToSet(ChainIn(fat, At(disk, p).first))
    <3> SUFFICES ASSUME NEW p \in Listed(disk) PROVE c \notin ToSet(ChainIn(fat, At(disk, p).first))
      OBVIOUS
    <3>1. CASE At(disk, p).first \in Cluster
      <4>1. At(disk, p).first \in Starts(disk, c) /\ At(disk, p).first # c
        BY <2>3, <2>5, <3>1, StartsApart DEF OwnFirst
      <4>2. QED
        BY <2>5, <2>6, <4>1 DEF Apart
    <3>2. CASE At(disk, p).first \notin Cluster
      BY <3>2, ChainNone
    <3>3. QED
      BY <3>1, <3>2
  <2>10. \A i \in Row : Live(disk'[c][i]) => i \in {0, 1} /\ disk'[c][i].name \in Dots
    <3> SUFFICES ASSUME NEW i \in Row, Live(row[i]) PROVE i \in {0, 1} /\ row[i].name \in Dots
      BY <1>6
    <3>1. i \in {0, 1}
      BY <1>4, CellKinds
    <3>2. row[i].name \in Dots
      BY <1>4, <3>1, DotNames DEF Entry
    <3>3. QED
      BY <3>1, <3>2
  <2>11. /\ Volume(fat, disk', c, <<0, 0>>) /\ Dirs(disk') = Dirs(disk)
         /\ \A g : Starts(disk', g) = Starts(disk, g)
    <3> HIDE DEF c
    <3>1. QED
      BY <1>2, <1>6, <2>3, <2>7, <2>8, <2>9, <2>10, VolumeRow
  <2>12. Dotted(disk', c, d)
    BY <1>4, <1>6 DEF Dotted
  <2>13. Working(fat, disk', call')
    <3>1. Entering(fat, disk', call')
      BY <1>2, <1>7, <2>4, <2>10, <2>11, <2>12 DEF Entering
    <3>2. Removing(fat, disk', call') /\ Copying(fat, disk', call') /\ Appending(fat, disk', call')
      BY <1>7 DEF Removing, Copying, Appending
    <3>3. QED
      BY <3>1, <3>2 DEF Working
  <2>14. QED
    BY <1>1, <2>2, <2>3, <2>11, <2>13 DEF Sound
<1>10. QED
  BY <1>8, <1>9 DEF IInv

LEMMA ChangeDirKeeps == ASSUME IInv, NEW n, ChangeDir(n) PROVE IInv'
<1>1. PICK p \in Find(current_dir_cluster, n) :
        /\ CellAt(p).is = "dir"
        /\ current_dir_cluster' = IF CellAt(p).first = 0 THEN 2 ELSE CellAt(p).first
  BY DEF ChangeDir
<1>2. Begin /\ UNCHANGED <<fat, disk, call, suspect, lost>>
  BY DEF ChangeDir
<1>3. TypeInv /\ ~suspect /\ Volume(fat, disk, 0, <<0, 0>>)
  BY <1>2, AtRest
<1>4. current_dir_cluster' \in Dirs(disk)
  BY <1>1, <1>2, FoundIs
<1>5. current_dir_cluster' \in Cluster
  BY <1>3, <1>4, DirOff
<1>6. TypeInv'
  BY <1>2, <1>3, <1>5 DEF TypeInv
<1>7. SoundInv'
  BY <1>2, <1>4 DEF IInv, SoundInv, Sound
<1>8. QED
  BY <1>6, <1>7 DEF IInv

LEMMA RenameKeeps == ASSUME IInv, NEW o, NEW n \in Names, Rename(o, n) PROVE IInv'
<1>1. PICK p \in Find(current_dir_cluster, o) :
        /\ disk' = Put(p, [CellAt(p) EXCEPT !.name = n])
        /\ Misuse(RenameMisused(CellAt(p)))
  BY DEF Rename
<1>2. Begin /\ UNCHANGED <<fat, current_dir_cluster, call, lost>>
  BY DEF Rename
<1>3. /\ TypeInv /\ call = Idle /\ ~suspect /\ disk \in Disks
      /\ Volume(fat, disk, 0, <<0, 0>>) /\ current_dir_cluster \in Dirs(disk)
      /\ (~lost => Kept(fat, Starts(disk, 0)))
  BY <1>2, AtRest
<1>4. /\ p \in Place /\ CellAt(p) = At(disk, p) /\ CellAt(p) \in Cell
      /\ CellAt(p).name = o /\ (o \notin Dots => p \in Listed(disk))
  BY <1>2, FoundIs
<1> DEFINE e == [CellAt(p) EXCEPT !.name = n]
<1>5. /\ e \in Cell /\ e.name = n /\ e.is = CellAt(p).is /\ e.first = CellAt(p).first
      /\ e.size = CellAt(p).size
  BY <1>4 DEF Cell
<1> HIDE DEF e
<1>6. /\ disk' \in Disks /\ At(disk', p) = e
      /\ \A q \in Place : q # p => At(disk', q) = At(disk, q)
  BY <1>1, <1>3, <1>4, <1>5, PutIs DEF e
<1>7. suspect' = (o \in Dots)
  BY <1>1, <1>4 DEF Misuse, RenameMisused
<1>8. TypeInv'
  <2>1. suspect' \in BOOLEAN
    BY <1>7
  <2>2. QED
    BY <1>2, <1>3, <1>6, <2>1 DEF TypeInv
<1>9. SoundInv'
  <2> SUFFICES ASSUME ~suspect'
               PROVE  Sound(fat', disk', current_dir_cluster', call', lost')
    BY DEF SoundInv
  <2>1. p \in Listed(disk)
    BY <1>4, <1>7
  <2>2. Tied(disk, p) /\ Backed(fat, disk, p)
    BY <1>3, <2>1 DEF Volume
  <2>3. /\ At(disk', p).is = At(disk, p).is /\ At(disk', p).first = At(disk, p).first
        /\ At(disk', p).name \notin Dots
        /\ At(disk', p).is = "dir" => At(disk', p).size = 0
        /\ At(disk', p).size <= Len(ChainIn(fat, At(disk, p).first)) * Cells
    BY <1>4, <1>5, <1>6, <2>2, DotNames DEF Tied, Backed
  <2>4. /\ Volume(fat, disk', 0, <<0, 0>>) /\ Dirs(disk') = Dirs(disk)
        /\ \A g : Starts(disk', g) = Starts(disk, g)
    BY <1>3, <1>6, <2>1, <2>3, VolumeEdit
  <2>5. QED
    BY <1>2, <1>3, <2>4, IdleWorks DEF Sound
<1>10. QED
  BY <1>8, <1>9 DEF IInv

-----------------------------------------------------------------------------
\* Appending

\* The room that is left in the last cluster of a file.
LEMMA RoomFits ==
  ASSUME NEW z \in Nat, NEW m \in Nat \ {0}, (m - 1) * Cells < z, z <= m * Cells
  PROVE  /\ z % Cells \in 0 .. Cells - 1
         /\ z % Cells = 0 => z = m * Cells
         /\ z % Cells # 0 => z + (Cells - (z % Cells)) = m * Cells
<1> DEFINE q == z \div Cells
           r == z % Cells
<1>1. q \in Nat /\ r \in 0 .. Cells - 1 /\ z = q * Cells + r
  BY Numbers
<1> HIDE DEF q, r
<1>2. m * Cells = (m - 1) * Cells + Cells /\ (m - 1) * Cells \in Nat /\ q * Cells \in Nat
  BY <1>1, Numbers
<1>3. ASSUME q < m - 1 PROVE FALSE
  <2>1. (q + 1) * Cells <= (m - 1) * Cells /\ (q + 1) * Cells = q * Cells + Cells
    BY <1>1, <1>3, Numbers
  <2>2. QED
    BY <1>1, <1>2, <2>1, Numbers
<1>4. ASSUME q > m PROVE FALSE
  <2>1. (m + 1) * Cells <= q * Cells /\ (m + 1) * Cells = m * Cells + Cells
    BY <1>1, <1>4, Numbers
  <2>2. QED
    BY <1>1, <1>2, <2>1, Numbers
<1>5. q = m - 1 \/ q = m
  BY <1>1, <1>3, <1>4
<1>6. q = m => r = 0 /\ z = m * Cells
  BY <1>1, <1>2, Numbers
<1>7. q = m - 1 => r # 0 /\ z + (Cells - r) = m * Cells
  BY <1>1, <1>2, Numbers
<1>8. QED
  BY <1>1, <1>5, <1>6, <1>7 DEF r

\* The call that appends: the file at which it works.
LEMMA AppendingIs ==
  ASSUME IInv, ~suspect, call.pc \in {"grow", "mark", "pour", "commit"},
         NEW p, p = call.at
  PROVE  /\ HandOf(call) = 0 /\ call.first = 0
         /\ Volume(fat, disk, 0, Unmarked(call)) /\ current_dir_cluster \in Dirs(disk)
         /\ (~lost => Kept(fat, Starts(disk, 0)))
         /\ p \in Listed(disk) /\ At(disk, p).is = "file" /\ At(disk, p).first \in Cluster
         /\ At(disk, p).size \in Nat /\ p \in Place
         /\ At(disk, p).first \in Starts(disk, 0) /\ Apart(fat, Starts(disk, 0))
         /\ Appending(fat, disk, call)
<1>1. Sound(fat, disk, current_dir_cluster, call, lost) /\ disk \in Disks
  BY DEF IInv, SoundInv, TypeInv
<1>2. Appending(fat, disk, call)
  BY <1>1 DEF Sound, Working
<1>3. /\ call.first = 0 /\ p \in Listed(disk) /\ At(disk, p).is = "file"
      /\ At(disk, p).first \in Cluster
  BY <1>2 DEF Appending
<1>4. HandOf(call) = 0
  BY <1>3 DEF HandOf
<1>5. Volume(fat, disk, 0, Unmarked(call))
  BY <1>1, <1>4 DEF Sound
<1>6. p \in Place /\ At(disk, p).size \in Nat
  BY <1>1, <1>3, Cells9 DEF Listed
<1>7. QED
  BY <1>1, <1>2, <1>3, <1>4, <1>5, <1>6, StartsApart DEF Sound

LEMMA AppendFileKeeps ==
  ASSUME IInv, NEW n, NEW data \in Inputs, AppendFile(n, data)
  PROVE  IInv'
<1>1. /\ Begin /\ TypeInv /\ call = Idle /\ ~suspect /\ disk \in Disks
      /\ Volume(fat, disk, 0, <<0, 0>>) /\ current_dir_cluster \in Dirs(disk)
      /\ (~lost => Kept(fat, Starts(disk, 0)))
      /\ UNCHANGED <<fat, current_dir_cluster, lost>>
  BY AtRest DEF AppendFile
<1>2. PICK p \in Find(current_dir_cluster, n) :
       LET e    == CellAt(p)
           pos  == e.size % Cells
           tail == ChainEnd(e.first)
           room == IF pos # 0 \/ e.size = 0 THEN Cells - pos ELSE 0
           done == Min({room, Len(data)})
       IN /\ disk' = [disk EXCEPT ![Located(tail)] =
                        [i \in Row |->
                           IF pos <= i /\ i < pos + done THEN data[i - pos + 1]
                           ELSE @[i]]]
          /\ call' = [Idle EXCEPT !.pc = IF done = Len(data) THEN "commit"
                                                             ELSE "grow",
                                  !.data = data, !.done = done,
                                  !.at = p, !.prev = tail]
          /\ Misuse(AppendMisused(e))
  BY DEF AppendFile
<1> DEFINE e    == CellAt(p)
           pos  == e.size % Cells
           tail == ChainEnd(e.first)
           c    == Located(tail)
           room == IF pos # 0 \/ e.size = 0 THEN Cells - pos ELSE 0
           done == Min({room, Len(data)})
           row  == [i \in Row |-> IF pos <= i /\ i < pos + done THEN data[i - pos + 1]
                                  ELSE disk[c][i]]
           to   == IF done = Len(data) THEN "commit" ELSE "grow"
<1>3. disk' = [disk EXCEPT ![c] = row]
  BY <1>2
<1>4. /\ call' = [Idle EXCEPT !.pc = to, !.data = data, !.done = done, !.at = p, !.prev = tail]
      /\ suspect' = AppendMisused(e)
  BY <1>2 DEF Misuse
<1>5. /\ p \in Place /\ e = At(disk, p) /\ e \in Cell /\ Live(e)
      /\ n \notin Dots => p \in Listed(disk)
      /\ n \in Dots \/ e.is = "dir" => e.size = 0
  BY <1>1, FoundIs
<1>6. /\ e.size \in Nat /\ e.first \in 0 .. LastCluster
      /\ data \in Seq(DataCell) /\ Len(data) \in Nat
  <2>1. data \in Seq(DataCell)
    BY FileSystemAssumption
  <2>2. QED
    BY <1>5, <2>1, LenProperties DEF Cell
<1>7. tail \in 0 .. LastCluster /\ c \in Cluster
  BY <1>6, ChainEndIs
<1>8. pos \in 0 .. Cells - 1 /\ pos \in Nat
  BY <1>6, Numbers
<1>9. /\ room \in Nat /\ done \in Nat /\ done <= Len(data) /\ done <= room
      /\ done \in {room, Len(data)}
  <2>1. room \in Nat
    BY <1>8, Numbers
  <2> HIDE DEF room
  <2>2. QED
    BY <1>6, <2>1, MinOfTwo
<1> HIDE DEF pos, room, done, e, tail, c
<1>10. \A i \in Row : row[i] \in DataCell \/ row[i] = disk[c][i]
  <2> SUFFICES ASSUME NEW i \in Row, pos <= i, i < pos + done
               PROVE  data[i - pos + 1] \in DataCell
    OBVIOUS
  <2>1. i - pos + 1 \in 1 .. Len(data)
    BY <1>6, <1>8, <1>9 DEF Row
  <2>2. QED
    BY <1>6, <2>1, ElementOfSeq
<1>11. row \in [Row -> Cell]
  <2>1. \A i \in Row : row[i] \in Cell
    BY <1>1, <1>7, <1>10, CellKinds DEF Disks
  <2>2. row = [i \in Row |-> row[i]]
    OBVIOUS
  <2> HIDE DEF row
  <2>3. QED
    BY <2>1, <2>2
<1> HIDE DEF row
<1>12. /\ disk' \in Disks /\ disk'[c] = row
       /\ \A b \in Cluster : b # c => disk'[b] = disk[b]
  BY <1>1, <1>3, <1>7, <1>11 DEF Disks
<1>13. /\ to \in {"commit", "grow"} /\ (to = "commit" => done = Len(data))
       /\ to = "grow" => done = room
  BY <1>9
<1> HIDE DEF to
<1>14. /\ call' \in Call /\ call'.pc = to /\ call'.data = data /\ call'.done = done
       /\ call'.at = p /\ call'.prev = tail /\ call'.first = 0
  <2>1. 0 \in 0 .. LastCluster
    BY Numbers
  <2>2. call' \in Call
    BY <1>4, <1>5, <1>6, <1>7, <1>9, <1>13, <2>1 DEF Idle, Call
  <2>3. QED
    BY <1>4, <2>2 DEF Idle
<1>15. TypeInv'
  <2>1. CallTyped(call')
    BY <1>5, <1>9, <1>13, <1>14 DEF CallTyped
  <2>2. suspect' \in BOOLEAN
    BY <1>4 DEF AppendMisused
  <2>3. QED
    BY <1>1, <1>12, <2>1, <2>2 DEF TypeInv
<1>16. SoundInv'
  <2> SUFFICES ASSUME ~suspect'
               PROVE  Sound(fat', disk', current_dir_cluster', call', lost')
    BY DEF SoundInv
  <2> DEFINE f == e.first
             s == ChainIn(fat, f)
  <2>1. e.size # 0
    BY <1>4 DEF AppendMisused
  <2>2. p \in Listed(disk) /\ e.is = "file"
    BY <1>5, <2>1 DEF Live
  <2>3. /\ Backed(fat, disk, p) /\ Ended(fat, disk, p)
        /\ e.size <= Len(s) * Cells /\ AllClean(fat, disk, f)
    BY <1>1, <1>5, <2>2, NoPlace DEF Volume, Backed, AllClean
  <2>4. f \in Cluster
    <3> SUFFICES ASSUME f \notin Cluster PROVE FALSE
      OBVIOUS
    <3>1. Len(s) = 0
      BY ChainNone
    <3>2. Len(s) * Cells = 0
      BY <3>1, Numbers
    <3>3. QED
      BY <1>6, <2>1, <2>3, <3>2
  <2>5. f \in Starts(disk, 0) /\ Apart(fat, Starts(disk, 0))
    BY <1>1, <1>5, <2>2, <2>4, StartsApart
  <2>6. /\ Len(s) \in Nat \ {0} /\ Last(s) \in ToSet(s) /\ ToSet(s) \subseteq Cluster
        /\ fat[Last(s)] = EOC
    BY <1>5, <2>3, <2>4, <2>5, ChainFacts DEF Ended
  <2>7. s # <<>>
    BY <2>6, EmptySeq
  <2>8. tail = Last(s) /\ c = Last(s)
    <3>1. tail = Last(s)
      BY <2>6, <2>7 DEF tail, ChainEnd, Chain
    <3>2. ~(tail < 2)
      BY <2>6, <3>1 DEF Cluster
    <3>3. QED
      BY <3>1, <3>2 DEF c, Located
  <2>9. Clean(disk', c)
    <3>1. Clean(disk, c)
      BY <2>3, <2>6, <2>8 DEF AllClean
    <3>2. QED
      BY <1>10, <1>12, <3>1 DEF Clean
  <2>10. c \notin Dirs(disk)
    BY <1>1, <1>5, <2>2, <2>6, <2>8, DirOff
  <2>11. \A i \in Row : Live(disk'[c][i]) => disk'[c][i].name \in Dots
    BY <2>9, CleanCells
  <2>12. /\ Volume(fat, disk', 0, <<0, 0>>) /\ Dirs(disk') = Dirs(disk)
         /\ \A g : Starts(disk', g) = Starts(disk, g)
         /\ Listed(disk') = Listed(disk)
         /\ \A q \in Listed(disk) : At(disk', q) = At(disk, q)
    BY <1>1, <1>7, <1>12, <2>9, <2>10, <2>11, VolumeRow
  <2>13. /\ pos = 0 => e.size = Len(s) * Cells
         /\ pos # 0 => e.size + (Cells - pos) = Len(s) * Cells
    <3>1. PICK m : m = Len(s)
      OBVIOUS
    <3>2. m \in Nat \ {0} /\ e.size <= m * Cells
      BY <2>3, <2>6, <3>1
    <3>3. Len(s) <= ClustersFor(e.size)
      <4>1. ~(Len(s) > ClustersFor(e.size))
        BY <1>4 DEF AppendMisused, Chain
      <4>2. ClustersFor(e.size) \in Nat
        BY <1>6, <3>2, ClustersIs
      <4>3. QED
        BY <2>6, <4>1, <4>2
    <3>4. ~(e.size <= (m - 1) * Cells)
      <4>1. m - 1 \in Nat /\ ClustersFor(e.size) \in Nat
        BY <1>6, <3>2, ClustersIs
      <4>2. ~(ClustersFor(e.size) <= m - 1)
        BY <3>1, <3>2, <3>3, <4>1
      <4>3. QED
        BY <1>6, <4>1, <4>2, ClustersIs
    <3>5. PICK z : z = e.size
      OBVIOUS
    <3>6. (m - 1) * Cells < z /\ z \in Nat
      <4>1. (m - 1) * Cells \in Nat
        BY <3>2, Numbers
      <4>2. QED
        BY <1>6, <3>4, <3>5, <4>1
    <3>7. /\ z % Cells = 0 => z = m * Cells
          /\ z % Cells # 0 => z + (Cells - (z % Cells)) = m * Cells
      BY <3>2, <3>5, <3>6, RoomFits
    <3>8. QED
      BY <3>1, <3>5, <3>7 DEF pos
  <2>14. /\ e.size + done <= Len(s) * Cells
         /\ to = "grow" => e.size + done = Len(s) * Cells
    <3>1. room = IF pos # 0 THEN Cells - pos ELSE 0
      BY <2>1 DEF room
    <3> DEFINE z == Len(s) * Cells
    <3>2. z \in Nat
      BY <2>6, Numbers
    <3>3. /\ pos = 0 => e.size = z
          /\ pos # 0 => e.size + (Cells - pos) = z
      BY <2>13
    <3> HIDE DEF z
    <3>4. e.size + done <= z /\ (to = "grow" => e.size + done = z)
      BY <1>6, <1>8, <1>9, <1>13, <3>1, <3>2, <3>3, Numbers
    <3>5. QED
      BY <3>4 DEF z
  <2>15. Working(fat, disk', call')
    <3>1. At(disk', p) = e /\ p \in Listed(disk')
      BY <1>5, <2>2, <2>12
    <3>2. /\ call'.pc \in {"grow", "commit"} /\ call'.first = 0 /\ call'.at = p
          /\ call'.pc = "grow" =>
               call'.prev = Last(s) /\ e.size + call'.done = Len(s) * Cells
          /\ call'.pc = "commit" =>
               e.size + call'.done <= Len(s) * Cells /\ call'.done = Len(call'.data)
      <4> DEFINE z == Len(s) * Cells
      <4>1. e.size + done <= z /\ (to = "grow" => e.size + done = z) /\ tail = Last(s)
        BY <2>8, <2>14
      <4> HIDE DEF s, z
      <4>2. /\ call'.pc = "grow" => e.size + call'.done = z
            /\ e.size + call'.done <= z
        BY <1>14, <4>1
      <4>3. call'.pc = "commit" => call'.done = Len(call'.data)
        BY <1>13, <1>14
      <4>4. call'.pc \in {"grow", "commit"} /\ call'.first = 0 /\ call'.at = p
            /\ call'.prev = Last(s)
        BY <1>13, <1>14, <4>1
      <4>5. QED
        BY <4>2, <4>3, <4>4 DEF z
    <3>3. Appending(fat, disk', call')
      BY <2>2, <2>4, <3>1, <3>2 DEF Appending
    <3>4. Removing(fat, disk', call') /\ Copying(fat, disk', call') /\ Entering(fat, disk', call')
      BY <1>13, <1>14 DEF Removing, Copying, Entering
    <3>5. QED
      BY <3>3, <3>4 DEF Working
  <2>16. HandOf(call') = 0 /\ Unmarked(call') = <<0, 0>>
    BY <1>13, <1>14 DEF HandOf, Unmarked
  <2>17. QED
    BY <1>1, <2>12, <2>15, <2>16 DEF Sound
<1>17. QED
  BY <1>15, <1>16 DEF IInv

LEMMA GrowKeeps == ASSUME IInv, Grow PROVE IInv'
<1>1. PICK c \in FindFree :
        /\ fat' = [fat EXCEPT ![call.prev] = c]
        /\ call' = [call EXCEPT !.pc = "mark", !.cur = c]
  BY DEF Grow
<1>2. /\ TypeInv /\ call.pc = "grow" /\ UNCHANGED <<disk, current_dir_cluster, suspect, lost>>
  BY DEF Grow, IInv
<1>3. c \in Cluster /\ fat[c] = 0 /\ c \in 0 .. LastCluster /\ c # 0 /\ c \in 0 .. EOC
  BY FreeIs, Numbers DEF EOC
<1>4. /\ fat \in Tables /\ call \in Call /\ call.done <= Len(call.data)
      /\ call.prev \in 0 .. LastCluster /\ call.at \in Place
  BY <1>2 DEF TypeInv, CallTyped, Call
<1>5. /\ fat' \in Tables /\ fat'[call.prev] = c
      /\ \A y \in 0 .. LastCluster : y # call.prev => fat'[y] = fat[y]
  BY <1>1, <1>3, <1>4 DEF Tables
<1>6. /\ call' \in Call /\ call'.pc = "mark" /\ call'.cur = c /\ call'.first = call.first
      /\ call'.data = call.data /\ call'.done = call.done /\ call'.at = call.at
  BY <1>1, <1>3, <1>4 DEF Call
<1>7. TypeInv'
  <2>1. CallTyped(call')
    BY <1>3, <1>4, <1>6 DEF CallTyped
  <2>2. QED
    BY <1>2, <1>5, <2>1 DEF TypeInv
<1>8. SoundInv'
  <2> SUFFICES ASSUME ~suspect'
               PROVE  Sound(fat', disk', current_dir_cluster', call', lost')
    BY DEF SoundInv
  <2>1. PICK p : p = call.at
    OBVIOUS
  <2> DEFINE e == At(disk, p)
             f == e.first
             s == ChainIn(fat, f)
  <2>2. /\ call.first = 0
        /\ Volume(fat, disk, 0, Unmarked(call)) /\ current_dir_cluster \in Dirs(disk)
        /\ (~lost => Kept(fat, Starts(disk, 0)))
        /\ p \in Listed(disk) /\ e.is = "file" /\ f \in Cluster
        /\ e.size \in Nat /\ p \in Place
        /\ f \in Starts(disk, 0) /\ Apart(fat, Starts(disk, 0))
        /\ Appending(fat, disk, call)
    BY <1>2, <2>1, AppendingIs
  <2>3. Unmarked(call) = <<0, 0>> /\ Unmarked(call') = p /\ HandOf(call') = 0
    BY <1>2, <1>6, <2>1, <2>2 DEF Unmarked, HandOf
  <2>4. call.prev = Last(s) /\ e.size + call.done = Len(s) * Cells
    BY <1>2, <2>1, <2>2 DEF Appending
  <2>5. \A q \in Listed(disk) : q # p => At(disk, q).first # f
    BY <2>2 DEF Volume, OwnFirst
  <2>6. /\ Volume(fat', disk, 0, p)
        /\ ToSet(ChainIn(fat', f)) = ToSet(s) \cup {c}
        /\ Len(ChainIn(fat', f)) = Len(s) + 1 /\ Last(ChainIn(fat', f)) = c
        /\ Len(s) \in Nat
        /\ Kept(fat, Starts(disk, 0)) => Kept(fat', Starts(disk, 0))
    <3>1. /\ Volume(fat, disk, 0, <<0, 0>>) /\ f \in Starts(disk, 0)
          /\ c \in Cluster /\ fat[c] = 0 /\ fat' \in Tables /\ 0 \notin Cluster
      BY <1>3, <1>5, <2>2, <2>3, Numbers
    <3>2. PICK l : l = call.prev
      OBVIOUS
    <3>3. l = Last(ChainIn(fat, f)) /\ fat'[l] = c
      BY <1>5, <2>4, <3>2
    <3>4. \A z \in Cluster : z # l => fat'[z] = fat[z]
      BY <1>5, <3>2, Numbers
    <3> HIDE DEF f
    <3>5. QED
      BY ONLY <2>5, <3>1, <3>3, <3>4, VolumeGrow, SMTT(60)
  <2>7. e.size + call.done + Cells = Len(ChainIn(fat', f)) * Cells
    <3> DEFINE m == Len(s)
    <3>1. m \in Nat /\ e.size + call.done = m * Cells /\ call.done \in Nat
      BY <1>4, <2>4, <2>6 DEF Call
    <3>2. Len(ChainIn(fat', f)) = m + 1
      BY <2>6
    <3> HIDE DEF m, f
    <3>3. (m + 1) * Cells = m * Cells + Cells /\ m * Cells \in Nat
      BY <3>1, Numbers
    <3>4. QED
      BY <2>2, <3>1, <3>2, <3>3, Numbers
  <2>8. Working(fat', disk, call')
    <3>1. Appending(fat', disk, call')
      BY <1>6, <2>1, <2>2, <2>6, <2>7 DEF Appending
    <3>2. Removing(fat', disk, call') /\ Copying(fat', disk, call') /\ Entering(fat', disk, call')
      BY <1>6 DEF Removing, Copying, Entering
    <3>3. QED
      BY <3>1, <3>2 DEF Working
  <2>9. QED
    BY <1>2, <2>2, <2>3, <2>6, <2>8 DEF Sound
<1>9. QED
  BY <1>7, <1>8 DEF IInv

LEMMA GrowFailsKeeps == ASSUME IInv, GrowFails PROVE IInv'
<1>1. /\ call.pc = "grow" /\ call' = Idle /\ lost \in BOOLEAN
      /\ UNCHANGED <<fat, disk, current_dir_cluster, suspect, lost>>
  BY DEF GrowFails, IInv, TypeInv
<1>2. CASE suspect
  BY <1>1, <1>2, IdleTyped DEF IInv, TypeInv, SoundInv
<1>3. CASE ~suspect
  <2>1. call.first = 0
    BY <1>1, <1>3, AppendingIs
  <2>2. QED
    BY <1>1, <2>1, StopKeeps, Numbers
<1>4. QED
  BY <1>2, <1>3

LEMMA MarkKeeps == ASSUME IInv, Mark PROVE IInv'
<1> DEFINE c == call.cur
<1>1. /\ TypeInv /\ call.pc = "mark" /\ fat' = [fat EXCEPT ![c] = EOC]
      /\ call' = [call EXCEPT !.pc = "pour"]
      /\ UNCHANGED <<disk, current_dir_cluster, suspect, lost>>
  BY DEF Mark, IInv
<1>2. /\ fat \in Tables /\ call \in Call /\ call.done <= Len(call.data)
      /\ call.at \in Place /\ c \in Cluster /\ c \in 0 .. LastCluster
  BY <1>1, Numbers DEF TypeInv, CallTyped
<1>3. /\ fat' \in Tables /\ fat'[c] = EOC /\ \A y \in Cluster : y # c => fat'[y] = fat[y]
  BY <1>1, <1>2, Numbers DEF Tables
<1>4. /\ call' \in Call /\ call'.pc = "pour" /\ call'.data = call.data /\ call'.at = call.at
      /\ call'.done = call.done /\ call'.cur = c /\ call'.first = call.first
  BY <1>1, <1>2 DEF Call
<1>5. TypeInv'
  <2>1. CallTyped(call')
    BY <1>2, <1>4 DEF CallTyped
  <2>2. QED
    BY <1>1, <1>3, <2>1 DEF TypeInv
<1>6. SoundInv'
  <2> SUFFICES ASSUME ~suspect'
               PROVE  Sound(fat', disk', current_dir_cluster', call', lost')
    BY DEF SoundInv
  <2>1. PICK p : p = call.at
    OBVIOUS
  <2> DEFINE e == At(disk, p)
             f == e.first
             s == ChainIn(fat, f)
  <2>2. /\ call.first = 0
        /\ Volume(fat, disk, 0, Unmarked(call)) /\ current_dir_cluster \in Dirs(disk)
        /\ (~lost => Kept(fat, Starts(disk, 0)))
        /\ p \in Listed(disk) /\ e.is = "file" /\ f \in Cluster
        /\ f \in Starts(disk, 0)
        /\ Appending(fat, disk, call)
    BY <1>1, <2>1, AppendingIs
  <2>3. Unmarked(call) = p /\ Unmarked(call') = <<0, 0>> /\ HandOf(call') = 0
    BY <1>1, <1>4, <2>1, <2>2 DEF Unmarked, HandOf
  <2>4. c = Last(s) /\ e.size + call.done + Cells = Len(s) * Cells
    BY <1>1, <2>1, <2>2 DEF Appending
  <2>5. /\ Volume(fat', disk, 0, <<0, 0>>) /\ ChainIn(fat', f) = ChainIn(fat, f)
        /\ Kept(fat, Starts(disk, 0)) => Kept(fat', Starts(disk, 0))
    <3>1. fat'[Last(ChainIn(fat, f))] = EOC
      BY <1>3, <2>4
    <3>2. \A z \in Cluster : z # Last(ChainIn(fat, f)) => fat'[z] = fat[z]
      BY <1>3, <2>4
    <3>3. \A q \in Listed(disk) : q # <<0, 0>> => q # p \/ At(disk, q).first = f
      OBVIOUS
    <3> HIDE DEF f
    <3>4. QED
      BY <1>3, <2>2, <2>3, <3>1, <3>2, <3>3, VolumeEnd
  <2>6. Working(fat', disk, call')
    <3>1. Appending(fat', disk, call')
      BY <1>4, <2>1, <2>2, <2>4, <2>5 DEF Appending
    <3>2. Removing(fat', disk, call') /\ Copying(fat', disk, call') /\ Entering(fat', disk, call')
      BY <1>4 DEF Removing, Copying, Entering
    <3>3. QED
      BY <3>1, <3>2 DEF Working
  <2>7. QED
    BY <1>1, <2>2, <2>3, <2>5, <2>6 DEF Sound
<1>7. QED
  BY <1>5, <1>6 DEF IInv

LEMMA PourKeeps == ASSUME IInv, Pour PROVE IInv'
<1> DEFINE c == call.cur
           row == Filled(call.data, call.done)
           to == IF Progress < Len(call.data) THEN "grow" ELSE "commit"
<1>1. /\ TypeInv /\ call.pc = "pour" /\ disk' = [disk EXCEPT ![c] = row]
      /\ call' = [call EXCEPT !.pc = to, !.done = Progress, !.prev = c]
      /\ UNCHANGED <<fat, current_dir_cluster, suspect, lost>>
  BY DEF Pour, IInv
<1>2. /\ disk \in Disks /\ call \in Call /\ call.done <= Len(call.data)
      /\ call.at \in Place /\ c \in Cluster /\ c \in 0 .. LastCluster
  BY <1>1, Numbers DEF TypeInv, CallTyped
<1>3. row \in [Row -> DataCell]
  BY <1>2, FilledIs DEF Call
<1> HIDE DEF row
<1>4. row \in [Row -> Cell]
  BY <1>3, CellKinds
<1>5. /\ disk' \in Disks /\ disk'[c] = row
      /\ \A b \in Cluster : b # c => disk'[b] = disk[b]
  BY <1>1, <1>2, <1>4 DEF Disks
<1>6. /\ call.done \in Nat /\ Len(call.data) \in Nat /\ Progress \in Nat
      /\ Progress = IF call.done + Cells <= Len(call.data) THEN call.done + Cells
                                                           ELSE Len(call.data)
  BY <1>2, ProgressIs
<1>7. /\ to \in {"grow", "commit"} /\ (to = "commit" => Progress = Len(call.data))
      /\ Progress <= Len(call.data) /\ Progress <= call.done + Cells
      /\ to = "grow" => Progress = call.done + Cells
  BY <1>6, Numbers
<1> HIDE DEF to
<1>8. /\ call' \in Call /\ call'.pc = to /\ call'.data = call.data /\ call'.at = call.at
      /\ call'.done = Progress /\ call'.prev = c /\ call'.first = call.first
  BY <1>1, <1>2, <1>6, <1>7 DEF Call
<1>9. TypeInv'
  <2>1. CallTyped(call')
    BY <1>2, <1>7, <1>8 DEF CallTyped
  <2>2. QED
    BY <1>1, <1>5, <2>1 DEF TypeInv
<1>10. SoundInv'
  <2> SUFFICES ASSUME ~suspect'
               PROVE  Sound(fat', disk', current_dir_cluster', call', lost')
    BY DEF SoundInv
  <2>1. PICK p : p = call.at
    OBVIOUS
  <2> DEFINE e == At(disk, p)
             f == e.first
             s == ChainIn(fat, f)
  <2>2. /\ call.first = 0
        /\ Volume(fat, disk, 0, Unmarked(call)) /\ current_dir_cluster \in Dirs(disk)
        /\ (~lost => Kept(fat, Starts(disk, 0)))
        /\ p \in Listed(disk) /\ e.is = "file" /\ f \in Cluster
        /\ e.size \in Nat /\ p \in Place
        /\ f \in Starts(disk, 0) /\ Apart(fat, Starts(disk, 0))
        /\ Appending(fat, disk, call)
    BY <1>1, <2>1, AppendingIs
  <2>3. Unmarked(call) = <<0, 0>> /\ Unmarked(call') = <<0, 0>> /\ HandOf(call') = 0
    BY <1>1, <1>7, <1>8, <2>2 DEF Unmarked, HandOf
  <2>4. c = Last(s) /\ e.size + call.done + Cells = Len(s) * Cells
    BY <1>1, <2>1, <2>2 DEF Appending
  <2>5. c \in ToSet(s) /\ Len(s) \in Nat
    BY <2>2, <2>4, ChainFacts
  <2>6. c \notin Dirs(disk)
    BY <2>2, <2>5, DirOff
  <2>7. Clean(disk', c)
    BY <1>3, <1>5 DEF Clean
  <2>8. \A i \in Row : Live(disk'[c][i]) => disk'[c][i].name \in Dots
    BY <2>7, CleanCells
  <2>9. /\ Volume(fat, disk', 0, <<0, 0>>) /\ Dirs(disk') = Dirs(disk)
        /\ \A g : Starts(disk', g) = Starts(disk, g)
        /\ Listed(disk') = Listed(disk)
        /\ \A q \in Listed(disk) : At(disk', q) = At(disk, q)
    <3> HIDE DEF c
    <3>1. QED
      BY <1>2, <1>5, <2>2, <2>3, <2>6, <2>7, <2>8, VolumeRow
  <2>10. /\ e.size + Progress <= Len(s) * Cells
         /\ to = "grow" => e.size + Progress = Len(s) * Cells
    <3> DEFINE z == Len(s) * Cells
    <3>1. z \in Nat /\ e.size + call.done + Cells = z
      BY <2>4, <2>5, Numbers
    <3> HIDE DEF z
    <3>2. e.size + Progress <= z /\ (to = "grow" => e.size + Progress = z)
      BY <1>6, <1>7, <2>2, <3>1, Numbers
    <3>3. QED
      BY <3>2 DEF z
  <2>11. Working(fat, disk', call')
    <3>1. At(disk', p) = e /\ p \in Listed(disk')
      BY <2>2, <2>9
    <3>2. /\ call'.pc \in {"grow", "commit"} /\ call'.first = 0 /\ call'.at = p
          /\ call'.pc = "grow" =>
               call'.prev = Last(s) /\ e.size + call'.done = Len(s) * Cells
          /\ call'.pc = "commit" =>
               e.size + call'.done <= Len(s) * Cells /\ call'.done = Len(call'.data)
      BY <1>7, <1>8, <2>1, <2>2, <2>4, <2>10
    <3>3. Appending(fat, disk', call')
      BY <2>2, <3>1, <3>2 DEF Appending
    <3>4. Removing(fat, disk', call') /\ Copying(fat, disk', call') /\ Entering(fat, disk', call')
      BY <1>7, <1>8 DEF Removing, Copying, Entering
    <3>5. QED
      BY <3>3, <3>4 DEF Working
  <2>12. QED
    BY <1>1, <2>2, <2>3, <2>9, <2>11 DEF Sound
<1>11. QED
  BY <1>9, <1>10 DEF IInv

LEMMA CommitKeeps == ASSUME IInv, Commit PROVE IInv'
<1>1. PICK p : p = call.at
  OBVIOUS
<1> DEFINE e == At(disk, p)
           x == [e EXCEPT !.size = @ + Len(call.data)]
<1>2. /\ TypeInv /\ call.pc = "commit" /\ disk' = Put(p, x) /\ call' = Idle
      /\ UNCHANGED <<fat, current_dir_cluster, suspect, lost>>
  BY <1>1 DEF Commit, IInv, CellAt, At
<1>3. /\ disk \in Disks /\ p \in Place /\ Len(call.data) \in Nat
  <2>1. call.data \in Seq(DataCell)
    BY <1>2 DEF TypeInv, CallTyped, Call
  <2>2. QED
    BY <1>1, <1>2, <2>1, LenProperties DEF TypeInv, CallTyped
<1>4. e \in Cell /\ e.size \in Nat
  BY <1>3, Cells9
<1>5. /\ x \in Cell /\ x.name = e.name /\ x.is = e.is /\ x.first = e.first
      /\ x.size = e.size + Len(call.data)
  <2>1. PICK z : z = e.size + Len(call.data)
    OBVIOUS
  <2>2. x = [e EXCEPT !.size = z]
    BY <2>1
  <2> HIDE DEF e, x
  <2>3. z \in Nat
    BY <1>3, <1>4, <2>1
  <2>4. QED
    BY <1>4, <2>1, <2>2, <2>3 DEF Cell
<1> HIDE DEF x
<1>6. /\ disk' \in Disks /\ At(disk', p) = x
      /\ \A q \in Place : q # p => At(disk', q) = At(disk, q)
  BY <1>2, <1>3, <1>5, PutIs
<1>7. TypeInv'
  BY <1>2, <1>6, IdleTyped DEF TypeInv
<1>8. SoundInv'
  <2> SUFFICES ASSUME ~suspect'
               PROVE  Sound(fat', disk', current_dir_cluster', call', lost')
    BY DEF SoundInv
  <2> DEFINE f == e.first
             s == ChainIn(fat, f)
  <2>1. /\ Volume(fat, disk, 0, Unmarked(call)) /\ current_dir_cluster \in Dirs(disk)
        /\ (~lost => Kept(fat, Starts(disk, 0)))
        /\ p \in Listed(disk) /\ e.is = "file"
        /\ Appending(fat, disk, call)
    BY <1>1, <1>2, AppendingIs
  <2>2. Unmarked(call) = <<0, 0>>
    BY <1>2 DEF Unmarked
  <2>3. e.size + call.done <= Len(s) * Cells /\ call.done = Len(call.data)
    BY <1>1, <1>2, <2>1 DEF Appending
  <2>4. e.name \notin Dots
    BY <2>1 DEF Listed
  <2>5. /\ At(disk', p).is = At(disk, p).is /\ At(disk', p).first = At(disk, p).first
        /\ At(disk', p).name \notin Dots
        /\ At(disk', p).is = "dir" => At(disk', p).size = 0
        /\ At(disk', p).size <= Len(ChainIn(fat, At(disk, p).first)) * Cells
    BY <1>5, <1>6, <2>1, <2>3, <2>4
  <2>6. /\ Volume(fat, disk', 0, <<0, 0>>) /\ Dirs(disk') = Dirs(disk)
        /\ \A g : Starts(disk', g) = Starts(disk, g)
    <3> HIDE DEF e
    <3>1. QED
      BY <1>6, <2>1, <2>2, <2>5, VolumeEdit
  <2>7. QED
    BY <1>2, <2>1, <2>6, IdleWorks DEF Sound
<1>9. QED
  BY <1>7, <1>8 DEF IInv

-----------------------------------------------------------------------------
\* The power fails, and the first volume

LEMMA CrashKeeps == ASSUME IInv, Crash PROVE IInv'
<1>1. /\ TypeInv /\ call' = Idle /\ current_dir_cluster' = root_cluster
      /\ suspect' = (suspect \/ call.pc = "mark") /\ lost' = (lost \/ call.pc # "idle")
      /\ UNCHANGED <<fat, disk>>
  BY DEF Crash, IInv
<1>2. TypeInv'
  BY <1>1, IdleTyped, Numbers DEF TypeInv
<1>3. SoundInv'
  <2> SUFFICES ASSUME ~suspect'
               PROVE  Sound(fat', disk', current_dir_cluster', call', lost')
    BY DEF SoundInv
  <2>1. Sound(fat, disk, current_dir_cluster, call, lost) /\ call.pc # "mark"
    BY <1>1 DEF IInv, SoundInv
  <2>2. PICK h : h = HandOf(call)
    OBVIOUS
  <2>3. Volume(fat, disk, h, <<0, 0>>) /\ (~lost => Kept(fat, Starts(disk, h)))
    BY <2>1, <2>2 DEF Sound, Unmarked
  <2>4. call.pc = "idle" => h = 0
    BY <1>1, <2>2, IdleTyped DEF HandOf, TypeInv, CallTyped
  <2>5. PICK m : m = lost'
    OBVIOUS
  <2>6. m \in BOOLEAN /\ lost \in BOOLEAN /\ (h \in Cluster \/ lost => m)
    BY <1>1, <2>4, <2>5, Numbers DEF TypeInv
  <2>7. root_cluster \in Dirs(disk)
    BY DEF Dirs
  <2>8. Sound(fat, disk, root_cluster, Idle, m)
    BY <2>3, <2>6, <2>7, GivingUp
  <2>9. QED
    BY <1>1, <2>5, <2>8
<1>4. QED
  BY <1>2, <1>3 DEF IInv

\* The clusters of a file that lie in a row.
LEMMA PathRow ==
  ASSUME NEW t, NEW c \in Nat, NEW s \in Seq(Cluster), s # <<>>,
         \A i \in 1 .. Len(s) : s[i] = c + i - 1,
         \A i \in 1 .. Len(s) - 1 : t[s[i]] = s[i + 1], t[s[Len(s)]] \notin Cluster
  PROVE  Path(t, c, s)
<1>1. Len(s) \in Nat /\ Len(s) # 0 /\ DOMAIN s = 1 .. Len(s)
  BY LenProperties, EmptySeq
<1>2. s[1] = c /\ c \in Cluster
  BY <1>1, ElementOfSeq
<1>3. IsInjective(s)
  BY <1>1 DEF IsInjective
<1>4. QED
  BY <1>1, <1>2, <1>3 DEF Path

LEMMA InitSound == Init => IInv
<1> SUFFICES ASSUME Init PROVE IInv
  OBVIOUS
<1>1. PICK n \in Names, s \in Sizes :
       LET own == root_cluster + 1 .. root_cluster + ClustersFor(s)
       IN /\ fat = [c \in 0 .. LastCluster |->
                      CASE c \in own -> IF c + 1 \in own THEN c + 1 ELSE EOC
                        [] c < 2 \/ c = root_cluster -> EOC
                        [] OTHER -> 0]
          /\ disk = [c \in Cluster |-> [i \in Row |->
                       IF c = root_cluster /\ i = 0
                       THEN Entry("file", n,
                                  IF s = 0 THEN 0 ELSE root_cluster + 1, s)
                       ELSE IF c \in own THEN Piece("old") ELSE Zero]]
  BY DEF Init
<1> DEFINE r == root_cluster
           m == ClustersFor(s)
           own == r + 1 .. r + m
           f == IF s = 0 THEN 0 ELSE r + 1
           e == Entry("file", n, f, s)
           p == <<r, 0>>
           q == [i \in 1 .. m |-> r + i]
<1>2. /\ s \in Nat /\ m \in Nat /\ m <= LastCluster - r /\ s <= m * Cells
      /\ (s = 0 <=> m = 0)
  <2>1. s \in Nat /\ s <= (LastCluster - r) * Cells /\ LastCluster - r \in Nat
    BY FileSystemAssumption DEF Cluster
  <2>2. m \in Nat /\ m <= LastCluster - r
    BY <2>1, ClustersIs
  <2>3. s <= m * Cells
    BY <2>1, <2>2, ClustersIs
  <2>4. m <= 0 <=> s <= 0 * Cells
    BY <2>1, ClustersIs
  <2>5. 0 * Cells = 0
    BY Numbers
  <2>6. QED
    BY <2>1, <2>2, <2>3, <2>4, <2>5
<1>3. /\ fat = [c \in 0 .. LastCluster |->
                  CASE c \in own -> IF c + 1 \in own THEN c + 1 ELSE EOC
                    [] c < 2 \/ c = r -> EOC
                    [] OTHER -> 0]
      /\ disk = [c \in Cluster |-> [i \in Row |->
                  IF c = r /\ i = 0 THEN e ELSE IF c \in own THEN Piece("old") ELSE Zero]]
  BY <1>1
<1>4. /\ r \in Nat /\ r \in Cluster /\ own \subseteq Cluster /\ r \notin own
      /\ f \in 0 .. LastCluster
      /\ (f \in Cluster <=> s # 0) /\ (s # 0 => f = r + 1)
  BY <1>2, Numbers DEF Cluster
<1> HIDE DEF m
<1>5. /\ e \in Cell /\ Live(e) /\ e.is = "file" /\ e.name = n /\ e.first = f /\ e.size = s
      /\ n \notin Dots
  BY <1>2, <1>4, FileSystemAssumption DEF Entry, Cell, Live
<1>6. Piece("old") \in DataCell /\ Zero \in DataCell /\ DataCell \subseteq Cell
  BY CellKinds, FileSystemAssumption DEF Piece, Zero, DataCell
<1> HIDE DEF f, e
<1>7. /\ disk \in Disks /\ At(disk, p) = e /\ p \in Place
      /\ \A c \in Cluster, i \in Row :
           c # r \/ i # 0 => disk[c][i] \in DataCell /\ disk[c][i] \in {Piece("old"), Zero}
  <2>1. 0 \in Row
    BY Places
  <2>2. \A c \in Cluster, i \in Row :
          disk[c][i] = IF c = r /\ i = 0 THEN e ELSE IF c \in own THEN Piece("old") ELSE Zero
    BY <1>3
  <2>3. disk \in Disks
    BY <1>3, <1>5, <1>6 DEF Disks
  <2>4. At(disk, p) = e
    BY <1>4, <2>1, <2>2 DEF At
  <2>5. QED
    BY <1>4, <1>6, <2>1, <2>2, <2>3, <2>4, Places
<1>8. /\ fat \in Tables
      /\ \A c \in own : fat[c] = IF c + 1 \in own THEN c + 1 ELSE EOC
      /\ fat[r] = EOC
      /\ \A c \in Cluster : c \notin own /\ c # r => fat[c] = 0
  <2>1. \A c \in 0 .. LastCluster :
          /\ c \in own => fat[c] = IF c + 1 \in own THEN c + 1 ELSE EOC
          /\ c \notin own /\ (c < 2 \/ c = r) => fat[c] = EOC
          /\ c \notin own /\ ~(c < 2 \/ c = r) => fat[c] = 0
          /\ fat[c] \in 0 .. EOC
    BY <1>3, <1>4, Numbers DEF Cluster, EOC
  <2>2. fat = [c \in 0 .. LastCluster |-> fat[c]]
    BY <1>3
  <2>3. fat \in Tables
    BY <2>1, <2>2 DEF Tables
  <2>4. \A c \in Cluster : c \in 0 .. LastCluster /\ ~(c < 2)
    BY Numbers DEF Cluster
  <2>5. QED
    BY <1>4, <2>1, <2>3, <2>4
<1>9. \A x \in Place : x # p => ~Live(At(disk, x))
  BY <1>7, CellKinds, Places DEF At
<1>10. Listed(disk) = {p} /\ Dirs(disk) = {r} /\ Starts(disk, 0) = Cluster \cap {f}
  <2>2. Listed(disk) = {p}
    BY <1>5, <1>7, <1>9 DEF Listed
  <2>3. Dirs(disk) = {r}
    BY <1>5, <1>7, <2>2 DEF Dirs
  <2>4. {0} \cup {At(disk, x).first : x \in Listed(disk)} = {0, f}
    BY <1>5, <1>7, <2>2
  <2>5. QED
    BY <2>2, <2>3, <2>4, Numbers DEF Starts
<1>11. ASSUME s # 0
       PROVE  /\ Path(fat, f, ChainIn(fat, f)) /\ ToSet(ChainIn(fat, f)) = own
              /\ Len(ChainIn(fat, f)) = m /\ fat[Last(ChainIn(fat, f))] = EOC
  <2>1. m # 0 /\ f = r + 1
    BY <1>2, <1>4, <1>11
  <2>2. /\ \A i \in 1 .. m : r + i \in own /\ r + i \in Cluster
        /\ \A i \in 1 .. m - 1 : r + i + 1 \in own /\ fat[r + i] = r + i + 1
        /\ fat[r + m] = EOC
    BY <1>2, <1>4, <1>8, <2>1
  <2>3. own = {r + i : i \in 1 .. m}
    <3>1. \A c \in own : c - r \in 1 .. m /\ c = r + (c - r)
      BY <1>2, <1>4
    <3>2. QED
      BY <2>2, <3>1
  <2>4. q \in Seq(Cluster) /\ Len(q) = m /\ (\A i \in 1 .. m : q[i] = r + i) /\ DOMAIN q = 1 .. m
    BY <1>2, <2>2
  <2> HIDE DEF q, own, r
  <2>5. q # <<>> /\ Last(q) = r + m
    BY <1>2, <2>1, <2>4, EmptySeq DEF Last
  <2>6. ToSet(q) = own
    BY <2>3, <2>4 DEF ToSet
  <2>7. \A i \in 1 .. Len(q) : q[i] = f + i - 1
    BY <1>2, <1>4, <2>1, <2>4
  <2>8. \A i \in 1 .. Len(q) - 1 : fat[q[i]] = q[i + 1]
    BY <1>2, <1>4, <2>2, <2>4
  <2>9. fat[q[Len(q)]] \notin Cluster
    BY <1>2, <2>1, <2>2, <2>4, Numbers
  <2>10. f \in Nat
    BY <1>4, <2>1
  <2>11. Path(fat, f, q)
    BY <2>4, <2>5, <2>7, <2>8, <2>9, <2>10, PathRow
  <2>12. ChainIn(fat, f) = q
    BY <2>11, PathChain
  <2>13. QED
    BY <2>2, <2>4, <2>5, <2>6, <2>11, <2>12
<1>12. \A c \in Cluster : c # r => Clean(disk, c)
  BY <1>7 DEF Clean
<1>13. Volume(fat, disk, 0, <<0, 0>>)
  <2>1. Apart(fat, Starts(disk, 0))
    BY <1>4, <1>10, <1>11 DEF Apart
  <2>2. OwnFirst(disk, 0)
    BY <1>10, Numbers DEF OwnFirst
  <2>3. Tied(disk, p)
    BY <1>5, <1>7, <1>10 DEF Tied
  <2>4. Backed(fat, disk, p)
    <3>1. CASE s = 0
      <4>1. 0 <= 0 * Cells
        BY Numbers
      <4>2. QED
        BY <1>4, <1>5, <1>7, <3>1, <4>1, ChainNone DEF Backed
    <3>2. CASE s # 0
      BY <1>2, <1>4, <1>5, <1>7, <1>11, <1>12, <3>2 DEF Backed
    <3>3. QED
      BY <3>1, <3>2
  <2>5. Ended(fat, disk, p)
    BY <1>4, <1>5, <1>7, <1>11 DEF Ended
  <2>6. \A c \in Cluster : fat[c] = 0 => Clean(disk, c)
    BY <1>8, <1>12, Numbers
  <2>7. DotsPlaced(disk)
    <3>1. \A x \in Place : Live(At(disk, x)) /\ At(disk, x).name \in Dots => FALSE
      BY <1>5, <1>7, <1>9
    <3>2. QED
      BY <3>1 DEF DotsPlaced
  <2>8. QED
    BY <1>7, <1>8, <1>10, <2>1, <2>2, <2>3, <2>4, <2>5, <2>6, <2>7, Numbers DEF Volume
<1>14. Kept(fat, Starts(disk, 0))
  <2>1. ASSUME NEW c \in own PROVE On(fat, Starts(disk, 0), c)
    <3>1. s # 0
      BY <1>2, <1>4
    <3>2. f \in Starts(disk, 0)
      BY <1>4, <1>10, <3>1
    <3>3. QED
      BY <1>11, <3>1, <3>2 DEF On
  <2>2. QED
    BY <1>8, <2>1 DEF Kept
<1>15. /\ current_dir_cluster = r /\ call = Idle /\ suspect = FALSE /\ lost = FALSE
  BY DEF Init
<1>16. TypeInv
  BY <1>4, <1>7, <1>8, <1>15, IdleTyped DEF TypeInv
<1>17. Sound(fat, disk, current_dir_cluster, call, lost)
  BY <1>10, <1>13, <1>14, <1>15, IdleWorks DEF Sound
<1>18. QED
  BY <1>16, <1>17 DEF IInv, SoundInv

-----------------------------------------------------------------------------
\* Every step keeps the volume sound

LEMMA NextKeeps == ASSUME IInv, [Next]_vars PROVE IInv'
<1>1. CASE UNCHANGED vars
  BY <1>1 DEF vars, IInv, TypeInv, SoundInv
<1>2. ASSUME NEW n \in Names \cup Dots, DeleteFile(n) \/ ChangeDir(n) PROVE IInv'
  BY <1>2, DeleteFileKeeps, ChangeDirKeeps
<1>3. ASSUME NEW n \in Names \cup Dots, NEW data \in Inputs, AppendFile(n, data) PROVE IInv'
  BY <1>3, AppendFileKeeps
<1>4. ASSUME NEW s \in Names, NEW n \in Names, NEW d \in Names \cup Dots \cup {Here},
             Copy(s, d, n)
      PROVE  IInv'
  BY <1>4, CopyKeeps
<1>5. ASSUME NEW n \in Names, MakeDir(n) PROVE IInv'
  BY <1>5, MakeDirKeeps
<1>6. ASSUME NEW o \in Names \cup Dots, NEW n \in Names, Rename(o, n) PROVE IInv'
  BY <1>6, RenameKeeps
<1>7. CASE FreeNext
  BY <1>7, FreeNextKeeps
<1>8. CASE CopyStep
  BY <1>8, TakeKeeps, TakeFailsKeeps, FillKeeps, CloseKeeps DEF CopyStep
<1>9. CASE AppendStep
  BY <1>9, GrowKeeps, GrowFailsKeeps, MarkKeeps, PourKeeps, CommitKeeps DEF AppendStep
<1>10. CASE MakeDirStep
  BY <1>10, WriteDotsKeeps, DotsFailKeeps DEF MakeDirStep
<1>11. CASE EnterStep
  BY <1>11, EnterKeeps, EnterFailsKeeps DEF EnterStep
<1>12. CASE Crash
  BY <1>12, CrashKeeps
<1>13. QED
  BY <1>1, <1>2, <1>3, <1>4, <1>5, <1>6, <1>7, <1>8, <1>9, <1>10, <1>11, <1>12 DEF Next

\* Whatever calls are made and wherever the power fails among their writes, the
\* volume stays sound until it is misused: no cluster belongs to two files, no
\* chain is cut short, no cluster is lost unless a call failed with it in hand,
\* and the directories remain a tree (the order of the writes in fat32_file.c,
\* fat32_dir.c and fat32_logic.c).
THEOREM VolumeStaysSound == Spec => []DiskSound
<1>1. IInv /\ [Next]_vars => IInv'
  BY NextKeeps
<1>2. IInv => DiskSound
  BY SoundIsSound
<1>3. QED
  BY InitSound, <1>1, <1>2, PTL DEF Spec
-----------------------------------------------------------------------------
\* What files hold

\* The cell number j, from 0, of the chain from f on, and what an entry's file holds.
CellOf(t, dk, f, j) == dk[ChainIn(t, f)[j \div Cells + 1]][j % Cells]

Body(t, dk, e) ==
  [i \in 1 .. Min({e.size, Len(ChainIn(t, e.first)) * Cells}) |-> CellOf(t, dk, e.first, i - 1)]

FilesAt(dk) == {p \in Listed(dk) : At(dk, p).is = "file"}
File(t, dk, p) == [place |-> p, name |-> At(dk, p).name, data |-> Body(t, dk, At(dk, p))]

\* The chain from f on goes as it did, and possibly further.
Extended(t, u, f) ==
  \A i \in 1 .. Len(ChainIn(t, f)) :
    i <= Len(ChainIn(u, f)) /\ ChainIn(u, f)[i] = ChainIn(t, f)[i]

Untouched(t, dk, ek, f) == \A c \in ToSet(ChainIn(t, f)) : ek[c] = dk[c]

\* Where the cells of the m clusters of a chain lie.
LEMMA CellPlace ==
  ASSUME NEW m \in Nat, NEW j \in Nat, j < m * Cells
  PROVE  /\ m # 0 /\ j \div Cells + 1 \in 1 .. m /\ j % Cells \in Row
         /\ (m - 1) * Cells <= j => j \div Cells + 1 = m /\ j % Cells = j - (m - 1) * Cells
         /\ j < (m - 1) * Cells => j \div Cells + 1 \in 1 .. m - 1
<1> DEFINE q == j \div Cells
           r == j % Cells
<1>1. q \in Nat /\ r \in 0 .. Cells - 1 /\ j = q * Cells + r
  BY Numbers
<1> HIDE DEF q, r
<1>2. m # 0 /\ m - 1 \in Nat
  <2>1. 0 * Cells = 0
    BY Numbers
  <2>2. QED
    BY <2>1
<1>3. m * Cells = (m - 1) * Cells + Cells /\ (m - 1) * Cells \in Nat /\ q * Cells \in Nat
  BY <1>1, <1>2, Numbers
<1>4. ASSUME NEW k \in Nat, j < k * Cells PROVE q < k
  <2> SUFFICES ASSUME k <= q PROVE FALSE
    BY <1>1
  <2>1. k * Cells <= q * Cells /\ k * Cells \in Nat
    BY <1>1, Numbers
  <2>2. QED
    BY <1>1, <1>3, <1>4, <2>1, Numbers
<1>5. ASSUME (m - 1) * Cells <= j PROVE q = m - 1 /\ r = j - (m - 1) * Cells
  <2>1. q < m
    BY <1>4
  <2>2. ~(q < m - 1)
    <3> SUFFICES ASSUME q < m - 1 PROVE FALSE
      OBVIOUS
    <3>1. (q + 1) * Cells <= (m - 1) * Cells /\ (q + 1) * Cells = q * Cells + Cells
      BY <1>1, <1>2, Numbers
    <3>2. QED
      BY <1>1, <1>3, <1>5, <3>1, Numbers
  <2>3. q = m - 1
    BY <1>1, <1>2, <2>1, <2>2
  <2>4. QED
    BY <1>1, <1>3, <2>3, Numbers
<1>6. q < m /\ (j < (m - 1) * Cells => q < m - 1)
  BY <1>2, <1>4
<1>7. QED
  BY <1>1, <1>2, <1>5, <1>6 DEF q, r, Row

LEMMA BodyIs ==
  ASSUME NEW t, NEW dk, NEW e, e.size \in Nat, Len(ChainIn(t, e.first)) \in Nat,
         e.size <= Len(ChainIn(t, e.first)) * Cells
  PROVE  Body(t, dk, e) = [i \in 1 .. e.size |-> CellOf(t, dk, e.first, i - 1)]
<1> DEFINE z == Len(ChainIn(t, e.first)) * Cells
<1>1. z \in Nat
  BY Numbers
<1> HIDE DEF z
<1>2. Min({e.size, z}) = e.size
  BY <1>1, MinOfTwo DEF z
<1>3. QED
  BY <1>2 DEF Body, z

LEMMA LenChain == ASSUME NEW t, NEW c PROVE Len(ChainIn(t, c)) \in Nat
BY ChainSeq, LenProperties

\* The files of a sound volume.
LEMMA FileIs ==
  ASSUME NEW t, NEW dk, NEW h, NEW x, Volume(t, dk, h, x), NEW p \in FilesAt(dk)
  PROVE  /\ p \in Listed(dk) /\ p \in Place /\ At(dk, p).is = "file" /\ At(dk, p).size \in Nat
         /\ Len(ChainIn(t, At(dk, p).first)) \in Nat
         /\ At(dk, p).size <= Len(ChainIn(t, At(dk, p).first)) * Cells
         /\ At(dk, p).first \in Cluster =>
              /\ At(dk, p).first \in Starts(dk, h)
              /\ Path(t, At(dk, p).first, ChainIn(t, At(dk, p).first))
         /\ Body(t, dk, At(dk, p)) =
              [i \in 1 .. At(dk, p).size |-> CellOf(t, dk, At(dk, p).first, i - 1)]
<1>1. p \in Listed(dk) /\ At(dk, p).is = "file" /\ p \in Place /\ dk \in Disks
  BY DEF FilesAt, Listed, Volume
<1>2. At(dk, p).size \in Nat /\ Backed(t, dk, p)
  BY <1>1, Cells9 DEF Volume
<1>3. At(dk, p).size <= Len(ChainIn(t, At(dk, p).first)) * Cells
  BY <1>2 DEF Backed
<1>4. At(dk, p).first \in Cluster => At(dk, p).first \in Starts(dk, h)
  BY <1>1, StartsApart
<1>5. Apart(t, Starts(dk, h))
  BY StartsApart
<1>6. Len(ChainIn(t, At(dk, p).first)) \in Nat
  BY LenChain
<1>7. QED
  BY <1>1, <1>2, <1>3, <1>4, <1>5, <1>6, BodyIs DEF Apart

\* As long as its own entries keep their values, a chain stays.
LEMMA ChainStays ==
  ASSUME NEW t, NEW u, NEW f, Path(t, f, ChainIn(t, f)), Path(u, f, ChainIn(u, f)),
         \A x \in ToSet(ChainIn(t, f)) : x # Last(ChainIn(t, f)) => u[x] = t[x]
  PROVE  Extended(t, u, f)
<1> DEFINE s == ChainIn(t, f)
           r == ChainIn(u, f)
           P == {i \in Nat : i < Len(s) => i < Len(r) /\ r[i + 1] = s[i + 1]}
<1>1. /\ Len(s) \in Nat /\ Len(r) \in Nat /\ Path(t, f, s) /\ Path(u, f, r)
      /\ \A i \in 1 .. Len(s) : s[i] \in Cluster /\ s[i] \in ToSet(s)
      /\ \A i, j \in 1 .. Len(s) : s[i] = s[j] => i = j
  BY PathFacts
<1>2. \A i \in 1 .. Len(s) : i # Len(s) => u[s[i]] = t[s[i]]
  <2> SUFFICES ASSUME NEW i \in 1 .. Len(s), i # Len(s) PROVE u[s[i]] = t[s[i]]
    OBVIOUS
  <2>1. Len(s) \in 1 .. Len(s)
    BY <1>1
  <2>2. s[i] # Last(s) /\ s[i] \in ToSet(s)
    BY <1>1, <2>1 DEF Last
  <2>3. QED
    BY <2>2
<1> HIDE DEF s, r
<1>3. 0 \in P
  <2> SUFFICES ASSUME 0 < Len(s) PROVE 0 < Len(r) /\ r[1] = s[1]
    OBVIOUS
  <2>1. s # <<>>
    BY EmptySeq
  <2>2. f \in Cluster /\ s[1] = f
    BY <1>1, <2>1 DEF Path
  <2>3. r # <<>> /\ r[1] = f
    BY <1>1, <2>2 DEF Path
  <2>4. Len(r) # 0
    BY <1>1, <2>2, PathFacts
  <2>5. QED
    BY <1>1, <2>2, <2>3, <2>4
<1>4. ASSUME NEW i \in Nat, i \in P PROVE i + 1 \in P
  <2> SUFFICES ASSUME i + 1 < Len(s)
               PROVE  i + 1 < Len(r) /\ r[i + 1 + 1] = s[i + 1 + 1]
    OBVIOUS
  <2>1. i < Len(r) /\ r[i + 1] = s[i + 1]
    BY <1>1, <1>4
  <2>2. i + 1 \in 1 .. Len(s) - 1 /\ i + 1 \in 1 .. Len(s) /\ i + 1 # Len(s)
        /\ i + 1 + 1 \in 1 .. Len(s)
    BY <1>1
  <2>3. u[s[i + 1]] = s[i + 1 + 1] /\ s[i + 1 + 1] \in Cluster
    BY <1>1, <1>2, <2>2 DEF Path
  <2>4. i + 1 # Len(r)
    <3> SUFFICES ASSUME i + 1 = Len(r) PROVE FALSE
      OBVIOUS
    <3>1. r # <<>>
      BY <2>1, EmptySeq
    <3>2. u[r[Len(r)]] \notin Cluster
      BY <1>1, <3>1 DEF Path
    <3>3. QED
      BY <2>1, <2>3, <3>2
  <2>5. i + 1 \in 1 .. Len(r) - 1
    BY <1>1, <2>1, <2>4
  <2>6. u[r[i + 1]] = r[i + 1 + 1]
    BY <1>1, <2>5 DEF Path
  <2>7. QED
    BY <1>1, <2>1, <2>3, <2>5, <2>6
<1> HIDE DEF P
<1>5. Nat \subseteq P
  BY <1>3, <1>4, NatSet
<1>6. ASSUME NEW i \in 1 .. Len(s) PROVE i <= Len(r) /\ r[i] = s[i]
  <2>1. i - 1 \in Nat /\ i - 1 < Len(s) /\ i - 1 + 1 = i
    BY <1>1
  <2>2. i - 1 < Len(r) /\ r[i - 1 + 1] = s[i - 1 + 1]
    BY <1>5, <2>1 DEF P
  <2>3. QED
    BY <1>1, <2>1, <2>2
<1>7. QED
  BY <1>6 DEF Extended, s, r

\* One write to the table, which is not within the chain from f on.
LEMMA WriteExtends ==
  ASSUME NEW t, NEW u, NEW f, Path(t, f, ChainIn(t, f)), Path(u, f, ChainIn(u, f)),
         NEW y, \A x \in Cluster : x # y => u[x] = t[x],
         t[y] \notin Cluster \/ y \notin ToSet(ChainIn(t, f))
  PROVE  Extended(t, u, f)
<1> DEFINE s == ChainIn(t, f)
<1>1. ToSet(s) \subseteq Cluster
  BY PathFacts
<1>2. ASSUME NEW x \in ToSet(s), x # Last(s) PROVE u[x] = t[x]
  <2>1. t[x] \in Cluster
    BY <1>2, PathInner
  <2>2. x # y
    BY <1>2, <2>1
  <2>3. QED
    BY <1>1, <2>2
<1> HIDE DEF s
<1>3. QED
  BY <1>2, ChainStays DEF s

LEMMA CellStays ==
  ASSUME NEW t, NEW u, NEW f, NEW dk, NEW ek, Extended(t, u, f), Untouched(t, dk, ek, f),
         NEW j \in Nat, j < Len(ChainIn(t, f)) * Cells
  PROVE  CellOf(u, ek, f, j) = CellOf(t, dk, f, j)
<1> DEFINE s == ChainIn(t, f)
           i == j \div Cells + 1
<1>1. s \in Seq(Cluster) /\ Len(s) \in Nat /\ DOMAIN s = 1 .. Len(s)
  BY ChainSeq, LenProperties
<1>2. i \in 1 .. Len(s)
  <2>1. PICK m : m = Len(s)
    OBVIOUS
  <2>2. m \in Nat /\ j < m * Cells
    BY <1>1, <2>1
  <2>3. j \div Cells + 1 \in 1 .. m
    BY <2>2, CellPlace
  <2>4. QED
    BY <2>1, <2>3
<1> HIDE DEF i
<1>3. ChainIn(u, f)[i] = s[i] /\ s[i] \in ToSet(s)
  BY <1>1, <1>2 DEF Extended, ToSet
<1>4. ek[s[i]] = dk[s[i]]
  BY <1>3 DEF Untouched
<1>5. QED
  BY <1>3, <1>4 DEF CellOf, i
-----------------------------------------------------------------------------
\* The files of a table and a disk, before a step and after it

FileSet(t, dk) == {File(t, dk, p) : p \in FilesAt(dk)}

LEMMA FilesIs == Files = FileSet(fat, disk) /\ Files' = FileSet(fat', disk')
<1>1. /\ Entries \ DirEntries = FilesAt(disk)
      /\ (Entries \ DirEntries)' = FilesAt(disk')
  BY DEF Entries, DirEntries, FilesAt, Listed, CellAt, At, Live
<1>2. ASSUME NEW p
      PROVE  /\ File(fat, disk, p) =
                  [place |-> p, name |-> CellAt(p).name, data |-> Content(CellAt(p))]
             /\ File(fat', disk', p) =
                  [place |-> p, name |-> CellAt(p).name, data |-> Content(CellAt(p))]'
  BY DEF File, Body, CellOf, Content, Chain, CellAt, At
<1>3. QED
  BY <1>1, <1>2 DEF Files, FileSet

\* An entry left alone, whose chain goes on as it did, stands for the same file.
LEMMA FileStays ==
  ASSUME NEW t, NEW dk, NEW h, NEW x, Volume(t, dk, h, x),
         NEW u, NEW ek, NEW g, NEW y, Volume(u, ek, g, y),
         NEW p \in FilesAt(dk), At(ek, p) = At(dk, p),
         At(dk, p).first \in Cluster =>
           Extended(t, u, At(dk, p).first) /\ Untouched(t, dk, ek, At(dk, p).first)
  PROVE  File(u, ek, p) = File(t, dk, p)
<1> DEFINE e == At(dk, p)
           f == e.first
<1>1. /\ p \in Place /\ e.is = "file" /\ e.size \in Nat
      /\ Len(ChainIn(t, f)) \in Nat /\ e.size <= Len(ChainIn(t, f)) * Cells
      /\ Body(t, dk, e) = [i \in 1 .. e.size |-> CellOf(t, dk, f, i - 1)]
  BY FileIs
<1>2. p \in FilesAt(ek)
  BY DEF FilesAt, Listed
<1>3. Body(u, ek, e) = [i \in 1 .. e.size |-> CellOf(u, ek, f, i - 1)]
  BY <1>2, FileIs
<1>4. CASE f \in Cluster
  <2>1. PICK n : n = e.size
    OBVIOUS
  <2>2. PICK m : m = Len(ChainIn(t, f))
    OBVIOUS
  <2>3. ASSUME NEW i \in 1 .. n PROVE CellOf(u, ek, f, i - 1) = CellOf(t, dk, f, i - 1)
    <3>1. n \in Nat /\ m \in Nat /\ n <= m * Cells
      BY <1>1, <2>1, <2>2
    <3>2. PICK j : j = i - 1
      OBVIOUS
    <3>3. m * Cells \in Nat
      BY <3>1, Numbers
    <3>4. j \in Nat /\ j < m * Cells
      BY <3>1, <3>2, <3>3
    <3>5. CellOf(u, ek, f, j) = CellOf(t, dk, f, j)
      BY <1>4, <2>2, <3>4, CellStays
    <3>6. QED
      BY <3>2, <3>5
  <2> HIDE DEF e, f
  <2>4. Body(u, ek, e) = Body(t, dk, e)
    BY <1>1, <1>3, <2>1, <2>3
  <2>5. QED
    BY <2>4 DEF File, e
<1>5. CASE f \notin Cluster
  <2>1. Len(ChainIn(t, f)) = 0
    BY <1>5, ChainNone
  <2>2. 0 * Cells = 0
    BY Numbers
  <2>3. e.size = 0
    BY <1>1, <2>1, <2>2
  <2>4. Body(u, ek, e) = Body(t, dk, e)
    BY <1>1, <1>3, <2>3
  <2>5. QED
    BY <2>4 DEF File
<1>6. QED
  BY <1>4, <1>5

LEMMA SameFiles ==
  ASSUME NEW t, NEW dk, NEW u, NEW ek, FilesAt(ek) = FilesAt(dk),
         \A p \in FilesAt(dk) : File(u, ek, p) = File(t, dk, p)
  PROVE  FileSet(u, ek) = FileSet(t, dk)
BY DEF FileSet

\* A write to the table that is not within the chain of a file.
LEMMA TableFiles ==
  ASSUME NEW t, NEW dk, NEW h, NEW x, Volume(t, dk, h, x),
         NEW u, NEW g, NEW z, Volume(u, dk, g, z),
         NEW y, \A b \in Cluster : b # y => u[b] = t[b],
         \/ t[y] \notin Cluster
         \/ \A p \in FilesAt(dk) : y \notin ToSet(ChainIn(t, At(dk, p).first))
  PROVE  FileSet(u, dk) = FileSet(t, dk)
<1>1. ASSUME NEW p \in FilesAt(dk) PROVE File(u, dk, p) = File(t, dk, p)
  <2>1. PICK f : f = At(dk, p).first
    OBVIOUS
  <2>2. f \in Cluster => Path(t, f, ChainIn(t, f)) /\ Path(u, f, ChainIn(u, f))
    BY <2>1, FileIs
  <2>3. t[y] \notin Cluster \/ y \notin ToSet(ChainIn(t, f))
    BY <2>1
  <2>4. f \in Cluster => Extended(t, u, f)
    BY <2>2, <2>3, WriteExtends
  <2>5. Untouched(t, dk, dk, f)
    BY DEF Untouched
  <2>6. QED
    BY <2>1, <2>4, <2>5, FileStays
<1>2. QED
  BY <1>1, SameFiles

LEMMA ExtendedSelf == ASSUME NEW t, NEW f PROVE Extended(t, t, f)
BY LenChain DEF Extended

\* A row that lies in no directory and is not a file's.
LEMMA RowListed ==
  ASSUME NEW t, NEW dk, NEW h, NEW x, Volume(t, dk, h, x),
         NEW b, b \notin Dirs(dk), NEW ek,
         \A c \in Cluster : c # b => ek[c] = dk[c],
         \A i \in Row : Live(ek[b][i]) => ek[b][i].name \in Dots
  PROVE  /\ FilesAt(ek) = FilesAt(dk)
         /\ \A p \in FilesAt(dk) : At(ek, p) = At(dk, p)
<1>1. ASSUME NEW p \in Listed(dk) PROVE At(ek, p) = At(dk, p) /\ p \in Listed(ek)
  <2>1. p[1] # b /\ p \in Place /\ p[1] \in Cluster
    BY <1>1, Places DEF Volume, Tied, Listed
  <2>2. QED
    BY <1>1, <2>1 DEF At, Listed
<1>2. ASSUME NEW p \in Listed(ek) PROVE At(ek, p) = At(dk, p) /\ p \in Listed(dk)
  <2>1. p \in Place /\ p[1] \in Cluster /\ p[2] \in Row
    BY <1>2, Places DEF Listed
  <2>2. p[1] # b
    BY <1>2, <2>1 DEF Listed, At
  <2>3. QED
    BY <1>2, <2>1, <2>2 DEF At, Listed
<1>3. QED
  BY <1>1, <1>2 DEF FilesAt

LEMMA RowFiles ==
  ASSUME NEW t, NEW dk, NEW h, NEW x, Volume(t, dk, h, x),
         NEW ek, NEW g, NEW z, Volume(t, ek, g, z),
         NEW b, b \notin Dirs(dk),
         \A c \in Cluster : c # b => ek[c] = dk[c],
         \A i \in Row : Live(ek[b][i]) => ek[b][i].name \in Dots,
         \A p \in FilesAt(dk) : b \notin ToSet(ChainIn(t, At(dk, p).first))
  PROVE  FileSet(t, ek) = FileSet(t, dk)
<1>1. FilesAt(ek) = FilesAt(dk) /\ \A p \in FilesAt(dk) : At(ek, p) = At(dk, p)
  BY RowListed
<1>2. ASSUME NEW p \in FilesAt(dk) PROVE File(t, ek, p) = File(t, dk, p)
  <2>1. PICK f : f = At(dk, p).first
    OBVIOUS
  <2>2. f \in Cluster => ToSet(ChainIn(t, f)) \subseteq Cluster
    BY <2>1, FileIs, PathFacts
  <2>3. f \in Cluster => Untouched(t, dk, ek, f)
    BY <2>1, <2>2 DEF Untouched
  <2>4. Extended(t, t, f)
    BY ExtendedSelf
  <2>5. QED
    BY <1>1, <2>1, <2>3, <2>4, FileStays
<1>3. QED
  BY <1>1, <1>2, SameFiles

-----------------------------------------------------------------------------
\* What a call has written

\* From its cell number o on, the chain from f on holds the first n cells of d.
Holds(t, dk, f, o, d, n) == \A i \in 1 .. n : CellOf(t, dk, f, o + i - 1) = d[i]

Upto(k) == IF k.done + Cells <= Len(k.data) THEN k.done + Cells ELSE Len(k.data)

Written(t, dk, k) ==
  /\ k.pc \in {"take", "fill"} => Holds(t, dk, k.first, 0, k.data, k.done)
  /\ k.pc = "close" => Holds(t, dk, k.first, 0, k.data, Upto(k))
  /\ k.pc = "enter" => Holds(t, dk, k.first, 0, k.data, Len(k.data))
  /\ k.pc \in {"grow", "mark", "pour", "commit"} =>
       Holds(t, dk, At(dk, k.at).first, At(dk, k.at).size, k.data, k.done)

LEMMA HoldsStays ==
  ASSUME NEW t, NEW u, NEW f, NEW dk, NEW ek, Extended(t, u, f), Untouched(t, dk, ek, f),
         NEW o \in Nat, NEW n \in Nat, o + n <= Len(ChainIn(t, f)) * Cells,
         NEW d, Holds(t, dk, f, o, d, n)
  PROVE  Holds(u, ek, f, o, d, n)
<1>1. ASSUME NEW i \in 1 .. n
      PROVE  CellOf(u, ek, f, o + i - 1) = CellOf(t, dk, f, o + i - 1)
  <2>1. PICK m : m = Len(ChainIn(t, f))
    OBVIOUS
  <2>2. m \in Nat
    BY <2>1, LenChain
  <2>3. m * Cells \in Nat
    BY <2>2, Numbers
  <2>4. PICK j : j = o + i - 1
    OBVIOUS
  <2>5. j \in Nat /\ j < m * Cells
    BY <2>1, <2>3, <2>4
  <2>6. CellOf(u, ek, f, j) = CellOf(t, dk, f, j)
    BY <2>1, <2>5, CellStays
  <2>7. QED
    BY <2>4, <2>6
<1>2. QED
  BY <1>1 DEF Holds

\* The last cluster of a chain is filled with the cells that come next.
LEMMA HoldsMore ==
  ASSUME NEW t, NEW f \in Cluster, Path(t, f, ChainIn(t, f)),
         NEW dk, NEW ek, NEW b, b = Last(ChainIn(t, f)),
         \A c \in Cluster : c # b => ek[c] = dk[c],
         NEW d, NEW o \in Nat, NEW k \in Nat, Len(d) \in Nat,
         ek[b] = Filled(d, k),
         o + k + Cells = Len(ChainIn(t, f)) * Cells,
         Holds(t, dk, f, o, d, k),
         NEW n \in Nat, n <= k + Cells, n <= Len(d)
  PROVE  Holds(t, ek, f, o, d, n)
<1> DEFINE s == ChainIn(t, f)
<1>1. PICK m : m = Len(s)
  OBVIOUS
<1>2. /\ m \in Nat \ {0} /\ b = s[m]
      /\ \A i \in 1 .. m : s[i] \in Cluster
      /\ \A i, j \in 1 .. m : s[i] = s[j] => i = j
  <2>1. /\ Len(s) \in Nat /\ Len(s) >= 1 /\ Last(s) = s[Len(s)]
        /\ \A i \in 1 .. Len(s) : s[i] \in Cluster
        /\ \A i, j \in 1 .. Len(s) : s[i] = s[j] => i = j
    BY PathFacts
  <2> HIDE DEF s
  <2>2. QED
    BY <1>1, <2>1 DEF s
<1>3. o + k = (m - 1) * Cells /\ m * Cells = (m - 1) * Cells + Cells
  <2>1. m * Cells = (m - 1) * Cells + Cells /\ (m - 1) * Cells \in Nat
    BY <1>2, Numbers
  <2>2. o + k + Cells = m * Cells
    BY <1>1
  <2>3. QED
    BY <2>1, <2>2, Numbers
<1>4. ASSUME NEW i \in 1 .. n PROVE CellOf(t, ek, f, o + i - 1) = d[i]
  <2>1. PICK j : j = o + i - 1
    OBVIOUS
  <2>2. PICK w : w = m * Cells
    OBVIOUS
  <2>3. j \in Nat /\ j < m * Cells
    <3>1. o + k + Cells = w
      BY <1>1, <2>2
    <3>2. j \in Nat /\ j < w
      BY <2>1, <3>1, Numbers
    <3>3. QED
      BY <2>2, <3>2
  <2>4. PICK v : v = (m - 1) * Cells
    OBVIOUS
  <2>5. o + k = v
    BY <1>3, <2>4
  <2>6. CASE i <= k
    <3>1. j < v /\ i \in 1 .. k
      BY <2>1, <2>5, <2>6
    <3>2. PICK r : r = j \div Cells + 1
      OBVIOUS
    <3>3. r \in 1 .. m - 1
      BY <1>2, <2>3, <2>4, <3>1, <3>2, CellPlace
    <3>4. s[r] \in Cluster /\ s[r] # b
      BY <1>2, <3>3
    <3>5. ek[s[r]] = dk[s[r]]
      BY <3>4
    <3>6. CellOf(t, ek, f, j) = CellOf(t, dk, f, j)
      BY <3>2, <3>5 DEF CellOf
    <3>7. CellOf(t, dk, f, o + i - 1) = d[i]
      BY <3>1 DEF Holds
    <3>8. QED
      BY <2>1, <3>6, <3>7
  <2>7. CASE k < i
    <3>1. v <= j /\ j - v = i - 1 - k /\ j - v \in Nat
      BY <2>1, <2>5, <2>7
    <3>2. j \div Cells + 1 = m /\ j % Cells = j - v /\ j % Cells \in Row
      BY <1>2, <2>3, <2>4, <3>1, CellPlace
    <3>3. CellOf(t, ek, f, j) = Filled(d, k)[j - v]
      <4>1. CellOf(t, ek, f, j) = ek[s[m]][j - v]
        BY <3>2 DEF CellOf
      <4>2. QED
        BY <1>2, <4>1
    <3>4. PICK l : l = j - v
      OBVIOUS
    <3>5. l \in Row /\ k + l < Len(d) /\ k + l + 1 = i
      BY <3>1, <3>2, <3>4
    <3>6. Filled(d, k)[l] = d[k + l + 1]
      BY <3>5 DEF Filled
    <3>7. QED
      BY <2>1, <3>3, <3>4, <3>5, <3>6
  <2>8. QED
    BY <2>6, <2>7
<1>5. QED
  BY <1>4 DEF Holds

-----------------------------------------------------------------------------
\* Steps of FileStore

LEMMA StoreNext ==
  ASSUME ~suspect', S!Step(Files \ Files', Files' \ Files)
  PROVE  S!Next
BY DEF S!Next

LEMMA StoreSuspect == ASSUME suspect' PROVE S!Next
BY DEF S!Next

LEMMA StoreStill ==
  ASSUME Files' = Files, call'.data = call.data, suspect' = suspect
  PROVE  UNCHANGED S!vars
BY DEF S!vars

LEMMA StoreGiveUp ==
  ASSUME ~suspect', Files' = Files, call'.data = <<>>
  PROVE  S!Next
<1>1. S!GiveUp(Files \ Files', Files' \ Files)
  BY DEF S!GiveUp
<1>2. QED
  BY <1>1, StoreNext DEF S!Step

LEMMA StoreBeginAppend ==
  ASSUME ~suspect', Files' = Files, call'.data \in Inputs
  PROVE  S!Next
<1>1. S!BeginAppend(Files \ Files', Files' \ Files)
  BY DEF S!BeginAppend
<1>2. QED
  BY <1>1, StoreNext DEF S!Step

LEMMA StoreBeginCopy ==
  ASSUME ~suspect', NEW f \in Files, call'.data = f.data,
         \/ Files' = Files
         \/ \E g \in Files : Files' = Files \ {g}
  PROVE  S!Next
<1>1. S!BeginCopy(Files \ Files', Files' \ Files)
  <2>1. Files' \ Files = {}
    OBVIOUS
  <2>2. Files \ Files' = {} \/ \E g \in Files \ Files' : Files \ Files' = {g}
    OBVIOUS
  <2>3. QED
    BY <2>1, <2>2 DEF S!BeginCopy
<1>2. QED
  BY <1>1, StoreNext DEF S!Step

LEMMA StoreRemove ==
  ASSUME ~suspect', NEW f \in Files, Files' = Files \ {f}, call'.data = call.data
  PROVE  S!Next
<1>1. S!Remove(Files \ Files', Files' \ Files)
  <2>1. Files' \ Files = {} /\ Files \ Files' = {f}
    OBVIOUS
  <2>2. QED
    BY <2>1 DEF S!Remove
<1>2. QED
  BY <1>1, StoreNext DEF S!Step

LEMMA StoreCreate ==
  ASSUME ~suspect', NEW f, f \notin Files, Files' = Files \cup {f},
         f.data = call.data, call'.data = <<>>
  PROVE  S!Next
<1>1. S!Create(Files \ Files', Files' \ Files)
  <2>1. Files' \ Files = {f} /\ Files \ Files' = {}
    OBVIOUS
  <2>2. QED
    BY <2>1 DEF S!Create
<1>2. QED
  BY <1>1, StoreNext DEF S!Step

LEMMA StoreExtend ==
  ASSUME ~suspect', NEW f \in Files, NEW g, g \notin Files,
         Files' = (Files \ {f}) \cup {g},
         g = [f EXCEPT !.data = @ \o call.data], call'.data = <<>>
  PROVE  S!Next
<1>1. S!Extend(Files \ Files', Files' \ Files)
  <2>1. Files' \ Files = {g} /\ Files \ Files' = {f}
    OBVIOUS
  <2>2. QED
    BY <2>1 DEF S!Extend
<1>2. QED
  BY <1>1, StoreNext DEF S!Step

LEMMA StoreRename ==
  ASSUME ~suspect', NEW f \in Files, NEW g, g \notin Files,
         Files' = (Files \ {f}) \cup {g},
         g = [f EXCEPT !.name = g.name], call'.data = call.data
  PROVE  S!Next
<1>1. S!Rename(Files \ Files', Files' \ Files)
  <2>1. Files' \ Files = {g} /\ Files \ Files' = {f}
    OBVIOUS
  <2>2. QED
    BY <2>1 DEF S!Rename
<1>2. QED
  BY <1>1, StoreNext DEF S!Step

-----------------------------------------------------------------------------
\* What a write to one entry does to the files

LEMMA EntryRows ==
  ASSUME NEW dk \in Disks, NEW ek \in Disks, NEW p \in Place,
         \A q \in Place : q # p => At(ek, q) = At(dk, q)
  PROVE  \A c \in Cluster : c # p[1] => ek[c] = dk[c]
<1> SUFFICES ASSUME NEW c \in Cluster, c # p[1] PROVE ek[c] = dk[c]
  OBVIOUS
<1>1. ek[c] \in [Row -> Cell] /\ dk[c] \in [Row -> Cell]
  BY DEF Disks
<1>2. ASSUME NEW i \in Row PROVE ek[c][i] = dk[c][i]
  <2>1. <<c, i>> \in Place /\ <<c, i>> # p
    BY Places
  <2>2. At(ek, <<c, i>>) = At(dk, <<c, i>>)
    BY <2>1
  <2>3. QED
    BY <2>2 DEF At
<1>3. QED
  BY <1>1, <1>2

LEMMA EntryFiles ==
  ASSUME NEW t, NEW dk, NEW h, NEW x, Volume(t, dk, h, x),
         NEW ek, NEW g, NEW y, Volume(t, ek, g, y),
         NEW p \in Place, p[1] \in Dirs(dk),
         \A q \in Place : q # p => At(ek, q) = At(dk, q)
  PROVE  /\ FilesAt(ek) \ {p} = FilesAt(dk) \ {p}
         /\ \A q \in FilesAt(dk) \ {p} : File(t, ek, q) = File(t, dk, q)
         /\ \A q \in FilesAt(dk) : At(dk, q).first \in Cluster =>
              Untouched(t, dk, ek, At(dk, q).first)
         /\ Untouched(t, dk, ek, h)
<1>1. dk \in Disks /\ ek \in Disks
  BY DEF Volume
<1>2. \A c \in Cluster : c # p[1] => ek[c] = dk[c]
  BY <1>1, EntryRows
<1>3. FilesAt(ek) \ {p} = FilesAt(dk) \ {p}
  BY DEF FilesAt, Listed
<1>4. ASSUME NEW q \in FilesAt(dk), At(dk, q).first \in Cluster
      PROVE  Untouched(t, dk, ek, At(dk, q).first)
  <2>1. q \in Listed(dk) /\ At(dk, q).is # "dir"
    BY DEF FilesAt
  <2>2. p[1] \notin ToSet(ChainIn(t, At(dk, q).first))
    BY <2>1, DirOff
  <2>3. Path(t, At(dk, q).first, ChainIn(t, At(dk, q).first))
    BY <1>4, FileIs
  <2>4. ToSet(ChainIn(t, At(dk, q).first)) \subseteq Cluster
    BY <2>3, PathFacts
  <2>5. QED
    BY <1>2, <2>2, <2>4 DEF Untouched
<1>5. ASSUME NEW q \in FilesAt(dk) \ {p} PROVE File(t, ek, q) = File(t, dk, q)
  <2>1. q \in Place /\ At(ek, q) = At(dk, q)
    BY DEF FilesAt, Listed
  <2>2. Extended(t, t, At(dk, q).first)
    BY ExtendedSelf
  <2>3. QED
    BY <1>4, <2>1, <2>2, FileStays
<1>6. Untouched(t, dk, ek, h)
  <2>1. CASE h \in Cluster
    <3>1. p[1] \notin ToSet(ChainIn(t, h))
      BY DirOff
    <3>2. Path(t, h, ChainIn(t, h))
      BY <2>1, StartsApart DEF Apart
    <3>3. ToSet(ChainIn(t, h)) \subseteq Cluster
      BY <3>2, PathFacts
    <3>4. QED
      BY <1>2, <3>1, <3>3 DEF Untouched
  <2>2. CASE h \notin Cluster
    BY <2>2, ChainNone DEF Untouched
  <2>3. QED
    BY <2>1, <2>2
<1>7. QED
  BY <1>3, <1>4, <1>5, <1>6

LEMMA OtherFiles ==
  ASSUME NEW t, NEW dk, NEW u, NEW ek, NEW p, FilesAt(ek) \ {p} = FilesAt(dk) \ {p},
         \A q \in FilesAt(dk) \ {p} : File(u, ek, q) = File(t, dk, q)
  PROVE  /\ p \notin FilesAt(dk) /\ p \notin FilesAt(ek) =>
              FileSet(u, ek) = FileSet(t, dk)
         /\ p \in FilesAt(dk) /\ p \notin FilesAt(ek) =>
              /\ File(t, dk, p) \in FileSet(t, dk)
              /\ FileSet(u, ek) = FileSet(t, dk) \ {File(t, dk, p)}
         /\ p \notin FilesAt(dk) /\ p \in FilesAt(ek) =>
              /\ File(u, ek, p) \notin FileSet(t, dk)
              /\ FileSet(u, ek) = FileSet(t, dk) \cup {File(u, ek, p)}
         /\ p \in FilesAt(dk) /\ p \in FilesAt(ek) =>
              /\ File(t, dk, p) \in FileSet(t, dk)
              /\ FileSet(u, ek) = (FileSet(t, dk) \ {File(t, dk, p)}) \cup {File(u, ek, p)}
              /\ File(u, ek, p) # File(t, dk, p) => File(u, ek, p) \notin FileSet(t, dk)
<1> DEFINE A == FilesAt(dk)
           B == FilesAt(ek)
           D == FilesAt(dk) \ {p}
           R == {File(t, dk, q) : q \in D}
<1>1. \A q : File(t, dk, q).place = q /\ File(u, ek, q).place = q
  BY DEF File
<1>2. \A q \in D : File(t, dk, q) # File(t, dk, p) /\ File(t, dk, q) # File(u, ek, p)
  BY <1>1
<1>3. R = {File(u, ek, q) : q \in B \ {p}}
  OBVIOUS
<1>4. p \in A => FileSet(t, dk) = R \cup {File(t, dk, p)}
  BY DEF FileSet
<1>5. p \notin A => FileSet(t, dk) = R
  BY DEF FileSet
<1>6. p \in B => FileSet(u, ek) = R \cup {File(u, ek, p)}
  BY <1>3 DEF FileSet
<1>7. p \notin B => FileSet(u, ek) = R
  BY <1>3 DEF FileSet
<1>8. File(t, dk, p) \notin R /\ File(u, ek, p) \notin R
  BY <1>2
<1> HIDE DEF A, B, D, R
<1>9. QED
  BY <1>4, <1>5, <1>6, <1>7, <1>8 DEF A, B

-----------------------------------------------------------------------------
\* Before a step and after it

Stored == S!Next \/ UNCHANGED S!vars

LEMMA Sounds ==
  ASSUME IInv, ~suspect
  PROVE  /\ Volume(fat, disk, HandOf(call), Unmarked(call)) /\ Working(fat, disk, call)
         /\ fat \in Tables /\ disk \in Disks /\ call \in Call /\ CallTyped(call)
         /\ call.data \in Seq(DataCell) /\ Len(call.data) \in Nat
         /\ call.done \in Nat /\ call.done <= Len(call.data)
<1>1. /\ Volume(fat, disk, HandOf(call), Unmarked(call)) /\ Working(fat, disk, call)
      /\ fat \in Tables /\ disk \in Disks /\ call \in Call /\ CallTyped(call)
      /\ call.done <= Len(call.data)
  BY DEF IInv, SoundInv, Sound, TypeInv, CallTyped
<1>2. call.data \in Seq(DataCell) /\ call.done \in Nat
  BY <1>1 DEF Call
<1>3. QED
  BY <1>1, <1>2, LenProperties

LEMMA SoundsThen ==
  ASSUME IInv', ~suspect'
  PROVE  /\ Volume(fat', disk', HandOf(call'), Unmarked(call')) /\ Working(fat', disk', call')
         /\ fat' \in Tables /\ disk' \in Disks
BY DEF IInv, SoundInv, Sound, TypeInv

LEMMA NothingWritten ==
  ASSUME NEW t, NEW dk, NEW k, k.pc \in {"idle", "free", "dots"}
  PROVE  Written(t, dk, k)
BY DEF Written

\* The chain in hand is no file's.
LEMMA HandOff ==
  ASSUME NEW t, NEW dk, NEW h, NEW x, Volume(t, dk, h, x),
         NEW c \in ToSet(ChainIn(t, h)), NEW p \in FilesAt(dk)
  PROVE  c \notin ToSet(ChainIn(t, At(dk, p).first))
<1>1. PICK f : f = At(dk, p).first
  OBVIOUS
<1>2. h \in Cluster /\ h \in Starts(dk, h) /\ Apart(t, Starts(dk, h)) /\ p \in Listed(dk)
  BY ChainNone, StartsApart DEF FilesAt
<1>3. CASE f \in Cluster
  <2>1. f # h
    BY <1>1, <1>2, <1>3 DEF Volume, OwnFirst
  <2>2. f \in Starts(dk, h)
    BY <1>1, <1>2, <1>3, StartsApart
  <2>3. QED
    BY <1>1, <1>2, <2>1, <2>2 DEF Apart
<1>4. CASE f \notin Cluster
  BY <1>1, <1>4, ChainNone
<1>5. QED
  BY <1>3, <1>4

\* A call that gives up, having written nothing.
LEMMA StopStores ==
  ASSUME ~suspect', call' = Idle, UNCHANGED <<fat, disk>>
  PROVE  Written(fat', disk', call') /\ Stored
<1>1. Files' = Files
  BY FilesIs
<1>2. call'.data = <<>> /\ call'.pc = "idle"
  BY IdleTyped
<1>3. Written(fat', disk', call')
  BY <1>2, NothingWritten
<1>4. S!Next
  BY <1>1, <1>2, StoreGiveUp
<1>5. QED
  BY <1>3, <1>4 DEF Stored

-----------------------------------------------------------------------------
\* The steps of a copy

LEMMA TakeStores ==
  ASSUME IInv, IInv', ~suspect, Written(fat, disk, call), Take
  PROVE  Written(fat', disk', call') /\ Stored
<1>1. PICK c \in FindFree :
        /\ fat' = IF call.prev = 0 THEN fat ELSE [fat EXCEPT ![call.prev] = c]
        /\ call' = [call EXCEPT !.pc = "fill", !.cur = c,
                                !.first = IF @ = 0 THEN c ELSE @]
  BY DEF Take
<1>2. call.pc = "take" /\ UNCHANGED <<disk, suspect>>
  BY DEF Take
<1>3. /\ Volume(fat, disk, call.first, <<0, 0>>) /\ Copying(fat, disk, call)
      /\ fat \in Tables /\ call \in Call /\ call.done \in Nat
  BY <1>2, Sounds DEF HandOf, Unmarked, Working
<1> DEFINE h == call.first
           s == ChainIn(fat, h)
<1>4. /\ call'.pc = "fill" /\ call'.data = call.data /\ call'.done = call.done
      /\ h # 0 => call'.first = h
  BY <1>1, <1>3 DEF Call
<1>5. /\ call.done = Len(s) * Cells
      /\ \/ h = 0 /\ call.prev = 0
         \/ h \in Cluster /\ call.prev = Last(s) /\ fat[Last(s)] = EOC
  BY <1>2, <1>3 DEF Copying
<1>6. Holds(fat, disk, h, 0, call.data, call.done)
  BY <1>2 DEF Written
<1>7. CASE h = 0
  <2>1. fat' = fat /\ call.done = 0
    <3>1. Len(s) = 0
      BY <1>7, Numbers, ChainNone
    <3>2. QED
      BY <1>1, <1>5, <1>7, <3>1, Numbers
  <2>2. Files' = Files
    BY <1>2, <2>1, FilesIs
  <2>3. Written(fat', disk', call')
    BY <1>4, <2>1 DEF Written, Holds
  <2>4. QED
    BY <1>2, <1>4, <2>2, <2>3, StoreStill DEF Stored
<1>8. CASE h # 0
  <2>1. h \in Cluster /\ call.prev = Last(s) /\ fat[Last(s)] = EOC
    BY <1>5, <1>8
  <2>2. Path(fat, h, s) /\ Last(s) \in Cluster
    <3>1. Path(fat, h, s)
      BY <1>3, <2>1, StartsApart DEF Apart
    <3>2. QED
      BY <2>1, <3>1, PathFacts
  <2>3. HandOf(call') = h /\ Volume(fat', disk, h, Unmarked(call'))
    <3>1. HandOf(call') = h
      BY <1>4, <1>8 DEF HandOf
    <3>2. QED
      BY <1>2, <3>1, SoundsThen
  <2>4. \A z \in Cluster : z # Last(s) => fat'[z] = fat[z]
    BY <1>1, <1>3, <2>1, <2>2, Numbers DEF Tables
  <2>5. fat[Last(s)] \notin Cluster
    BY <2>1, Numbers
  <2>6. FileSet(fat', disk) = FileSet(fat, disk)
    BY <1>3, <2>3, <2>4, <2>5, TableFiles
  <2>7. Files' = Files
    BY <1>2, <2>6, FilesIs
  <2>8. Path(fat', h, ChainIn(fat', h))
    BY <2>1, <2>3, StartsApart DEF Apart
  <2>9. Extended(fat, fat', h)
    BY <2>2, <2>4, <2>5, <2>8, WriteExtends
  <2>10. Holds(fat', disk, h, 0, call.data, call.done)
    <3>1. Untouched(fat, disk, disk, h)
      BY DEF Untouched
    <3>2. 0 + call.done <= Len(ChainIn(fat, h)) * Cells /\ 0 \in Nat
      BY <1>3, <1>5
    <3> HIDE DEF h
    <3>3. QED
      BY <1>3, <1>6, <2>9, <3>1, <3>2, HoldsStays
  <2>11. Written(fat', disk', call')
    BY <1>2, <1>4, <1>8, <2>10 DEF Written
  <2>12. QED
    BY <1>2, <1>4, <2>7, <2>11, StoreStill DEF Stored
<1>9. QED
  BY <1>7, <1>8

LEMMA FillStores ==
  ASSUME IInv, IInv', ~suspect, Written(fat, disk, call), Fill
  PROVE  Written(fat', disk', call') /\ Stored
<1> DEFINE c == call.cur
           h == call.first
           s == ChainIn(fat, h)
           row == Filled(call.data, call.done)
<1>1. /\ call.pc = "fill" /\ disk' = [disk EXCEPT ![c] = row]
      /\ call' = [call EXCEPT !.pc = "close"] /\ UNCHANGED <<fat, suspect>>
  BY DEF Fill
<1>2. /\ Volume(fat, disk, h, <<0, 0>>) /\ Copying(fat, disk, call)
      /\ disk \in Disks /\ call \in Call /\ call.done \in Nat /\ Len(call.data) \in Nat
      /\ call.data \in Seq(DataCell)
  BY <1>1, Sounds DEF HandOf, Unmarked, Working
<1>3. /\ call'.pc = "close" /\ call'.data = call.data /\ call'.done = call.done
      /\ call'.first = h
  BY <1>1, <1>2 DEF Call
<1>4. h \in Cluster /\ c = Last(s) /\ call.done + Cells = Len(s) * Cells
  BY <1>1, <1>2 DEF Copying
<1>5. Path(fat, h, s) /\ c \in ToSet(s) /\ c \in Cluster
  <2>1. Path(fat, h, s)
    BY <1>2, <1>4, StartsApart DEF Apart
  <2>2. QED
    BY <1>4, <2>1, PathFacts
<1>6. disk'[c] = row /\ \A b \in Cluster : b # c => disk'[b] = disk[b]
  BY <1>1, <1>2, <1>5 DEF Disks
<1>7. \A i \in Row : ~Live(disk'[c][i])
  <2>1. row \in [Row -> DataCell]
    BY <1>2, FilledIs
  <2> HIDE DEF row
  <2>2. QED
    BY <1>6, <2>1, CellKinds
<1>8. Volume(fat, disk', h, Unmarked(call'))
  <2>1. HandOf(call') = h
    BY <1>3 DEF HandOf
  <2>2. QED
    BY <1>1, <2>1, SoundsThen
<1>9. c \notin Dirs(disk) /\ \A p \in FilesAt(disk) : c \notin ToSet(ChainIn(fat, At(disk, p).first))
  BY <1>2, <1>5, DirOff, HandOff
<1>10. Files' = Files
  <2> HIDE DEF c, h, row
  <2>1. FileSet(fat, disk') = FileSet(fat, disk)
    BY <1>2, <1>6, <1>7, <1>8, <1>9, RowFiles
  <2>2. QED
    BY <1>1, <2>1, FilesIs
<1>11. Holds(fat, disk', h, 0, call.data, Upto(call))
  <2>1. Holds(fat, disk, h, 0, call.data, call.done)
    BY <1>1 DEF Written
  <2>2. PICK n : n = Upto(call)
    OBVIOUS
  <2>3. n \in Nat /\ n <= call.done + Cells /\ n <= Len(call.data)
    BY <1>2, <2>2, Numbers DEF Upto
  <2>4. 0 + call.done + Cells = Len(ChainIn(fat, h)) * Cells
    BY <1>2, <1>4, Numbers
  <2>5. disk'[c] = Filled(call.data, call.done)
    BY <1>6
  <2>6. Path(fat, h, ChainIn(fat, h)) /\ c = Last(ChainIn(fat, h)) /\ h \in Cluster
        /\ 0 \in Nat /\ call.done \in Nat /\ Len(call.data) \in Nat
    BY <1>2, <1>4, <1>5
  <2>7. \A b \in Cluster : b # c => disk'[b] = disk[b]
    BY <1>6
  <2> HIDE DEF c, h
  <2>8. Holds(fat, disk', h, 0, call.data, n)
    BY ONLY <2>1, <2>3, <2>4, <2>5, <2>6, <2>7, HoldsMore, SMTT(60)
  <2>9. QED
    BY <2>2, <2>8
<1>12. Upto(call') = Upto(call)
  BY <1>3 DEF Upto
<1>13. Written(fat', disk', call')
  BY <1>1, <1>3, <1>11, <1>12 DEF Written
<1>14. QED
  BY <1>1, <1>3, <1>10, <1>13, StoreStill DEF Stored

LEMMA CloseStores ==
  ASSUME IInv, IInv', ~suspect, Written(fat, disk, call), Close
  PROVE  Written(fat', disk', call') /\ Stored
<1> DEFINE c == call.cur
           h == call.first
           s == ChainIn(fat, h)
           to == IF Progress < Len(call.data) THEN "take" ELSE "enter"
<1>1. /\ call.pc = "close" /\ fat' = [fat EXCEPT ![c] = EOC]
      /\ call' = [call EXCEPT !.pc = to, !.done = Progress, !.prev = c]
      /\ UNCHANGED <<disk, suspect>>
  BY DEF Close
<1>2. /\ Volume(fat, disk, h, <<0, 0>>) /\ Copying(fat, disk, call)
      /\ fat \in Tables /\ call \in Call /\ call.done \in Nat /\ Len(call.data) \in Nat
  BY <1>1, Sounds DEF HandOf, Unmarked, Working
<1>3. /\ Progress \in Nat /\ Progress = Upto(call)
      /\ Progress <= call.done + Cells /\ Progress <= Len(call.data)
  <2>1. /\ Progress \in Nat
        /\ Progress = IF call.done + Cells <= Len(call.data) THEN call.done + Cells
                                                             ELSE Len(call.data)
    BY <1>2, ProgressIs
  <2>2. QED
    BY <1>2, <2>1, Numbers DEF Upto
<1>4. /\ call'.pc = to /\ call'.data = call.data /\ call'.done = Progress
      /\ call'.first = h
  BY <1>1, <1>2 DEF Call
<1>5. h \in Cluster /\ c = Last(s) /\ call.done + Cells = Len(s) * Cells
  BY <1>1, <1>2 DEF Copying
<1>6. Path(fat, h, s) /\ c \in Cluster /\ fat[c] \notin Cluster
  <2>1. Path(fat, h, s)
    BY <1>2, <1>5, StartsApart DEF Apart
  <2>2. QED
    BY <1>5, <2>1, PathFacts
<1>7. \A z \in Cluster : z # c => fat'[z] = fat[z]
  BY <1>1, <1>2, <1>6, Numbers DEF Tables
<1>8. to \in {"take", "enter"} /\ (to = "enter" => Progress = Len(call.data))
  BY <1>2, <1>3
<1> HIDE DEF to
<1>9. Volume(fat', disk, h, Unmarked(call'))
  <2>1. HandOf(call') = h
    BY <1>4, <1>8 DEF HandOf
  <2>2. QED
    BY <1>1, <2>1, SoundsThen
<1>10. Files' = Files
  <2>1. FileSet(fat', disk) = FileSet(fat, disk)
    BY <1>2, <1>6, <1>7, <1>9, TableFiles
  <2>2. QED
    BY <1>1, <2>1, FilesIs
<1>11. Holds(fat', disk, h, 0, call.data, Progress)
  <2>1. Holds(fat, disk, h, 0, call.data, Progress)
    BY <1>1, <1>3 DEF Written
  <2>2. Path(fat', h, ChainIn(fat', h))
    BY <1>5, <1>9, StartsApart DEF Apart
  <2>3. Extended(fat, fat', h)
    BY <1>6, <1>7, <2>2, WriteExtends
  <2>4. Untouched(fat, disk, disk, h)
    BY DEF Untouched
  <2>5. 0 + Progress <= Len(ChainIn(fat, h)) * Cells /\ 0 \in Nat
    BY <1>3, <1>5
  <2> HIDE DEF h
  <2>6. QED
    BY <1>3, <2>1, <2>3, <2>4, <2>5, HoldsStays
<1>12. Written(fat', disk', call')
  BY <1>1, <1>4, <1>8, <1>11 DEF Written
<1>13. QED
  BY <1>1, <1>4, <1>10, <1>12, StoreStill DEF Stored

\* A call that has written nothing yet.
LEMMA FreeingStores ==
  ASSUME NEW k \in Call, k.done = 0, NEW c, NEW t, NEW dk
  PROVE  Freeing(k, c).data = k.data /\ Written(t, dk, Freeing(k, c))
<1>1. CASE c \in Cluster
  <2>1. Freeing(k, c) = [k EXCEPT !.pc = "free", !.cur = c]
    BY <1>1 DEF Freeing
  <2>2. Freeing(k, c).pc = "free" /\ Freeing(k, c).data = k.data
    BY <2>1 DEF Call
  <2>3. QED
    BY <2>2, NothingWritten
<1>2. CASE c \notin Cluster /\ k.data = <<>>
  <2>1. Freeing(k, c) = Idle
    BY <1>2 DEF Freeing
  <2>2. QED
    BY <1>2, <2>1, IdleTyped, NothingWritten
<1>3. CASE c \notin Cluster /\ k.data # <<>>
  <2>1. Freeing(k, c) = [k EXCEPT !.pc = "take"]
    BY <1>3 DEF Freeing
  <2> DEFINE x == Freeing(k, c)
  <2>2. x.pc = "take" /\ x.data = k.data /\ x.done = 0
    BY <2>1 DEF Call
  <2> HIDE DEF x
  <2>3. Holds(t, dk, x.first, 0, x.data, x.done)
    BY <2>2 DEF Holds
  <2>4. Written(t, dk, x)
    BY <2>2, <2>3 DEF Written
  <2>5. QED
    BY <2>2, <2>4 DEF x
<1>4. QED
  BY <1>1, <1>2, <1>3

LEMMA FreeNextStores ==
  ASSUME IInv, IInv', ~suspect, FreeNext
  PROVE  Written(fat', disk', call') /\ Stored
<1> DEFINE c == call.cur
<1>1. /\ call.pc = "free" /\ fat' = [fat EXCEPT ![c] = 0]
      /\ call' = Freeing(call, fat[c]) /\ UNCHANGED <<disk, suspect>>
  BY DEF FreeNext
<1>2. /\ Volume(fat, disk, c, <<0, 0>>) /\ Removing(fat, disk, call)
      /\ fat \in Tables /\ call \in Call
  BY <1>1, Sounds DEF HandOf, Unmarked, Working
<1>3. c \in Cluster /\ call.done = 0
  BY <1>1, <1>2 DEF Removing
<1>4. \A z \in Cluster : z # c => fat'[z] = fat[z]
  BY <1>1, <1>2, <1>3, Numbers DEF Tables
<1>5. call'.data = call.data /\ Written(fat', disk', call')
  BY <1>1, <1>2, <1>3, FreeingStores
<1>6. c \in ToSet(ChainIn(fat, c))
  BY <1>2, <1>3, StartsApart, ChainFacts
<1>7. \A p \in FilesAt(disk) : c \notin ToSet(ChainIn(fat, At(disk, p).first))
  BY <1>2, <1>6, HandOff
<1>8. Volume(fat', disk, HandOf(call'), Unmarked(call'))
  BY <1>1, SoundsThen
<1>9. Files' = Files
  <2> HIDE DEF c
  <2>1. FileSet(fat', disk) = FileSet(fat, disk)
    BY <1>2, <1>4, <1>7, <1>8, TableFiles
  <2>2. QED
    BY <1>1, <2>1, FilesIs
<1>10. QED
  BY <1>1, <1>5, <1>9, StoreStill DEF Stored

LEMMA StrikeFiles ==
  ASSUME IInv, IInv', Begin, ~suspect', NEW n, NEW p \in Find(current_dir_cluster, n),
         NEW k, Strike(p, k), fat' = fat
  PROVE  \E f \in Files : Files' = Files \ {f}
<1>1. /\ disk \in Disks /\ Volume(fat, disk, 0, <<0, 0>>)
      /\ current_dir_cluster \in Dirs(disk) /\ current_dir_cluster \in Cluster
  BY AtRest
<1>2. /\ p \in Place /\ CellAt(p) = At(disk, p) /\ Live(CellAt(p))
      /\ CellAt(p).is # "dir" => p \in Listed(disk)
  BY FoundIs
<1>3. /\ disk' = Put(p, Deleted) /\ suspect' = (CellAt(p).is = "dir")
  BY DEF Strike, Misuse, RemoveMisused
<1>4. At(disk', p) = Deleted /\ \A q \in Place : q # p => At(disk', q) = At(disk, q)
  BY <1>1, <1>2, <1>3, PutIs, CellKinds
<1>5. p \in FilesAt(disk) /\ p \notin FilesAt(disk')
  BY <1>2, <1>3, <1>4, CellKinds DEF FilesAt, Listed, Live
<1>6. p[1] \in Dirs(disk)
  BY <1>1, FindIs
<1>7. Volume(fat, disk', HandOf(call'), Unmarked(call'))
  BY SoundsThen
<1>8. /\ FilesAt(disk') \ {p} = FilesAt(disk) \ {p}
      /\ \A q \in FilesAt(disk) \ {p} : File(fat, disk', q) = File(fat, disk, q)
  BY <1>1, <1>2, <1>4, <1>6, <1>7, EntryFiles
<1>9. /\ File(fat, disk, p) \in FileSet(fat, disk)
      /\ FileSet(fat, disk') = FileSet(fat, disk) \ {File(fat, disk, p)}
  BY <1>5, <1>8, OtherFiles
<1>10. QED
  BY <1>9, FilesIs

LEMMA DeleteFileStores ==
  ASSUME IInv, IInv', ~suspect', NEW n, DeleteFile(n)
  PROVE  Written(fat', disk', call') /\ Stored
<1>1. PICK p \in Find(current_dir_cluster, n) : Strike(p, Idle)
  BY DEF DeleteFile
<1>2. Begin /\ fat' = fat /\ call = Idle
  BY AtRest DEF DeleteFile
<1>3. call' = Freeing(Idle, CellAt(p).first) /\ Idle \in Call /\ Idle.done = 0
  BY <1>1, IdleTyped DEF Strike, CallTyped
<1>4. call'.data = call.data /\ Written(fat', disk', call')
  BY <1>2, <1>3, FreeingStores
<1>5. PICK f \in Files : Files' = Files \ {f}
  BY <1>1, <1>2, StrikeFiles
<1>6. QED
  BY <1>4, <1>5, StoreRemove DEF Stored

LEMMA CopyStores ==
  ASSUME IInv, IInv', ~suspect', NEW s \in Names, NEW n \in Names,
         NEW d \in Names \cup Dots \cup {Here}, Copy(s, d, n)
  PROVE  Written(fat', disk', call') /\ Stored
<1>1. /\ Begin /\ call = Idle /\ ~suspect /\ disk \in Disks
      /\ Volume(fat, disk, 0, <<0, 0>>) /\ fat' = fat
  BY AtRest DEF Copy
<1>2. PICK p \in Find(current_dir_cluster, s), t \in TargetDir(d) :
        LET k == [Idle EXCEPT !.data = Content(CellAt(p)), !.dir = t, !.name = n]
        IN /\ CellAt(p).size > 0
           /\ IF Replaced(d, n) = {}
              THEN /\ call' = [k EXCEPT !.pc = "take"]
                   /\ UNCHANGED <<disk, suspect>>
              ELSE \E q \in Replaced(d, n) : Strike(q, k)
  BY DEF Copy
<1> DEFINE data == Content(CellAt(p))
           k == [Idle EXCEPT !.data = data, !.dir = t, !.name = n]
<1>3. p \in Listed(disk) /\ CellAt(p).is = "file" /\ CellAt(p) = At(disk, p)
  BY <1>1, <1>2, FoundIs, DotNames DEF Live
<1>4. data \in Seq(DataCell) /\ data # <<>>
  <2>1. data \in Seq(DataCell) /\ Len(data) = CellAt(p).size
    BY <1>1, <1>3, ContentIs
  <2>2. data # <<>>
    BY <1>2, <2>1, EmptySeq
  <2>3. QED
    BY <2>1, <2>2
<1>5. t \in Cluster
  <2>1. CASE d = Here
    BY <1>1, <2>1, AtRest DEF TargetDir
  <2>2. CASE d # Here
    <3>1. PICK q \in Find(current_dir_cluster, d) :
            CellAt(q).is = "dir" /\ t = IF CellAt(q).first = 0 THEN 2 ELSE CellAt(q).first
      BY <2>2 DEF TargetDir
    <3>2. t \in Dirs(disk)
      BY <1>1, <3>1, FoundIs
    <3>3. QED
      BY <1>1, <3>2, DirOff
  <2>3. QED
    BY <2>1, <2>2
<1>6. PICK f \in Files : f.data = data
  <2>1. p \in Entries \ DirEntries
    BY <1>3, EntriesListed DEF DirEntries
  <2> DEFINE x == [place |-> p, name |-> CellAt(p).name, data |-> data]
  <2>2. x \in Files /\ x.data = data
    BY <2>1 DEF Files
  <2>3. QED
    BY <2>2
<1> HIDE DEF data
<1>7. k \in Call /\ k.data = data /\ k.done = 0
  <2>1. 0 \in 0 .. LastCluster /\ 0 \in Nat
    BY Numbers
  <2>2. k \in Call
    BY <1>4, <1>5, <2>1 DEF Idle, Call
  <2>3. QED
    BY <2>2 DEF Idle
<1>8. CASE Replaced(d, n) = {}
  <2>1. call' = [k EXCEPT !.pc = "take"] /\ UNCHANGED <<disk, suspect>>
    BY <1>2, <1>8 DEF data
  <2> HIDE DEF k
  <2>2. call' = Freeing(k, EOC)
    BY <1>4, <1>7, <2>1, Numbers DEF Freeing
  <2>3. call'.data = f.data /\ Written(fat', disk', call')
    BY <1>6, <1>7, <2>2, FreeingStores
  <2>4. Files' = Files
    BY <1>1, <2>1, FilesIs
  <2>5. QED
    BY <2>3, <2>4, StoreBeginCopy DEF Stored
<1>9. CASE Replaced(d, n) # {}
  <2>1. PICK q \in Replaced(d, n) : Strike(q, k)
    BY <1>2, <1>9 DEF data
  <2>2. q \in Find(current_dir_cluster, n)
    BY DEF Replaced
  <2> HIDE DEF k
  <2>3. call' = Freeing(k, CellAt(q).first)
    BY <2>1 DEF Strike
  <2>4. call'.data = f.data /\ Written(fat', disk', call')
    BY <1>6, <1>7, <2>3, FreeingStores
  <2>5. \E g \in Files : Files' = Files \ {g}
    BY <1>1, <2>1, <2>2, StrikeFiles
  <2>6. QED
    BY <2>4, <2>5, StoreBeginCopy DEF Stored
<1>10. QED
  BY <1>8, <1>9

LEMMA EnterStores ==
  ASSUME IInv, IInv', ~suspect, ~suspect', Written(fat, disk, call), Enter
  PROVE  Written(fat', disk', call') /\ Stored
<1> DEFINE h == call.first
           s == ChainIn(fat, h)
           e == NewEntry
<1>1. PICK p \in Slot(call.dir) : disk' = Put(p, e)
  BY DEF Enter
<1>2. call.pc = "enter" /\ call' = Idle /\ UNCHANGED <<fat, suspect>>
  BY DEF Enter
<1>3. /\ Volume(fat, disk, h, <<0, 0>>) /\ Entering(fat, disk, call)
      /\ disk \in Disks /\ call \in Call /\ Len(call.data) \in Nat
      /\ call.data \in Seq(DataCell) /\ CallTyped(call)
  BY <1>2, Sounds DEF HandOf, Unmarked, Working
<1>4. /\ h \in Cluster /\ call.dir \in Dirs(disk) /\ call.dir \in Cluster
      /\ call.data # <<>> => Len(call.data) <= Len(s) * Cells
  BY <1>2, <1>3 DEF Entering, CallTyped
<1>5. p \in Place /\ p[1] = call.dir /\ ~Live(At(disk, p))
  BY <1>1, <1>4, SlotIs
<1>6. h \in 0 .. LastCluster /\ call.name \in Names \cup Dots \cup {""} /\ call.name \notin Dots
  <2>1. "" \notin Dots
    BY DEF Dots
  <2>2. QED
    BY <1>3, <2>1, DotNames DEF Call
<1>7. p \notin FilesAt(disk)
  BY <1>5 DEF FilesAt, Listed
<1>8. Volume(fat, disk', 0, <<0, 0>>)
  BY <1>2, SoundsThen, IdleWorks
<1>9. Written(fat', disk', call') /\ call'.data = <<>>
  BY <1>2, IdleTyped, NothingWritten
<1>10. CASE call.data = <<>>
  <2>1. e = Entry("dir", call.name, h, 0)
    BY <1>10 DEF NewEntry
  <2> HIDE DEF e
  <2>2. e \in Cell /\ e.is = "dir"
    <3> DEFINE x == Entry("dir", call.name, h, 0)
    <3>1. x \in Cell /\ x.is = "dir"
      BY <1>6 DEF Entry, Cell
    <3> HIDE DEF x
    <3>2. QED
      BY <2>1, <3>1 DEF x
  <2>3. At(disk', p) = e /\ \A q \in Place : q # p => At(disk', q) = At(disk, q)
    BY <1>1, <1>3, <1>5, <2>2, PutIs
  <2>4. p \notin FilesAt(disk')
    BY <2>2, <2>3 DEF FilesAt
  <2>5. /\ FilesAt(disk') \ {p} = FilesAt(disk) \ {p}
        /\ \A q \in FilesAt(disk) \ {p} : File(fat, disk', q) = File(fat, disk, q)
    <3> HIDE DEF h
    <3>1. QED
      BY <1>3, <1>4, <1>5, <1>8, <2>3, EntryFiles
  <2>6. FileSet(fat, disk') = FileSet(fat, disk)
    BY <1>7, <2>4, <2>5, OtherFiles
  <2>7. Files' = Files
    BY <1>2, <2>6, FilesIs
  <2>8. QED
    BY <1>9, <2>7, StoreGiveUp DEF Stored
<1>11. CASE call.data # <<>>
  <2> DEFINE z == Len(call.data)
  <2>1. e = Entry("file", call.name, h, z)
    BY <1>11 DEF NewEntry
  <2> HIDE DEF e
  <2>2. e \in Cell /\ e.is = "file" /\ e.name = call.name /\ e.first = h /\ e.size = z
    <3> DEFINE x == Entry("file", call.name, h, z)
    <3>1. x \in Cell /\ x.is = "file" /\ x.name = call.name /\ x.first = h /\ x.size = z
      BY <1>3, <1>6 DEF Entry, Cell
    <3> HIDE DEF x
    <3>2. QED
      BY <2>1, <3>1 DEF x
  <2>3. At(disk', p) = e /\ \A q \in Place : q # p => At(disk', q) = At(disk, q)
    BY <1>1, <1>3, <1>5, <2>2, PutIs
  <2>4. p \in FilesAt(disk')
    BY <1>5, <1>6, <2>2, <2>3 DEF FilesAt, Listed, Live
  <2>5. /\ FilesAt(disk') \ {p} = FilesAt(disk) \ {p}
        /\ \A q \in FilesAt(disk) \ {p} : File(fat, disk', q) = File(fat, disk, q)
        /\ Untouched(fat, disk, disk', h)
    <3> HIDE DEF h
    <3>1. QED
      BY <1>3, <1>4, <1>5, <1>8, <2>3, EntryFiles
  <2> DEFINE f == File(fat, disk', p)
  <2>6. f \notin FileSet(fat, disk) /\ FileSet(fat, disk') = FileSet(fat, disk) \cup {f}
    BY <1>7, <2>4, <2>5, OtherFiles
  <2>7. f.data = call.data
    <3>1. f.data = [i \in 1 .. z |-> CellOf(fat, disk', h, i - 1)]
      BY <1>8, <2>2, <2>3, <2>4, FileIs DEF File
    <3>2. Holds(fat, disk', h, 0, call.data, z)
      <4>1. Holds(fat, disk, h, 0, call.data, z)
        BY <1>2 DEF Written
      <4>2. Extended(fat, fat, h)
        BY ExtendedSelf
      <4>3. 0 + z <= Len(ChainIn(fat, h)) * Cells /\ 0 \in Nat /\ z \in Nat
        BY <1>3, <1>4, <1>11
      <4> HIDE DEF h, z
      <4>4. QED
        BY <2>5, <4>1, <4>2, <4>3, HoldsStays
    <3>3. \A i \in 1 .. z : 0 + i - 1 = i - 1
      BY <1>3
    <3>4. \A i \in 1 .. z : CellOf(fat, disk', h, i - 1) = call.data[i]
      BY <3>2, <3>3 DEF Holds
    <3>5. call.data = [i \in 1 .. z |-> call.data[i]]
      BY <1>3
    <3> HIDE DEF f
    <3>6. QED
      BY <3>1, <3>4, <3>5
  <2> HIDE DEF f
  <2>8. f \notin Files /\ Files' = Files \cup {f}
    BY <1>2, <2>6, FilesIs
  <2>9. QED
    BY <1>9, <2>7, <2>8, StoreCreate DEF Stored
<1>12. QED
  BY <1>10, <1>11

-----------------------------------------------------------------------------
\* Directories and names

LEMMA MakeDirStores ==
  ASSUME IInv, IInv', ~suspect', NEW n, MakeDir(n)
  PROVE  Written(fat', disk', call') /\ Stored
<1>1. PICK c \in FindFree :
        /\ fat' = [fat EXCEPT ![c] = EOC]
        /\ call' = [Idle EXCEPT !.pc = "dots", !.dir = current_dir_cluster,
                                !.name = n, !.first = c]
  BY DEF MakeDir
<1>2. /\ call = Idle /\ ~suspect /\ Volume(fat, disk, 0, <<0, 0>>) /\ fat \in Tables
      /\ UNCHANGED <<disk, suspect>>
  BY AtRest DEF MakeDir, TypeInv
<1>3. c \in Cluster /\ fat[c] \notin Cluster
  BY FreeIs, Numbers
<1>4. call'.pc = "dots" /\ call'.data = call.data
  BY <1>1, <1>2 DEF Idle
<1>5. \A z \in Cluster : z # c => fat'[z] = fat[z]
  BY <1>1, <1>2, Numbers DEF Tables
<1>6. Volume(fat', disk, HandOf(call'), Unmarked(call'))
  BY <1>2, SoundsThen
<1>7. FileSet(fat', disk) = FileSet(fat, disk)
  BY <1>2, <1>3, <1>5, <1>6, TableFiles
<1>8. Files' = Files
  BY <1>2, <1>7, FilesIs
<1>9. Written(fat', disk', call')
  BY <1>4, NothingWritten
<1>10. QED
  BY <1>2, <1>4, <1>8, <1>9, StoreStill DEF Stored

LEMMA WriteDotsStores ==
  ASSUME IInv, IInv', ~suspect, WriteDots
  PROVE  Written(fat', disk', call') /\ Stored
<1> DEFINE c == call.first
           row == [i \in Row |->
                     CASE i = 0 -> Entry("dir", ".", c, 0)
                       [] i = 1 -> Entry("dir", "..", ParentOf(call.dir, c), 0)
                       [] OTHER -> Zero]
<1>1. /\ call.pc = "dots" /\ disk' = [disk EXCEPT ![c] = row]
      /\ call' = [call EXCEPT !.pc = "enter"] /\ UNCHANGED <<fat, suspect>>
  BY DEF WriteDots
<1>2. /\ Volume(fat, disk, c, <<0, 0>>) /\ Entering(fat, disk, call)
      /\ disk \in Disks /\ call \in Call
  BY <1>1, Sounds DEF HandOf, Unmarked, Working
<1>3. c \in Cluster /\ call.data = <<>>
  BY <1>1, <1>2 DEF Entering
<1>4. \A i \in Row : Live(row[i]) => row[i].name \in Dots
  <2>1. 0 \in Row /\ 1 \in Row
    BY Places
  <2>2. /\ row[0] = Entry("dir", ".", c, 0)
        /\ row[1] = Entry("dir", "..", ParentOf(call.dir, c), 0)
        /\ \A i \in Row : i \notin {0, 1} => row[i] = Zero
    BY <2>1
  <2> HIDE DEF row
  <2>3. row[0].name \in Dots /\ row[1].name \in Dots
    BY <2>2, DotNames DEF Entry
  <2>4. QED
    BY <2>2, <2>3, CellKinds
<1> HIDE DEF row
<1>5. disk'[c] = row /\ \A b \in Cluster : b # c => disk'[b] = disk[b]
  BY <1>1, <1>2, <1>3 DEF Disks
<1>6. call'.pc = "enter" /\ call'.data = <<>> /\ call'.first = c
  BY <1>1, <1>2, <1>3 DEF Call
<1>7. c \in ToSet(ChainIn(fat, c))
  BY <1>2, <1>3, StartsApart, ChainFacts
<1>8. c \notin Dirs(disk) /\ \A p \in FilesAt(disk) : c \notin ToSet(ChainIn(fat, At(disk, p).first))
  BY <1>2, <1>7, DirOff, HandOff
<1>9. Volume(fat, disk', HandOf(call'), Unmarked(call'))
  BY <1>1, SoundsThen
<1>10. Files' = Files
  <2>1. \A i \in Row : Live(disk'[c][i]) => disk'[c][i].name \in Dots
    BY <1>4, <1>5
  <2> HIDE DEF c
  <2>2. FileSet(fat, disk') = FileSet(fat, disk)
    BY <1>2, <1>5, <1>8, <1>9, <2>1, RowFiles
  <2>3. QED
    BY <1>1, <2>2, FilesIs
<1>11. Written(fat', disk', call')
  <2>1. Holds(fat', disk', call'.first, 0, call'.data, Len(call'.data))
    <3>1. Len(call'.data) = 0
      BY <1>6, EmptySeq
    <3>2. QED
      BY <3>1 DEF Holds
  <2>2. QED
    BY <1>6, <2>1 DEF Written
<1>12. QED
  BY <1>1, <1>3, <1>6, <1>10, <1>11, StoreStill DEF Stored

LEMMA ChangeDirStores ==
  ASSUME Written(fat, disk, call), NEW n, ChangeDir(n)
  PROVE  Written(fat', disk', call') /\ Stored
<1>1. UNCHANGED <<fat, disk, call, suspect>>
  BY DEF ChangeDir
<1>2. Files' = Files
  BY <1>1, FilesIs
<1>3. QED
  BY <1>1, <1>2, StoreStill DEF Stored

\* The cells of an entry whose size may grow.
LEMMA CellsKept ==
  ASSUME NEW t, NEW dk, NEW h, NEW x, Volume(t, dk, h, x), NEW p \in FilesAt(dk),
         NEW f, f = At(dk, p).first,
         NEW u, NEW ek, f \in Cluster => Extended(t, u, f) /\ Untouched(t, dk, ek, f)
  PROVE  \A i \in 1 .. At(dk, p).size : CellOf(u, ek, f, i - 1) = CellOf(t, dk, f, i - 1)
<1>1. PICK n : n = At(dk, p).size
  OBVIOUS
<1>2. PICK m : m = Len(ChainIn(t, f))
  OBVIOUS
<1>3. n \in Nat /\ m \in Nat /\ n <= m * Cells
  BY <1>1, <1>2, FileIs
<1>4. m * Cells \in Nat
  BY <1>3, Numbers
<1>5. ASSUME NEW i \in 1 .. n PROVE CellOf(u, ek, f, i - 1) = CellOf(t, dk, f, i - 1)
  <2>1. f \in Cluster
    <3> SUFFICES ASSUME f \notin Cluster PROVE FALSE
      OBVIOUS
    <3>1. m = 0
      BY <1>2, ChainNone
    <3>2. 0 * Cells = 0
      BY Numbers
    <3>3. QED
      BY <1>3, <1>5, <3>1, <3>2
  <2>2. PICK j : j = i - 1
    OBVIOUS
  <2>3. j \in Nat /\ j < m * Cells
    BY <1>3, <1>4, <2>2
  <2>4. CellOf(u, ek, f, j) = CellOf(t, dk, f, j)
    BY <1>2, <2>1, <2>3, CellStays
  <2>5. QED
    BY <2>2, <2>4
<1>6. QED
  BY <1>1, <1>5

LEMMA RenameStores ==
  ASSUME IInv, IInv', ~suspect', Written(fat, disk, call), NEW o, NEW n \in Names, Rename(o, n)
  PROVE  Written(fat', disk', call') /\ Stored
<1>1. PICK p \in Find(current_dir_cluster, o) :
        /\ disk' = Put(p, [CellAt(p) EXCEPT !.name = n])
        /\ Misuse(RenameMisused(CellAt(p)))
  BY DEF Rename
<1>2. Begin /\ UNCHANGED <<fat, call>> /\ Find(current_dir_cluster, n) = {}
  BY DEF Rename
<1>3. /\ call = Idle /\ ~suspect /\ disk \in Disks /\ Volume(fat, disk, 0, <<0, 0>>)
      /\ current_dir_cluster \in Dirs(disk) /\ current_dir_cluster \in Cluster
  BY <1>2, AtRest
<1>4. /\ p \in Place /\ CellAt(p) = At(disk, p) /\ CellAt(p) \in Cell
      /\ CellAt(p).name = o /\ (o \notin Dots => p \in Listed(disk))
      /\ p[1] \in Dirs(disk)
  BY <1>2, <1>3, FoundIs, FindIs
<1> DEFINE e == [CellAt(p) EXCEPT !.name = n]
<1>5. /\ e \in Cell /\ e.name = n /\ e.is = CellAt(p).is /\ e.first = CellAt(p).first
      /\ e.size = CellAt(p).size
  BY <1>4 DEF Cell
<1> HIDE DEF e
<1>6. At(disk', p) = e /\ \A q \in Place : q # p => At(disk', q) = At(disk, q)
  BY <1>1, <1>3, <1>4, <1>5, PutIs DEF e
<1>7. o \notin Dots /\ o # n /\ p \in Listed(disk)
  BY <1>1, <1>2, <1>4 DEF Misuse, RenameMisused
<1>8. p \in Listed(disk')
  BY <1>4, <1>5, <1>6, <1>7, DotNames DEF Listed, Live
<1>9. Volume(fat, disk', 0, <<0, 0>>)
  BY <1>2, <1>3, SoundsThen, IdleWorks
<1>10. Written(fat', disk', call') /\ call'.data = call.data
  BY <1>2, <1>3, IdleTyped, NothingWritten
<1>11. /\ FilesAt(disk') \ {p} = FilesAt(disk) \ {p}
       /\ \A q \in FilesAt(disk) \ {p} : File(fat, disk', q) = File(fat, disk, q)
       /\ \A q \in FilesAt(disk) : At(disk, q).first \in Cluster =>
            Untouched(fat, disk, disk', At(disk, q).first)
  BY <1>3, <1>4, <1>6, <1>9, EntryFiles
<1>12. CASE CellAt(p).is # "file"
  <2>1. p \notin FilesAt(disk) /\ p \notin FilesAt(disk')
    BY <1>4, <1>5, <1>6, <1>12 DEF FilesAt
  <2>2. FileSet(fat, disk') = FileSet(fat, disk)
    <3>1. FilesAt(disk') = FilesAt(disk)
      BY <1>11, <2>1
    <3>2. \A q \in FilesAt(disk) : File(fat, disk', q) = File(fat, disk, q)
      BY <1>11, <2>1
    <3>3. QED
      BY <3>1, <3>2, SameFiles
  <2>3. Files' = Files
    BY <1>2, <2>2, FilesIs
  <2>4. suspect' = suspect
    <3>1. suspect \in BOOLEAN /\ suspect' \in BOOLEAN
      BY DEF IInv, TypeInv
    <3>2. QED
      BY <1>3, <3>1
  <2>5. QED
    BY <1>10, <2>3, <2>4, StoreStill DEF Stored
<1>13. CASE CellAt(p).is = "file"
  <2>1. p \in FilesAt(disk) /\ p \in FilesAt(disk')
    BY <1>4, <1>5, <1>6, <1>7, <1>8, <1>13 DEF FilesAt
  <2> DEFINE f == File(fat, disk, p)
             g == File(fat, disk', p)
  <2>2. g.data = f.data
    <3>1. PICK c : c = At(disk, p).first
      OBVIOUS
    <3>2. Extended(fat, fat, c)
      BY ExtendedSelf
    <3>3. c \in Cluster => Untouched(fat, disk, disk', c)
      BY <1>11, <2>1, <3>1
    <3>4. \A i \in 1 .. At(disk, p).size :
            CellOf(fat, disk', c, i - 1) = CellOf(fat, disk, c, i - 1)
      BY <1>3, <2>1, <3>1, <3>2, <3>3, CellsKept
    <3>5. At(disk', p).first = c /\ At(disk', p).size = At(disk, p).size
      BY <1>4, <1>5, <1>6, <3>1
    <3>6. /\ Body(fat, disk, At(disk, p)) =
               [i \in 1 .. At(disk, p).size |-> CellOf(fat, disk, c, i - 1)]
          /\ Body(fat, disk', At(disk', p)) =
               [i \in 1 .. At(disk, p).size |-> CellOf(fat, disk', c, i - 1)]
      BY <1>3, <1>9, <2>1, <3>1, <3>5, FileIs
    <3>7. Body(fat, disk', At(disk', p)) = Body(fat, disk, At(disk, p))
      BY <3>4, <3>6
    <3>8. QED
      BY <3>7 DEF File
  <2>3. /\ f \in [place : {p}, name : {o}, data : {f.data}]
        /\ g = [place |-> p, name |-> n, data |-> f.data]
    <3>1. f.name = o /\ g.name = n /\ f.place = p /\ g.place = p
      BY <1>4, <1>5, <1>6 DEF File
    <3>2. g = [place |-> g.place, name |-> g.name, data |-> g.data]
      BY DEF File
    <3>3. f = [place |-> f.place, name |-> f.name, data |-> f.data]
      BY DEF File
    <3> HIDE DEF f, g
    <3>4. QED
      BY <2>2, <3>1, <3>2, <3>3
  <2>4. /\ f \in FileSet(fat, disk)
        /\ FileSet(fat, disk') = (FileSet(fat, disk) \ {f}) \cup {g}
        /\ g # f => g \notin FileSet(fat, disk)
    BY <1>11, <2>1, OtherFiles
  <2> HIDE DEF f, g
  <2>5. g # f /\ g = [f EXCEPT !.name = g.name]
    <3>1. f.name = o /\ g.name = n
      BY <2>3
    <3>2. QED
      BY <1>7, <2>3, <3>1
  <2>6. f \in Files /\ g \notin Files /\ Files' = (Files \ {f}) \cup {g}
    BY <1>2, <2>4, <2>5, FilesIs
  <2>7. QED
    BY <1>10, <2>5, <2>6, StoreRename DEF Stored
<1>14. QED
  BY <1>12, <1>13

-----------------------------------------------------------------------------
\* The steps of an append

\* The chain of one file is no other's.
LEMMA FileOff ==
  ASSUME NEW t, NEW dk, NEW h, NEW x, Volume(t, dk, h, x),
         NEW p \in FilesAt(dk), NEW q \in FilesAt(dk), p # q,
         NEW c \in ToSet(ChainIn(t, At(dk, p).first))
  PROVE  c \notin ToSet(ChainIn(t, At(dk, q).first))
<1>1. PICK f : f = At(dk, p).first
  OBVIOUS
<1>2. PICK g : g = At(dk, q).first
  OBVIOUS
<1>3. p \in Listed(dk) /\ q \in Listed(dk)
  BY DEF FilesAt
<1>4. CASE f \in Cluster /\ g \in Cluster
  <2>1. f # g
    BY <1>1, <1>2, <1>3, <1>4 DEF Volume, OwnFirst
  <2>2. f \in Starts(dk, h) /\ g \in Starts(dk, h) /\ Apart(t, Starts(dk, h))
    BY <1>1, <1>2, <1>3, <1>4, StartsApart
  <2>3. QED
    BY <1>1, <1>2, <2>1, <2>2 DEF Apart
<1>5. CASE f \notin Cluster \/ g \notin Cluster
  BY <1>1, <1>2, <1>5, ChainNone
<1>6. QED
  BY <1>4, <1>5

\* An entry that keeps its cells stands for the same file.
LEMMA FileCells ==
  ASSUME NEW t, NEW dk, NEW h, NEW x, Volume(t, dk, h, x),
         NEW u, NEW ek, NEW g, NEW y, Volume(u, ek, g, y),
         NEW p \in FilesAt(dk), At(ek, p) = At(dk, p), NEW f, f = At(dk, p).first,
         \A i \in 1 .. At(dk, p).size : CellOf(u, ek, f, i - 1) = CellOf(t, dk, f, i - 1)
  PROVE  File(u, ek, p) = File(t, dk, p)
<1>1. p \in FilesAt(ek)
  BY DEF FilesAt, Listed
<1>2. /\ Body(t, dk, At(dk, p)) = [i \in 1 .. At(dk, p).size |-> CellOf(t, dk, f, i - 1)]
      /\ Body(u, ek, At(ek, p)) = [i \in 1 .. At(dk, p).size |-> CellOf(u, ek, f, i - 1)]
  BY <1>1, FileIs
<1>3. Body(u, ek, At(ek, p)) = Body(t, dk, At(dk, p))
  BY <1>2
<1>4. QED
  BY <1>3 DEF File

\* The last cluster of a file is written, and what the file holds of it is not.
LEMMA RowOfFile ==
  ASSUME NEW t, NEW dk, NEW h, NEW x, Volume(t, dk, h, x),
         NEW ek, NEW g, NEW z, Volume(t, ek, g, z),
         NEW p \in FilesAt(dk), NEW f, f = At(dk, p).first, f \in Cluster,
         NEW b, b = Last(ChainIn(t, f)),
         \A c \in Cluster : c # b => ek[c] = dk[c],
         \A i \in Row : ~Live(ek[b][i]),
         \A i \in 1 .. At(dk, p).size : CellOf(t, ek, f, i - 1) = CellOf(t, dk, f, i - 1)
  PROVE  FileSet(t, ek) = FileSet(t, dk) /\ At(ek, p) = At(dk, p)
<1>1. b \in ToSet(ChainIn(t, f))
  <2>1. Path(t, f, ChainIn(t, f))
    BY FileIs
  <2>2. QED
    BY <2>1, PathFacts
<1>2. p \in Listed(dk) /\ At(dk, p).is # "dir"
  BY DEF FilesAt
<1>3. b \notin Dirs(dk)
  BY <1>1, <1>2, DirOff
<1>4. FilesAt(ek) = FilesAt(dk) /\ \A q \in FilesAt(dk) : At(ek, q) = At(dk, q)
  BY <1>3, RowListed
<1>5. ASSUME NEW q \in FilesAt(dk) PROVE File(t, ek, q) = File(t, dk, q)
  <2>1. CASE q = p
    BY <1>4, <2>1, FileCells
  <2>2. CASE q # p
    <3>1. PICK e : e = At(dk, q).first
      OBVIOUS
    <3>2. b \notin ToSet(ChainIn(t, e))
      BY <1>1, <2>2, <3>1, FileOff
    <3>3. e \in Cluster => Path(t, e, ChainIn(t, e))
      BY <3>1, FileIs
    <3>4. e \in Cluster => Untouched(t, dk, ek, e)
      BY <3>2, <3>3, PathFacts DEF Untouched
    <3>5. Extended(t, t, e)
      BY ExtendedSelf
    <3>6. QED
      BY <1>4, <3>1, <3>4, <3>5, FileStays
  <2>3. QED
    BY <2>1, <2>2
<1>6. QED
  BY <1>4, <1>5, SameFiles

\* The cells before the last cluster stay.
LEMMA RowKeeps ==
  ASSUME NEW t, NEW f \in Cluster, Path(t, f, ChainIn(t, f)),
         NEW dk, NEW ek, NEW b, b = Last(ChainIn(t, f)),
         \A c \in Cluster : c # b => ek[c] = dk[c],
         NEW m, m = Len(ChainIn(t, f)), NEW j \in Nat, j < (m - 1) * Cells
  PROVE  CellOf(t, ek, f, j) = CellOf(t, dk, f, j)
<1> DEFINE s == ChainIn(t, f)
<1>1. /\ m \in Nat \ {0} /\ b = s[m]
      /\ \A i \in 1 .. m : s[i] \in Cluster
      /\ \A i, k \in 1 .. m : s[i] = s[k] => i = k
  <2>1. /\ Len(s) \in Nat /\ Len(s) >= 1 /\ Last(s) = s[Len(s)]
        /\ \A i \in 1 .. Len(s) : s[i] \in Cluster
        /\ \A i, k \in 1 .. Len(s) : s[i] = s[k] => i = k
    BY PathFacts
  <2> HIDE DEF s
  <2>2. QED
    BY <2>1 DEF s
<1>2. m * Cells = (m - 1) * Cells + Cells /\ (m - 1) * Cells \in Nat
  BY <1>1, Numbers
<1>3. j < m * Cells
  <2>1. PICK v : v = (m - 1) * Cells
    OBVIOUS
  <2>2. PICK w : w = m * Cells
    OBVIOUS
  <2>3. w = v + Cells /\ j < v /\ v \in Nat
    BY <1>2, <2>1, <2>2
  <2>4. QED
    BY <2>2, <2>3, Numbers
<1>4. PICK r : r = j \div Cells + 1
  OBVIOUS
<1>5. r \in 1 .. m - 1
  BY <1>1, <1>3, <1>4, CellPlace
<1>6. s[r] \in Cluster /\ s[r] # b
  BY <1>1, <1>5
<1>7. ek[s[r]] = dk[s[r]]
  BY <1>6
<1>8. QED
  BY <1>4, <1>7 DEF CellOf

\* Cells are put behind those that a file has, in the last of its clusters.
Room(t, dk, ek, f, b, v, z, d, pos, done) ==
  /\ f \in Cluster /\ Path(t, f, ChainIn(t, f)) /\ b = Last(ChainIn(t, f))
  /\ v = (Len(ChainIn(t, f)) - 1) * Cells
  /\ z \in Nat /\ z <= v + Cells /\ pos \in Nat /\ done \in Nat
  /\ \A c \in Cluster : c # b => ek[c] = dk[c]
  /\ \A i \in Row : pos <= i /\ i < pos + done => ek[b][i] = d[i - pos + 1]
  /\ \A i \in Row : ~(pos <= i /\ i < pos + done) => ek[b][i] = dk[b][i]
  /\ \/ done = 0
     \/ z = v + pos /\ pos + done <= Cells

LEMMA RoomFilled ==
  ASSUME NEW t, NEW dk, NEW ek, NEW f, NEW b, NEW v, NEW z, NEW d, NEW pos, NEW done,
         Room(t, dk, ek, f, b, v, z, d, pos, done)
  PROVE  /\ \A i \in 1 .. z : CellOf(t, ek, f, i - 1) = CellOf(t, dk, f, i - 1)
         /\ Holds(t, ek, f, z, d, done)
<1> DEFINE s == ChainIn(t, f)
<1>1. /\ f \in Cluster /\ Path(t, f, s) /\ b = Last(s)
      /\ v = (Len(s) - 1) * Cells
      /\ z \in Nat /\ z <= v + Cells /\ pos \in Nat /\ done \in Nat
      /\ \A c \in Cluster : c # b => ek[c] = dk[c]
      /\ \A i \in Row : pos <= i /\ i < pos + done => ek[b][i] = d[i - pos + 1]
      /\ \A i \in Row : ~(pos <= i /\ i < pos + done) => ek[b][i] = dk[b][i]
      /\ \/ done = 0
         \/ z = v + pos /\ pos + done <= Cells
  BY DEF Room
<1>2. PICK m : m = Len(s)
  OBVIOUS
<1>3. m \in Nat \ {0} /\ b = s[m]
  <2>1. Len(s) \in Nat /\ Len(s) >= 1 /\ Last(s) = s[Len(s)]
    BY <1>1, PathFacts
  <2> HIDE DEF s
  <2>2. QED
    BY <1>1, <1>2, <2>1
<1>4. v = (m - 1) * Cells
  BY <1>1, <1>2
<1>5. m * Cells = v + Cells /\ v \in Nat
  BY <1>3, <1>4, Numbers
<1>6. ASSUME NEW j \in Nat, v <= j, j < v + Cells
      PROVE  /\ j - v \in Row
             /\ CellOf(t, ek, f, j) = ek[b][j - v] /\ CellOf(t, dk, f, j) = dk[b][j - v]
  <2>1. j < m * Cells /\ (m - 1) * Cells <= j
    BY <1>4, <1>5, <1>6
  <2>2. j \div Cells + 1 = m /\ j % Cells = j - (m - 1) * Cells /\ j % Cells \in Row
    BY <1>3, <2>1, CellPlace
  <2>3. CellOf(t, ek, f, j) = ek[s[m]][j - v] /\ CellOf(t, dk, f, j) = dk[s[m]][j - v]
    BY <1>4, <2>2 DEF CellOf
  <2>4. QED
    BY <1>3, <1>4, <2>2, <2>3
<1>7. ASSUME NEW i \in 1 .. z PROVE CellOf(t, ek, f, i - 1) = CellOf(t, dk, f, i - 1)
  <2>1. PICK j : j = i - 1
    OBVIOUS
  <2>2. j \in Nat /\ j < z /\ j < v + Cells
    <3>1. z <= v + Cells
      BY <1>1, <1>5
    <3>2. QED
      BY <1>1, <1>5, <2>1, <3>1, Numbers
  <2>3. CASE j < v
    <3>1. CellOf(t, ek, f, j) = CellOf(t, dk, f, j)
      <4>1. /\ Path(t, f, ChainIn(t, f)) /\ b = Last(ChainIn(t, f)) /\ m = Len(ChainIn(t, f))
            /\ \A c \in Cluster : c # b => ek[c] = dk[c]
            /\ j < (m - 1) * Cells /\ f \in Cluster
        BY <1>1, <1>2, <1>4, <2>3
      <4> HIDE DEF s
      <4>2. QED
        BY <2>2, <4>1, RowKeeps
    <3>2. QED
      BY <2>1, <3>1
  <2>4. CASE v <= j
    <3>1. /\ j - v \in Row
          /\ CellOf(t, ek, f, j) = ek[b][j - v] /\ CellOf(t, dk, f, j) = dk[b][j - v]
      BY <1>6, <2>2, <2>4
    <3>2. PICK l : l = j - v
      OBVIOUS
    <3>3. ~(pos <= l /\ l < pos + done)
      BY <1>1, <1>5, <2>2, <2>4, <3>2
    <3>4. l \in Row
      BY <3>1, <3>2
    <3>5. ek[b][l] = dk[b][l]
      BY <1>1, <3>3, <3>4
    <3>6. QED
      BY <2>1, <3>1, <3>2, <3>5
  <2>5. QED
    BY <1>5, <2>2, <2>3, <2>4
<1>8. ASSUME NEW i \in 1 .. done PROVE CellOf(t, ek, f, z + i - 1) = d[i]
  <2>1. z = v + pos /\ pos + done <= Cells
    BY <1>1, <1>8
  <2>2. PICK j : j = z + i - 1
    OBVIOUS
  <2>3. PICK l : l = j - v
    OBVIOUS
  <2>4. j \in Nat /\ v <= j /\ j < v + Cells /\ l = pos + i - 1
    BY <1>1, <1>5, <1>8, <2>1, <2>2, <2>3, Numbers
  <2>5. l \in Row /\ CellOf(t, ek, f, j) = ek[b][l]
    BY <1>6, <2>3, <2>4
  <2>6. pos <= l /\ l < pos + done /\ l - pos + 1 = i
    <3>1. i \in Nat /\ 1 <= i /\ i <= done /\ pos \in Nat /\ done \in Nat
      BY <1>1, <1>8
    <3>2. l = pos + i - 1
      BY <2>4
    <3>3. QED
      BY <3>1, <3>2
  <2>7. ek[b][l] = d[l - pos + 1]
    BY <1>1, <2>5, <2>6
  <2>8. QED
    BY <2>2, <2>5, <2>6, <2>7
<1>9. QED
  BY <1>7, <1>8 DEF Holds

\* The file at which a call appends.
LEMMA AppendedFile ==
  ASSUME IInv, ~suspect, call.pc \in {"grow", "mark", "pour", "commit"},
         NEW p, p = call.at, NEW f, f = At(disk, p).first
  PROVE  /\ Volume(fat, disk, 0, Unmarked(call)) /\ p \in FilesAt(disk) /\ f \in Cluster
         /\ Path(fat, f, ChainIn(fat, f)) /\ p \in Place /\ At(disk, p).size \in Nat
         /\ Appending(fat, disk, call) /\ call.first = 0
         /\ call \in Call /\ fat \in Tables /\ disk \in Disks
         /\ call.done \in Nat /\ Len(call.data) \in Nat /\ call.data \in Seq(DataCell)
<1>1. /\ Volume(fat, disk, 0, Unmarked(call)) /\ p \in FilesAt(disk) /\ f \in Cluster
      /\ p \in Place /\ At(disk, p).size \in Nat /\ Appending(fat, disk, call)
      /\ call.first = 0
  BY AppendingIs DEF FilesAt
<1>2. Path(fat, f, ChainIn(fat, f))
  BY <1>1, FileIs
<1>3. QED
  BY <1>1, <1>2, Sounds

\* The table is written at the end of the file's chain, and the call goes on.
LEMMA LinkStores ==
  ASSUME IInv, IInv', ~suspect, Written(fat, disk, call), call.pc \in {"grow", "mark"},
         NEW p, p = call.at, NEW f, f = At(disk, p).first,
         NEW y, y = Last(ChainIn(fat, f)), \A z \in Cluster : z # y => fat'[z] = fat[z],
         disk' = disk, suspect' = suspect,
         At(disk, p).size + call.done <= Len(ChainIn(fat, f)) * Cells,
         call'.pc \in {"mark", "pour"}, call'.data = call.data, call'.done = call.done,
         call'.at = call.at, call'.first = call.first
  PROVE  Written(fat', disk', call') /\ Stored
<1>1. /\ Volume(fat, disk, 0, Unmarked(call)) /\ p \in FilesAt(disk) /\ f \in Cluster
      /\ Path(fat, f, ChainIn(fat, f)) /\ At(disk, p).size \in Nat
      /\ call.first = 0 /\ call.done \in Nat
  BY AppendedFile
<1>2. y \in Cluster /\ fat[y] \notin Cluster
  BY <1>1, PathFacts
<1>3. Volume(fat', disk, 0, Unmarked(call'))
  <2>1. HandOf(call') = 0
    BY <1>1 DEF HandOf
  <2>2. QED
    BY <2>1, SoundsThen
<1>4. FileSet(fat', disk) = FileSet(fat, disk)
  BY <1>1, <1>2, <1>3, TableFiles
<1>5. Files' = Files
  BY <1>4, FilesIs
<1>6. Path(fat', f, ChainIn(fat', f))
  BY <1>1, <1>3, FileIs
<1>7. Extended(fat, fat', f)
  BY <1>1, <1>2, <1>6, WriteExtends
<1>8. Untouched(fat, disk, disk, f)
  BY DEF Untouched
<1>9. Holds(fat, disk, f, At(disk, p).size, call.data, call.done)
  BY DEF Written
<1>10. Holds(fat', disk, f, At(disk, p).size, call.data, call.done)
  BY <1>1, <1>7, <1>8, <1>9, HoldsStays
<1>11. Written(fat', disk', call')
  BY <1>10 DEF Written
<1>12. QED
  BY <1>5, <1>11, StoreStill DEF Stored

LEMMA GrowStores ==
  ASSUME IInv, IInv', ~suspect, Written(fat, disk, call), Grow
  PROVE  Written(fat', disk', call') /\ Stored
<1>1. PICK c \in FindFree :
        /\ fat' = [fat EXCEPT ![call.prev] = c]
        /\ call' = [call EXCEPT !.pc = "mark", !.cur = c]
  BY DEF Grow
<1>2. call.pc = "grow" /\ UNCHANGED <<disk, suspect>>
  BY DEF Grow
<1>3. PICK p : p = call.at
  OBVIOUS
<1>4. PICK f : f = At(disk, p).first
  OBVIOUS
<1>5. PICK y : y = call.prev
  OBVIOUS
<1>6. /\ Path(fat, f, ChainIn(fat, f)) /\ f \in Cluster /\ Appending(fat, disk, call)
      /\ call \in Call /\ fat \in Tables /\ At(disk, p).size \in Nat /\ call.done \in Nat
  BY <1>2, <1>3, <1>4, AppendedFile
<1>7. y = Last(ChainIn(fat, f))
      /\ At(disk, p).size + call.done = Len(ChainIn(fat, f)) * Cells
  BY <1>2, <1>3, <1>4, <1>5, <1>6 DEF Appending
<1>8. \A z \in Cluster : z # y => fat'[z] = fat[z]
  BY <1>1, <1>5, <1>6, Numbers DEF Tables
<1>9. /\ call'.pc = "mark" /\ call'.data = call.data /\ call'.done = call.done
      /\ call'.at = call.at /\ call'.first = call.first
  BY <1>1, <1>6 DEF Call
<1>10. At(disk, p).size + call.done <= Len(ChainIn(fat, f)) * Cells
  <2>1. PICK w : w = At(disk, p).size + call.done
    OBVIOUS
  <2>2. w \in Nat /\ w <= w
    BY <1>6, <2>1
  <2>3. QED
    BY <1>7, <2>1, <2>2
<1>11. QED
  BY <1>2, <1>3, <1>4, <1>7, <1>8, <1>9, <1>10, LinkStores

LEMMA MarkStores ==
  ASSUME IInv, IInv', ~suspect, Written(fat, disk, call), Mark
  PROVE  Written(fat', disk', call') /\ Stored
<1>1. /\ call.pc = "mark" /\ fat' = [fat EXCEPT ![call.cur] = EOC]
      /\ call' = [call EXCEPT !.pc = "pour"] /\ UNCHANGED <<disk, suspect>>
  BY DEF Mark
<1>2. PICK p : p = call.at
  OBVIOUS
<1>3. PICK f : f = At(disk, p).first
  OBVIOUS
<1>4. PICK y : y = call.cur
  OBVIOUS
<1>5. /\ Path(fat, f, ChainIn(fat, f)) /\ f \in Cluster /\ Appending(fat, disk, call)
      /\ call \in Call /\ fat \in Tables /\ At(disk, p).size \in Nat /\ call.done \in Nat
  BY <1>1, <1>2, <1>3, AppendedFile
<1>6. y = Last(ChainIn(fat, f))
      /\ At(disk, p).size + call.done + Cells = Len(ChainIn(fat, f)) * Cells
  BY <1>1, <1>2, <1>3, <1>4, <1>5 DEF Appending
<1>7. \A z \in Cluster : z # y => fat'[z] = fat[z]
  BY <1>1, <1>4, <1>5, Numbers DEF Tables
<1>8. /\ call'.pc = "pour" /\ call'.data = call.data /\ call'.done = call.done
      /\ call'.at = call.at /\ call'.first = call.first
  BY <1>1, <1>5 DEF Call
<1>9. At(disk, p).size + call.done <= Len(ChainIn(fat, f)) * Cells
  <2>1. PICK w : w = Len(ChainIn(fat, f)) * Cells
    OBVIOUS
  <2>2. At(disk, p).size + call.done <= w
    BY <1>5, <1>6, <2>1, Numbers
  <2>3. QED
    BY <2>1, <2>2
<1>10. call.pc \in {"grow", "mark"} /\ call'.pc \in {"mark", "pour"}
       /\ disk' = disk /\ suspect' = suspect
  BY <1>1, <1>8
<1>11. QED
  BY <1>2, <1>3, <1>6, <1>7, <1>8, <1>9, <1>10, LinkStores

LEMMA PourStores ==
  ASSUME IInv, IInv', ~suspect, Written(fat, disk, call), Pour
  PROVE  Written(fat', disk', call') /\ Stored
<1> DEFINE row == Filled(call.data, call.done)
           to == IF Progress < Len(call.data) THEN "grow" ELSE "commit"
<1>1. /\ call.pc = "pour" /\ disk' = [disk EXCEPT ![call.cur] = row]
      /\ call' = [call EXCEPT !.pc = to, !.done = Progress, !.prev = call.cur]
      /\ UNCHANGED <<fat, suspect>>
  BY DEF Pour
<1>2. PICK p : p = call.at
  OBVIOUS
<1>3. PICK f : f = At(disk, p).first
  OBVIOUS
<1>4. PICK c : c = call.cur
  OBVIOUS
<1>5. /\ Volume(fat, disk, 0, Unmarked(call)) /\ p \in FilesAt(disk) /\ f \in Cluster
      /\ Path(fat, f, ChainIn(fat, f)) /\ At(disk, p).size \in Nat
      /\ Appending(fat, disk, call) /\ call.first = 0 /\ call \in Call /\ disk \in Disks
      /\ call.done \in Nat /\ Len(call.data) \in Nat /\ call.data \in Seq(DataCell)
  BY <1>1, <1>2, <1>3, AppendedFile
<1>6. c = Last(ChainIn(fat, f))
      /\ At(disk, p).size + call.done + Cells = Len(ChainIn(fat, f)) * Cells
  BY <1>1, <1>2, <1>3, <1>4, <1>5 DEF Appending
<1>7. c \in Cluster
  BY <1>5, <1>6, PathFacts
<1>8. /\ Progress \in Nat /\ Progress <= call.done + Cells /\ Progress <= Len(call.data)
  <2>1. /\ Progress \in Nat
        /\ Progress = IF call.done + Cells <= Len(call.data) THEN call.done + Cells
                                                             ELSE Len(call.data)
    BY <1>5, ProgressIs
  <2>2. QED
    BY <1>5, <2>1, Numbers
<1>9. to \in {"grow", "commit"}
  OBVIOUS
<1> HIDE DEF to
<1>10. /\ call'.pc = to /\ call'.data = call.data /\ call'.done = Progress
       /\ call'.at = p /\ call'.first = 0
  BY <1>1, <1>2, <1>5 DEF Call
<1>11. disk'[c] = row /\ \A b \in Cluster : b # c => disk'[b] = disk[b]
  BY <1>1, <1>4, <1>5, <1>7 DEF Disks
<1>12. \A i \in Row : ~Live(disk'[c][i])
  <2>1. row \in [Row -> DataCell]
    BY <1>5, FilledIs
  <2> HIDE DEF row
  <2>2. QED
    BY <1>11, <2>1, CellKinds
<1>13. Volume(fat, disk', 0, Unmarked(call'))
  <2>1. HandOf(call') = 0
    BY <1>9, <1>10 DEF HandOf
  <2>2. QED
    BY <1>1, <2>1, SoundsThen
<1>14. PICK m : m = Len(ChainIn(fat, f))
  OBVIOUS
<1>15. PICK n : n = At(disk, p).size
  OBVIOUS
<1>16. \A i \in 1 .. At(disk, p).size : CellOf(fat, disk', f, i - 1) = CellOf(fat, disk, f, i - 1)
  <2> SUFFICES ASSUME NEW i \in 1 .. n
               PROVE  CellOf(fat, disk', f, i - 1) = CellOf(fat, disk, f, i - 1)
    BY <1>15
  <2>1. PICK j : j = i - 1
    OBVIOUS
  <2>2. j \in Nat /\ j < (m - 1) * Cells
    <3>1. m \in Nat \ {0}
      BY <1>5, <1>14, PathFacts
    <3>2. PICK w : w = (m - 1) * Cells
      OBVIOUS
    <3>3. m * Cells = w + Cells /\ w \in Nat
      BY <3>1, <3>2, Numbers
    <3>4. n + call.done + Cells = m * Cells /\ n \in Nat
      BY <1>5, <1>6, <1>14, <1>15
    <3>5. j \in Nat /\ j < w
      BY <1>5, <2>1, <3>3, <3>4, Numbers
    <3>6. QED
      BY <3>2, <3>5
  <2>3. CellOf(fat, disk', f, j) = CellOf(fat, disk, f, j)
    BY <1>5, <1>6, <1>11, <1>14, <2>2, RowKeeps
  <2>4. QED
    BY <2>1, <2>3
<1>17. FileSet(fat, disk') = FileSet(fat, disk) /\ At(disk', p) = At(disk, p)
  BY <1>3, <1>5, <1>6, <1>11, <1>12, <1>13, <1>16, RowOfFile
<1>18. Files' = Files
  BY <1>1, <1>17, FilesIs
<1>19. Holds(fat, disk', f, n, call.data, Progress)
  <2>1. Holds(fat, disk, f, n, call.data, call.done)
    BY <1>1, <1>2, <1>3, <1>15 DEF Written
  <2>2. n + call.done + Cells = Len(ChainIn(fat, f)) * Cells /\ n \in Nat
    BY <1>5, <1>6, <1>15
  <2>3. disk'[c] = Filled(call.data, call.done)
    BY <1>11
  <2>4. \A b \in Cluster : b # c => disk'[b] = disk[b]
    BY <1>11
  <2>5. Path(fat, f, ChainIn(fat, f)) /\ c = Last(ChainIn(fat, f)) /\ f \in Cluster
        /\ call.done \in Nat /\ Len(call.data) \in Nat
    BY <1>5, <1>6
  <2>6. QED
    BY ONLY <1>8, <2>1, <2>2, <2>3, <2>4, <2>5, HoldsMore, SMTT(60)
<1>20. Written(fat', disk', call')
  <2>1. Holds(fat', disk', At(disk', call'.at).first, At(disk', call'.at).size,
              call'.data, call'.done)
    BY <1>1, <1>3, <1>10, <1>15, <1>17, <1>19
  <2>2. QED
    BY <1>9, <1>10, <2>1 DEF Written
<1>21. QED
  BY <1>1, <1>10, <1>18, <1>20, StoreStill DEF Stored

LEMMA CommitStores ==
  ASSUME IInv, IInv', ~suspect, ~suspect', Written(fat, disk, call), Commit
  PROVE  Written(fat', disk', call') /\ Stored
<1>1. PICK p : p = call.at
  OBVIOUS
<1>2. PICK f : f = At(disk, p).first
  OBVIOUS
<1> DEFINE e == At(disk, p)
           n == Len(call.data)
           x == [e EXCEPT !.size = @ + n]
           s == ChainIn(fat, f)
<1>3. /\ call.pc = "commit" /\ disk' = Put(p, x) /\ call' = Idle
      /\ UNCHANGED <<fat, suspect>>
  BY <1>1 DEF Commit, CellAt, At
<1>4. /\ Volume(fat, disk, 0, <<0, 0>>) /\ p \in FilesAt(disk) /\ f \in Cluster
      /\ p \in Place /\ e.size \in Nat /\ Appending(fat, disk, call) /\ disk \in Disks
      /\ n \in Nat /\ call.data \in Seq(DataCell) /\ call.done \in Nat
  BY <1>1, <1>2, <1>3, AppendedFile DEF Unmarked
<1>5. e.size + n <= Len(s) * Cells /\ call.done = n
  BY <1>1, <1>2, <1>3, <1>4 DEF Appending
<1>6. e \in Cell /\ p \in Listed(disk) /\ e.is = "file" /\ e.name \notin Dots
      /\ p[1] \in Dirs(disk)
  BY <1>4, Cells9 DEF FilesAt, Listed, Volume, Tied
<1>7. PICK z : z = e.size
  OBVIOUS
<1>8. x \in Cell /\ x.name = e.name /\ x.is = e.is /\ x.first = e.first /\ x.size = z + n
  <2>1. PICK y : y = z + n
    OBVIOUS
  <2>2. x = [e EXCEPT !.size = y]
    BY <1>7, <2>1
  <2>3. y \in Nat
    BY <1>4, <1>7, <2>1
  <2> HIDE DEF e, x, n
  <2>4. QED
    BY <1>6, <2>1, <2>2, <2>3 DEF Cell
<1> HIDE DEF x
<1>9. At(disk', p) = x /\ \A q \in Place : q # p => At(disk', q) = At(disk, q)
  BY <1>3, <1>4, <1>8, PutIs
<1>10. Volume(fat, disk', 0, <<0, 0>>)
  BY <1>3, SoundsThen, IdleWorks
<1>11. p \in FilesAt(disk')
  BY <1>4, <1>6, <1>8, <1>9 DEF FilesAt, Listed, Live
<1>12. /\ FilesAt(disk') \ {p} = FilesAt(disk) \ {p}
       /\ \A q \in FilesAt(disk) \ {p} : File(fat, disk', q) = File(fat, disk, q)
       /\ Untouched(fat, disk, disk', f)
  BY <1>2, <1>4, <1>6, <1>9, <1>10, EntryFiles
<1>13. Written(fat', disk', call') /\ call'.data = <<>>
  BY <1>3, IdleTyped, NothingWritten
<1> DEFINE F == File(fat, disk, p)
           G == File(fat, disk', p)
<1>14. /\ F.place = p /\ G.place = p /\ F.name = G.name
       /\ F = [place |-> F.place, name |-> F.name, data |-> F.data]
       /\ G = [place |-> G.place, name |-> G.name, data |-> G.data]
  BY <1>8, <1>9 DEF File
<1>15. /\ F.data = [i \in 1 .. z |-> CellOf(fat, disk, f, i - 1)]
       /\ G.data = [i \in 1 .. z + n |-> CellOf(fat, disk', f, i - 1)]
  <2>1. /\ Body(fat, disk, e) = [i \in 1 .. z |-> CellOf(fat, disk, f, i - 1)]
        /\ Body(fat, disk', At(disk', p)) = [i \in 1 .. z + n |-> CellOf(fat, disk', f, i - 1)]
    BY <1>2, <1>4, <1>7, <1>8, <1>9, <1>10, <1>11, FileIs
  <2>2. QED
    BY <2>1 DEF File
<1>16. PICK w : w = Len(s) * Cells
  OBVIOUS
<1>17. z \in Nat /\ z + n <= w
  BY <1>4, <1>5, <1>7, <1>16
<1>18. w \in Nat /\ \A j \in Nat : j < w => CellOf(fat, disk', f, j) = CellOf(fat, disk, f, j)
  <2>1. w \in Nat
    BY <1>16, LenChain, Numbers
  <2>2. ASSUME NEW j \in Nat, j < w PROVE CellOf(fat, disk', f, j) = CellOf(fat, disk, f, j)
    <3>1. Extended(fat, fat, f) /\ Untouched(fat, disk, disk', f)
      BY <1>12, ExtendedSelf
    <3>2. j < Len(ChainIn(fat, f)) * Cells
      BY <1>16, <2>2
    <3>3. QED
      BY ONLY <3>1, <3>2, j \in Nat, CellStays
  <2>3. QED
    BY <2>1, <2>2
<1>19. Holds(fat, disk, f, z, call.data, n)
  BY <1>1, <1>2, <1>3, <1>5, <1>7 DEF Written
<1> HIDE DEF n, F, G
<1>20. G.data = F.data \o call.data
  <2>1. ASSUME NEW i \in 1 .. z + n
        PROVE  CellOf(fat, disk', f, i - 1) =
                 IF i <= z THEN CellOf(fat, disk, f, i - 1) ELSE call.data[i - z]
    <3>1. PICK j : j = i - 1
      OBVIOUS
    <3>2. j \in Nat /\ j < w
      BY <1>4, <1>17, <1>18, <3>1
    <3>3. CellOf(fat, disk', f, i - 1) = CellOf(fat, disk, f, i - 1)
      BY <1>18, <3>1, <3>2
    <3>4. CASE i <= z
      BY <3>3, <3>4
    <3>5. CASE ~(i <= z)
      <4>1. PICK k : k = i - z
        OBVIOUS
      <4>2. k \in 1 .. n /\ z + k - 1 = i - 1
        BY <1>4, <1>17, <3>5, <4>1
      <4>3. CellOf(fat, disk, f, z + k - 1) = call.data[k]
        BY <1>19, <4>2 DEF Holds
      <4>4. QED
        BY <3>3, <3>5, <4>1, <4>2, <4>3
    <3>6. QED
      BY <3>4, <3>5
  <2>2. Len(F.data) = z /\ \A i \in 1 .. z : F.data[i] = CellOf(fat, disk, f, i - 1)
    BY <1>15, <1>17
  <2>3. F.data \o call.data =
          [i \in 1 .. z + n |-> IF i <= z THEN F.data[i] ELSE call.data[i - z]]
    <3>1. PICK a : a = F.data
      OBVIOUS
    <3>2. PICK b : b = call.data
      OBVIOUS
    <3>3. PICK T : T = DataCell \cup {CellOf(fat, disk, f, i - 1) : i \in 1 .. z}
      OBVIOUS
    <3>4. a \in Seq(T) /\ b \in Seq(T)
      <4>1. \A i \in 1 .. z : CellOf(fat, disk, f, i - 1) \in T
        BY <3>3
      <4>2. a \in Seq(T)
        BY <1>15, <1>17, <3>1, <4>1
      <4>3. b \in Seq(T)
        BY <1>4, <3>2, <3>3
      <4>4. QED
        BY <4>2, <4>3
    <3>5. Len(a) = z /\ Len(b) = n
      BY <2>2, <3>1, <3>2 DEF n
    <3>6. a \o b = [i \in 1 .. z + n |-> IF i <= z THEN a[i] ELSE b[i - z]]
      <4>1. PICK c : c = a \o b
        OBVIOUS
      <4>2. /\ c \in Seq(T) /\ Len(c) = z + n
            /\ \A i \in 1 .. z + n : c[i] = IF i <= z THEN a[i] ELSE b[i - z]
        BY <3>4, <3>5, <4>1, ConcatProperties
      <4>3. c = [i \in 1 .. z + n |-> c[i]]
        BY <4>2
      <4>4. QED
        BY <4>1, <4>2, <4>3
    <3>7. QED
      BY <3>1, <3>2, <3>6
  <2>4. \A i \in 1 .. z + n :
          (IF i <= z THEN F.data[i] ELSE call.data[i - z]) = CellOf(fat, disk', f, i - 1)
    BY <1>4, <1>17, <2>1, <2>2
  <2>5. QED
    BY <1>15, <2>3, <2>4
<1>21. /\ F \in FileSet(fat, disk)
       /\ FileSet(fat, disk') = (FileSet(fat, disk) \ {F}) \cup {G}
       /\ G # F => G \notin FileSet(fat, disk)
  BY <1>4, <1>11, <1>12, OtherFiles DEF F, G
<1>22. F \in Files /\ Files' = (Files \ {F}) \cup {G} /\ (G # F => G \notin Files)
  BY <1>3, <1>21, FilesIs
<1>23. CASE G = F
  <2>1. Files' = Files
    BY <1>22, <1>23
  <2>2. QED
    BY <1>13, <2>1, StoreGiveUp DEF Stored
<1>24. CASE G # F
  <2>1. PICK d : d = F.data \o call.data
    OBVIOUS
  <2>2. G = [F EXCEPT !.data = d]
    <3>1. PICK a : a = F.place
      OBVIOUS
    <3>2. PICK b : b = F.name
      OBVIOUS
    <3>3. PICK c : c = F.data
      OBVIOUS
    <3>4. F = [place |-> a, name |-> b, data |-> c] /\ G = [place |-> a, name |-> b, data |-> d]
      BY <1>14, <1>20, <2>1, <3>1, <3>2, <3>3
    <3>5. QED
      BY <3>4
  <2>3. G = [F EXCEPT !.data = @ \o call.data]
    BY <2>1, <2>2
  <2>4. QED
    BY <1>13, <1>22, <1>24, <2>3, StoreExtend DEF Stored
<1>25. QED
  BY <1>23, <1>24

LEMMA AppendFileStores ==
  ASSUME IInv, IInv', ~suspect', NEW n, NEW data \in Inputs, AppendFile(n, data)
  PROVE  Written(fat', disk', call') /\ Stored
<1>1. /\ Begin /\ call = Idle /\ ~suspect /\ disk \in Disks /\ Volume(fat, disk, 0, <<0, 0>>)
      /\ fat' = fat
  BY AtRest DEF AppendFile
<1>2. PICK p \in Find(current_dir_cluster, n) :
       LET e    == CellAt(p)
           pos  == e.size % Cells
           tail == ChainEnd(e.first)
           room == IF pos # 0 \/ e.size = 0 THEN Cells - pos ELSE 0
           done == Min({room, Len(data)})
       IN /\ disk' = [disk EXCEPT ![Located(tail)] =
                        [i \in Row |->
                           IF pos <= i /\ i < pos + done THEN data[i - pos + 1]
                           ELSE @[i]]]
          /\ call' = [Idle EXCEPT !.pc = IF done = Len(data) THEN "commit"
                                                             ELSE "grow",
                                  !.data = data, !.done = done,
                                  !.at = p, !.prev = tail]
          /\ Misuse(AppendMisused(e))
  BY DEF AppendFile
<1> DEFINE e    == CellAt(p)
           pos  == e.size % Cells
           tail == ChainEnd(e.first)
           c    == Located(tail)
           room == IF pos # 0 \/ e.size = 0 THEN Cells - pos ELSE 0
           done == Min({room, Len(data)})
           row  == [i \in Row |-> IF pos <= i /\ i < pos + done THEN data[i - pos + 1]
                                  ELSE disk[c][i]]
           to   == IF done = Len(data) THEN "commit" ELSE "grow"
           f    == e.first
           s    == ChainIn(fat, f)
<1>3. disk' = [disk EXCEPT ![c] = row]
  BY <1>2
<1>4. /\ call' = [Idle EXCEPT !.pc = to, !.data = data, !.done = done, !.at = p, !.prev = tail]
      /\ ~AppendMisused(e)
  BY <1>2 DEF Misuse
<1>5. /\ p \in Place /\ e = At(disk, p) /\ e \in Cell /\ Live(e)
      /\ n \notin Dots => p \in Listed(disk)
      /\ n \in Dots \/ e.is = "dir" => e.size = 0
  BY <1>1, FoundIs
<1>6. e.size \in Nat /\ e.size # 0 /\ data \in Seq(DataCell) /\ Len(data) \in Nat
  <2>1. data \in Seq(DataCell)
    BY FileSystemAssumption
  <2>2. QED
    BY <1>4, <1>5, <2>1, LenProperties DEF Cell, AppendMisused
<1>7. p \in FilesAt(disk)
  BY <1>5, <1>6 DEF FilesAt, Live
<1>8. Ended(fat, disk, p) /\ e.size <= Len(s) * Cells /\ Len(s) \in Nat
  BY <1>1, <1>5, <1>7, NoPlace, FileIs DEF Volume, FilesAt
<1>9. f \in Cluster
  <2> SUFFICES ASSUME f \notin Cluster PROVE FALSE
    OBVIOUS
  <2>1. Len(s) = 0
    BY ChainNone
  <2>2. 0 * Cells = 0
    BY Numbers
  <2>3. QED
    BY <1>6, <1>8, <2>1, <2>2
<1>10. Path(fat, f, s)
  BY <1>1, <1>5, <1>7, <1>9, FileIs
<1>11. Len(s) # 0 /\ Last(s) \in ToSet(s) /\ Last(s) \in Cluster /\ fat[Last(s)] = EOC
  BY <1>5, <1>8, <1>9, <1>10, PathFacts DEF Ended
<1>12. c = Last(s)
  <2>1. tail = Last(s)
    BY <1>11, EmptySeq DEF ChainEnd, Chain
  <2>2. ~(tail < 2)
    BY <1>11, <2>1 DEF Cluster
  <2>3. QED
    BY <2>1, <2>2 DEF Located
<1>13. Clean(disk, c)
  BY <1>1, <1>5, <1>7, <1>11, <1>12 DEF FilesAt, Volume, Backed
<1>14. /\ pos \in Nat /\ pos < Cells
       /\ pos = 0 => room = 0
       /\ pos # 0 => e.size + (Cells - pos) = Len(s) * Cells /\ room = Cells - pos
  <2>1. PICK m : m = Len(s)
    OBVIOUS
  <2>2. PICK z : z = e.size
    OBVIOUS
  <2>3. m \in Nat \ {0} /\ z \in Nat /\ z <= m * Cells
    BY <1>6, <1>8, <1>11, <2>1, <2>2
  <2>4. (m - 1) * Cells < z
    <3>1. m - 1 \in Nat /\ ClustersFor(z) \in Nat /\ (m - 1) * Cells \in Nat
      BY <2>3, ClustersIs, Numbers
    <3>2. ~(m > ClustersFor(z))
      BY <1>4, <2>1, <2>2 DEF AppendMisused, Chain
    <3>3. ~(ClustersFor(z) <= m - 1)
      BY <2>3, <3>1, <3>2
    <3>4. ~(z <= (m - 1) * Cells)
      BY <2>3, <3>1, <3>3, ClustersIs
    <3>5. QED
      BY <2>3, <3>1, <3>4
  <2>5. /\ z % Cells \in 0 .. Cells - 1
        /\ z % Cells # 0 => z + (Cells - (z % Cells)) = m * Cells
    BY <2>3, <2>4, RoomFits
  <2>6. pos \in 0 .. Cells - 1 /\ (pos # 0 => e.size + (Cells - pos) = Len(s) * Cells)
    BY <2>1, <2>2, <2>5
  <2>7. (pos = 0 => room = 0) /\ (pos # 0 => room = Cells - pos)
    BY <1>6
  <2> HIDE DEF pos, room, e
  <2>8. QED
    BY <2>6, <2>7, Numbers
<1>15. done \in Nat /\ done <= Len(data) /\ done <= room
  <2>1. room \in Nat
    BY <1>14, Numbers
  <2> HIDE DEF room
  <2>2. QED
    BY <1>6, <2>1, MinOfTwo
<1>16. to \in {"commit", "grow"}
  OBVIOUS
<1> HIDE DEF pos, tail, c, room, done, to
<1>17. /\ call'.pc = to /\ call'.data = data /\ call'.done = done /\ call'.at = p
       /\ call'.first = 0
  BY <1>4 DEF Idle
<1>18. disk'[c] = row /\ \A b \in Cluster : b # c => disk'[b] = disk[b]
  BY <1>1, <1>3, <1>11, <1>12 DEF Disks
<1>19. \A i \in Row : disk'[c][i] = IF pos <= i /\ i < pos + done THEN data[i - pos + 1]
                                    ELSE disk[c][i]
  BY <1>18
<1> HIDE DEF row
<1>20. \A i \in Row : ~Live(disk'[c][i])
  <2> SUFFICES ASSUME NEW i \in Row PROVE ~Live(disk'[c][i])
    OBVIOUS
  <2>1. CASE pos <= i /\ i < pos + done
    <3>1. i - pos + 1 \in 1 .. Len(data)
      BY <1>6, <1>14, <1>15, <2>1 DEF Row
    <3>2. data[i - pos + 1] \in DataCell
      BY <1>6, <3>1, ElementOfSeq
    <3>3. QED
      BY <1>19, <2>1, <3>2, CellKinds
  <2>2. CASE ~(pos <= i /\ i < pos + done)
    <3>1. disk'[c][i] = disk[c][i]
      BY <1>19, <2>2
    <3>2. QED
      BY <1>13, <3>1, CleanCells
  <2>3. QED
    BY <2>1, <2>2
<1>21. PICK m : m = Len(s)
  OBVIOUS
<1>22. PICK z : z = e.size
  OBVIOUS
<1>23. PICK v : v = (m - 1) * Cells
  OBVIOUS
<1>24. m * Cells = v + Cells /\ v \in Nat
  BY <1>8, <1>11, <1>21, <1>23, Numbers
<1>25. \/ done = 0
       \/ z = v + pos /\ pos + done <= Cells
  <2>1. CASE pos = 0
    BY <1>14, <1>15, <2>1
  <2>2. CASE pos # 0
    <3>1. z + (Cells - pos) = m * Cells /\ room = Cells - pos
      BY <1>14, <1>21, <1>22, <2>2
    <3>2. z = v + pos /\ pos + done <= Cells
      BY <1>6, <1>14, <1>15, <1>22, <1>24, <3>1, Numbers
    <3>3. QED
      BY <3>2
  <2>3. QED
    BY <2>1, <2>2
<1> HIDE DEF e, f, s
<1>26. /\ \A i \in 1 .. z : CellOf(fat, disk', f, i - 1) = CellOf(fat, disk, f, i - 1)
       /\ Holds(fat, disk', f, z, data, done)
  <2>1. Room(fat, disk, disk', f, c, v, z, data, pos, done)
    <3>1. f \in Cluster /\ Path(fat, f, ChainIn(fat, f)) /\ c = Last(ChainIn(fat, f))
      BY <1>9, <1>10, <1>12 DEF s
    <3>2. /\ v = (Len(ChainIn(fat, f)) - 1) * Cells
          /\ z \in Nat /\ z <= v + Cells /\ pos \in Nat /\ done \in Nat
      BY <1>6, <1>8, <1>14, <1>15, <1>21, <1>22, <1>23, <1>24 DEF s
    <3>3. \A b \in Cluster : b # c => disk'[b] = disk[b]
      BY <1>18
    <3>4. \A i \in Row : pos <= i /\ i < pos + done => disk'[c][i] = data[i - pos + 1]
      BY <1>19
    <3>5. \A i \in Row : ~(pos <= i /\ i < pos + done) => disk'[c][i] = disk[c][i]
      BY <1>19
    <3>6. QED
      BY <1>25, <3>1, <3>2, <3>3, <3>4, <3>5 DEF Room
  <2>2. QED
    BY <2>1, RoomFilled
<1>27. Volume(fat, disk', 0, Unmarked(call'))
  <2>1. HandOf(call') = 0
    BY <1>16, <1>17 DEF HandOf
  <2>2. QED
    BY <1>1, <2>1, SoundsThen
<1>28. FileSet(fat, disk') = FileSet(fat, disk) /\ At(disk', p) = At(disk, p)
  <2>1. f = At(disk, p).first /\ c = Last(ChainIn(fat, f))
    BY <1>5, <1>12 DEF f, s
  <2>2. \A i \in 1 .. At(disk, p).size :
          CellOf(fat, disk', f, i - 1) = CellOf(fat, disk, f, i - 1)
    BY <1>5, <1>22, <1>26
  <2>3. \A b \in Cluster : b # c => disk'[b] = disk[b]
    BY <1>18
  <2>4. QED
    BY <1>1, <1>7, <1>9, <1>20, <1>27, <2>1, <2>2, <2>3, RowOfFile
<1>29. Files' = Files
  BY <1>1, <1>28, FilesIs
<1>30. Written(fat', disk', call')
  <2>1. At(disk', p).first = f /\ At(disk', p).size = z
    BY <1>5, <1>22, <1>28 DEF f
  <2>2. Holds(fat', disk', At(disk', call'.at).first, At(disk', call'.at).size,
              call'.data, call'.done)
    BY <1>1, <1>17, <1>26, <2>1
  <2>3. QED
    BY <1>16, <1>17, <2>2 DEF Written
<1>31. QED
  BY <1>17, <1>29, <1>30, StoreBeginAppend DEF Stored

-----------------------------------------------------------------------------
\* The driver implements FileStore

WrittenInv == ~suspect => Written(fat, disk, call)

LEMMA StepStores ==
  ASSUME IInv, IInv', WrittenInv, [Next]_vars
  PROVE  WrittenInv' /\ Stored
<1>1. CASE suspect'
  BY <1>1, StoreSuspect DEF WrittenInv, Stored
<1>2. CASE ~suspect' /\ UNCHANGED vars
  <2>1. UNCHANGED <<fat, disk, call, suspect>>
    BY <1>2 DEF vars
  <2>2. Files' = Files
    BY <2>1, FilesIs
  <2>3. Stored
    BY <2>1, <2>2, StoreStill DEF Stored
  <2>4. WrittenInv'
    BY <2>1 DEF WrittenInv
  <2>5. QED
    BY <2>3, <2>4
<1>3. CASE ~suspect' /\ Next
  <2> SUFFICES Written(fat', disk', call') /\ Stored
    BY DEF WrittenInv
  <2>1. ASSUME NEW n \in Names \cup Dots, DeleteFile(n)
        PROVE  Written(fat', disk', call') /\ Stored
    BY <1>3, <2>1, DeleteFileStores
  <2>2. ASSUME NEW n \in Names \cup Dots, ChangeDir(n)
        PROVE  Written(fat', disk', call') /\ Stored
    <3>1. ~suspect
      BY <2>2 DEF ChangeDir, Begin
    <3>2. QED
      BY <2>2, <3>1, ChangeDirStores DEF WrittenInv
  <2>3. ASSUME NEW n \in Names \cup Dots, NEW data \in Inputs, AppendFile(n, data)
        PROVE  Written(fat', disk', call') /\ Stored
    BY <1>3, <2>3, AppendFileStores
  <2>4. ASSUME NEW s \in Names, NEW n \in Names, NEW d \in Names \cup Dots \cup {Here},
               Copy(s, d, n)
        PROVE  Written(fat', disk', call') /\ Stored
    BY <1>3, <2>4, CopyStores
  <2>5. ASSUME NEW n \in Names, MakeDir(n) PROVE Written(fat', disk', call') /\ Stored
    BY <1>3, <2>5, MakeDirStores
  <2>6. ASSUME NEW o \in Names \cup Dots, NEW n \in Names, Rename(o, n)
        PROVE  Written(fat', disk', call') /\ Stored
    <3>1. ~suspect
      BY <2>6 DEF Rename, Begin
    <3>2. QED
      BY <1>3, <2>6, <3>1, RenameStores DEF WrittenInv
  <2>7. ASSUME FreeNext PROVE Written(fat', disk', call') /\ Stored
    BY <1>3, <2>7, FreeNextStores DEF FreeNext
  <2>8. ASSUME CopyStep PROVE Written(fat', disk', call') /\ Stored
    <3>1. ~suspect /\ Written(fat, disk, call)
      <4>1. suspect' = suspect
        <5>1. CASE Take
          BY <5>1 DEF Take
        <5>2. CASE TakeFails
          BY <5>2 DEF TakeFails
        <5>3. CASE Fill
          BY <5>3 DEF Fill
        <5>4. CASE Close
          BY <5>4 DEF Close
        <5>5. QED
          BY <2>8, <5>1, <5>2, <5>3, <5>4 DEF CopyStep
      <4>2. QED
        BY <1>3, <4>1 DEF WrittenInv
    <3>2. CASE Take
      BY <3>1, <3>2, TakeStores
    <3>3. CASE TakeFails
      BY <1>3, <3>3, StopStores DEF TakeFails
    <3>4. CASE Fill
      BY <3>1, <3>4, FillStores
    <3>5. CASE Close
      BY <3>1, <3>5, CloseStores
    <3>6. QED
      BY <2>8, <3>2, <3>3, <3>4, <3>5 DEF CopyStep
  <2>9. ASSUME AppendStep PROVE Written(fat', disk', call') /\ Stored
    <3>1. ~suspect /\ Written(fat, disk, call)
      <4>1. suspect' = suspect
        <5>1. CASE Grow
          BY <5>1 DEF Grow
        <5>2. CASE GrowFails
          BY <5>2 DEF GrowFails
        <5>3. CASE Mark
          BY <5>3 DEF Mark
        <5>4. CASE Pour
          BY <5>4 DEF Pour
        <5>5. CASE Commit
          BY <5>5 DEF Commit
        <5>6. QED
          BY <2>9, <5>1, <5>2, <5>3, <5>4, <5>5 DEF AppendStep
      <4>2. QED
        BY <1>3, <4>1 DEF WrittenInv
    <3>2. CASE Grow
      BY <3>1, <3>2, GrowStores
    <3>3. CASE GrowFails
      BY <1>3, <3>3, StopStores DEF GrowFails
    <3>4. CASE Mark
      BY <3>1, <3>4, MarkStores
    <3>5. CASE Pour
      BY <3>1, <3>5, PourStores
    <3>6. CASE Commit
      BY <1>3, <3>1, <3>6, CommitStores
    <3>7. QED
      BY <2>9, <3>2, <3>3, <3>4, <3>5, <3>6 DEF AppendStep
  <2>10. ASSUME MakeDirStep PROVE Written(fat', disk', call') /\ Stored
    <3>1. CASE WriteDots
      BY <1>3, <3>1, WriteDotsStores DEF WriteDots
    <3>2. CASE DotsFail
      BY <1>3, <3>2, StopStores DEF DotsFail
    <3>3. QED
      BY <2>10, <3>1, <3>2 DEF MakeDirStep
  <2>11. ASSUME EnterStep PROVE Written(fat', disk', call') /\ Stored
    <3>1. ~suspect /\ Written(fat, disk, call)
      BY <1>3, <2>11 DEF EnterStep, Enter, EnterFails, WrittenInv
    <3>2. CASE Enter
      BY <1>3, <3>1, <3>2, EnterStores
    <3>3. CASE EnterFails
      BY <1>3, <3>3, StopStores DEF EnterFails
    <3>4. QED
      BY <2>11, <3>2, <3>3 DEF EnterStep
  <2>12. ASSUME Crash PROVE Written(fat', disk', call') /\ Stored
    BY <1>3, <2>12, StopStores DEF Crash
  <2>13. QED
    BY <1>3, <2>1, <2>2, <2>3, <2>4, <2>5, <2>6, <2>7, <2>8, <2>9, <2>10, <2>11, <2>12 DEF Next
<1>4. QED
  BY <1>1, <1>2, <1>3

\* Whatever happens to table and clusters, callers see the files that FileStore
\* promises: until the volume is misused each step of the driver is one of its
\* operations or changes no file (the calls of fs/fat32_file.c: a file appears
\* with all its data or not at all, an append adds all of its data or nothing).
THEOREM FilesAreStore == Spec => StoreSpec
<1>1. Init => IInv /\ WrittenInv /\ S!Init
  <2>1. ASSUME Init PROVE WrittenInv /\ S!Init
    <3>1. call = Idle /\ suspect = FALSE
      BY <2>1 DEF Init
    <3>2. call.data = <<>> /\ call.pc = "idle"
      BY <3>1, IdleTyped
    <3>3. QED
      BY <3>1, <3>2, NothingWritten DEF WrittenInv, S!Init
  <2>2. QED
    BY <2>1, InitSound
<1>2. IInv /\ [Next]_vars => IInv'
  BY NextKeeps
<1>3. IInv /\ IInv' /\ WrittenInv /\ [Next]_vars => WrittenInv' /\ [S!Next]_(S!vars)
  BY StepStores DEF Stored
<1>4. QED
  BY <1>1, <1>2, <1>3, PTL DEF Spec, StoreSpec, S!Spec

=============================================================================
