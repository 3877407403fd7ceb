------------------------- MODULE HarnessPackagesProofs -------------------------
(***************************************************************************)
(* Proofs about HarnessPackages for all packages, profiles and built-in     *)
(* plugins of the assumed kind, and any number of requests and restarts.    *)
(*                                                                         *)
(* A refresh is made of folds: of plugins over a pass, of passes over a     *)
(* reconciliation, of unmounts and of mounts.  FoldExists shows by          *)
(* induction over the places of a sequence that what FoldLeft chooses is    *)
(* there, and UpTo carries what one step keeps to the end.  A pass that     *)
(* activates nothing leaves every plugin settled, and a pass that is not    *)
(* the last activates one: as many passes as there are plugins, and one     *)
(* more, settle them all.                                                   *)
(***************************************************************************)
EXTENDS HarnessPackages, FiniteSetTheorems, FunctionTheorems, SequenceTheorems, WellFoundedInduction, TLAPS

\* A set of natural numbers has a least element.
LEMMA LeastNat ==
    ASSUME NEW T, T \subseteq Nat, T # {}
    PROVE  \E x \in T : \A y \in T : x <= y
<1> DEFINE R == OpToRel(<, Nat)
<1>1. IsWellFoundedOn(R, Nat)
  BY NatLessThanWellFounded
<1>2. \A x, y \in Nat : x < y => <<x, y>> \in R
  BY DEF OpToRel
<1> HIDE DEF R
<1>3. PICK x \in T : \A y \in T : ~(<<y, x>> \in R)
  BY <1>1, WFMin
<1>4. ASSUME NEW y \in T  PROVE x <= y
  <2>1. x \in Nat /\ y \in Nat /\ ~(y < x)
    BY <1>2, <1>3
  <2> QED  BY <2>1
<1> QED  BY <1>4

\* Induction over the places of a sequence.
LEMMA UpTo ==
    ASSUME NEW N \in Nat, NEW P, 0 \in P,
           \A n \in 1 .. N : n - 1 \in P => n \in P
    PROVE  \A n \in 0 .. N : n \in P
<1> DEFINE T == {n \in 0 .. N : n \notin P}
<1>1. SUFFICES ASSUME T # {}  PROVE FALSE
  OBVIOUS
<1>0. T \subseteq Nat
  OBVIOUS
<1>2. PICK x \in T : \A y \in T : x <= y
  <2> HIDE DEF T
  <2> QED  BY <1>0, <1>1, LeastNat
<1>3. x \in 1 .. N
  BY <1>2
<1>4. x - 1 \in P
  BY <1>2, <1>3
<1> QED  BY <1>2, <1>3, <1>4

\* The greatest of the first n numbers is the last.
LEMMA MaxOfUpTo ==
    ASSUME NEW n \in Nat, n > 0
    PROVE  Max(1 .. n) = n /\ (1 .. n) \ {n} = 1 .. (n - 1) /\ 1 .. n # {}
<1>1. \E x \in 1 .. n : \A y \in 1 .. n : x >= y
  OBVIOUS
<1>2. Max(1 .. n) \in 1 .. n /\ Max(1 .. n) >= n
  BY <1>1 DEF Max
<1> QED  BY <1>2

\* Some places of a sequence have a last one.
LEMMA LastPlace ==
    ASSUME NEW n \in Nat, NEW S \in SUBSET (1 .. n), S # {}
    PROVE  Max(S) \in S /\ \A y \in S : y <= Max(S)
<1>1. \E x \in S : \A y \in S : n - x <= n - y
  <2> DEFINE T == {n - x : x \in S}
  <2>1. T \subseteq Nat /\ T # {}
    <3>1. \A x \in S : n - x \in Nat
      OBVIOUS
    <3> QED  BY <3>1
  <2>2. PICK t \in T : \A u \in T : t <= u
    <3> HIDE DEF T
    <3> QED  BY <2>1, LeastNat
  <2>3. PICK x \in S : t = n - x
    OBVIOUS
  <2>4. \A y \in S : n - y \in T
    OBVIOUS
  <2> QED  BY <2>2, <2>3, <2>4
<1>2. \E x \in S : \A y \in S : x >= y
  BY <1>1
<1> QED  BY <1>2 DEF Max

\* h holds what is reached over each set of places, from b by the steps g.
IsFold(h, S, b, n, g) ==
    /\ h \in [SUBSET (1 .. n) -> S]
    /\ \A T \in SUBSET (1 .. n) :
          h[T] = IF T = {} THEN b ELSE g[Max(T)][h[T \ {Max(T)}]]

\* Over no place it is what the fold begins with.
LEMMA FoldOfNone ==
    ASSUME NEW S, NEW b \in S, NEW g
    PROVE  \E h : IsFold(h, S, b, 0, g)
<1> DEFINE h == [T \in SUBSET (1 .. 0) |-> b]
<1>1. 1 .. 0 = {}
  OBVIOUS
<1>2. h \in [SUBSET (1 .. 0) -> S]
  OBVIOUS
<1>3. \A T \in SUBSET (1 .. 0) : T = {} /\ h[T] = b
  BY <1>1
<1> HIDE DEF h
<1>4. IsFold(h, S, b, 0, g)
  BY <1>2, <1>3 DEF IsFold
<1> QED  BY <1>4

\* One place more takes one step more.
LEMMA FoldOfOneMore ==
    ASSUME NEW S, NEW b \in S, NEW N \in Nat, NEW g \in [1 .. N -> [S -> S]],
           NEW n \in 1 .. N, NEW h, IsFold(h, S, b, n - 1, g)
    PROVE  \E k : IsFold(k, S, b, n, g)
<1> DEFINE k == [T \in SUBSET (1 .. n) |-> IF n \in T THEN g[n][h[T \ {n}]] ELSE h[T]]
<1>0. n \in Nat /\ g[n] \in [S -> S]
  OBVIOUS
<1>1. \A T \in SUBSET (1 .. n) : n \notin T => T \in SUBSET (1 .. (n - 1))
  OBVIOUS
<1>2. \A T \in SUBSET (1 .. n) : T \ {n} \in SUBSET (1 .. (n - 1))
  OBVIOUS
<1>3. h \in [SUBSET (1 .. (n - 1)) -> S]
  BY DEF IsFold
<1>4. k \in [SUBSET (1 .. n) -> S]
  <2>1. ASSUME NEW T \in SUBSET (1 .. n)
        PROVE  (IF n \in T THEN g[n][h[T \ {n}]] ELSE h[T]) \in S
    BY <1>0, <1>1, <1>2, <1>3
  <2> QED  BY <2>1
<1>5. ASSUME NEW T \in SUBSET (1 .. n)
      PROVE  k[T] = IF T = {} THEN b ELSE g[Max(T)][k[T \ {Max(T)}]]
  <2>1. CASE n \in T
    <3>1. Max(T) \in T /\ Max(T) \in 1 .. n /\ n <= Max(T)
      BY <1>0, <2>1, LastPlace
    <3>2. Max(T) = n
      BY <1>0, <3>1
    <3>3. k[T \ {n}] = h[T \ {n}]
      BY <1>2
    <3> QED  BY <2>1, <3>2, <3>3
  <2>2. CASE n \notin T
    <3>1. T \in SUBSET (1 .. (n - 1)) /\ k[T] = h[T]
      BY <1>1, <2>2
    <3>2. k[T \ {Max(T)}] = h[T \ {Max(T)}]
      BY <2>2, <1>1
    <3> HIDE DEF k
    <3> QED  BY <3>1, <3>2 DEF IsFold
  <2> QED  BY <2>1, <2>2
<1> HIDE DEF k
<1>6. IsFold(k, S, b, n, g)
  BY <1>4, <1>5 DEF IsFold
<1> QED  BY <1>6

\* The fold that FoldLeft chooses exists.
LEMMA FoldExists ==
    ASSUME NEW S, NEW b \in S, NEW N \in Nat, NEW g \in [1 .. N -> [S -> S]]
    PROVE  \E h : IsFold(h, S, b, N, g)
<1> DEFINE P == {n \in 0 .. N : \E h : IsFold(h, S, b, n, g)}
<1>1. 0 \in P
  BY FoldOfNone
<1>2. ASSUME NEW n \in 1 .. N, n - 1 \in P  PROVE n \in P
  <2>1. PICK h : IsFold(h, S, b, n - 1, g)
    BY <1>2
  <2>2. \E k : IsFold(k, S, b, n, g)
    BY <2>1, FoldOfOneMore
  <2> QED  BY <2>2
<1>3. \A n \in 0 .. N : n \in P
  <2> HIDE DEF P
  <2>1. \A n \in 1 .. N : n - 1 \in P => n \in P
    BY <1>2
  <2> QED  BY <1>1, <2>1, UpTo
<1> QED  BY <1>3


\* The elements of a finite set by a linear order: the numbers of those before
\* an element are different and leave no gap.
LEMMA RanksDiffer ==
    ASSUME NEW S, IsFiniteSet(S), NEW P \in [S -> SUBSET S],
           \A x \in S : x \notin P[x],
           \A x, y \in S : x # y => \/ P[x] \subseteq P[y] /\ x \in P[y]
                                    \/ P[y] \subseteq P[x] /\ y \in P[x]
    PROVE  /\ Cardinality(S) \in Nat
           /\ \A x, y \in S : Cardinality(P[x]) = Cardinality(P[y]) => x = y
           /\ \A x \in S : Cardinality(P[x]) \in 0 .. (Cardinality(S) - 1)
           /\ \A n \in 1 .. Cardinality(S) : \E x \in S : Cardinality(P[x]) = n - 1
<1> DEFINE N == Cardinality(S)
<1>1. N \in Nat /\ \A x \in S : IsFiniteSet(P[x]) /\ Cardinality(P[x]) \in Nat
  <2>1. \A x \in S : P[x] \in SUBSET S
    OBVIOUS
  <2> QED  BY <2>1, FS_Subset, FS_CardinalityType
<1>2. ASSUME NEW x \in S, NEW y \in S, P[x] \subseteq P[y], x \in P[y]
      PROVE  Cardinality(P[x]) < Cardinality(P[y])
  <2>1. Cardinality(P[x]) <= Cardinality(P[y]) /\ Cardinality(P[x]) # Cardinality(P[y])
    <3>1. P[x] \in SUBSET P[y] /\ P[x] # P[y]
      BY <1>2
    <3> QED  BY <1>1, <3>1, FS_Subset
  <2> QED  BY <1>1, <2>1
<1>3. \A x, y \in S : Cardinality(P[x]) = Cardinality(P[y]) => x = y
  <2>1. SUFFICES ASSUME NEW x \in S, NEW y \in S, x # y
                 PROVE  Cardinality(P[x]) # Cardinality(P[y])
    OBVIOUS
  <2> QED  BY <2>1, <1>1, <1>2
<1>4. \A x \in S : Cardinality(P[x]) \in 0 .. (N - 1)
  <2>1. SUFFICES ASSUME NEW x \in S  PROVE Cardinality(P[x]) \in 0 .. (N - 1)
    OBVIOUS
  <2>2. P[x] \in SUBSET S /\ P[x] # S
    OBVIOUS
  <2>3. Cardinality(P[x]) <= N /\ Cardinality(P[x]) # N
    BY <2>2, FS_Subset
  <2> QED  BY <1>1, <2>3
<1> DEFINE f == [x \in S |-> Cardinality(P[x])]
<1>5. f \in Injection(S, 0 .. (N - 1))
  BY <1>3, <1>4, Fun_IsInj
<1>6. IsFiniteSet(0 .. (N - 1)) /\ Cardinality(0 .. (N - 1)) = N
  <2> HIDE DEF N
  <2>1. N - 1 \in Int /\ 0 \in Int
    BY <1>1
  <2>2. /\ IsFiniteSet(0 .. (N - 1))
        /\ Cardinality(0 .. (N - 1)) = IF 0 > N - 1 THEN 0 ELSE (N - 1) - 0 + 1
    BY <2>1, FS_Interval
  <2> QED  BY <1>1, <2>2
<1>7. f \in Surjection(S, 0 .. (N - 1))
  <2> HIDE DEF f
  <2> QED  BY <1>5, <1>6, FS_Injection
<1>8. ASSUME NEW n \in 1 .. N  PROVE \E x \in S : Cardinality(P[x]) = n - 1
  <2>1. n - 1 \in 0 .. (N - 1)
    <3> HIDE DEF N
    <3> QED  BY <1>1
  <2>2. PICK x \in S : f[x] = n - 1
    <3> DEFINE T == 0 .. (N - 1)
    <3>1. f \in Surjection(S, T) /\ n - 1 \in T
      BY <1>7, <2>1
    <3> HIDE DEF f, N, T
    <3>2. \A z \in T : \E x \in S : f[x] = z
      BY <3>1, Fun_SurjectionProperties
    <3> QED  BY <3>1, <3>2
  <2> QED  BY <2>2
<1> QED  BY <1>1, <1>3, <1>4, <1>8

\* A sequence of all elements of a set, each once.
Enumerates(s, S) ==
    /\ Cardinality(S) \in Nat
    /\ s \in [1 .. Cardinality(S) -> S]
    /\ \A x \in S : \E n \in 1 .. Cardinality(S) : s[n] = x
    /\ \A n, k \in 1 .. Cardinality(S) : s[n] = s[k] => n = k

\* What InOrder makes of such ranks is an enumeration.
LEMMA EnumeratedByRank ==
    ASSUME NEW S, NEW P \in [S -> SUBSET S], NEW s, Cardinality(S) \in Nat,
           \A x, y \in S : Cardinality(P[x]) = Cardinality(P[y]) => x = y,
           \A x \in S : Cardinality(P[x]) \in 0 .. (Cardinality(S) - 1),
           DOMAIN s = 1 .. Cardinality(S), s = [n \in 1 .. Cardinality(S) |-> s[n]],
           \A n \in 1 .. Cardinality(S) : s[n] \in S /\ Cardinality(P[s[n]]) = n - 1
    PROVE  Enumerates(s, S)
<1>1. s \in [1 .. Cardinality(S) -> S]
  OBVIOUS
<1>2. ASSUME NEW x \in S  PROVE \E n \in 1 .. Cardinality(S) : s[n] = x
  <2> DEFINE n == Cardinality(P[x]) + 1
  <2>1. n \in 1 .. Cardinality(S) /\ n - 1 = Cardinality(P[x])
    OBVIOUS
  <2>2. s[n] \in S /\ Cardinality(P[s[n]]) = Cardinality(P[x])
    BY <2>1
  <2> QED  BY <2>1, <2>2
<1>3. \A n, k \in 1 .. Cardinality(S) : s[n] = s[k] => n = k
  <2>1. SUFFICES ASSUME NEW n \in 1 .. Cardinality(S), NEW k \in 1 .. Cardinality(S), s[n] = s[k]
                 PROVE  n = k
    OBVIOUS
  <2>2. n - 1 = k - 1
    BY <2>1
  <2> QED  BY <2>2
<1> QED  BY <1>1, <1>2, <1>3 DEF Enumerates

\* The numbers of a set in ascending order.
LEMMA AscendingEnumerates ==
    ASSUME NEW S \in SUBSET Nat, IsFiniteSet(S)
    PROVE  Enumerates(Ascending(S), S)
<1> DEFINE P == [x \in S |-> {y \in S : y < x}]
           s == Ascending(S)
<1>1. \A x, y \in S : x # y => \/ P[x] \subseteq P[y] /\ x \in P[y]
                               \/ P[y] \subseteq P[x] /\ y \in P[x]
  <2>1. SUFFICES ASSUME NEW x \in S, NEW y \in S, x # y
                 PROVE  \/ P[x] \subseteq P[y] /\ x \in P[y]
                        \/ P[y] \subseteq P[x] /\ y \in P[x]
    OBVIOUS
  <2>2. x \in Nat /\ y \in Nat /\ \A z \in S : z \in Nat
    OBVIOUS
  <2>5. P[x] = {z \in S : z < x} /\ P[y] = {z \in S : z < y}
    OBVIOUS
  <2> HIDE DEF P
  <2>3. CASE x < y
    <3>1. \A z \in S : z < x => z < y
      BY <2>2, <2>3
    <3> QED  BY <2>3, <2>5, <3>1
  <2>4. CASE y < x
    <3>1. \A z \in S : z < y => z < x
      BY <2>2, <2>4
    <3> QED  BY <2>4, <2>5, <3>1
  <2> QED  BY <2>1, <2>2, <2>3, <2>4
<1>2. P \in [S -> SUBSET S] /\ \A x \in S : x \notin P[x]
  OBVIOUS
<1>3. /\ Cardinality(S) \in Nat
      /\ \A x, y \in S : Cardinality(P[x]) = Cardinality(P[y]) => x = y
      /\ \A x \in S : Cardinality(P[x]) \in 0 .. (Cardinality(S) - 1)
      /\ \A n \in 1 .. Cardinality(S) : \E x \in S : Cardinality(P[x]) = n - 1
  <2> HIDE DEF P
  <2> QED  BY <1>1, <1>2, RanksDiffer
<1>4. s = [n \in 1 .. Cardinality(S) |->
              CHOOSE x \in S : Cardinality({y \in S : y < x}) = n - 1]
  BY DEF Ascending, InOrder
<1>5. ASSUME NEW n \in 1 .. Cardinality(S)
      PROVE  s[n] \in S /\ Cardinality(P[s[n]]) = n - 1
  <2>1. \E x \in S : Cardinality({y \in S : y < x}) = n - 1
    BY <1>3
  <2>2. s[n] \in S /\ Cardinality({y \in S : y < s[n]}) = n - 1
    <3> HIDE DEF s, P
    <3> QED  BY <1>4, <2>1
  <2> QED  BY <2>2
<1>6. DOMAIN s = 1 .. Cardinality(S) /\ s = [n \in 1 .. Cardinality(S) |-> s[n]]
  <2> DEFINE e(n) == CHOOSE x \in S : Cardinality({y \in S : y < x}) = n - 1
  <2>1. s = [n \in 1 .. Cardinality(S) |-> e(n)]
    BY <1>4
  <2> HIDE DEF s, P, e
  <2> QED  BY <2>1
<1> HIDE DEF s, P
<1>7. Enumerates(s, S)
  BY <1>2, <1>3, <1>5, <1>6, EnumeratedByRank
<1> QED  BY <1>7 DEF s

-----------------------------------------------------------------------------
\* What a runtime is made of.
Manifests == Builtins \cup ExternalManifests
PluginIds == {m.id : m \in Manifests}
Entries == [manifest : Manifests, status : {"pending", "active", "failed"}]
Tables == UNION {[D -> Entries] : D \in SUBSET PluginIds}

\* The plugins that are active, and what they offer and listen to.
Running(r) == {i \in DOMAIN r.plugins : r.plugins[i].status = "active"}
ManifestsOf(r, ids) == {r.plugins[i].manifest : i \in ids}
Offering(m) == {[plugin |-> m.id, service |-> s, scope |-> m.scope] : s \in m.provides}
Listening(m) == {[plugin |-> m.id, on |-> e] : e \in Heard(m)}

\* A plugin is kept under its id, and what is bound and listens is that of the
\* active plugins.
Runtimes ==
    {r \in [plugins : Tables, bindings : SUBSET UNION {Offering(m) : m \in Manifests},
            listeners : SUBSET UNION {Listening(m) : m \in Manifests}] :
        /\ \A i \in DOMAIN r.plugins : r.plugins[i].manifest.id = i
        /\ \A b : b \in r.bindings <=> \E m \in ManifestsOf(r, Running(r)) : b \in Offering(m)
        /\ \A l : l \in r.listeners <=> \E m \in ManifestsOf(r, Running(r)) : l \in Listening(m)}

\* A plugin is given what it requires by those that are active.
Given(r, m) == GivenBy(ManifestsOf(r, Running(r)), m)

\* There are finitely many ids of plugins.
LEMMA IdsAreFinite == PluginIds \subseteq Nat /\ IsFiniteSet(PluginIds)
<1>1. PluginIds \subseteq Nat
  <2>1. \A m \in Manifests : m.id \in Nat
    BY ManifestsAssumption, SMT DEF Manifests
  <2> QED  BY <2>1 DEF PluginIds
<1> DEFINE f == [m \in Builtins |-> m.id]
           B == {m.id : m \in Builtins}
           E == {m.id : m \in ExternalManifests}
<1>2. IsFiniteSet(Builtins) /\ IsFiniteSet(E)
  BY PackageIdsAssumption
<1>3. IsFiniteSet(B)
  <2>1. f \in [Builtins -> B] /\ \A t \in B : \E s \in Builtins : f[s] = t
    OBVIOUS
  <2> HIDE DEF f, B
  <2>2. f \in Surjection(Builtins, B)
    BY <2>1, Fun_IsSurj
  <2> QED  BY <1>2, <2>2, FS_Surjection
<1>4. PluginIds = B \cup E
  BY DEF PluginIds, Manifests
<1> HIDE DEF B, E
<1> QED  BY <1>1, <1>2, <1>3, <1>4, FS_Union

\* What is known of a runtime, one fact after the other.
LEMMA RuntimeFacts ==
    ASSUME NEW r \in Runtimes
    PROVE  /\ r = [plugins |-> r.plugins, bindings |-> r.bindings, listeners |-> r.listeners]
           /\ DOMAIN r.plugins \subseteq PluginIds /\ IsFiniteSet(DOMAIN r.plugins)
           /\ r.plugins \in [DOMAIN r.plugins -> Entries]
           /\ \A i \in DOMAIN r.plugins :
                 /\ i \in Nat
                 /\ r.plugins[i] = [manifest |-> r.plugins[i].manifest,
                                    status |-> r.plugins[i].status]
                 /\ r.plugins[i].manifest \in Manifests
                 /\ r.plugins[i].manifest.id = i
                 /\ r.plugins[i].status \in {"pending", "active", "failed"}
           /\ \A b : b \in r.bindings <=> \E m \in ManifestsOf(r, Running(r)) : b \in Offering(m)
           /\ \A l : l \in r.listeners <=> \E m \in ManifestsOf(r, Running(r)) : l \in Listening(m)
<1>1. /\ r \in [plugins : Tables, bindings : SUBSET UNION {Offering(m) : m \in Manifests},
                listeners : SUBSET UNION {Listening(m) : m \in Manifests}]
      /\ \A i \in DOMAIN r.plugins : r.plugins[i].manifest.id = i
      /\ \A b : b \in r.bindings <=> \E m \in ManifestsOf(r, Running(r)) : b \in Offering(m)
      /\ \A l : l \in r.listeners <=> \E m \in ManifestsOf(r, Running(r)) : l \in Listening(m)
  BY DEF Runtimes
<1>2. r = [plugins |-> r.plugins, bindings |-> r.bindings, listeners |-> r.listeners]
      /\ r.plugins \in Tables
  BY <1>1
<1>3. PICK D \in SUBSET PluginIds : r.plugins \in [D -> Entries]
  BY <1>2 DEF Tables
<1>4. DOMAIN r.plugins = D
  BY <1>3
<1>5. \A e \in Entries : /\ e = [manifest |-> e.manifest, status |-> e.status]
                         /\ e.manifest \in Manifests
                         /\ e.status \in {"pending", "active", "failed"}
  BY DEF Entries
<1>6. \A i \in D : r.plugins[i] \in Entries /\ i \in Nat
  BY <1>3, IdsAreFinite
<1>7. IsFiniteSet(D)
  BY IdsAreFinite, FS_Subset
<1> QED  BY <1>1, <1>2, <1>3, <1>4, <1>5, <1>6, <1>7

\* What makes a runtime.
LEMMA IsRuntime ==
    ASSUME NEW D \in SUBSET PluginIds, NEW f \in [D -> Entries], NEW r,
           r = [plugins |-> f, bindings |-> r.bindings, listeners |-> r.listeners],
           \A i \in D : f[i].manifest.id = i,
           \A b : b \in r.bindings <=> \E m \in ManifestsOf(r, Running(r)) : b \in Offering(m),
           \A l : l \in r.listeners <=> \E m \in ManifestsOf(r, Running(r)) : l \in Listening(m)
    PROVE  r \in Runtimes
<1>1. r.plugins = f /\ DOMAIN r.plugins = D /\ f \in Tables
  BY DEF Tables
<1>2. ManifestsOf(r, Running(r)) \subseteq Manifests
  <2>1. \A i \in D : f[i].manifest \in Manifests
    BY DEF Entries
  <2> QED  BY <1>1, <2>1 DEF ManifestsOf, Running
<1>3. /\ r.bindings \subseteq UNION {Offering(m) : m \in Manifests}
      /\ r.listeners \subseteq UNION {Listening(m) : m \in Manifests}
  <2> DEFINE M == ManifestsOf(r, Running(r))
  <2>1. /\ M \subseteq Manifests
        /\ \A b : b \in r.bindings <=> \E m \in M : b \in Offering(m)
        /\ \A l : l \in r.listeners <=> \E m \in M : l \in Listening(m)
    BY <1>2
  <2> HIDE DEF M
  <2> QED  BY <2>1
<1>4. r \in [plugins : Tables, bindings : SUBSET UNION {Offering(m) : m \in Manifests},
             listeners : SUBSET UNION {Listening(m) : m \in Manifests}]
  <2> DEFINE X == UNION {Offering(m) : m \in Manifests}
             Y == UNION {Listening(m) : m \in Manifests}
  <2>1. r.bindings \in SUBSET X /\ r.listeners \in SUBSET Y
    BY <1>3
  <2> HIDE DEF X, Y
  <2>2. r \in [plugins : Tables, bindings : SUBSET X, listeners : SUBSET Y]
    BY <1>1, <2>1
  <2> QED  BY <2>2 DEF X, Y
<1> QED  BY <1>1, <1>4 DEF Runtimes

(* A service is offered if an active plugin gives it. *)
LEMMA MissingOrGiven ==
    ASSUME NEW r \in Runtimes, NEW m
    PROVE  Missing(r, m) = {} <=> Given(r, m)
<1> DEFINE M == ManifestsOf(r, Running(r))
<1>1. \A b : b \in r.bindings <=> \E n \in M : b \in Offering(n)
  BY RuntimeFacts
<1>2. ASSUME NEW s
      PROVE  Offers(r, s, m.scope) <=> \E n \in M : s \in n.provides /\ n.scope \in {m.scope, "global"}
  <2>1. ASSUME NEW n \in M, s \in n.provides, n.scope \in {m.scope, "global"}
        PROVE  Offers(r, s, m.scope)
    <3> DEFINE b == [plugin |-> n.id, service |-> s, scope |-> n.scope]
    <3>1. b \in r.bindings /\ b.service = s /\ b.scope = n.scope
      BY <1>1, <2>1 DEF Offering
    <3> HIDE DEF b
    <3> QED  BY <2>1, <3>1 DEF Offers
  <2>2. ASSUME NEW b \in r.bindings, b.service = s, b.scope \in {m.scope, "global"}
        PROVE  \E n \in M : s \in n.provides /\ n.scope \in {m.scope, "global"}
    <3>1. PICK n \in M : b \in Offering(n)
      BY <1>1
    <3> QED  BY <2>2, <3>1 DEF Offering
  <2> QED  BY <2>1, <2>2 DEF Offers
<1> HIDE DEF M
<1> QED  BY <1>2 DEF Missing, Given, GivenBy, M

-----------------------------------------------------------------------------
(* One registration of a pass. *)
Marked(r, i, s) == [r EXCEPT !.plugins[i].status = s]
Activated(r, i) ==
    [r EXCEPT !.plugins[i].status = "active",
              !.bindings = @ \cup Offering(r.plugins[i].manifest),
              !.listeners = @ \cup Listening(r.plugins[i].manifest)]

\* A plugin that is not active has nothing to be disposed of.
LEMMA DisposeOfIdle ==
    ASSUME NEW r \in Runtimes, NEW i \in DOMAIN r.plugins \ Running(r)
    PROVE  Dispose(r, {i}) = r
<1> DEFINE M == ManifestsOf(r, Running(r))
<1>1. \A m \in M : m.id # i
  <2>1. \A j \in DOMAIN r.plugins : r.plugins[j].manifest.id = j
    BY RuntimeFacts
  <2>2. Running(r) \subseteq DOMAIN r.plugins /\ i \notin Running(r)
    BY DEF Running
  <2> QED  BY <2>1, <2>2 DEF ManifestsOf
<1>2. /\ \A b : b \in r.bindings <=> \E m \in M : b \in Offering(m)
      /\ \A l : l \in r.listeners <=> \E m \in M : l \in Listening(m)
  BY RuntimeFacts
<1>3. r = [plugins |-> r.plugins, bindings |-> r.bindings, listeners |-> r.listeners]
  BY RuntimeFacts
<1>4. {b \in r.bindings : b.plugin \notin {i}} = r.bindings
  <2>1. \A b \in r.bindings : b.plugin # i
    BY <1>1, <1>2 DEF Offering
  <2> QED  BY <2>1
<1>5. {l \in r.listeners : l.plugin \notin {i}} = r.listeners
  <2>1. \A l \in r.listeners : l.plugin # i
    BY <1>1, <1>2 DEF Listening
  <2> QED  BY <2>1
<1> QED  BY <1>3, <1>4, <1>5 DEF Dispose

\* What a try comes to.
LEMMA TryOutcomes ==
    ASSUME NEW r \in Runtimes, NEW i \in DOMAIN r.plugins
    PROVE  LET m == r.plugins[i].manifest
           IN  /\ i \in Running(r) => Try(r, i) = r
               /\ i \notin Running(r) /\ ~Given(r, m) => Try(r, i) = Marked(r, i, "pending")
               /\ i \notin Running(r) /\ Given(r, m) /\ Clashes(r, m) =>
                     Try(r, i) = Marked(r, i, "failed")
               /\ i \notin Running(r) /\ Given(r, m) /\ ~Clashes(r, m) =>
                     Try(r, i) = Activated(r, i)
<1> DEFINE m == r.plugins[i].manifest
<1>1. m.id = i
  BY RuntimeFacts
<1>2. i \in Running(r) <=> r.plugins[i].status = "active"
  BY DEF Running
<1>3. Missing(r, m) = {} <=> Given(r, m)
  BY MissingOrGiven
<1>4. i \notin Running(r) => Dispose(r, {i}) = r
  BY DisposeOfIdle
<1>5. i \in Running(r) => Try(r, i) = r
  BY <1>2 DEF Try
<1>6. i \notin Running(r) /\ ~Given(r, m) => Try(r, i) = Marked(r, i, "pending")
  BY <1>2, <1>3 DEF Try, Marked
<1>7. i \notin Running(r) /\ Given(r, m) => Try(r, i) = SetUp(r, m)
  BY <1>2, <1>3 DEF Try
<1>8. i \notin Running(r) /\ Clashes(r, m) => SetUp(r, m) = Marked(r, i, "failed")
  BY <1>1, <1>4 DEF SetUp, Marked
<1>9. ~Clashes(r, m) => SetUp(r, m) = Activated(r, i)
  <2>1. {[plugin |-> m.id, service |-> s, scope |-> m.scope] : s \in m.provides} = Offering(m)
    BY DEF Offering
  <2>2. {[plugin |-> m.id, on |-> e] : e \in Heard(m)} = Listening(m)
    BY DEF Listening
  <2> QED  BY <1>1, <2>1, <2>2 DEF SetUp, Activated
<1> QED  BY <1>5, <1>6, <1>7, <1>8, <1>9

\* Only the status of an idle plugin changes.
LEMMA MarkedFacts ==
    ASSUME NEW r \in Runtimes, NEW i \in DOMAIN r.plugins \ Running(r),
           NEW s \in {"pending", "failed"}
    PROVE  /\ Marked(r, i, s) \in Runtimes
           /\ Running(Marked(r, i, s)) = Running(r)
           /\ DOMAIN Marked(r, i, s).plugins = DOMAIN r.plugins
           /\ Marked(r, i, s).bindings = r.bindings
           /\ Marked(r, i, s).listeners = r.listeners
           /\ Marked(r, i, s).plugins[i].status = s
           /\ \A j \in DOMAIN r.plugins :
                 /\ Marked(r, i, s).plugins[j].manifest = r.plugins[j].manifest
                 /\ j # i => Marked(r, i, s).plugins[j] = r.plugins[j]
<1> DEFINE q == Marked(r, i, s)
           D == DOMAIN r.plugins
<1>1. /\ r = [plugins |-> r.plugins, bindings |-> r.bindings, listeners |-> r.listeners]
      /\ D \subseteq PluginIds /\ r.plugins \in [D -> Entries]
      /\ \A j \in D : /\ r.plugins[j] = [manifest |-> r.plugins[j].manifest,
                                         status |-> r.plugins[j].status]
                      /\ r.plugins[j].manifest \in Manifests
                      /\ r.plugins[j].manifest.id = j
  BY RuntimeFacts
<1> DEFINE f == [r.plugins EXCEPT ![i].status = s]
<1>2. q = [plugins |-> f, bindings |-> r.bindings, listeners |-> r.listeners]
  <2>1. r = [plugins |-> r.plugins, bindings |-> r.bindings, listeners |-> r.listeners]
    BY <1>1
  <2> QED  BY <2>1 DEF Marked
<1>3. f[i] = [manifest |-> r.plugins[i].manifest, status |-> s]
  BY <1>1
<1>4. \A j \in D : j # i => f[j] = r.plugins[j]
  OBVIOUS
<1>5. f \in [D -> Entries]
  <2>1. f[i] \in Entries
    BY <1>1, <1>3 DEF Entries
  <2>2. \A j \in D : f[j] \in Entries
    BY <1>1, <1>4, <2>1
  <2>3. f = [j \in D |-> f[j]]
    OBVIOUS
  <2> HIDE DEF f
  <2> QED  BY <2>2, <2>3
<1> HIDE DEF f
<1>6. q.plugins = f /\ q.bindings = r.bindings /\ q.listeners = r.listeners
  BY <1>2
<1>7. DOMAIN f = D /\ \A j \in D : f[j].manifest = r.plugins[j].manifest
  BY <1>3, <1>4, <1>5
<1> HIDE DEF q
<1>8. Running(q) = Running(r)
  BY <1>3, <1>4, <1>6, <1>7 DEF Running
<1>9. ManifestsOf(q, Running(q)) = ManifestsOf(r, Running(r))
  <2>1. Running(r) \subseteq D
    BY DEF Running
  <2> QED  BY <1>6, <1>7, <1>8, <2>1 DEF ManifestsOf
<1>10. q \in Runtimes
  <2>1. /\ \A b : b \in r.bindings <=> \E m \in ManifestsOf(q, Running(q)) : b \in Offering(m)
        /\ \A l : l \in r.listeners <=> \E m \in ManifestsOf(q, Running(q)) : l \in Listening(m)
    BY <1>9, RuntimeFacts
  <2>2. \A j \in D : f[j].manifest.id = j
    BY <1>1, <1>7
  <2>3. q = [plugins |-> f, bindings |-> q.bindings, listeners |-> q.listeners]
    BY <1>2, <1>6
  <2> HIDE DEF D
  <2>4. D \in SUBSET PluginIds
    BY <1>1
  <2> QED  BY <1>5, <1>6, <2>1, <2>2, <2>3, <2>4, IsRuntime
<1> QED  BY <1>3, <1>4, <1>6, <1>7, <1>8, <1>10 DEF q

\* A plugin is added to those that are active.
LEMMA ActivatedFacts ==
    ASSUME NEW r \in Runtimes, NEW i \in DOMAIN r.plugins
    PROVE  /\ Activated(r, i) \in Runtimes
           /\ Running(Activated(r, i)) = Running(r) \cup {i}
           /\ DOMAIN Activated(r, i).plugins = DOMAIN r.plugins
           /\ \A j \in DOMAIN r.plugins :
                 Activated(r, i).plugins[j].manifest = r.plugins[j].manifest
<1> DEFINE q == Activated(r, i)
           D == DOMAIN r.plugins
           m == r.plugins[i].manifest
<1>1. /\ r = [plugins |-> r.plugins, bindings |-> r.bindings, listeners |-> r.listeners]
      /\ D \subseteq PluginIds /\ r.plugins \in [D -> Entries]
      /\ \A j \in D : /\ r.plugins[j] = [manifest |-> r.plugins[j].manifest,
                                         status |-> r.plugins[j].status]
                      /\ r.plugins[j].manifest \in Manifests
                      /\ r.plugins[j].manifest.id = j
  BY RuntimeFacts
<1> DEFINE f == [r.plugins EXCEPT ![i].status = "active"]
<1>2. q = [plugins |-> f, bindings |-> r.bindings \cup Offering(m),
           listeners |-> r.listeners \cup Listening(m)]
  <2>1. r = [plugins |-> r.plugins, bindings |-> r.bindings, listeners |-> r.listeners]
    BY <1>1
  <2> HIDE DEF m
  <2>2. q = [r EXCEPT !.plugins = f, !.bindings = @ \cup Offering(m),
                      !.listeners = @ \cup Listening(m)]
    BY DEF Activated, m
  <2> HIDE DEF f, q
  <2> QED  BY <2>1, <2>2
<1>3. f[i] = [manifest |-> m, status |-> "active"]
  BY <1>1
<1>4. \A j \in D : j # i => f[j] = r.plugins[j]
  OBVIOUS
<1>5. f \in [D -> Entries]
  <2>1. f[i] \in Entries
    BY <1>1, <1>3 DEF Entries
  <2>2. \A j \in D : f[j] \in Entries
    BY <1>1, <1>4, <2>1
  <2>3. f = [j \in D |-> f[j]]
    OBVIOUS
  <2> HIDE DEF f
  <2> QED  BY <2>2, <2>3
<1> HIDE DEF f
<1>6. /\ q.plugins = f /\ q.bindings = r.bindings \cup Offering(m)
      /\ q.listeners = r.listeners \cup Listening(m)
  BY <1>2
<1>7. DOMAIN f = D /\ \A j \in D : f[j].manifest = r.plugins[j].manifest
  BY <1>3, <1>4, <1>5
<1> HIDE DEF q
<1>8. Running(q) = Running(r) \cup {i}
  BY <1>3, <1>4, <1>6, <1>7 DEF Running
<1>9. ManifestsOf(q, Running(q)) = ManifestsOf(r, Running(r)) \cup {m}
  <2>1. Running(r) \subseteq D
    BY DEF Running
  <2> QED  BY <1>6, <1>7, <1>8, <2>1 DEF ManifestsOf
<1>10. q \in Runtimes
  <2> DEFINE M == ManifestsOf(r, Running(r))
  <2>0. /\ \A b : b \in r.bindings <=> \E n \in M : b \in Offering(n)
        /\ \A l : l \in r.listeners <=> \E n \in M : l \in Listening(n)
    BY RuntimeFacts
  <2>1. /\ \A b : b \in q.bindings <=> \E n \in ManifestsOf(q, Running(q)) : b \in Offering(n)
        /\ \A l : l \in q.listeners <=> \E n \in ManifestsOf(q, Running(q)) : l \in Listening(n)
    <3> HIDE DEF M, m
    <3>1. ManifestsOf(q, Running(q)) = M \cup {m}
      BY <1>9 DEF M
    <3> QED  BY <1>6, <2>0, <3>1
  <2>2. \A j \in D : f[j].manifest.id = j
    BY <1>1, <1>7
  <2>3. q = [plugins |-> f, bindings |-> q.bindings, listeners |-> q.listeners]
    BY <1>2, <1>6
  <2> HIDE DEF D
  <2>4. D \in SUBSET PluginIds
    BY <1>1
  <2> QED  BY <1>5, <2>1, <2>2, <2>3, <2>4, IsRuntime
<1> QED  BY <1>6, <1>7, <1>8, <1>10 DEF q

-----------------------------------------------------------------------------
(* What every registration, pass and reconciliation keeps. *)

\* The running plugins are the least set that holds what it gives for.
Grounded(r) ==
    \A S \in SUBSET Running(r) :
        (\A i \in Running(r) :
            GivenBy(ManifestsOf(r, S), r.plugins[i].manifest) => i \in S)
        => Running(r) \subseteq S

\* Some mounted plugin declares each service that a running one requires.
Declared(r) ==
    \A i \in Running(r) : \A s \in Needed(r.plugins[i].manifest) :
        \E j \in DOMAIN r.plugins : s \in r.plugins[j].manifest.provides

\* A plugin waits for a reason.
SettledAt(r, i) ==
    LET p == r.plugins[i]
    IN  \/ p.status = "active"
        \/ p.status = "pending" /\ ~Given(r, p.manifest)
        \/ p.status = "failed" /\ Given(r, p.manifest) /\ Clashes(r, p.manifest)
Settled(r) == \A i \in DOMAIN r.plugins : SettledAt(r, i)

\* Only activations happen, and what they stand on stays.
Grows(r, q) ==
    /\ q \in Runtimes
    /\ DOMAIN q.plugins = DOMAIN r.plugins
    /\ \A i \in DOMAIN r.plugins : q.plugins[i].manifest = r.plugins[i].manifest
    /\ Running(r) \subseteq Running(q)
    /\ Grounded(r) => Grounded(q)
    /\ Declared(r) => Declared(q)

\* Activations add up.
LEMMA GrowsTransitively ==
    ASSUME NEW r, NEW q, NEW u, Grows(r, q), Grows(q, u)
    PROVE  Grows(r, u)
BY DEF Grows

\* The same plugins have the same manifests.
LEMMA SameManifests ==
    ASSUME NEW r, NEW q, NEW S, S \subseteq DOMAIN r.plugins,
           \A i \in DOMAIN r.plugins : q.plugins[i].manifest = r.plugins[i].manifest
    PROVE  ManifestsOf(q, S) = ManifestsOf(r, S)
BY DEF ManifestsOf

(* Nothing but the statuses of waiting plugins changes. *)
LEMMA SameRunning ==
    ASSUME NEW r \in Runtimes, NEW q \in Runtimes,
           DOMAIN q.plugins = DOMAIN r.plugins, Running(q) = Running(r),
           \A i \in DOMAIN r.plugins : q.plugins[i].manifest = r.plugins[i].manifest
    PROVE  /\ Grows(r, q)
           /\ \A m : Given(q, m) <=> Given(r, m)
<1>1. \A S \in SUBSET Running(r) : ManifestsOf(q, S) = ManifestsOf(r, S)
  <2>1. Running(r) \subseteq DOMAIN r.plugins
    BY DEF Running
  <2> QED  BY <2>1, SameManifests
<1>2. \A m : Given(q, m) <=> Given(r, m)
  BY <1>1 DEF Given
<1>3. Running(r) \subseteq DOMAIN r.plugins
  BY DEF Running
<1>4. ASSUME Grounded(r)  PROVE Grounded(q)
  <2>1. ASSUME NEW S \in SUBSET Running(q),
               \A i \in Running(q) : GivenBy(ManifestsOf(q, S), q.plugins[i].manifest) => i \in S
        PROVE  Running(q) \subseteq S
    <3>1. \A i \in Running(r) : GivenBy(ManifestsOf(r, S), r.plugins[i].manifest) => i \in S
      BY <1>1, <1>3, <2>1
    <3> QED  BY <1>4, <3>1 DEF Grounded
  <2> QED  BY <2>1 DEF Grounded
<1>5. Declared(r) => Declared(q)
  BY <1>3 DEF Declared
<1> QED  BY <1>2, <1>4, <1>5 DEF Grows

(* A plugin that is given what it requires joins those that are grounded. *)
LEMMA ActivatedGrows ==
    ASSUME NEW r \in Runtimes, NEW i \in DOMAIN r.plugins, Given(r, r.plugins[i].manifest)
    PROVE  Grows(r, Activated(r, i))
<1> DEFINE q == Activated(r, i)
<1>1. /\ q \in Runtimes /\ Running(q) = Running(r) \cup {i}
      /\ DOMAIN q.plugins = DOMAIN r.plugins
      /\ \A j \in DOMAIN r.plugins : q.plugins[j].manifest = r.plugins[j].manifest
  BY ActivatedFacts
<1> HIDE DEF q
<1>2. Running(r) \subseteq DOMAIN r.plugins
  BY DEF Running
<1>3. ASSUME Grounded(r)  PROVE Grounded(q)
  <2>1. SUFFICES ASSUME NEW S \in SUBSET Running(q),
                        \A j \in Running(q) :
                           GivenBy(ManifestsOf(q, S), q.plugins[j].manifest) => j \in S
                 PROVE  Running(q) \subseteq S
    BY DEF Grounded
  <2> DEFINE T == S \cap Running(r)
  <2>2. ASSUME NEW j \in Running(r), GivenBy(ManifestsOf(r, T), r.plugins[j].manifest)
        PROVE  j \in T
    <3>1. ManifestsOf(r, T) \subseteq ManifestsOf(q, S)
      BY <1>1, <1>2 DEF ManifestsOf
    <3>2. GivenBy(ManifestsOf(q, S), q.plugins[j].manifest)
      BY <1>1, <1>2, <2>2, <3>1 DEF GivenBy
    <3> QED  BY <1>1, <2>1, <3>2
  <2>3. Running(r) \subseteq T
    <3> HIDE DEF T
    <3>1. T \in SUBSET Running(r)
      BY DEF T
    <3> QED  BY <1>3, <2>2, <3>1 DEF Grounded
  <2>4. i \in S
    <3>1. ManifestsOf(r, Running(r)) \subseteq ManifestsOf(q, S)
      BY <1>1, <1>2, <2>3 DEF ManifestsOf
    <3>2. GivenBy(ManifestsOf(q, S), q.plugins[i].manifest)
      BY <1>1, <3>1 DEF GivenBy, Given
    <3> QED  BY <1>1, <2>1, <3>2
  <2> QED  BY <1>1, <2>3, <2>4
<1>4. ASSUME Declared(r)  PROVE Declared(q)
  <2>1. \A s \in Needed(r.plugins[i].manifest) :
           \E j \in DOMAIN r.plugins : s \in r.plugins[j].manifest.provides
    BY <1>2 DEF Given, GivenBy, ManifestsOf
  <2> QED  BY <1>1, <1>2, <1>4, <2>1 DEF Declared
<1> QED  BY <1>1, <1>3, <1>4 DEF Grows, q

(* The listeners of a runtime decide what clashes. *)
LEMMA SameClashes ==
    ASSUME NEW r, NEW q, q.listeners = r.listeners, NEW m
    PROVE  Clashes(q, m) <=> Clashes(r, m)
BY DEF Clashes

\* What listens is decided by which plugins are active.
LEMMA SameListeners ==
    ASSUME NEW r \in Runtimes, NEW q \in Runtimes, Running(q) = Running(r),
           DOMAIN q.plugins = DOMAIN r.plugins,
           \A i \in DOMAIN r.plugins : q.plugins[i].manifest = r.plugins[i].manifest
    PROVE  q.listeners = r.listeners
<1>1. ManifestsOf(q, Running(q)) = ManifestsOf(r, Running(r))
  <2>1. Running(r) \subseteq DOMAIN r.plugins
    BY DEF Running
  <2> QED  BY <2>1, SameManifests
<1>2. /\ \A l : l \in r.listeners <=> \E m \in ManifestsOf(r, Running(r)) : l \in Listening(m)
      /\ \A l : l \in q.listeners <=> \E m \in ManifestsOf(q, Running(q)) : l \in Listening(m)
  BY RuntimeFacts
<1>3. \A l : l \in q.listeners <=> l \in r.listeners
  BY <1>1, <1>2
<1> QED  BY <1>3

\* A try activates a plugin or leaves it settled.
LEMMA TryGrows ==
    ASSUME NEW r \in Runtimes, NEW i \in DOMAIN r.plugins
    PROVE  /\ Grows(r, Try(r, i))
           /\ Running(Try(r, i)) = Running(r) =>
                 /\ SettledAt(Try(r, i), i)
                 /\ \A j \in DOMAIN r.plugins : SettledAt(r, j) => SettledAt(Try(r, i), j)
           /\ SettledAt(r, i) => Try(r, i) = r
<1> DEFINE q == Try(r, i)
           m == r.plugins[i].manifest
<1>1. /\ i \in Running(r) => q = r
      /\ i \notin Running(r) /\ ~Given(r, m) => q = Marked(r, i, "pending")
      /\ i \notin Running(r) /\ Given(r, m) /\ Clashes(r, m) => q = Marked(r, i, "failed")
      /\ i \notin Running(r) /\ Given(r, m) /\ ~Clashes(r, m) => q = Activated(r, i)
  BY TryOutcomes
<1>2. i \in Running(r) <=> r.plugins[i].status = "active"
  BY DEF Running
<1> HIDE DEF q
<1>3. ASSUME NEW s \in {"pending", "failed"}, i \notin Running(r), q = Marked(r, i, s)
      PROVE  /\ Grows(r, q)
             /\ q.plugins[i].status = s /\ q.plugins[i].manifest = m
             /\ Given(q, m) <=> Given(r, m)
             /\ Clashes(q, m) <=> Clashes(r, m)
             /\ \A j \in DOMAIN r.plugins \ {i} : SettledAt(r, j) => SettledAt(q, j)
  <2>1. /\ q \in Runtimes /\ Running(q) = Running(r) /\ DOMAIN q.plugins = DOMAIN r.plugins
        /\ q.bindings = r.bindings /\ q.listeners = r.listeners
        /\ q.plugins[i].status = s
        /\ \A j \in DOMAIN r.plugins : /\ q.plugins[j].manifest = r.plugins[j].manifest
                                       /\ j # i => q.plugins[j] = r.plugins[j]
    BY <1>3, MarkedFacts
  <2>2. Grows(r, q) /\ \A n : Given(q, n) <=> Given(r, n)
    BY <2>1, SameRunning
  <2>3. \A n : Clashes(q, n) <=> Clashes(r, n)
    BY <2>1, SameClashes
  <2>4. \A j \in DOMAIN r.plugins \ {i} : SettledAt(r, j) => SettledAt(q, j)
    BY <2>1, <2>2, <2>3 DEF SettledAt
  <2> QED  BY <2>1, <2>2, <2>3, <2>4
<1>4. Grows(r, r)
  BY SameRunning
<1>5. CASE i \in Running(r)
  BY <1>1, <1>2, <1>4, <1>5 DEF SettledAt, q
<1>6. CASE i \notin Running(r) /\ ~Given(r, m)
  <2>1. q = Marked(r, i, "pending") /\ "pending" \in {"pending", "failed"}
    BY <1>1, <1>6
  <2>2. /\ Grows(r, q)
        /\ q.plugins[i].status = "pending" /\ q.plugins[i].manifest = m
        /\ Given(q, m) <=> Given(r, m)
        /\ \A j \in DOMAIN r.plugins \ {i} : SettledAt(r, j) => SettledAt(q, j)
    BY <1>3, <1>6, <2>1
  <2>3. SettledAt(q, i)
    BY <1>6, <2>2 DEF SettledAt
  <2>4. ASSUME SettledAt(r, i)  PROVE q = r
    <3>1. r.plugins[i].status = "pending"
      BY <1>2, <1>6, <2>4 DEF SettledAt
    <3>2. r = [plugins |-> r.plugins, bindings |-> r.bindings, listeners |-> r.listeners]
          /\ r.plugins \in [DOMAIN r.plugins -> Entries]
          /\ r.plugins[i] = [manifest |-> m, status |-> r.plugins[i].status]
      BY RuntimeFacts
    <3> QED  BY <2>1, <3>1, <3>2 DEF Marked
  <2> QED  BY <2>2, <2>3, <2>4 DEF q
<1>7. CASE i \notin Running(r) /\ Given(r, m) /\ Clashes(r, m)
  <2>1. q = Marked(r, i, "failed") /\ "failed" \in {"pending", "failed"}
    BY <1>1, <1>7
  <2>2. /\ Grows(r, q)
        /\ q.plugins[i].status = "failed" /\ q.plugins[i].manifest = m
        /\ Given(q, m) <=> Given(r, m)
        /\ Clashes(q, m) <=> Clashes(r, m)
        /\ \A j \in DOMAIN r.plugins \ {i} : SettledAt(r, j) => SettledAt(q, j)
    BY <1>3, <1>7, <2>1
  <2>3. SettledAt(q, i)
    BY <1>7, <2>2 DEF SettledAt
  <2>4. ASSUME SettledAt(r, i)  PROVE q = r
    <3>1. r.plugins[i].status = "failed"
      BY <1>2, <1>7, <2>4 DEF SettledAt
    <3>2. r = [plugins |-> r.plugins, bindings |-> r.bindings, listeners |-> r.listeners]
          /\ r.plugins \in [DOMAIN r.plugins -> Entries]
          /\ r.plugins[i] = [manifest |-> m, status |-> r.plugins[i].status]
      BY RuntimeFacts
    <3> QED  BY <2>1, <3>1, <3>2 DEF Marked
  <2> QED  BY <2>2, <2>3, <2>4 DEF q
<1>8. CASE i \notin Running(r) /\ Given(r, m) /\ ~Clashes(r, m)
  <2>1. q = Activated(r, i)
    BY <1>1, <1>8
  <2>2. Grows(r, q) /\ Running(q) # Running(r)
    BY <1>8, <2>1, ActivatedGrows, ActivatedFacts
  <2>3. ~SettledAt(r, i)
    BY <1>2, <1>8 DEF SettledAt
  <2> QED  BY <2>2, <2>3 DEF q
<1> QED  BY <1>5, <1>6, <1>7, <1>8

(* A pass tries the plugins one after the other. *)
TryAll(r, s) == FoldLeft(Try, r, s)

\* The plugins of a pass, one after the other.
LEMMA TryFold ==
    ASSUME NEW S, NEW r \in S, NEW I, NEW s \in Seq(I),
           \A q \in S, i \in I : Try(q, i) \in S
    PROVE  \E f : /\ f[0] = r /\ f[Len(s)] = TryAll(r, s)
                  /\ \A n \in 1 .. Len(s) : f[n] = Try(f[n - 1], s[n])
<1> DEFINE N == Len(s)
           g == [n \in 1 .. N |-> [q \in S |-> Try(q, s[n])]]
           it == CHOOSE h : h = [T \in SUBSET (1 .. N) |->
                    IF T = {} THEN r ELSE Try(h[T \ {Max(T)}], s[Max(T)])]
<1>1. N \in Nat /\ DOMAIN s = 1 .. N /\ \A n \in 1 .. N : s[n] \in I
  OBVIOUS
<1>2. g \in [1 .. N -> [S -> S]]
  BY <1>1
<1>3. PICK h : IsFold(h, S, r, N, g)
  <2> HIDE DEF g, N
  <2> QED  BY <1>1, <1>2, FoldExists
<1>4. /\ h \in [SUBSET (1 .. N) -> S]
      /\ \A T \in SUBSET (1 .. N) :
            h[T] = IF T = {} THEN r ELSE g[Max(T)][h[T \ {Max(T)}]]
  BY <1>3 DEF IsFold
<1>5. h = [T \in SUBSET (1 .. N) |->
              IF T = {} THEN r ELSE Try(h[T \ {Max(T)}], s[Max(T)])]
  <2>1. ASSUME NEW T \in SUBSET (1 .. N), T # {}
        PROVE  h[T] = Try(h[T \ {Max(T)}], s[Max(T)])
    <3>1. Max(T) \in 1 .. N
      BY <2>1, <1>1, LastPlace
    <3>2. T \ {Max(T)} \in SUBSET (1 .. N)
      OBVIOUS
    <3> QED  BY <1>4, <2>1, <3>1, <3>2
  <2> QED  BY <1>4, <2>1
<1>6. it = [T \in SUBSET (1 .. N) |->
              IF T = {} THEN r ELSE Try(it[T \ {Max(T)}], s[Max(T)])]
  BY <1>5
<1>7. TryAll(r, s) = it[1 .. N]
  BY <1>1 DEF TryAll, FoldLeft, MapThenFoldSet
<1> HIDE DEF it, N
<1>8. it[{}] = r
  BY <1>6
<1>9. ASSUME NEW n \in 1 .. N  PROVE it[1 .. n] = Try(it[1 .. (n - 1)], s[n])
  <2>1. 1 .. n \in SUBSET (1 .. N) /\ n \in Nat /\ n > 0
    BY <1>1
  <2>2. it[1 .. n] = Try(it[(1 .. n) \ {Max(1 .. n)}], s[Max(1 .. n)])
    <3>1. 1 \in 1 .. n
      BY <2>1
    <3> QED  BY <1>6, <2>1, <3>1
  <2> QED  BY <2>1, <2>2, MaxOfUpTo
<1> DEFINE f == [n \in 0 .. N |-> it[1 .. n]]
<1>10. f[0] = r /\ f[N] = it[1 .. N] /\ \A n \in 1 .. N : f[n] = Try(f[n - 1], s[n])
  <2>1. 1 .. 0 = {}
    OBVIOUS
  <2> QED  BY <1>1, <1>8, <1>9, <2>1
<1> QED  BY <1>7, <1>10 DEF N

\* A pass comes to every plugin once.
LEMMA OrderEnumerates ==
    ASSUME NEW r \in Runtimes
    PROVE  Enumerates(Order(r), DOMAIN r.plugins)
<1> DEFINE S == DOMAIN r.plugins
           before(y, x) == Higher(r.plugins[y].manifest, r.plugins[x].manifest)
           P == [x \in S |-> {y \in S : before(y, x)}]
           s == Order(r)
<1>1. IsFiniteSet(S) /\ \A x \in S : /\ r.plugins[x].manifest.id = x /\ x \in Nat
                                     /\ r.plugins[x].manifest.priority \in Int
  <2>1. \A m \in Manifests : m.priority \in Int
    BY ManifestsAssumption DEF Manifests
  <2> QED  BY <2>1, RuntimeFacts
<1>2. /\ \A x \in S : ~before(x, x)
      /\ \A x, y \in S : x # y => before(x, y) \/ before(y, x)
      /\ \A x, y, z \in S : before(x, y) /\ before(y, z) => before(x, z)
  BY <1>1 DEF Higher
<1>3. s = [n \in 1 .. Cardinality(S) |->
              CHOOSE x \in S : Cardinality({y \in S : before(y, x)}) = n - 1]
  BY DEF Order, InOrder
<1> HIDE DEF before, S, s
<1>4. P \in [S -> SUBSET S] /\ \A x \in S : x \notin P[x]
  BY <1>2
<1>5. \A x, y \in S : x # y => \/ P[x] \subseteq P[y] /\ x \in P[y]
                               \/ P[y] \subseteq P[x] /\ y \in P[x]
  <2>1. SUFFICES ASSUME NEW x \in S, NEW y \in S, x # y
                 PROVE  \/ P[x] \subseteq P[y] /\ x \in P[y]
                        \/ P[y] \subseteq P[x] /\ y \in P[x]
    OBVIOUS
  <2>2. P[x] = {z \in S : before(z, x)} /\ P[y] = {z \in S : before(z, y)}
    OBVIOUS
  <2> HIDE DEF P
  <2>3. CASE before(x, y)
    <3>1. \A z \in S : before(z, x) => before(z, y)
      BY <1>2, <2>3
    <3> QED  BY <2>2, <2>3, <3>1
  <2>4. CASE before(y, x)
    <3>1. \A z \in S : before(z, y) => before(z, x)
      BY <1>2, <2>4
    <3> QED  BY <2>2, <2>4, <3>1
  <2> QED  BY <1>2, <2>1, <2>3, <2>4
<1>6. /\ Cardinality(S) \in Nat
      /\ \A x, y \in S : Cardinality(P[x]) = Cardinality(P[y]) => x = y
      /\ \A x \in S : Cardinality(P[x]) \in 0 .. (Cardinality(S) - 1)
      /\ \A n \in 1 .. Cardinality(S) : \E x \in S : Cardinality(P[x]) = n - 1
  <2> HIDE DEF P
  <2> QED  BY <1>1, <1>4, <1>5, RanksDiffer
<1>7. ASSUME NEW n \in 1 .. Cardinality(S)
      PROVE  s[n] \in S /\ Cardinality(P[s[n]]) = n - 1
  <2>1. \E x \in S : Cardinality({y \in S : before(y, x)}) = n - 1
    BY <1>6
  <2>2. s[n] \in S /\ Cardinality({y \in S : before(y, s[n])}) = n - 1
    <3> HIDE DEF P
    <3> QED  BY <1>3, <2>1
  <2> QED  BY <2>2
<1>8. DOMAIN s = 1 .. Cardinality(S) /\ s = [n \in 1 .. Cardinality(S) |-> s[n]]
  <2> DEFINE e(n) == CHOOSE x \in S : Cardinality({y \in S : before(y, x)}) = n - 1
  <2>1. s = [n \in 1 .. Cardinality(S) |-> e(n)]
    BY <1>3
  <2> HIDE DEF P, e
  <2> QED  BY <2>1
<1> HIDE DEF P
<1>9. Enumerates(s, S)
  BY <1>4, <1>6, <1>7, <1>8, EnumeratedByRank
<1> QED  BY <1>9 DEF s, S

\* An enumeration is a sequence.
LEMMA EnumerationIsSequence ==
    ASSUME NEW S, NEW s, Enumerates(s, S)
    PROVE  s \in Seq(S) /\ Len(s) = Cardinality(S) /\ Len(s) \in Nat
<1>1. Cardinality(S) \in Nat /\ s \in [1 .. Cardinality(S) -> S]
  BY DEF Enumerates
<1> QED  BY <1>1

\* A pass activates a plugin or leaves all settled.
LEMMA PassGrows ==
    ASSUME NEW r \in Runtimes
    PROVE  /\ Grows(r, Pass(r))
           /\ Running(Pass(r)) = Running(r) => Settled(Pass(r))
           /\ Settled(r) => Pass(r) = r
<1> DEFINE D == DOMAIN r.plugins
           s == Order(r)
           N == Len(s)
           S == {q \in Runtimes : DOMAIN q.plugins = D}
<1>1. Enumerates(s, D) /\ s \in Seq(D) /\ N \in Nat /\ N = Cardinality(D)
  BY OrderEnumerates, EnumerationIsSequence
<1>2. \A n \in 1 .. N : s[n] \in D
  BY <1>1
<1>3. \A i \in D : \E n \in 1 .. N : s[n] = i
  BY <1>1 DEF Enumerates
<1>4. \A q \in S, i \in D : Try(q, i) \in S /\ Grows(q, Try(q, i))
  <2>1. SUFFICES ASSUME NEW q \in S, NEW i \in D
                 PROVE  Try(q, i) \in S /\ Grows(q, Try(q, i))
    OBVIOUS
  <2>2. Grows(q, Try(q, i))
    BY TryGrows
  <2> QED  BY <2>2 DEF Grows
<1>5. r \in S
  OBVIOUS
<1>6. PICK f : /\ f[0] = r /\ f[N] = TryAll(r, s)
               /\ \A n \in 1 .. N : f[n] = Try(f[n - 1], s[n])
  <2> HIDE DEF S, D, s, N
  <2>1. \A q \in S, i \in D : Try(q, i) \in S
    BY <1>4
  <2>2. s \in Seq(D) /\ r \in S
    BY <1>1, <1>5
  <2>3. \E f : /\ f[0] = r /\ f[Len(s)] = TryAll(r, s)
               /\ \A n \in 1 .. Len(s) : f[n] = Try(f[n - 1], s[n])
    BY <2>1, <2>2, TryFold
  <2> QED  BY <2>3 DEF N
<1>7. f[N] = Pass(r)
  BY <1>6 DEF Pass, TryAll
<1> HIDE DEF N, s
<1> DEFINE G == {n \in 0 .. N : f[n] \in S /\ Grows(r, f[n])}
<1>8. \A n \in 0 .. N : f[n] \in S /\ Grows(r, f[n])
  <2>1. 0 \in G
    <3>1. Grows(r, r)
      BY SameRunning
    <3> QED  BY <1>1, <1>5, <1>6, <3>1
  <2>2. ASSUME NEW n \in 1 .. N, n - 1 \in G  PROVE n \in G
    <3>1. f[n - 1] \in S /\ Grows(r, f[n - 1])
      BY <2>2
    <3>2. f[n] \in S /\ Grows(f[n - 1], f[n])
      BY <1>2, <1>4, <1>6, <3>1
    <3> QED  BY <3>1, <3>2, GrowsTransitively
  <2> HIDE DEF G
  <2>3. \A n \in 0 .. N : n \in G
    BY <1>1, <2>1, <2>2, UpTo
  <2> QED  BY <2>3 DEF G
<1>9. Grows(r, Pass(r))
  BY <1>1, <1>7, <1>8
<1>10. ASSUME Running(Pass(r)) = Running(r)  PROVE Settled(Pass(r))
  \* The running plugins only grow, so that they are the same all along.
  <2> DEFINE H == {n \in 0 .. N : Running(f[N - n]) = Running(r)}
  <2>1. \A n \in 0 .. N : n \in H
    <3>1. 0 \in H
      BY <1>1, <1>7, <1>10
    <3>2. ASSUME NEW n \in 1 .. N, n - 1 \in H  PROVE n \in H
      <4>1. N - n \in 0 .. N /\ N - (n - 1) \in 1 .. N /\ (N - (n - 1)) - 1 = N - n
        BY <1>1
      <4>2. Running(f[N - (n - 1)]) = Running(r)
        BY <3>2
      <4>3. f[N - n] \in S /\ Grows(r, f[N - n])
        BY <1>8, <4>1
      <4>4. Grows(f[N - n], f[N - (n - 1)])
        BY <1>2, <1>4, <1>6, <4>1, <4>3
      <4>5. Running(f[N - n]) = Running(r)
        BY <4>2, <4>3, <4>4 DEF Grows
      <4> QED  BY <4>5
    <3> HIDE DEF H
    <3> QED  BY <1>1, <3>1, <3>2, UpTo
  <2>2. \A n \in 0 .. N : Running(f[n]) = Running(r)
    <3>1. SUFFICES ASSUME NEW n \in 0 .. N  PROVE Running(f[n]) = Running(r)
      OBVIOUS
    <3>2. N - n \in 0 .. N /\ N - (N - n) = n
      BY <1>1
    <3> QED  BY <2>1, <3>2
  <2> DEFINE T == {n \in 0 .. N : \A k \in 1 .. n : SettledAt(f[n], s[k])}
  <2>3. \A n \in 0 .. N : n \in T
    <3>1. 0 \in T
      BY <1>1
    <3>2. ASSUME NEW n \in 1 .. N, n - 1 \in T  PROVE n \in T
      <4>1. n - 1 \in 0 .. N /\ n \in 0 .. N /\ \A k \in 1 .. n : k = n \/ k \in 1 .. (n - 1)
        BY <1>1
      <4>2. /\ f[n - 1] \in S /\ Running(f[n]) = Running(f[n - 1])
            /\ f[n] = Try(f[n - 1], s[n]) /\ s[n] \in DOMAIN f[n - 1].plugins
        BY <1>2, <1>6, <1>8, <2>2, <4>1
      <4>3. /\ SettledAt(f[n], s[n])
            /\ \A j \in DOMAIN f[n - 1].plugins : SettledAt(f[n - 1], j) => SettledAt(f[n], j)
        BY <4>2, TryGrows
      <4>4. ASSUME NEW k \in 1 .. (n - 1)  PROVE SettledAt(f[n], s[k])
        <5>1. SettledAt(f[n - 1], s[k]) /\ k \in 1 .. N
          BY <1>1, <3>2
        <5>2. s[k] \in DOMAIN f[n - 1].plugins
          BY <1>2, <4>2, <5>1
        <5> QED  BY <4>3, <5>1, <5>2
      <4> QED  BY <4>1, <4>3, <4>4
    <3> HIDE DEF T
    <3> QED  BY <1>1, <3>1, <3>2, UpTo
  <2>4. \A k \in 1 .. N : SettledAt(f[N], s[k])
    BY <1>1, <2>3
  <2>5. DOMAIN f[N].plugins = D
    BY <1>1, <1>8
  <2> QED  BY <1>3, <1>7, <2>4, <2>5 DEF Settled
<1>11. ASSUME Settled(r)  PROVE Pass(r) = r
  <2> DEFINE T == {n \in 0 .. N : f[n] = r}
  <2>1. 0 \in T
    BY <1>1, <1>6
  <2>2. ASSUME NEW n \in 1 .. N, n - 1 \in T  PROVE n \in T
    <3>1. f[n] = Try(r, s[n]) /\ s[n] \in D
      BY <1>2, <1>6, <2>2
    <3>2. Try(r, s[n]) = r
      BY <1>11, <3>1, TryGrows DEF Settled
    <3> QED  BY <3>1, <3>2
  <2> HIDE DEF T
  <2>3. \A n \in 0 .. N : n \in T
    BY <1>1, <2>1, <2>2, UpTo
  <2> QED  BY <1>1, <1>7, <2>3 DEF T
<1> QED  BY <1>9, <1>10, <1>11

(* A reconciliation is one pass after the other. *)
PassTimes(r, k) == FoldLeft(LAMBDA q, n : Pass(q), r, [n \in 1 .. k |-> n])

\* The passes of a reconciliation, one after the other.
LEMMA PassFold ==
    ASSUME NEW S, NEW r \in S, NEW k \in Nat,
           \A q \in S : Pass(q) \in S
    PROVE  \E f : /\ f[0] = r /\ f[k] = PassTimes(r, k)
                  /\ \A n \in 1 .. k : f[n] = Pass(f[n - 1])
<1> DEFINE N == k
           g == [n \in 1 .. N |-> [q \in S |-> Pass(q)]]
           it == CHOOSE h : h = [T \in SUBSET (1 .. N) |->
                    IF T = {} THEN r ELSE Pass(h[T \ {Max(T)}])]
<1>1. N \in Nat
  OBVIOUS
<1>2. g \in [1 .. N -> [S -> S]]
  BY <1>1
<1>3. PICK h : IsFold(h, S, r, N, g)
  <2> HIDE DEF g, N
  <2> QED  BY <1>1, <1>2, FoldExists
<1>4. /\ h \in [SUBSET (1 .. N) -> S]
      /\ \A T \in SUBSET (1 .. N) :
            h[T] = IF T = {} THEN r ELSE g[Max(T)][h[T \ {Max(T)}]]
  BY <1>3 DEF IsFold
<1>5. h = [T \in SUBSET (1 .. N) |->
              IF T = {} THEN r ELSE Pass(h[T \ {Max(T)}])]
  <2>1. ASSUME NEW T \in SUBSET (1 .. N), T # {}
        PROVE  h[T] = Pass(h[T \ {Max(T)}])
    <3>1. Max(T) \in 1 .. N
      BY <2>1, <1>1, LastPlace
    <3>2. T \ {Max(T)} \in SUBSET (1 .. N)
      OBVIOUS
    <3> QED  BY <1>4, <2>1, <3>1, <3>2
  <2> QED  BY <1>4, <2>1
<1>6. it = [T \in SUBSET (1 .. N) |->
              IF T = {} THEN r ELSE Pass(it[T \ {Max(T)}])]
  BY <1>5
<1>7. PassTimes(r, k) = it[1 .. N]
  BY <1>1 DEF PassTimes, FoldLeft, MapThenFoldSet
<1> HIDE DEF it, N
<1>8. it[{}] = r
  BY <1>6
<1>9. ASSUME NEW n \in 1 .. N  PROVE it[1 .. n] = Pass(it[1 .. (n - 1)])
  <2>1. 1 .. n \in SUBSET (1 .. N) /\ n \in Nat /\ n > 0
    BY <1>1
  <2>2. it[1 .. n] = Pass(it[(1 .. n) \ {Max(1 .. n)}])
    <3>1. 1 \in 1 .. n
      BY <2>1
    <3> QED  BY <1>6, <2>1, <3>1
  <2> QED  BY <2>1, <2>2, MaxOfUpTo
<1> DEFINE f == [n \in 0 .. N |-> it[1 .. n]]
<1>10. f[0] = r /\ f[N] = it[1 .. N] /\ \A n \in 1 .. N : f[n] = Pass(f[n - 1])
  <2>1. 1 .. 0 = {}
    OBVIOUS
  <2> QED  BY <1>1, <1>8, <1>9, <2>1
<1> QED  BY <1>7, <1>10 DEF N

\* A reconciliation leaves all settled: each pass before the last has activated
\* a plugin, and there are more passes than plugins.
LEMMA ReconciledSettles ==
    ASSUME NEW r \in Runtimes
    PROVE  Grows(r, Reconciled(r)) /\ Settled(Reconciled(r))
<1> DEFINE D == DOMAIN r.plugins
           N == Cardinality(D) + 1
           C(q) == Cardinality(Running(q))
<1>1. IsFiniteSet(D) /\ Cardinality(D) \in Nat /\ N \in Nat
  BY RuntimeFacts, FS_CardinalityType
<1>2. ASSUME NEW q \in Runtimes, DOMAIN q.plugins = D
      PROVE  IsFiniteSet(Running(q)) /\ C(q) \in Nat /\ C(q) < N
  <2>1. Running(q) \in SUBSET D
    BY <1>2 DEF Running
  <2>2. IsFiniteSet(Running(q)) /\ C(q) <= Cardinality(D)
    BY <1>1, <2>1, FS_Subset
  <2>3. C(q) \in Nat
    BY <2>2, FS_CardinalityType
  <2> HIDE DEF C, D
  <2> QED  BY <1>1, <2>2, <2>3
<1>3. \A q \in Runtimes : Pass(q) \in Runtimes
  BY PassGrows DEF Grows
<1>4. PICK f : /\ f[0] = r /\ f[N] = PassTimes(r, N)
               /\ \A n \in 1 .. N : f[n] = Pass(f[n - 1])
  <2> HIDE DEF N
  <2> QED  BY <1>1, <1>3, PassFold
<1>5. f[N] = Reconciled(r)
  BY <1>4 DEF Reconciled, PassTimes
<1> HIDE DEF N, D, C
<1> DEFINE G == {n \in 0 .. N : Grows(r, f[n]) /\ (Settled(f[n]) \/ C(f[n]) >= n)}
<1>6. \A n \in 0 .. N : n \in G
  <2>1. 0 \in G
    <3>1. Grows(r, r)
      BY SameRunning
    <3>2. C(r) >= 0
      BY <1>2 DEF D
    <3> QED  BY <1>1, <1>4, <3>1, <3>2
  <2>2. ASSUME NEW n \in 1 .. N, n - 1 \in G  PROVE n \in G
    <3> DEFINE p == f[n - 1]
               q == f[n]
    <3>1. q = Pass(p) /\ Grows(r, p) /\ (Settled(p) \/ C(p) >= n - 1)
      BY <1>4, <2>2
    <3>2. p \in Runtimes /\ DOMAIN p.plugins = D
      BY <3>1 DEF Grows, D
    <3>3. /\ Grows(p, q) /\ Running(q) = Running(p) => Settled(q)
          /\ Settled(p) => q = p
      BY <3>1, <3>2, PassGrows
    <3>3a. Grows(p, q)
      BY <3>1, <3>2, PassGrows
    <3> HIDE DEF p, q
    <3>4. Grows(r, q)
      BY <3>1, <3>3a, GrowsTransitively
    <3>5. q \in Runtimes /\ DOMAIN q.plugins = D /\ Running(p) \subseteq Running(q)
      BY <3>2, <3>3a DEF Grows
    <3>6. ASSUME ~Settled(q)  PROVE C(q) >= n
      <4>1. ~Settled(p) /\ Running(q) # Running(p)
        BY <3>3, <3>3a, <3>6
      <4>2. C(p) >= n - 1 /\ C(p) \in Nat /\ C(q) \in Nat /\ IsFiniteSet(Running(q))
        BY <1>2, <3>1, <3>2, <3>5, <4>1
      <4>3. C(p) <= C(q) /\ C(p) # C(q)
        <5>1. Running(p) \in SUBSET Running(q)
          BY <3>5
        <5> QED  BY <4>1, <4>2, <5>1, FS_Subset DEF C
      <4> QED  BY <4>2, <4>3
    <3> QED  BY <3>4, <3>6 DEF q
  <2> HIDE DEF G
  <2> QED  BY <1>1, <2>1, <2>2, UpTo
<1>7. Grows(r, f[N]) /\ (Settled(f[N]) \/ C(f[N]) >= N)
  BY <1>1, <1>6
<1>8. f[N] \in Runtimes /\ DOMAIN f[N].plugins = D
  BY <1>7 DEF Grows, D
<1>9. C(f[N]) \in Nat /\ C(f[N]) < N
  BY <1>2, <1>8
<1> QED  BY <1>1, <1>5, <1>7, <1>9

(* The built-in plugins are mounted one after the other. *)
MountAll(r, s) == FoldLeft(Mount, r, s)

\* The mounts, one after the other.
LEMMA MountFold ==
    ASSUME NEW S, NEW r \in S, NEW I, NEW s \in Seq(I),
           \A q \in S, m \in I : Mount(q, m) \in S
    PROVE  \E f : /\ f[0] = r /\ f[Len(s)] = MountAll(r, s)
                  /\ \A n \in 1 .. Len(s) : f[n] = Mount(f[n - 1], s[n])
<1> DEFINE N == Len(s)
           g == [n \in 1 .. N |-> [q \in S |-> Mount(q, s[n])]]
           it == CHOOSE h : h = [T \in SUBSET (1 .. N) |->
                    IF T = {} THEN r ELSE Mount(h[T \ {Max(T)}], s[Max(T)])]
<1>1. N \in Nat /\ DOMAIN s = 1 .. N /\ \A n \in 1 .. N : s[n] \in I
  OBVIOUS
<1>2. g \in [1 .. N -> [S -> S]]
  BY <1>1
<1>3. PICK h : IsFold(h, S, r, N, g)
  <2> HIDE DEF g, N
  <2> QED  BY <1>1, <1>2, FoldExists
<1>4. /\ h \in [SUBSET (1 .. N) -> S]
      /\ \A T \in SUBSET (1 .. N) :
            h[T] = IF T = {} THEN r ELSE g[Max(T)][h[T \ {Max(T)}]]
  BY <1>3 DEF IsFold
<1>5. h = [T \in SUBSET (1 .. N) |->
              IF T = {} THEN r ELSE Mount(h[T \ {Max(T)}], s[Max(T)])]
  <2>1. ASSUME NEW T \in SUBSET (1 .. N), T # {}
        PROVE  h[T] = Mount(h[T \ {Max(T)}], s[Max(T)])
    <3>1. Max(T) \in 1 .. N
      BY <2>1, <1>1, LastPlace
    <3>2. T \ {Max(T)} \in SUBSET (1 .. N)
      OBVIOUS
    <3> QED  BY <1>4, <2>1, <3>1, <3>2
  <2> QED  BY <1>4, <2>1
<1>6. it = [T \in SUBSET (1 .. N) |->
              IF T = {} THEN r ELSE Mount(it[T \ {Max(T)}], s[Max(T)])]
  BY <1>5
<1>7. MountAll(r, s) = it[1 .. N]
  BY <1>1 DEF MountAll, FoldLeft, MapThenFoldSet
<1> HIDE DEF it, N
<1>8. it[{}] = r
  BY <1>6
<1>9. ASSUME NEW n \in 1 .. N  PROVE it[1 .. n] = Mount(it[1 .. (n - 1)], s[n])
  <2>1. 1 .. n \in SUBSET (1 .. N) /\ n \in Nat /\ n > 0
    BY <1>1
  <2>2. it[1 .. n] = Mount(it[(1 .. n) \ {Max(1 .. n)}], s[Max(1 .. n)])
    <3>1. 1 \in 1 .. n
      BY <2>1
    <3> QED  BY <1>6, <2>1, <3>1
  <2> QED  BY <2>1, <2>2, MaxOfUpTo
<1> DEFINE f == [n \in 0 .. N |-> it[1 .. n]]
<1>10. f[0] = r /\ f[N] = it[1 .. N] /\ \A n \in 1 .. N : f[n] = Mount(f[n - 1], s[n])
  <2>1. 1 .. 0 = {}
    OBVIOUS
  <2> QED  BY <1>1, <1>8, <1>9, <2>1
<1> QED  BY <1>7, <1>10 DEF N

-----------------------------------------------------------------------------
(* A plugin that is mounted waits first. *)
LEMMA WithFacts ==
    ASSUME NEW r \in Runtimes, NEW m \in Manifests, m.id \notin DOMAIN r.plugins
    PROVE  /\ With(r, m) \in Runtimes
           /\ DOMAIN With(r, m).plugins = DOMAIN r.plugins \cup {m.id}
           /\ Grounded(r) => Grounded(With(r, m))
           /\ Declared(r) => Declared(With(r, m))
<1> DEFINE q == With(r, m)
           D == DOMAIN r.plugins
           e == [manifest |-> m, status |-> "pending"]
           f == [id \in D \cup {m.id} |-> IF id = m.id THEN e ELSE r.plugins[id]]
<1>1. /\ r = [plugins |-> r.plugins, bindings |-> r.bindings, listeners |-> r.listeners]
      /\ D \subseteq PluginIds /\ r.plugins \in [D -> Entries]
      /\ \A j \in D : r.plugins[j].manifest.id = j
      /\ \A b : b \in r.bindings <=> \E n \in ManifestsOf(r, Running(r)) : b \in Offering(n)
      /\ \A l : l \in r.listeners <=> \E n \in ManifestsOf(r, Running(r)) : l \in Listening(n)
  BY RuntimeFacts
<1>2. q = [plugins |-> f, bindings |-> r.bindings, listeners |-> r.listeners]
  <2>1. r = [plugins |-> r.plugins, bindings |-> r.bindings, listeners |-> r.listeners]
    BY <1>1
  <2>2. q = [r EXCEPT !.plugins = f]
    BY DEF With
  <2> HIDE DEF f, q
  <2> QED  BY <2>1, <2>2
<1>3. /\ f[m.id] = e /\ \A j \in D : f[j] = r.plugins[j]
      /\ DOMAIN f = D \cup {m.id}
  OBVIOUS
<1>4. f \in [D \cup {m.id} -> Entries]
  <2>1. e \in Entries
    BY DEF Entries
  <2>2. \A j \in D \cup {m.id} : f[j] \in Entries
    BY <1>1, <1>3, <2>1
  <2>3. f = [j \in D \cup {m.id} |-> f[j]]
    OBVIOUS
  <2> HIDE DEF f
  <2> QED  BY <2>2, <2>3
<1>5. e.status # "active" /\ e.manifest = m
  OBVIOUS
<1> HIDE DEF f, e
<1>6. q.plugins = f /\ q.bindings = r.bindings /\ q.listeners = r.listeners
  BY <1>2
<1> HIDE DEF q
<1>7. Running(q) = Running(r) /\ Running(r) \subseteq D
  BY <1>3, <1>5, <1>6 DEF Running
<1>8. \A S \in SUBSET D : ManifestsOf(q, S) = ManifestsOf(r, S)
  BY <1>3, <1>6 DEF ManifestsOf
<1>9. q \in Runtimes
  <2>1. /\ \A b : b \in q.bindings <=> \E n \in ManifestsOf(q, Running(q)) : b \in Offering(n)
        /\ \A l : l \in q.listeners <=> \E n \in ManifestsOf(q, Running(q)) : l \in Listening(n)
    <3>1. ManifestsOf(q, Running(q)) = ManifestsOf(r, Running(r))
      BY <1>7, <1>8
    <3> QED  BY <1>1, <1>6, <3>1
  <2>2. \A j \in D \cup {m.id} : f[j].manifest.id = j
    BY <1>1, <1>3, <1>5
  <2>3. q = [plugins |-> f, bindings |-> q.bindings, listeners |-> q.listeners]
    BY <1>2, <1>6
  <2>4. D \cup {m.id} \in SUBSET PluginIds
    BY <1>1 DEF PluginIds
  <2> HIDE DEF D
  <2> QED  BY <1>4, <2>1, <2>2, <2>3, <2>4, IsRuntime
<1>10. ASSUME Grounded(r)  PROVE Grounded(q)
  <2>1. ASSUME NEW S \in SUBSET Running(q),
               \A i \in Running(q) : GivenBy(ManifestsOf(q, S), q.plugins[i].manifest) => i \in S
        PROVE  Running(q) \subseteq S
    <3>1. \A i \in Running(r) : GivenBy(ManifestsOf(r, S), r.plugins[i].manifest) => i \in S
      BY <1>3, <1>6, <1>7, <1>8, <2>1
    <3> QED  BY <1>7, <1>10, <3>1 DEF Grounded
  <2> QED  BY <2>1 DEF Grounded
<1>11. ASSUME Declared(r)  PROVE Declared(q)
  <2>1. SUFFICES ASSUME NEW i \in Running(r), NEW s \in Needed(r.plugins[i].manifest)
                 PROVE  \E j \in DOMAIN q.plugins : s \in q.plugins[j].manifest.provides
    BY <1>3, <1>6, <1>7 DEF Declared
  <2>2. PICK j \in D : s \in r.plugins[j].manifest.provides
    BY <1>11 DEF Declared
  <2> QED  BY <1>3, <1>6, <2>2
<1> QED  BY <1>3, <1>6, <1>9, <1>10, <1>11 DEF q

\* A mount keeps what activations keep, and leaves all settled.
LEMMA MountFacts ==
    ASSUME NEW r \in Runtimes, NEW m \in Manifests
    PROVE  /\ Mount(r, m) \in Runtimes
           /\ DOMAIN Mount(r, m).plugins = DOMAIN r.plugins \cup {m.id}
           /\ Grounded(r) => Grounded(Mount(r, m))
           /\ Declared(r) => Declared(Mount(r, m))
           /\ Settled(r) => Settled(Mount(r, m))
<1>1. CASE m.id \in DOMAIN r.plugins
  BY <1>1 DEF Mount
<1>2. CASE m.id \notin DOMAIN r.plugins
  <2> DEFINE q == With(r, m)
  <2>1. /\ q \in Runtimes /\ DOMAIN q.plugins = DOMAIN r.plugins \cup {m.id}
        /\ Grounded(r) => Grounded(q)
        /\ Declared(r) => Declared(q)
    BY <1>2, WithFacts
  <2>2. Mount(r, m) = Reconciled(q)
    BY <1>2 DEF Mount
  <2> HIDE DEF q
  <2>3. Grows(q, Reconciled(q)) /\ Settled(Reconciled(q))
    BY <2>1, ReconciledSettles
  <2> QED  BY <2>1, <2>2, <2>3 DEF Grows
<1> QED  BY <1>1, <1>2

(* The plugin that leaves and its dependents stop offering and listening. *)
LEMMA WithoutFacts ==
    ASSUME NEW r \in Runtimes, NEW id
    PROVE  LET q == Without(r, id, Dependents(r, id))
           IN  /\ q \in Runtimes
               /\ DOMAIN q.plugins = DOMAIN r.plugins \ {id}
               /\ Declared(r) => Declared(q)
<1> DEFINE A == Dependents(r, id)
           q == Without(r, id, A)
           D == DOMAIN r.plugins \ {id}
           f == [i \in D |-> IF i \in A THEN [r.plugins[i] EXCEPT !.status = "pending"]
                             ELSE r.plugins[i]]
           B == {b \in r.bindings : b.plugin \notin A \cup {id}}
           L == {l \in r.listeners : l.plugin \notin A \cup {id}}
<1>1. /\ r = [plugins |-> r.plugins, bindings |-> r.bindings, listeners |-> r.listeners]
      /\ D \subseteq PluginIds
      /\ \A j \in DOMAIN r.plugins :
            /\ r.plugins[j] = [manifest |-> r.plugins[j].manifest, status |-> r.plugins[j].status]
            /\ r.plugins[j].manifest \in Manifests
            /\ r.plugins[j].manifest.id = j
            /\ r.plugins[j].status \in {"pending", "active", "failed"}
      /\ \A b : b \in r.bindings <=> \E n \in ManifestsOf(r, Running(r)) : b \in Offering(n)
      /\ \A l : l \in r.listeners <=> \E n \in ManifestsOf(r, Running(r)) : l \in Listening(n)
  BY RuntimeFacts
<1>2. q = [plugins |-> f, bindings |-> B, listeners |-> L]
  <2>1. r = [plugins |-> r.plugins, bindings |-> r.bindings, listeners |-> r.listeners]
    BY <1>1
  <2>2. Dispose(r, A \cup {id}) = [plugins |-> r.plugins, bindings |-> B, listeners |-> L]
    <3>1. Dispose(r, A \cup {id}) = [r EXCEPT !.bindings = B, !.listeners = L]
      BY DEF Dispose
    <3> HIDE DEF A, B, L
    <3> QED  BY <2>1, <3>1
  <2>3. q = [Dispose(r, A \cup {id}) EXCEPT !.plugins = f]
    <3>1. Dispose(r, A \cup {id}).plugins = r.plugins
      BY <2>2
    <3> HIDE DEF A
    <3> QED  BY <3>1 DEF Without
  <2> HIDE DEF A, B, L, f, q
  <2> QED  BY <2>2, <2>3
<1> HIDE DEF A
<1>3. \A j \in D : /\ j \in A => f[j] = [manifest |-> r.plugins[j].manifest, status |-> "pending"]
                   /\ j \notin A => f[j] = r.plugins[j]
                   /\ f[j].manifest = r.plugins[j].manifest
  <2>1. SUFFICES ASSUME NEW j \in D
                 PROVE  /\ j \in A => f[j] = [manifest |-> r.plugins[j].manifest,
                                              status |-> "pending"]
                        /\ j \notin A => f[j] = r.plugins[j]
                        /\ f[j].manifest = r.plugins[j].manifest
    OBVIOUS
  <2>2. r.plugins[j] = [manifest |-> r.plugins[j].manifest, status |-> r.plugins[j].status]
    BY <1>1
  <2>3. j \in A => f[j] = [manifest |-> r.plugins[j].manifest, status |-> "pending"]
    BY <2>2
  <2>4. j \notin A => f[j] = r.plugins[j]
    OBVIOUS
  <2> HIDE DEF f
  <2> QED  BY <2>3, <2>4
<1>4. f \in [D -> Entries]
  <2>1. \A j \in D : f[j] \in Entries
    <3>1. SUFFICES ASSUME NEW j \in D  PROVE f[j] \in Entries
      OBVIOUS
    <3>2. j \in DOMAIN r.plugins
      OBVIOUS
    <3>3. /\ r.plugins[j] = [manifest |-> r.plugins[j].manifest, status |-> r.plugins[j].status]
          /\ r.plugins[j].manifest \in Manifests
          /\ r.plugins[j].status \in {"pending", "active", "failed"}
      BY <1>1, <3>2
    <3>4. /\ j \in A => f[j] = [manifest |-> r.plugins[j].manifest, status |-> "pending"]
          /\ j \notin A => f[j] = r.plugins[j]
      BY <1>3
    <3> HIDE DEF f
    <3>5. CASE j \in A
      BY <3>3, <3>4, <3>5 DEF Entries
    <3>6. CASE j \notin A
      <4>1. r.plugins[j] \in Entries
        BY <3>3 DEF Entries
      <4> QED  BY <3>4, <3>6, <4>1
    <3> QED  BY <3>5, <3>6
  <2>2. f = [j \in D |-> f[j]]
    OBVIOUS
  <2> HIDE DEF f
  <2> QED  BY <2>1, <2>2
<1>5. DOMAIN f = D
  OBVIOUS
<1> HIDE DEF f
<1>6. q.plugins = f /\ q.bindings = B /\ q.listeners = L
  BY <1>2
<1> HIDE DEF q
<1>7. Running(q) = Running(r) \ (A \cup {id})
  <2>1. ASSUME NEW j  PROVE j \in Running(q) <=> j \in Running(r) \ (A \cup {id})
    <3>1. CASE j \in D /\ j \in A
      <4>1. f[j].status = "pending"
        <5>1. f[j] = [manifest |-> r.plugins[j].manifest, status |-> "pending"]
          BY <1>3, <3>1
        <5> QED  BY <5>1
      <4> QED  BY <1>5, <1>6, <3>1, <4>1 DEF Running
    <3>2. CASE j \in D /\ j \notin A
      <4>1. f[j] = r.plugins[j] /\ j \in DOMAIN r.plugins /\ j # id
        BY <1>3, <3>2
      <4> HIDE DEF D
      <4> QED  BY <1>5, <1>6, <3>2, <4>1 DEF Running
    <3>3. CASE j \notin D
      BY <1>5, <1>6, <3>3 DEF Running
    <3> QED  BY <3>1, <3>2, <3>3
  <2> HIDE DEF D
  <2> QED  BY <2>1
<1>9. Running(q) \subseteq D /\ Running(r) \subseteq DOMAIN r.plugins
  BY <1>5, <1>6 DEF Running
<1>10. ASSUME NEW n
       PROVE  n \in ManifestsOf(q, Running(q)) <=>
                 n \in ManifestsOf(r, Running(r)) /\ n.id \notin A \cup {id}
  <2>1. \A i \in Running(q) : q.plugins[i].manifest = r.plugins[i].manifest
    BY <1>3, <1>6, <1>9
  <2>2. \A i \in Running(r) : r.plugins[i].manifest.id = i
    BY <1>1, <1>9
  <2> HIDE DEF D
  <2>3. n \in ManifestsOf(q, Running(q)) <=> \E i \in Running(q) : n = r.plugins[i].manifest
    BY <2>1 DEF ManifestsOf
  <2>4. n \in ManifestsOf(r, Running(r)) <=> \E i \in Running(r) : n = r.plugins[i].manifest
    BY DEF ManifestsOf
  <2>5. \A i : i \in Running(q) <=> i \in Running(r) /\ i \notin A \cup {id}
    BY <1>7
  <2> QED  BY <2>2, <2>3, <2>4, <2>5
<1>11. q \in Runtimes
  <2>1. ASSUME NEW b
        PROVE  b \in B <=> \E n \in ManifestsOf(q, Running(q)) : b \in Offering(n)
    <3>1. \A n : b \in Offering(n) => b.plugin = n.id
      BY DEF Offering
    <3> QED  BY <1>1, <1>10, <3>1
  <2>2. ASSUME NEW l
        PROVE  l \in L <=> \E n \in ManifestsOf(q, Running(q)) : l \in Listening(n)
    <3>1. \A n : l \in Listening(n) => l.plugin = n.id
      BY DEF Listening
    <3> QED  BY <1>1, <1>10, <3>1
  <2>3. \A j \in D : f[j].manifest.id = j
    BY <1>1, <1>3
  <2> HIDE DEF B, L, D
  <2>4. q = [plugins |-> f, bindings |-> q.bindings, listeners |-> q.listeners]
    BY <1>2, <1>6
  <2>5. D \in SUBSET PluginIds
    BY <1>1
  <2>6. /\ \A b : b \in q.bindings <=> \E n \in ManifestsOf(q, Running(q)) : b \in Offering(n)
        /\ \A l : l \in q.listeners <=> \E n \in ManifestsOf(q, Running(q)) : l \in Listening(n)
    BY <1>6, <2>1, <2>2
  <2> QED  BY <1>4, <2>3, <2>4, <2>5, <2>6, IsRuntime
<1>12. ASSUME Declared(r)  PROVE Declared(q)
  \* A plugin that needs a service of the one that leaves is a dependent of it.
  <2>1. SUFFICES ASSUME NEW i \in Running(q), NEW s \in Needed(q.plugins[i].manifest)
                 PROVE  \E j \in DOMAIN q.plugins : s \in q.plugins[j].manifest.provides
    BY DEF Declared
  <2>2. i \in Running(r) /\ i \in D /\ i \notin A /\ q.plugins[i].manifest = r.plugins[i].manifest
    BY <1>3, <1>6, <1>7, <1>9
  <2>3. PICK j \in DOMAIN r.plugins : s \in r.plugins[j].manifest.provides
    BY <1>12, <2>1, <2>2 DEF Declared
  <2>4. j # id
    BY <2>1, <2>2, <2>3 DEF A, Dependents, Running
  <2> QED  BY <1>3, <1>5, <1>6, <2>3, <2>4
<1>13. DOMAIN q.plugins = D
  BY <1>5, <1>6
<1> QED  BY <1>11, <1>12, <1>13 DEF q, A

\* So does an unmount, but for what the plugins stand on: that may be gone.
LEMMA UnmountFacts ==
    ASSUME NEW r \in Runtimes, NEW id
    PROVE  /\ Unmount(r, id) \in Runtimes
           /\ DOMAIN Unmount(r, id).plugins = DOMAIN r.plugins \ {id}
           /\ Declared(r) => Declared(Unmount(r, id))
           /\ Settled(Unmount(r, id))
<1> DEFINE q == Without(r, id, Dependents(r, id))
<1>1. /\ q \in Runtimes /\ DOMAIN q.plugins = DOMAIN r.plugins \ {id}
      /\ Declared(r) => Declared(q)
  BY WithoutFacts
<1>2. Unmount(r, id) = Reconciled(q)
  BY DEF Unmount
<1> HIDE DEF q
<1>3. Grows(q, Reconciled(q)) /\ Settled(Reconciled(q))
  BY <1>1, ReconciledSettles
<1> QED  BY <1>1, <1>2, <1>3 DEF Grows

(* The packages are unmounted one after the other. *)
UnmountAll(r, s) == FoldLeft(Unmount, r, s)

\* The unmounts, one after the other.
LEMMA UnmountFold ==
    ASSUME NEW S, NEW r \in S, NEW I, NEW s \in Seq(I),
           \A q \in S, i \in I : Unmount(q, i) \in S
    PROVE  \E f : /\ f[0] = r /\ f[Len(s)] = UnmountAll(r, s)
                  /\ \A n \in 1 .. Len(s) : f[n] = Unmount(f[n - 1], s[n])
<1> DEFINE N == Len(s)
           g == [n \in 1 .. N |-> [q \in S |-> Unmount(q, s[n])]]
           it == CHOOSE h : h = [T \in SUBSET (1 .. N) |->
                    IF T = {} THEN r ELSE Unmount(h[T \ {Max(T)}], s[Max(T)])]
<1>1. N \in Nat /\ DOMAIN s = 1 .. N /\ \A n \in 1 .. N : s[n] \in I
  OBVIOUS
<1>2. g \in [1 .. N -> [S -> S]]
  BY <1>1
<1>3. PICK h : IsFold(h, S, r, N, g)
  <2> HIDE DEF g, N
  <2> QED  BY <1>1, <1>2, FoldExists
<1>4. /\ h \in [SUBSET (1 .. N) -> S]
      /\ \A T \in SUBSET (1 .. N) :
            h[T] = IF T = {} THEN r ELSE g[Max(T)][h[T \ {Max(T)}]]
  BY <1>3 DEF IsFold
<1>5. h = [T \in SUBSET (1 .. N) |->
              IF T = {} THEN r ELSE Unmount(h[T \ {Max(T)}], s[Max(T)])]
  <2>1. ASSUME NEW T \in SUBSET (1 .. N), T # {}
        PROVE  h[T] = Unmount(h[T \ {Max(T)}], s[Max(T)])
    <3>1. Max(T) \in 1 .. N
      BY <2>1, <1>1, LastPlace
    <3>2. T \ {Max(T)} \in SUBSET (1 .. N)
      OBVIOUS
    <3> QED  BY <1>4, <2>1, <3>1, <3>2
  <2> QED  BY <1>4, <2>1
<1>6. it = [T \in SUBSET (1 .. N) |->
              IF T = {} THEN r ELSE Unmount(it[T \ {Max(T)}], s[Max(T)])]
  BY <1>5
<1>7. UnmountAll(r, s) = it[1 .. N]
  BY <1>1 DEF UnmountAll, FoldLeft, MapThenFoldSet
<1> HIDE DEF it, N
<1>8. it[{}] = r
  BY <1>6
<1>9. ASSUME NEW n \in 1 .. N  PROVE it[1 .. n] = Unmount(it[1 .. (n - 1)], s[n])
  <2>1. 1 .. n \in SUBSET (1 .. N) /\ n \in Nat /\ n > 0
    BY <1>1
  <2>2. it[1 .. n] = Unmount(it[(1 .. n) \ {Max(1 .. n)}], s[Max(1 .. n)])
    <3>1. 1 \in 1 .. n
      BY <2>1
    <3> QED  BY <1>6, <2>1, <3>1
  <2> QED  BY <2>1, <2>2, MaxOfUpTo
<1> DEFINE f == [n \in 0 .. N |-> it[1 .. n]]
<1>10. f[0] = r /\ f[N] = it[1 .. N] /\ \A n \in 1 .. N : f[n] = Unmount(f[n - 1], s[n])
  <2>1. 1 .. 0 = {}
    OBVIOUS
  <2> QED  BY <1>1, <1>8, <1>9, <2>1
<1> QED  BY <1>7, <1>10 DEF N

(* The candidates are mounted one after the other. *)
MountAllAllowed(r, s, enabled, files) ==
    FoldLeft(LAMBDA q, id : MountAllowed(q, id, enabled, files), r, s)

\* The candidates of a refresh, one after the other.
LEMMA MountAllowedFold ==
    ASSUME NEW S, NEW r \in S, NEW I, NEW s \in Seq(I), NEW enabled, NEW files,
           \A q \in S, i \in I : MountAllowed(q, i, enabled, files) \in S
    PROVE  \E f : /\ f[0] = r /\ f[Len(s)] = MountAllAllowed(r, s, enabled, files)
                  /\ \A n \in 1 .. Len(s) : f[n] = MountAllowed(f[n - 1], s[n], enabled, files)
<1> DEFINE N == Len(s)
           g == [n \in 1 .. N |-> [q \in S |-> MountAllowed(q, s[n], enabled, files)]]
           it == CHOOSE h : h = [T \in SUBSET (1 .. N) |->
                    IF T = {} THEN r ELSE MountAllowed(h[T \ {Max(T)}], s[Max(T)], enabled, files)]
<1>1. N \in Nat /\ DOMAIN s = 1 .. N /\ \A n \in 1 .. N : s[n] \in I
  OBVIOUS
<1>2. g \in [1 .. N -> [S -> S]]
  BY <1>1
<1>3. PICK h : IsFold(h, S, r, N, g)
  <2> HIDE DEF g, N
  <2> QED  BY <1>1, <1>2, FoldExists
<1>4. /\ h \in [SUBSET (1 .. N) -> S]
      /\ \A T \in SUBSET (1 .. N) :
            h[T] = IF T = {} THEN r ELSE g[Max(T)][h[T \ {Max(T)}]]
  BY <1>3 DEF IsFold
<1>5. h = [T \in SUBSET (1 .. N) |->
              IF T = {} THEN r ELSE MountAllowed(h[T \ {Max(T)}], s[Max(T)], enabled, files)]
  <2>1. ASSUME NEW T \in SUBSET (1 .. N), T # {}
        PROVE  h[T] = MountAllowed(h[T \ {Max(T)}], s[Max(T)], enabled, files)
    <3>1. Max(T) \in 1 .. N
      BY <2>1, <1>1, LastPlace
    <3>2. T \ {Max(T)} \in SUBSET (1 .. N)
      OBVIOUS
    <3> QED  BY <1>4, <2>1, <3>1, <3>2
  <2> QED  BY <1>4, <2>1
<1>6. it = [T \in SUBSET (1 .. N) |->
              IF T = {} THEN r ELSE MountAllowed(it[T \ {Max(T)}], s[Max(T)], enabled, files)]
  BY <1>5
<1>7. MountAllAllowed(r, s, enabled, files) = it[1 .. N]
  BY <1>1 DEF MountAllAllowed, FoldLeft, MapThenFoldSet
<1> HIDE DEF it, N
<1>8. it[{}] = r
  BY <1>6
<1>9. ASSUME NEW n \in 1 .. N  PROVE it[1 .. n] = MountAllowed(it[1 .. (n - 1)], s[n], enabled, files)
  <2>1. 1 .. n \in SUBSET (1 .. N) /\ n \in Nat /\ n > 0
    BY <1>1
  <2>2. it[1 .. n] = MountAllowed(it[(1 .. n) \ {Max(1 .. n)}], s[Max(1 .. n)], enabled, files)
    <3>1. 1 \in 1 .. n
      BY <2>1
    <3> QED  BY <1>6, <2>1, <3>1
  <2> QED  BY <2>1, <2>2, MaxOfUpTo
<1> DEFINE f == [n \in 0 .. N |-> it[1 .. n]]
<1>10. f[0] = r /\ f[N] = it[1 .. N] /\ \A n \in 1 .. N : f[n] = MountAllowed(f[n - 1], s[n], enabled, files)
  <2>1. 1 .. 0 = {}
    OBVIOUS
  <2> QED  BY <1>1, <1>8, <1>9, <2>1
<1> QED  BY <1>7, <1>10 DEF N
-----------------------------------------------------------------------------
(* The built-in plugins, and what is mounted on them. *)
BuiltinOrder == InOrder(Builtins, LAMBDA m, n : m.id < n.id)

\* Each of them is mounted once.
LEMMA BuiltinOrderEnumerates == Enumerates(BuiltinOrder, Builtins)
<1> DEFINE S == Builtins
           before(y, x) == y.id < x.id
           P == [x \in S |-> {y \in S : before(y, x)}]
           s == BuiltinOrder
<1>1. /\ IsFiniteSet(S) /\ \A x \in S : x.id \in Nat
      /\ \A x, y \in S : x.id = y.id => x = y
  BY PackageIdsAssumption, ManifestsAssumption
<1>2. /\ \A x \in S : ~before(x, x)
      /\ \A x, y \in S : x # y => before(x, y) \/ before(y, x)
      /\ \A x, y, z \in S : before(x, y) /\ before(y, z) => before(x, z)
  BY <1>1
<1>3. s = [n \in 1 .. Cardinality(S) |->
              CHOOSE x \in S : Cardinality({y \in S : before(y, x)}) = n - 1]
  BY DEF BuiltinOrder, InOrder
<1> HIDE DEF before, S, s
<1>4. P \in [S -> SUBSET S] /\ \A x \in S : x \notin P[x]
  BY <1>2
<1>5. \A x, y \in S : x # y => \/ P[x] \subseteq P[y] /\ x \in P[y]
                               \/ P[y] \subseteq P[x] /\ y \in P[x]
  <2>1. SUFFICES ASSUME NEW x \in S, NEW y \in S, x # y
                 PROVE  \/ P[x] \subseteq P[y] /\ x \in P[y]
                        \/ P[y] \subseteq P[x] /\ y \in P[x]
    OBVIOUS
  <2>2. P[x] = {z \in S : before(z, x)} /\ P[y] = {z \in S : before(z, y)}
    OBVIOUS
  <2> HIDE DEF P
  <2>3. CASE before(x, y)
    <3>1. \A z \in S : before(z, x) => before(z, y)
      BY <1>2, <2>3
    <3> QED  BY <2>2, <2>3, <3>1
  <2>4. CASE before(y, x)
    <3>1. \A z \in S : before(z, y) => before(z, x)
      BY <1>2, <2>4
    <3> QED  BY <2>2, <2>4, <3>1
  <2> QED  BY <1>2, <2>1, <2>3, <2>4
<1>6. /\ Cardinality(S) \in Nat
      /\ \A x, y \in S : Cardinality(P[x]) = Cardinality(P[y]) => x = y
      /\ \A x \in S : Cardinality(P[x]) \in 0 .. (Cardinality(S) - 1)
      /\ \A n \in 1 .. Cardinality(S) : \E x \in S : Cardinality(P[x]) = n - 1
  <2> HIDE DEF P
  <2> QED  BY <1>1, <1>4, <1>5, RanksDiffer
<1>7. ASSUME NEW n \in 1 .. Cardinality(S)
      PROVE  s[n] \in S /\ Cardinality(P[s[n]]) = n - 1
  <2>1. \E x \in S : Cardinality({y \in S : before(y, x)}) = n - 1
    BY <1>6
  <2>2. s[n] \in S /\ Cardinality({y \in S : before(y, s[n])}) = n - 1
    <3> HIDE DEF P
    <3> QED  BY <1>3, <2>1
  <2> QED  BY <2>2
<1>8. DOMAIN s = 1 .. Cardinality(S) /\ s = [n \in 1 .. Cardinality(S) |-> s[n]]
  <2> DEFINE e(n) == CHOOSE x \in S : Cardinality({y \in S : before(y, x)}) = n - 1
  <2>1. s = [n \in 1 .. Cardinality(S) |-> e(n)]
    BY <1>3
  <2> HIDE DEF P, e
  <2> QED  BY <2>1
<1> HIDE DEF P
<1>9. Enumerates(s, S)
  BY <1>4, <1>6, <1>7, <1>8, EnumeratedByRank
<1> QED  BY <1>9 DEF s, S


\* The ids of the built-in plugins.
OwnIds == {m.id : m \in Builtins}

\* Nothing is mounted at first.
LEMMA NoPluginsFacts ==
    /\ NoPlugins \in Runtimes /\ DOMAIN NoPlugins.plugins = {}
    /\ Grounded(NoPlugins) /\ Declared(NoPlugins) /\ Settled(NoPlugins)
<1> DEFINE q == NoPlugins
           none == [id \in {} |-> Absent]
<1>1. q.plugins = none /\ q.bindings = {} /\ q.listeners = {}
      /\ q = [plugins |-> none, bindings |-> q.bindings, listeners |-> q.listeners]
  BY DEF NoPlugins
<1>2. DOMAIN none = {} /\ none \in [{} -> Entries]
  OBVIOUS
<1> HIDE DEF q, none
<1>3. Running(q) = {} /\ ManifestsOf(q, Running(q)) = {}
  BY <1>1, <1>2 DEF Running, ManifestsOf
<1>4. q \in Runtimes
  <2>1. /\ \A b : b \in q.bindings <=> \E m \in ManifestsOf(q, Running(q)) : b \in Offering(m)
        /\ \A l : l \in q.listeners <=> \E m \in ManifestsOf(q, Running(q)) : l \in Listening(m)
    BY <1>1, <1>3
  <2> QED  BY <1>1, <1>2, <2>1, IsRuntime
<1>5. Grounded(q) /\ Declared(q) /\ Settled(q)
  BY <1>1, <1>2, <1>3 DEF Grounded, Declared, Settled
<1> QED  BY <1>1, <1>2, <1>4, <1>5 DEF q

\* The built-in plugins alone, as a process starts with them.
LEMMA BuiltinRuntimeFacts ==
    /\ BuiltinRuntime \in Runtimes /\ DOMAIN BuiltinRuntime.plugins = OwnIds
    /\ Grounded(BuiltinRuntime) /\ Declared(BuiltinRuntime) /\ Settled(BuiltinRuntime)
<1> DEFINE S == {q \in Runtimes : Grounded(q) /\ Declared(q) /\ Settled(q)}
           s == BuiltinOrder
<1>1. NoPlugins \in S /\ DOMAIN NoPlugins.plugins = {}
  BY NoPluginsFacts
<1>2. \A q \in S, m \in Builtins :
         Mount(q, m) \in S /\ DOMAIN Mount(q, m).plugins = DOMAIN q.plugins \cup {m.id}
  BY MountFacts DEF Manifests
<1>3. /\ s \in Seq(Builtins) /\ Len(s) \in Nat /\ Len(s) = Cardinality(Builtins)
      /\ \A m \in Builtins : \E n \in 1 .. Len(s) : s[n] = m
      /\ \A n \in 1 .. Len(s) : s[n] \in Builtins
  <2>1. Enumerates(s, Builtins)
    BY BuiltinOrderEnumerates
  <2> HIDE DEF s
  <2>2. s \in Seq(Builtins) /\ Len(s) = Cardinality(Builtins) /\ Len(s) \in Nat
    BY <2>1, EnumerationIsSequence
  <2> QED  BY <2>1, <2>2 DEF Enumerates
<1> HIDE DEF S, s
<1>4. PICK f : /\ f[0] = NoPlugins /\ f[Len(s)] = MountAll(NoPlugins, s)
               /\ \A n \in 1 .. Len(s) : f[n] = Mount(f[n - 1], s[n])
  <2>1. \A q \in S, m \in Builtins : Mount(q, m) \in S
    BY <1>2
  <2>2. NoPlugins \in S /\ s \in Seq(Builtins)
    BY <1>1, <1>3
  <2> QED  BY <2>1, <2>2, MountFold
<1> DEFINE N == Len(s)
           P == {n \in 0 .. N : /\ f[n] \in S
                                /\ \A i : i \in DOMAIN f[n].plugins <=> \E k \in 1 .. n : s[k].id = i}
<1>5. 0 \in P
  BY <1>1, <1>3, <1>4
<1>6. ASSUME NEW n \in 1 .. N, n - 1 \in P  PROVE n \in P
  <2>1. f[n - 1] \in S /\ s[n] \in Builtins /\ f[n] = Mount(f[n - 1], s[n])
    BY <1>3, <1>4, <1>6
  <2>2. f[n] \in S /\ DOMAIN f[n].plugins = DOMAIN f[n - 1].plugins \cup {s[n].id}
    BY <1>2, <2>1
  <2>3. \A i : i \in DOMAIN f[n - 1].plugins <=> \E k \in 1 .. (n - 1) : s[k].id = i
    BY <1>6
  <2>4. \A k : k \in 1 .. n <=> k = n \/ k \in 1 .. (n - 1)
    BY <1>3
  <2>5. \A i : i \in DOMAIN f[n].plugins <=> \E k \in 1 .. n : s[k].id = i
    BY <2>2, <2>3, <2>4
  <2> QED  BY <1>3, <2>2, <2>5
<1>7. \A n \in 0 .. N : n \in P
  <2>1. N \in Nat
    BY <1>3
  <2> HIDE DEF P, N
  <2>2. \A n \in 1 .. N : n - 1 \in P => n \in P
    BY <1>6
  <2> QED  BY <1>5, <2>1, <2>2, UpTo
<1>8. f[N] \in S /\ \A i : i \in DOMAIN f[N].plugins <=> \E k \in 1 .. N : s[k].id = i
  BY <1>3, <1>7
<1>9. DOMAIN f[N].plugins = OwnIds
  <2>1. \A i : i \in OwnIds <=> \E k \in 1 .. N : s[k].id = i
    BY <1>3 DEF OwnIds
  <2> QED  BY <1>8, <2>1
<1>10. BuiltinRuntime = f[N]
  BY <1>4 DEF BuiltinRuntime, MountAll, BuiltinOrder, s
<1> QED  BY <1>8, <1>9, <1>10 DEF S

\* A plugin is a built-in one if its id is.
LEMMA WhoseIds ==
    ASSUME NEW r \in Runtimes, NEW i \in DOMAIN r.plugins
    PROVE  /\ i \in OwnIds <=> r.plugins[i].manifest \in Builtins
           /\ r.plugins[i].manifest.external <=> i \notin OwnIds
           /\ \A m \in Builtins : m.id = i => r.plugins[i].manifest = m
<1> DEFINE m == r.plugins[i].manifest
<1>1. m \in Builtins \cup ExternalManifests /\ m.id = i
  BY RuntimeFacts DEF Manifests
<1>2. /\ \A n \in Builtins, k \in ExternalManifests : n.id # k.id
      /\ \A n, k \in Builtins : n.id = k.id => n = k
      /\ \A n \in Builtins : ~n.external
      /\ \A n \in ExternalManifests : n.external
  BY PackageIdsAssumption
<1> HIDE DEF m
<1>3. /\ i \in OwnIds <=> m \in Builtins
      /\ m.external <=> i \notin OwnIds
      /\ \A n \in Builtins : n.id = i => m = n
  BY <1>1, <1>2 DEF OwnIds
<1> QED  BY <1>3 DEF m

\* After the first half of a refresh only the built-in plugins are left.
LEMMA UnmountedFacts ==
    ASSUME NEW r \in Runtimes, Declared(r), Settled(r), OwnIds \subseteq DOMAIN r.plugins
    PROVE  /\ Unmounted(r) \in Runtimes /\ DOMAIN Unmounted(r).plugins = OwnIds
           /\ Declared(Unmounted(r)) /\ Settled(Unmounted(r))
<1> DEFINE S == {q \in Runtimes : Declared(q) /\ Settled(q)}
           E == {id \in DOMAIN r.plugins : r.plugins[id].manifest.external}
           s == Ascending(E)
<1>1. E \in SUBSET Nat /\ IsFiniteSet(E) /\ \A i : i \in E <=> i \in DOMAIN r.plugins /\ i \notin OwnIds
  <2>1. IsFiniteSet(DOMAIN r.plugins) /\ \A i \in DOMAIN r.plugins : i \in Nat
    BY RuntimeFacts
  <2>2. E \in SUBSET DOMAIN r.plugins
    OBVIOUS
  <2>3. IsFiniteSet(E)
    <3> HIDE DEF E
    <3> QED  BY <2>1, <2>2, FS_Subset
  <2>4. \A i \in DOMAIN r.plugins : r.plugins[i].manifest.external <=> i \notin OwnIds
    BY WhoseIds
  <2> QED  BY <2>1, <2>3, <2>4
<1>2. Unmounted(r) = UnmountAll(r, s)
  BY DEF Unmounted, UnmountAll
<1> HIDE DEF E
<1>3. /\ s \in Seq(E) /\ Len(s) \in Nat
      /\ \A i \in E : \E n \in 1 .. Len(s) : s[n] = i
      /\ \A n \in 1 .. Len(s) : s[n] \in E
  <2>1. Enumerates(s, E)
    BY <1>1, AscendingEnumerates
  <2> HIDE DEF s
  <2>2. s \in Seq(E) /\ Len(s) = Cardinality(E) /\ Len(s) \in Nat
    BY <2>1, EnumerationIsSequence
  <2> QED  BY <2>1, <2>2 DEF Enumerates
<1> HIDE DEF s
<1>4. \A q \in S, i \in E :
         Unmount(q, i) \in S /\ DOMAIN Unmount(q, i).plugins = DOMAIN q.plugins \ {i}
  BY UnmountFacts
<1>5. r \in S
  OBVIOUS
<1> HIDE DEF S
<1>6. PICK f : /\ f[0] = r /\ f[Len(s)] = UnmountAll(r, s)
               /\ \A n \in 1 .. Len(s) : f[n] = Unmount(f[n - 1], s[n])
  <2>1. \A q \in S, i \in E : Unmount(q, i) \in S
    BY <1>4
  <2>2. s \in Seq(E)
    BY <1>3
  <2> QED  BY <1>5, <2>1, <2>2, UnmountFold
<1> DEFINE N == Len(s)
           P == {n \in 0 .. N :
                   /\ f[n] \in S
                   /\ \A i : i \in DOMAIN f[n].plugins <=>
                              i \in DOMAIN r.plugins /\ \A k \in 1 .. n : s[k] # i}
<1>7. 0 \in P
  BY <1>3, <1>5, <1>6
<1>8. ASSUME NEW n \in 1 .. N, n - 1 \in P  PROVE n \in P
  <2>1. f[n - 1] \in S /\ s[n] \in E /\ f[n] = Unmount(f[n - 1], s[n])
    BY <1>3, <1>6, <1>8
  <2>2. f[n] \in S /\ DOMAIN f[n].plugins = DOMAIN f[n - 1].plugins \ {s[n]}
    BY <1>4, <2>1
  <2>3. \A i : i \in DOMAIN f[n - 1].plugins <=>
              i \in DOMAIN r.plugins /\ \A k \in 1 .. (n - 1) : s[k] # i
    BY <1>8
  <2>4. \A k : k \in 1 .. n <=> k = n \/ k \in 1 .. (n - 1)
    BY <1>3
  <2>5. \A i : i \in DOMAIN f[n].plugins <=>
              i \in DOMAIN r.plugins /\ \A k \in 1 .. n : s[k] # i
    BY <2>2, <2>3, <2>4
  <2> QED  BY <1>3, <2>2, <2>5
<1>9. \A n \in 0 .. N : n \in P
  <2>1. N \in Nat
    BY <1>3
  <2> HIDE DEF P, N
  <2>2. \A n \in 1 .. N : n - 1 \in P => n \in P
    BY <1>8
  <2> QED  BY <1>7, <2>1, <2>2, UpTo
<1>10. /\ f[N] \in S
       /\ \A i : i \in DOMAIN f[N].plugins <=> i \in DOMAIN r.plugins /\ \A k \in 1 .. N : s[k] # i
  BY <1>3, <1>9
<1>11. DOMAIN f[N].plugins = OwnIds
  <2>1. \A i : (\A k \in 1 .. N : s[k] # i) <=> i \notin E
    BY <1>3
  <2>2. \A i : i \in DOMAIN f[N].plugins <=> i \in OwnIds
    BY <1>1, <1>10, <2>1
  <2> QED  BY <2>2
<1> QED  BY <1>2, <1>6, <1>10, <1>11 DEF S

(* The built-in plugins alone, settled and with every requirement declared, *)
(* stand on their own: this is where the built-in manifests matter.         *)
LEMMA BareIsGrounded ==
    ASSUME NEW q \in Runtimes, Declared(q), Settled(q), DOMAIN q.plugins = OwnIds
    PROVE  Grounded(q)
<1>1. \A i \in OwnIds : /\ q.plugins[i].manifest \in Builtins
                     /\ q.plugins[i].manifest.id = i
                     /\ q.plugins[i].status \in {"pending", "active", "failed"}
  BY WhoseIds, RuntimeFacts
<1>2. \A m \in Builtins : m.id \in OwnIds /\ q.plugins[m.id].manifest = m
  BY WhoseIds DEF OwnIds
<1>3. Running(q) \subseteq OwnIds
  BY DEF Running
<1>4. ASSUME NEW m \in Builtins  PROVE ~Clashes(q, m)
  <2>1. \A n, k \in Builtins : \A e \in Heard(n), l \in Heard(k) :
           e.event = l.event => e.mode = l.mode
    BY BuiltinsAssumption
  <2>2. ASSUME NEW k \in q.listeners
        PROVE  \E n \in Builtins : k.on \in Heard(n)
    <3>1. PICK n \in ManifestsOf(q, Running(q)) : k \in Listening(n)
      BY RuntimeFacts
    <3>2. n \in Builtins
      BY <1>1, <1>3 DEF ManifestsOf
    <3> QED  BY <3>1, <3>2 DEF Listening
  <2> QED  BY <2>1, <2>2 DEF Clashes
<1>5. ASSUME NEW m \in Builtins, Given(q, m)  PROVE m.id \in Running(q)
  <2>1. SettledAt(q, m.id) /\ q.plugins[m.id].manifest = m /\ m.id \in DOMAIN q.plugins
    BY <1>2 DEF Settled
  <2>2. q.plugins[m.id].status = "active"
    BY <1>4, <1>5, <2>1 DEF SettledAt
  <2> QED  BY <2>1, <2>2 DEF Running
<1>6. SUFFICES ASSUME NEW S \in SUBSET Running(q),
                      \A i \in Running(q) :
                         GivenBy(ManifestsOf(q, S), q.plugins[i].manifest) => i \in S
               PROVE  Running(q) \subseteq S
  BY DEF Grounded
<1> DEFINE X == {m \in Builtins : m.id \in S}
<1>7. ManifestsOf(q, S) = X /\ X \subseteq ManifestsOf(q, Running(q))
  <2>1. \A m : m \in ManifestsOf(q, S) <=> m \in X
    <3>1. \A i \in S : i \in OwnIds
      BY <1>3
    <3> QED  BY <1>1, <1>2, <3>1 DEF ManifestsOf
  <2>2. ManifestsOf(q, S) \subseteq ManifestsOf(q, Running(q))
    BY DEF ManifestsOf
  <2> QED  BY <2>1, <2>2
<1>8. ASSUME NEW n \in Builtins, GivenBy(X, n)  PROVE n \in X
  <2>1. Given(q, n)
    <3> HIDE DEF X
    <3> QED  BY <1>7, <1>8 DEF Given, GivenBy
  <2>2. n.id \in Running(q) /\ q.plugins[n.id].manifest = n
    BY <1>2, <1>5, <2>1
  <2>3. n.id \in S
    <3> HIDE DEF X
    <3> QED  BY <1>6, <1>7, <1>8, <2>2
  <2> QED  BY <2>3
<1>9. SelfSupported \subseteq X
  <2>1. X \in SUBSET Builtins
    OBVIOUS
  <2> HIDE DEF X
  <2> QED  BY <1>8, <2>1 DEF SelfSupported
<1>10. ASSUME NEW i \in Running(q)  PROVE i \in S
  <2>1. q.plugins[i].manifest \in Builtins /\ q.plugins[i].manifest.id = i
    BY <1>1, <1>3
  <2>2. \A s \in Needed(q.plugins[i].manifest) : \E n \in Builtins : s \in n.provides
    BY <1>1 DEF Declared
  <2>3. q.plugins[i].manifest \in SelfSupported
    BY <2>1, <2>2, BuiltinsAssumption
  <2> QED  BY <1>9, <2>1, <2>3
<1> QED  BY <1>10

-----------------------------------------------------------------------------
(* A refresh. *)
Files == [PackageIds -> ExternalManifests \cup {Absent}]
ProfileRecords == [plugins : Seq(PackageIds), disabled : SUBSET PackageIds]

\* What every refresh leaves behind.
Sound(r) ==
    r \in Runtimes /\ Grounded(r) /\ Declared(r) /\ Settled(r) /\ OwnIds \subseteq DOMAIN r.plugins

\* What a profile lists are ids, what is enabled of it has a package.
LEMMA ListedFacts ==
    ASSUME NEW files \in Files, NEW profiles \in [ProfileNames -> ProfileRecords],
           NEW name \in ProfileNames
    PROVE  /\ Candidates(files, profiles, name).listed \in Seq(PackageIds)
           /\ \A id \in Candidates(files, profiles, name).enabled :
                 files[id] \in ExternalManifests
<1> DEFINE found == {id \in PackageIds : files[id] # Absent}
           profile == profiles[name]
<1>1. profile \in ProfileRecords
  OBVIOUS
<1>2. profile.plugins \in Seq(PackageIds)
  BY <1>1 DEF ProfileRecords
<1>3. Ascending(found) \in Seq(PackageIds)
  <2>1. found \in SUBSET PackageIds /\ PackageIds \subseteq Nat /\ IsFiniteSet(PackageIds)
    BY PackageIdsAssumption, ManifestsAssumption DEF PackageIds
  <2> HIDE DEF found
  <2>2. found \in SUBSET Nat /\ IsFiniteSet(found)
    BY <2>1, FS_Subset
  <2> DEFINE s == Ascending(found)
  <2>3. Enumerates(s, found)
    BY <2>2, AscendingEnumerates
  <2> HIDE DEF s
  <2>4. Cardinality(found) \in Nat /\ s \in [1 .. Cardinality(found) -> found]
    BY <2>3 DEF Enumerates
  <2>5. s \in [1 .. Cardinality(found) -> PackageIds]
    BY <2>1, <2>4
  <2>6. s \in Seq(PackageIds)
    BY <2>4, <2>5
  <2> QED  BY <2>6 DEF s
<1>4. Candidates(files, profiles, name) =
         [listed |-> Listing(profile, name, found),
          enabled |-> {id \in found \cap ToSet(Listing(profile, name, found)) :
                          id \notin profile.disabled}]
  BY DEF Candidates
<1>5. Listing(profile, name, found) \in Seq(PackageIds)
  <2> HIDE DEF profile, found
  <2> QED  BY <1>2, <1>3 DEF Listing
<1>6. \A id \in found : files[id] \in ExternalManifests
  BY DEF Files
<1> HIDE DEF profile, found
<1>7. \A id \in Candidates(files, profiles, name).enabled : id \in found
  BY <1>4
<1> QED  BY <1>4, <1>5, <1>6, <1>7

\* A refresh leaves the plugins sound, whatever it found in the directory.
LEMMA RefreshedIsSound ==
    ASSUME NEW r \in Runtimes, Declared(r), Settled(r), OwnIds \subseteq DOMAIN r.plugins,
           NEW files \in Files, NEW profiles \in [ProfileNames -> ProfileRecords], NEW name
    PROVE  Sound(Refreshed(r, files, profiles, name))
<1> DEFINE c == Candidates(files, profiles, Selected(name))
           s == c.listed
           enabled == c.enabled
           S == {q \in Runtimes : Sound(q)}
           bare == Unmounted(r)
<1>1. Selected(name) \in ProfileNames
  BY DEF Selected, ProfileNames
<1>2. s \in Seq(PackageIds) /\ \A id \in enabled : files[id] \in ExternalManifests
  BY <1>1, ListedFacts
<1>3. Refreshed(r, files, profiles, name) = MountAllAllowed(bare, s, enabled, files)
  BY DEF Refreshed, MountAllAllowed
<1>4. bare \in S
  <2>1. bare \in Runtimes /\ DOMAIN bare.plugins = OwnIds /\ Declared(bare) /\ Settled(bare)
    BY UnmountedFacts
  <2> HIDE DEF bare
  <2>2. Grounded(bare)
    BY <2>1, BareIsGrounded
  <2> QED  BY <2>1, <2>2 DEF Sound
<1> HIDE DEF c, s, enabled, bare
<1>5. ASSUME NEW q \in S, NEW id \in PackageIds
      PROVE  MountAllowed(q, id, enabled, files) \in S
  <2>1. CASE MountAllowed(q, id, enabled, files) = q
    BY <2>1
  <2>2. CASE MountAllowed(q, id, enabled, files) = Mount(q, files[id]) /\ id \in enabled
    <3> DEFINE m == files[id]
    <3>1. m \in Manifests /\ q \in Runtimes /\ Sound(q)
      BY <1>2, <2>2 DEF Manifests
    <3> HIDE DEF m
    <3>2. /\ Mount(q, m) \in Runtimes /\ Grounded(Mount(q, m)) /\ Declared(Mount(q, m))
          /\ Settled(Mount(q, m)) /\ DOMAIN Mount(q, m).plugins = DOMAIN q.plugins \cup {m.id}
      BY <3>1, MountFacts DEF Sound
    <3>3. Sound(Mount(q, m))
      BY <3>1, <3>2 DEF Sound
    <3> QED  BY <2>2, <3>2, <3>3 DEF m
  <2> QED  BY <2>1, <2>2 DEF MountAllowed
<1> HIDE DEF S
<1>6. PICK f : /\ f[0] = bare /\ f[Len(s)] = MountAllAllowed(bare, s, enabled, files)
               /\ \A n \in 1 .. Len(s) : f[n] = MountAllowed(f[n - 1], s[n], enabled, files)
  <2>1. \A q \in S, id \in PackageIds : MountAllowed(q, id, enabled, files) \in S
    BY <1>5
  <2>2. bare \in S /\ s \in Seq(PackageIds)
    BY <1>2, <1>4
  <2> HIDE DEF c, s, enabled, bare, S
  <2> QED  BY <2>1, <2>2, MountAllowedFold
<1> DEFINE N == Len(s)
           P == {n \in 0 .. N : f[n] \in S}
<1>7. N \in Nat /\ \A n \in 1 .. N : s[n] \in PackageIds
  BY <1>2
<1>8. \A n \in 0 .. N : n \in P
  <2>1. 0 \in P
    BY <1>4, <1>6, <1>7
  <2>2. ASSUME NEW n \in 1 .. N, n - 1 \in P  PROVE n \in P
    BY <1>5, <1>6, <1>7, <2>2
  <2> HIDE DEF P, N
  <2>3. \A n \in 1 .. N : n - 1 \in P => n \in P
    BY <2>2
  <2> QED  BY <1>7, <2>1, <2>3, UpTo
<1>9. f[N] \in S
  BY <1>7, <1>8
<1> QED  BY <1>3, <1>6, <1>9 DEF S

-----------------------------------------------------------------------------
(* The invariant of the package manager. *)
PackagesInv == PackagesTypeOK /\ Sound(runtime)

\* A sound runtime has the plugins and statuses it may have.
LEMMA SoundIsTyped ==
    ASSUME NEW r, Sound(r)
    PROVE  /\ DOMAIN r.plugins \subseteq {m.id : m \in Builtins} \cup PackageIds
           /\ \A id \in DOMAIN r.plugins : r.plugins[id].status \in {"pending", "active", "failed"}
<1>1. r \in Runtimes
  BY DEF Sound
<1>2. /\ DOMAIN r.plugins \subseteq PluginIds
      /\ \A id \in DOMAIN r.plugins : r.plugins[id].status \in {"pending", "active", "failed"}
  BY <1>1, RuntimeFacts
<1> QED  BY <1>2 DEF PluginIds, Manifests, PackageIds

\* The files and profiles are of their type, and stay so.
FilesOK == /\ packageFiles \in Files /\ profileFiles \in [ProfileNames -> ProfileRecords]
           /\ activeProfile \in ProfileNames /\ packageSteps \in 0 .. MaxPackageSteps

\* The invariant in two parts.
LEMMA TypeOfPackages == PackagesInv <=> Sound(runtime) /\ FilesOK
<1>1. Sound(runtime) =>
         /\ DOMAIN runtime.plugins \subseteq {m.id : m \in Builtins} \cup PackageIds
         /\ \A id \in DOMAIN runtime.plugins :
               runtime.plugins[id].status \in {"pending", "active", "failed"}
  BY SoundIsTyped
<1> QED  BY <1>1 DEF PackagesInv, PackagesTypeOK, FilesOK, Files, ProfileRecords

\* A request that refreshes leaves the plugins sound.
LEMMA RefreshIsSound ==
    ASSUME Sound(runtime), packageFiles' \in Files,
           profileFiles' \in [ProfileNames -> ProfileRecords], NEW name, Refresh(name)
    PROVE  Sound(runtime') /\ activeProfile' \in ProfileNames
<1>1. runtime \in Runtimes /\ Declared(runtime) /\ Settled(runtime) /\ OwnIds \subseteq DOMAIN runtime.plugins
  BY DEF Sound
<1>2. Sound(Refreshed(runtime, packageFiles', profileFiles', name))
  BY <1>1, RefreshedIsSound
<1>3. Selected(name) \in ProfileNames
  BY DEF Selected, ProfileNames
<1> QED  BY <1>2, <1>3 DEF Refresh

\* So does a restart.
LEMMA RestartIsSound ==
    ASSUME NEW files \in Files, NEW profiles \in [ProfileNames -> ProfileRecords], NEW name
    PROVE  Sound(Refreshed(BuiltinRuntime, files, profiles, name))
<1> DEFINE r == BuiltinRuntime
<1>1. r \in Runtimes /\ Declared(r) /\ Settled(r) /\ OwnIds \subseteq DOMAIN r.plugins
  BY BuiltinRuntimeFacts
<1> HIDE DEF r
<1>2. Sound(Refreshed(r, files, profiles, name))
  BY <1>1, RefreshedIsSound
<1> QED  BY <1>2 DEF r

\* A process starts with the built-in plugins and what is in the directory.
LEMMA PackagesInitially == PackagesInit => PackagesInv
<1> SUFFICES ASSUME PackagesInit  PROVE PackagesInv
  OBVIOUS
<1>1. packageFiles \in Files
  BY DEF PackagesInit, Files
<1>2. profileFiles \in [ProfileNames -> ProfileRecords]
  <2>1. PICK id \in PackageIds :
           profileFiles = [name \in ProfileNames |->
              [plugins |-> <<>>, disabled |-> IF name \in Profiles THEN {id} ELSE {}]]
    BY DEF PackagesInit
  <2>2. \A name \in ProfileNames :
           [plugins |-> <<>>, disabled |-> IF name \in Profiles THEN {id} ELSE {}]
              \in ProfileRecords
    BY DEF ProfileRecords
  <2> QED  BY <2>1, <2>2
<1>3. Sound(runtime)
  BY <1>1, <1>2, RestartIsSound DEF PackagesInit
<1>4. activeProfile \in ProfileNames /\ packageSteps \in 0 .. MaxPackageSteps
  BY PackageIdsAssumption DEF PackagesInit
<1> QED  BY <1>1, <1>2, <1>3, <1>4, TypeOfPackages DEF FilesOK

\* Every request, edit of the directory and restart keeps the invariant.
LEMMA PackagesPreserved == PackagesInv /\ [PackagesNext]_packageVars => PackagesInv'
<1> SUFFICES ASSUME Sound(runtime), FilesOK, [PackagesNext]_packageVars
             PROVE  Sound(runtime') /\ FilesOK'
  <2>1. PackagesInv' <=> Sound(runtime') /\ FilesOK'
    <3>1. Sound(runtime') =>
             /\ DOMAIN runtime'.plugins \subseteq {m.id : m \in Builtins} \cup PackageIds
             /\ \A id \in DOMAIN runtime'.plugins :
                   runtime'.plugins[id].status \in {"pending", "active", "failed"}
      BY SoundIsTyped
    <3> QED  BY <3>1 DEF PackagesInv, PackagesTypeOK, FilesOK, Files, ProfileRecords
  <2> QED  BY <2>1, TypeOfPackages
<1>1. /\ packageFiles \in Files /\ profileFiles \in [ProfileNames -> ProfileRecords]
      /\ activeProfile \in ProfileNames /\ packageSteps \in 0 .. MaxPackageSteps
      /\ MaxPackageSteps \in Nat
  BY PackageIdsAssumption DEF FilesOK
<1>2. CountStep => packageSteps' \in 0 .. MaxPackageSteps
  BY <1>1 DEF CountStep
<1>3. \A m \in ExternalManifests \cup {Absent}, id \in PackageIds :
         [packageFiles EXCEPT ![id] = m] \in Files
  BY <1>1 DEF Files
<1>4. \A m \in ExternalManifests : m.id \in PackageIds
  BY DEF PackageIds
<1>5. CASE ReloadPackages
  <2>1. packageFiles' \in Files /\ profileFiles' \in [ProfileNames -> ProfileRecords]
    BY <1>1, <1>5 DEF ReloadPackages
  <2> QED  BY <1>2, <1>5, <2>1, RefreshIsSound DEF ReloadPackages, FilesOK
<1>6. ASSUME NEW name, ActivateProfile(name)  PROVE Sound(runtime') /\ FilesOK'
  <2>1. packageFiles' \in Files /\ profileFiles' \in [ProfileNames -> ProfileRecords]
    BY <1>1, <1>6 DEF ActivateProfile
  <2> QED  BY <1>2, <1>6, <2>1, RefreshIsSound DEF ActivateProfile, FilesOK
<1>7. ASSUME NEW m \in ExternalManifests, NEW add, InstallSource(m, add)
      PROVE  Sound(runtime') /\ FilesOK'
  <2>1. packageFiles' \in Files
    BY <1>3, <1>4, <1>7 DEF InstallSource
  <2>2. profileFiles' \in [ProfileNames -> ProfileRecords]
    <3>1. \A profile \in ProfileRecords, id \in PackageIds : WithPlugin(profile, id) \in ProfileRecords
      <4>1. SUFFICES ASSUME NEW profile \in ProfileRecords, NEW id \in PackageIds
                     PROVE  [profile EXCEPT !.plugins = Append(@, id)] \in ProfileRecords
        BY DEF WithPlugin
      <4>2. /\ profile = [plugins |-> profile.plugins, disabled |-> profile.disabled]
            /\ profile.plugins \in Seq(PackageIds) /\ profile.disabled \in SUBSET PackageIds
        BY DEF ProfileRecords
      <4>3. Append(profile.plugins, id) \in Seq(PackageIds)
        BY <4>2
      <4>4. [profile EXCEPT !.plugins = Append(@, id)] =
               [plugins |-> Append(profile.plugins, id), disabled |-> profile.disabled]
        BY <4>2
      <4> QED  BY <4>2, <4>3, <4>4 DEF ProfileRecords
    <3>2. [profileFiles EXCEPT ![activeProfile] = WithPlugin(@, m.id)]
              \in [ProfileNames -> ProfileRecords]
      BY <1>1, <1>4, <3>1
    <3> QED  BY <1>1, <1>7, <3>2 DEF InstallSource
  <2> QED  BY <1>2, <1>7, <2>1, <2>2, RefreshIsSound DEF InstallSource, FilesOK
<1>8. ASSUME NEW id \in PackageIds, EditDirectory(id)  PROVE Sound(runtime') /\ FilesOK'
  <2>1. packageFiles' \in Files
    BY <1>3, <1>8 DEF EditDirectory
  <2> QED  BY <1>1, <1>2, <1>8, <2>1 DEF EditDirectory, FilesOK
<1>9. ASSUME NEW name, RestartHarness(name)  PROVE Sound(runtime') /\ FilesOK'
  <2>1. packageFiles' \in Files
    BY <1>1, <1>3, <1>4, <1>9 DEF RestartHarness
  <2>2. runtime' = Refreshed(BuiltinRuntime, packageFiles', profileFiles, name)
    BY <1>9 DEF RestartHarness
  <2>3. Sound(runtime')
    BY <1>1, <2>1, <2>2, RestartIsSound
  <2>4. Selected(name) \in ProfileNames
    BY DEF Selected, ProfileNames
  <2> QED  BY <1>1, <1>2, <1>9, <2>1, <2>3, <2>4 DEF RestartHarness, FilesOK
<1>10. CASE UNCHANGED packageVars
  BY <1>1, <1>10 DEF packageVars, FilesOK
<1> QED  BY <1>5, <1>6, <1>7, <1>8, <1>9, <1>10 DEF PackagesNext

(* Active and well supported are the same in what a refresh leaves behind.  *)
LEMMA SoundIsSupported == Sound(runtime) => ActiveIsSupported
<1> SUFFICES ASSUME Sound(runtime)  PROVE ActiveIsSupported
  OBVIOUS
<1> DEFINE r == runtime
           D == DOMAIN r.plugins
<1>1. /\ r \in Runtimes /\ Grounded(r) /\ Settled(r)
      /\ \A i \in D : r.plugins[i].manifest.id = i
      /\ \A b : b \in r.bindings <=> \E m \in ManifestsOf(r, Running(r)) : b \in Offering(m)
      /\ \A l : l \in r.listeners <=> \E m \in ManifestsOf(r, Running(r)) : l \in Listening(m)
  BY RuntimeFacts DEF Sound
<1>2. WithStatus("active") = Running(r) /\ Running(r) \subseteq D
  BY DEF WithStatus, Running
<1>3. \A S : Supported(S) = {i \in D : /\ r.plugins[i].status # "failed"
                                       /\ GivenBy(ManifestsOf(r, S), r.plugins[i].manifest)}
  BY DEF Supported, WithStatus, ManifestsOf
<1>4. WellSupported \subseteq Running(r)
  <2>1. Supported(Running(r)) \subseteq Running(r)
    <3>1. SUFFICES ASSUME NEW i \in D, r.plugins[i].status # "failed",
                          GivenBy(ManifestsOf(r, Running(r)), r.plugins[i].manifest)
                   PROVE  i \in Running(r)
      BY <1>3
    <3>2. SettledAt(r, i) /\ Given(r, r.plugins[i].manifest)
      BY <1>1, <3>1 DEF Settled, Given
    <3> QED  BY <3>1, <3>2 DEF SettledAt, Running
  <2> QED  BY <1>2, <2>1 DEF WellSupported
<1>5. Running(r) \subseteq WellSupported
  <2>1. SUFFICES ASSUME NEW set \in SUBSET D, Supported(set) \subseteq set
                 PROVE  Running(r) \subseteq set
    BY <1>2 DEF WellSupported
  <2> DEFINE S == set \cap Running(r)
  <2>2. ManifestsOf(r, S) \subseteq ManifestsOf(r, set)
    BY DEF ManifestsOf
  <2>3. ASSUME NEW i \in Running(r), GivenBy(ManifestsOf(r, S), r.plugins[i].manifest)
        PROVE  i \in S
    <3>1. GivenBy(ManifestsOf(r, set), r.plugins[i].manifest)
      BY <2>2, <2>3 DEF GivenBy
    <3>2. i \in D /\ r.plugins[i].status # "failed"
      BY DEF Running
    <3>3. i \in Supported(set)
      BY <1>3, <3>1, <3>2
    <3> QED  BY <2>1, <3>3
  <2>4. S \in SUBSET Running(r)
    OBVIOUS
  <2> HIDE DEF S
  <2>5. Running(r) \subseteq S
    BY <1>1, <2>3, <2>4 DEF Grounded
  <2> QED  BY <2>5 DEF S
<1>6. \A i \in WithStatus("failed") : Clashes(r, r.plugins[i].manifest)
  BY <1>1 DEF WithStatus, Settled, SettledAt
<1>7. \A m \in ManifestsOf(r, Running(r)) : m.id \in Running(r)
  BY <1>1, <1>2 DEF ManifestsOf
<1>8. /\ \A b \in r.bindings : b.plugin \in Running(r)
      /\ \A l \in r.listeners : l.plugin \in Running(r)
  BY <1>1, <1>7 DEF Offering, Listening
<1> QED  BY <1>2, <1>4, <1>5, <1>6, <1>8 DEF ActiveIsSupported

(* The plugins, the files, the profiles and the active profile keep their   *)
(* types through installs, reloads, edits of the directory and restarts.    *)
THEOREM PackagesTypeCorrect == PackagesSpec => []PackagesTypeOK
<1>1. PackagesInv => PackagesTypeOK
  BY DEF PackagesInv
<1> QED  BY <1>1, PackagesInitially, PackagesPreserved, PTL DEF PackagesSpec

(* After any sequence of installs, reloads, edits, profiles and restarts,   *)
(* for any packages and built-in manifests of the assumed kind, the active  *)
(* plugins are those that can be activated one after the other, what failed *)
(* clashes with a listener, and nothing else offers or listens.             *)
THEOREM PackagesActiveIsSupported == PackagesSpec => []ActiveIsSupported
<1>1. PackagesInv => ActiveIsSupported
  BY SoundIsSupported DEF PackagesInv
<1> QED  BY <1>1, PackagesInitially, PackagesPreserved, PTL DEF PackagesSpec
=============================================================================
