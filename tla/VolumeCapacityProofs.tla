------------------------ MODULE VolumeCapacityProofs ------------------------
(***************************************************************************)
(* The pool is never overcommitted: what its files promise, summed over    *)
(* every volume and every archive, never exceeds its size, for any finite  *)
(* number of volumes, whatever was admitted, expanded, archived, deleted   *)
(* or interrupted.                                                         *)
(*                                                                         *)
(* The first part is about sums over a finite set, which Functions defines *)
(* by folding: what the fold computes is shown by looking at a smallest    *)
(* subset where it would be wrong.  The second part is about the capacity  *)
(* walk, the third about the steps.                                        *)
(***************************************************************************)
EXTENDS VolumeFilesProofs, FiniteSetTheorems

-----------------------------------------------------------------------------
(***************************************************************************)
(* Sums.                                                                   *)
(***************************************************************************)

\* The element which the fold takes from a set first, and what it then adds.
First(s) == CHOOSE x \in s : TRUE

Unfolded(g, f, s) == IF s = {} THEN 0 ELSE f[First(s)] + g[s \ {First(s)}]

\* SumFunctionOnSet is the last entry of the fold's recursive table.
LEMMA SumIsChosen ==
    ASSUME NEW f, NEW S
    PROVE  SumFunctionOnSet(f, S)
               = (CHOOSE g : g = [s \in SUBSET S |-> Unfolded(g, f, s)])[S]
BY DEF SumFunctionOnSet, FoldFunctionOnSet, MapThenFoldSet, Unfolded, First

\* Induction over a finite set: a family of its subsets has a smallest one.
LEMMA SmallestSubset ==
    ASSUME NEW S, IsFiniteSet(S), NEW T, T \subseteq SUBSET S, T # {}
    PROVE  \E s \in T : \A x \in s : s \ {x} \notin T
<1>1. IsWellFoundedOn(StrictSubsetOrdering(S), SUBSET S)
  BY FS_StrictSubsetOrderingWellFounded, FS_FiniteSubsetsOfFinite
<1>2. PICK s \in T : \A y \in T : <<y, s>> \notin StrictSubsetOrdering(S)
  BY <1>1, WFMin
<1>3. ASSUME NEW x \in s, s \ {x} \in T PROVE FALSE
  <2>1. <<s \ {x}, s>> \in StrictSubsetOrdering(S)
    BY <1>3 DEF StrictSubsetOrdering
  <2> QED
    BY <2>1, <1>2, <1>3
<1> QED
  BY <1>2, <1>3

LEMMA FirstBelongs == \A s : s # {} => First(s) \in s
BY DEF First

\* There is a table of the sums over all subsets of at most n elements.
Tabled(f, S, n) ==
    \E g : g = [s \in SUBSET S |-> IF Cardinality(s) <= n THEN Unfolded(g, f, s) ELSE 0]

\* What taking an element from a subset does to its cardinality.
LEMMA CardsOfSubsets ==
    ASSUME NEW S, IsFiniteSet(S), NEW s \in SUBSET S
    PROVE  /\ Cardinality(s) \in Nat
           /\ s = {} <=> Cardinality(s) = 0
           /\ \A x \in s : s \ {x} \in SUBSET S /\ Cardinality(s \ {x}) = Cardinality(s) - 1
<1>1. IsFiniteSet(s)
  BY FS_Subset
<1>2. Cardinality(s) \in Nat /\ (s = {} <=> Cardinality(s) = 0)
  BY <1>1, FS_CardinalityType, FS_EmptySet
<1>3. ASSUME NEW x \in s PROVE Cardinality(s \ {x}) = Cardinality(s) - 1
  BY <1>1, FS_RemoveElement
<1> QED
  BY <1>2, <1>3

\* The recursive table exists, by induction over cardinalities.
LEMMA SumsAreTabled ==
    ASSUME NEW f, NEW S, IsFiniteSet(S)
    PROVE  \E g : g = [s \in SUBSET S |-> Unfolded(g, f, s)]
<1> DEFINE T == {s \in SUBSET S : ~Tabled(f, S, Cardinality(s))}
<1>1. ASSUME T # {} PROVE FALSE
  <2>1. PICK s \in T : \A x \in s : s \ {x} \notin T
    <3>1. T \subseteq SUBSET S OBVIOUS
    <3> HIDE DEF T
    <3> QED
      BY <1>1, <3>1, SmallestSubset
  <2>2. s \in SUBSET S /\ ~Tabled(f, S, Cardinality(s))
    BY <2>1
  <2>3. CASE s = {}
    <3>1. Cardinality(s) = 0
      BY <2>3, FS_EmptySet
    <3> DEFINE h == [t \in SUBSET S |-> 0]
    <3>2. h = [t \in SUBSET S |-> IF Cardinality(t) <= 0 THEN Unfolded(h, f, t) ELSE 0]
      <4>1. ASSUME NEW t \in SUBSET S, Cardinality(t) <= 0 PROVE Unfolded(h, f, t) = 0
        BY <4>1, CardsOfSubsets DEF Unfolded
      <4> HIDE DEF h
      <4>2. h = [t \in SUBSET S |-> 0] BY DEF h
      <4> QED
          BY <4>1, <4>2
    <3> HIDE DEF h
    <3> QED
      BY <3>1, <3>2, <2>2 DEF Tabled
  <2>4. CASE s # {}
    <3> DEFINE x == First(s)
    <3> DEFINE n == Cardinality(s \ {x})
    <3>1. x \in s /\ n \in Nat /\ Cardinality(s) = n + 1
      BY <2>2, <2>4, CardsOfSubsets, FirstBelongs
    <3>2. Tabled(f, S, n)
      BY <2>1, <3>1
    <3> HIDE DEF n, x
    <3>3. PICK g : g = [t \in SUBSET S |-> IF Cardinality(t) <= n THEN Unfolded(g, f, t) ELSE 0]
      BY <3>2 DEF Tabled
    <3> DEFINE h == [t \in SUBSET S |-> IF Cardinality(t) <= n + 1 THEN Unfolded(g, f, t) ELSE 0]
    <3>4. ASSUME NEW t \in SUBSET S, Cardinality(t) <= n PROVE h[t] = g[t]
      <4>1. Cardinality(t) <= n + 1 BY <3>1, <3>4, CardsOfSubsets
      <4> QED
          BY <4>1, <3>3, <3>4
    <3>5. ASSUME NEW t \in SUBSET S, Cardinality(t) <= n + 1 PROVE Unfolded(g, f, t) = Unfolded(h, f, t)
      <4>1. CASE t = {}
        BY <4>1 DEF Unfolded
      <4>2. CASE t # {}
        <5>1. First(t) \in t BY <4>2, FirstBelongs
        <5>2. t \ {First(t)} \in SUBSET S /\ Cardinality(t \ {First(t)}) <= n
          BY <5>1, <3>1, <3>5, CardsOfSubsets
        <5>3. g[t \ {First(t)}] = h[t \ {First(t)}]
          BY <5>2, <3>4
        <5> HIDE DEF h
        <5> QED
            BY <5>3, <4>2 DEF Unfolded
      <4> QED
          BY <4>1, <4>2
    <3>6. h = [t \in SUBSET S |-> IF Cardinality(t) <= n + 1 THEN Unfolded(h, f, t) ELSE 0]
      <4>1. h = [t \in SUBSET S |-> IF Cardinality(t) <= n + 1 THEN Unfolded(g, f, t) ELSE 0]
        OBVIOUS
      <4> HIDE DEF h
      <4> QED
          BY <4>1, <3>5
    <3> HIDE DEF h
    <3> QED
      BY <3>1, <3>6, <2>2 DEF Tabled
  <2> QED
    BY <2>3, <2>4
<1>2. Tabled(f, S, Cardinality(S))
  BY <1>1
<1>3. PICK g : g = [s \in SUBSET S |-> IF Cardinality(s) <= Cardinality(S) THEN Unfolded(g, f, s) ELSE 0]
  BY <1>2 DEF Tabled
<1>4. \A s \in SUBSET S : Cardinality(s) <= Cardinality(S)
  BY FS_Subset
<1>5. g = [s \in SUBSET S |-> Unfolded(g, f, s)]
  BY <1>3, <1>4
<1> QED
  BY <1>5

\* The sum over a finite set is the last entry of such a table.
LEMMA SumIsTabled ==
    ASSUME NEW f, NEW S, IsFiniteSet(S)
    PROVE  \E g : g = [s \in SUBSET S |-> Unfolded(g, f, s)] /\ SumFunctionOnSet(f, S) = g[S]
<1> DEFINE g == CHOOSE h : h = [s \in SUBSET S |-> Unfolded(h, f, s)]
<1>1. g = [s \in SUBSET S |-> Unfolded(g, f, s)]
  BY SumsAreTabled
<1>2. SumFunctionOnSet(f, S) = g[S]
  BY SumIsChosen
<1> HIDE DEF g
<1> QED
  BY <1>1, <1>2

\* Integers add up to integers.
LEMMA EntriesAreIntegers ==
    ASSUME NEW S, IsFiniteSet(S), NEW f \in [S -> Int],
           NEW g, g = [s \in SUBSET S |-> Unfolded(g, f, s)], NEW s \in SUBSET S
    PROVE  g[s] \in Int
<1> DEFINE T == {t \in SUBSET S : g[t] \notin Int}
<1>1. ASSUME T # {} PROVE FALSE
  <2>1. PICK t \in T : \A x \in t : t \ {x} \notin T
    <3>1. T \subseteq SUBSET S OBVIOUS
    <3> HIDE DEF T
    <3> QED
      BY <1>1, <3>1, SmallestSubset
  <2>2. t \in SUBSET S /\ g[t] \notin Int /\ g[t] = Unfolded(g, f, t)
    BY <2>1
  <2>3. t # {}
    BY <2>2 DEF Unfolded
  <2>4. First(t) \in t /\ First(t) \in S /\ t \ {First(t)} \in SUBSET S
    BY <2>2, <2>3, FirstBelongs
  <2>5. g[t \ {First(t)}] \in Int
    BY <2>1, <2>4
  <2> QED
    BY <2>2, <2>3, <2>4, <2>5 DEF Unfolded
<1> QED
  BY <1>1

LEMMA SumIsInteger ==
    ASSUME NEW S, IsFiniteSet(S), NEW f \in [S -> Int]
    PROVE  SumFunction(f) \in Int
<1>1. PICK g : g = [s \in SUBSET S |-> Unfolded(g, f, s)] /\ SumFunctionOnSet(f, S) = g[S]
  BY SumIsTabled
<1>2. g[S] \in Int
  BY <1>1, EntriesAreIntegers
<1> QED
  BY <1>1, <1>2 DEF SumFunction

\* A sum grows by no more than its summand at one index does.
LEMMA SumBounded ==
    ASSUME NEW S, IsFiniteSet(S), NEW f \in [S -> Int], NEW g \in [S -> Int],
           NEW x \in S, NEW d \in Int, f[x] <= g[x] + d,
           \A y \in S : y # x => f[y] <= g[y]
    PROVE  SumFunction(f) <= SumFunction(g) + d
<1>1. PICK F : F = [s \in SUBSET S |-> Unfolded(F, f, s)] /\ SumFunctionOnSet(f, S) = F[S]
  BY SumIsTabled
<1>2. PICK G : G = [s \in SUBSET S |-> Unfolded(G, g, s)] /\ SumFunctionOnSet(g, S) = G[S]
  BY SumIsTabled
<1> DEFINE Extra(s) == IF x \in s THEN d ELSE 0
<1> DEFINE T == {t \in SUBSET S : ~(F[t] <= G[t] + Extra(t))}
<1>3. ASSUME T # {} PROVE FALSE
  <2>1. PICK t \in T : \A y \in t : t \ {y} \notin T
    <3>1. T \subseteq SUBSET S OBVIOUS
    <3> HIDE DEF T
    <3> QED
      BY <1>3, <3>1, SmallestSubset
  <2>2. t \in SUBSET S /\ ~(F[t] <= G[t] + Extra(t))
    BY <2>1
  <2>3. F[t] = Unfolded(F, f, t) /\ G[t] = Unfolded(G, g, t)
    BY <2>2, <1>1, <1>2
  <2>4. t # {}
    BY <2>2, <2>3 DEF Unfolded
  <2> DEFINE y == First(t)
  <2> DEFINE u == t \ {y}
  <2>5. y \in t /\ y \in S /\ u \in SUBSET S
    BY <2>2, <2>4, FirstBelongs
  <2>6. F[u] <= G[u] + Extra(u)
    BY <2>1, <2>5
  <2>7. F[t] = f[y] + F[u] /\ G[t] = g[y] + G[u]
    BY <2>3, <2>4 DEF Unfolded
  <2>8. F[u] \in Int /\ G[u] \in Int
    BY <2>5, <1>1, <1>2, EntriesAreIntegers
  <2>9. f[y] \in Int /\ g[y] \in Int
    BY <2>5
  <2>10. x \in u <=> x \in t /\ x # y
    OBVIOUS
  <2> HIDE DEF y, u
  <2>11. CASE x = y
    <3>1. f[y] <= g[y] + d /\ Extra(u) = 0 /\ Extra(t) = d
      BY <2>5, <2>10, <2>11
    <3> HIDE DEF Extra
    <3> QED
      BY <3>1, <2>2, <2>6, <2>7, <2>8, <2>9
  <2>12. CASE x # y
    <3>1. f[y] <= g[y] /\ Extra(u) = Extra(t) /\ Extra(t) \in Int
      BY <2>5, <2>10, <2>12
    <3> HIDE DEF Extra
    <3> QED
      BY <3>1, <2>2, <2>6, <2>7, <2>8, <2>9
  <2> QED
    BY <2>11, <2>12
<1>4. F[S] <= G[S] + d
  BY <1>3
<1> QED
  BY <1>1, <1>2, <1>4 DEF SumFunction

\* The sum of smaller summands is smaller.
LEMMA SumMonotone ==
    ASSUME NEW S, IsFiniteSet(S), NEW f \in [S -> Int], NEW g \in [S -> Int],
           \A y \in S : f[y] <= g[y]
    PROVE  SumFunction(f) <= SumFunction(g)
<1>1. CASE S = {}
  <2>1. PICK F : F = [s \in SUBSET S |-> Unfolded(F, f, s)] /\ SumFunctionOnSet(f, S) = F[S]
    BY SumIsTabled
  <2>2. PICK G : G = [s \in SUBSET S |-> Unfolded(G, g, s)] /\ SumFunctionOnSet(g, S) = G[S]
    BY SumIsTabled
  <2>3. F[S] = 0 /\ G[S] = 0
    BY <1>1, <2>1, <2>2 DEF Unfolded
  <2> QED
    BY <2>1, <2>2, <2>3 DEF SumFunction
<1>2. CASE S # {}
  <2>1. PICK x \in S : TRUE
    BY <1>2
  <2>2. f[x] <= g[x] + 0
    BY <2>1
  <2>3. SumFunction(f) <= SumFunction(g) + 0
    BY <2>1, <2>2, SumBounded
  <2>4. SumFunction(g) \in Int
    BY SumIsInteger
  <2> QED
    BY <2>3, <2>4
<1> QED
  BY <1>1, <1>2

\* What is moved from one index to another leaves the sum as it is.
LEMMA SumMoved ==
    ASSUME NEW S, IsFiniteSet(S), NEW f \in [S -> Int], NEW g \in [S -> Int],
           NEW x \in S, NEW z \in S, x # z, f[x] + f[z] <= g[x] + g[z],
           \A y \in S : y # x /\ y # z => f[y] <= g[y]
    PROVE  SumFunction(f) <= SumFunction(g)
<1> DEFINE h == [g EXCEPT ![x] = f[x]]
<1>1. /\ h \in [S -> Int] /\ h[x] = f[x] /\ h[z] = g[z]
      /\ \A y \in S : y # x => h[y] = g[y]
  OBVIOUS
<1>2. SumFunction(h) <= SumFunction(g) + (f[x] - g[x])
  <2>1. f[x] - g[x] \in Int /\ h[x] <= g[x] + (f[x] - g[x])
    BY <1>1
  <2>2. \A y \in S : y # x => h[y] <= g[y]
    BY <1>1
  <2> HIDE DEF h
  <2> QED
    BY <1>1, <2>1, <2>2, SumBounded
<1>3. SumFunction(f) <= SumFunction(h) + (f[z] - g[z])
  <2>1. f[z] - g[z] \in Int /\ f[z] <= h[z] + (f[z] - g[z])
    BY <1>1
  <2>2. \A y \in S : y # z => f[y] <= h[y]
    BY <1>1
  <2> HIDE DEF h
  <2> QED
    BY <1>1, <2>1, <2>2, SumBounded
<1> HIDE DEF h
<1>4. SumFunction(f) \in Int /\ SumFunction(g) \in Int /\ SumFunction(h) \in Int
  BY <1>1, SumIsInteger
<1>5. f[x] \in Int /\ g[x] \in Int /\ f[z] \in Int /\ g[z] \in Int
  OBVIOUS
<1> QED
  BY <1>2, <1>3, <1>4, <1>5

\* Nothing adds up to nothing.
LEMMA SumOfZeros ==
    ASSUME NEW S, IsFiniteSet(S)
    PROVE  SumFunction([x \in S |-> 0]) = 0
<1> DEFINE f == [x \in S |-> 0]
<1>1. PICK g : g = [s \in SUBSET S |-> Unfolded(g, f, s)] /\ SumFunctionOnSet(f, S) = g[S]
  BY SumIsTabled
<1> DEFINE T == {t \in SUBSET S : g[t] # 0}
<1>2. ASSUME T # {} PROVE FALSE
  <2>1. PICK t \in T : \A x \in t : t \ {x} \notin T
    <3>1. T \subseteq SUBSET S OBVIOUS
    <3> HIDE DEF T
    <3> QED
      BY <1>2, <3>1, SmallestSubset
  <2>2. t \in SUBSET S /\ g[t] # 0 /\ g[t] = Unfolded(g, f, t)
    BY <1>1, <2>1
  <2>3. t # {}
    BY <2>2 DEF Unfolded
  <2>4. First(t) \in S /\ g[t \ {First(t)}] = 0
    BY <2>1, <2>2, <2>3, FirstBelongs
  <2> QED
    BY <2>2, <2>3, <2>4 DEF Unfolded
<1> QED
  BY <1>1, <1>2 DEF SumFunction

-----------------------------------------------------------------------------
(***************************************************************************)
(* The capacity walk, in a pool which purges no archives.                  *)
(***************************************************************************)

\* What is archived is never purged.  (The run SpentArchive shows what the
\* walk does to a volume of which a purged archive is left over.)
ArchivesStay == ~("archive" \in Policies /\ "reclaim" \in Calls)

\* No archive is being purged.
Unspent ==
    /\ \A p \in Procs : call[p] # "reclaim"
    /\ \A v \in Vols, i \in Incs : arcMeta[<<v, i>>].state # "reclaiming"
    /\ "archive" \notin Policies =>
           /\ \A v \in Vols : meta[v].state # "archiving"
           /\ \A v \in Vols, i \in Incs : ~Exists(arcMeta[<<v, i>>])

\* What the pool owes a volume, and an archive.
LEMMA VolumeOwes ==
    ASSUME NEW v \in Vols
    PROVE  Owed(v) = IF meta[v].state = "deleting" /\ payload[v] = NoPayload THEN 0
                     ELSE IF xint[v] # NoSpan THEN xint[v].to
                     ELSE IF Exists(intent[v]) THEN intent[v].size
                     ELSE IF meta[v].state \in {"live", "deleting"} THEN meta[v].size
                     ELSE 0
BY DEF Owed, Tombstone, CommittedSize

LEMMA ArchiveOwes ==
    ASSUME NEW v \in Vols, NEW i \in Incs, arcMeta[<<v, i>>].state # "reclaiming"
    PROVE  Owed(<<v, i>>) = IF meta[v].state = "archiving" /\ meta[v].inc = i
                            THEN meta[v].size ELSE arcMeta[<<v, i>>].size
<1> DEFINE a == <<v, i>>
<1>1. a \in Archives /\ a \notin Vols /\ a[1] = v /\ a[2] = i
  BY ConstantsAssumption DEF Archives
<1>2. arcMeta[a].state # "reclaiming"
  OBVIOUS
<1> HIDE DEF a
<1>3. Owed(a) = IF meta[v].state = "archiving" /\ meta[v].inc = i
                THEN meta[v].size ELSE arcMeta[a].size
  BY <1>1, <1>2 DEF Owed, Tombstone, CommittedSize, HandedOff
<1> QED
  BY <1>3 DEF a

\* Both are counted in bytes.
LEMMA SizesAreNatural == \A s \in SizesOrZero : s \in Nat /\ s \in Int
BY ConstantsAssumption DEF SizesOrZero

OwesBytes == \A id \in Ids : Owed(id) \in Nat

LEMMA OwedIsNatural == TypeOK => OwesBytes
BY OwedType, SizesAreNatural DEF OwesBytes

LEMMA RebuiltIsNatural == TypeOK => Rebuilt \in [Ids -> Nat]
<1> SUFFICES ASSUME TypeOK PROVE Rebuilt \in [Ids -> Nat]
  OBVIOUS
<1>1. Rebuilt \in [Ids -> SizesOrZero]
  BY RebuiltType
<1> QED
  BY <1>1, SizesAreNatural

\* The walk finds all that is owed, so that the rebuilt table covers it.
LEMMA RebuiltCovers ==
    ASSUME TypeOK, Unspent, NEW id \in Ids
    PROVE  /\ Owed(id) <= Rebuilt[id]
           /\ Owed(id) # 0 => Rebuilt[id] = Owed(id)
<1>1. Owed(id) \in Nat /\ Rebuilt[id] \in Nat
  BY OwedIsNatural, RebuiltIsNatural DEF OwesBytes
<1>2. Reservation(id) = Owed(id)
  <2>1. CASE id \in Vols /\ Spent(id)
    <3>1. ASSUME NEW i \in Incs PROVE ~Tombstone(<<id, i>>)
      <4> DEFINE a == <<id, i>>
      <4>1. a \in Archives /\ a \notin Vols /\ arcMeta[a].state # "reclaiming"
        BY <2>1, ConstantsAssumption DEF Archives, Unspent
      <4> HIDE DEF a
      <4>2. ~Tombstone(a)
        BY <4>1 DEF Tombstone
      <4> QED
        BY <4>2 DEF a
    <3>2. Tombstone(id)
      BY <2>1, <3>1 DEF Spent
    <3> QED
      BY <2>1, <3>2 DEF Reservation, Owed
  <2>2. CASE ~(id \in Vols /\ Spent(id))
    BY <2>2 DEF Reservation
  <2> QED
    BY <2>1, <2>2
<1>3. Owed(id) # 0 => Rebuilt[id] = Owed(id)
  BY <1>2 DEF Rebuilt
<1> QED
  BY <1>1, <1>3

\* The identities are finitely many if the volumes are.
LEMMA IdsFinite ==
    ASSUME IsFiniteSet(Vols) PROVE IsFiniteSet(Ids)
<1>1. IsFiniteSet(Incs)
  BY ConstantsAssumption, FS_Interval DEF Incs
<1>2. IsFiniteSet(Archives)
  BY <1>1, FS_Product DEF Archives
<1> QED
  BY <1>2, FS_Union DEF Ids

\* An admission that fits keeps the pool within its size, if it adds to the
\* rebuilt table no more than it has asked for.
LEMMA FittingAdmitted ==
    ASSUME IsFiniteSet(Vols), TypeOK, TypeOK', Unspent,
           NEW v \in Vols, NEW d \in Nat, Fits(d, Rebuilt),
           Owed(v)' <= Rebuilt[v] + d,
           \A id \in Ids : id # v => Owed(id)' <= Owed(id)
    PROVE  PoolNotOvercommitted'
<1> DEFINE f == [id \in Ids |-> Owed(id)']
<1>1. IsFiniteSet(Ids) /\ v \in Ids
  BY IdsFinite DEF Ids
<1>2. f \in [Ids -> Int]
  <2>1. OwesBytes'
    BY OwedIsNatural, PTL
  <2> QED
    BY <2>1 DEF OwesBytes
<1>3. Rebuilt \in [Ids -> Int]
  BY RebuiltIsNatural
<1>4. \A id \in Ids : id # v => f[id] <= Rebuilt[id]
  <2> SUFFICES ASSUME NEW id \in Ids, id # v PROVE Owed(id)' <= Rebuilt[id]
    OBVIOUS
  <2>1. Owed(id)' <= Owed(id) /\ Owed(id) <= Rebuilt[id]
    BY RebuiltCovers
  <2>2. Owed(id)' \in Int /\ Rebuilt[id] \in Int /\ Owed(id) \in Int
    BY <1>2, <1>3, OwedIsNatural DEF OwesBytes
  <2> QED
    BY <2>1, <2>2
<1>5. f[v] <= Rebuilt[v] + d
  BY <1>1
<1> HIDE DEF f
<1>6. SumFunction(f) <= SumFunction(Rebuilt) + d
  BY <1>1, <1>2, <1>3, <1>4, <1>5, SumBounded
<1>7. SumFunction(f) \in Int /\ SumFunction(Rebuilt) \in Int
  BY <1>1, <1>2, <1>3, SumIsInteger
<1>8. SumFunction(f) <= Total
  BY <1>6, <1>7, ConstantsAssumption DEF Fits
<1> QED
  BY <1>8 DEF f, PoolNotOvercommitted

\* So does every step that adds to what is owed to nobody.
Steady == \A id \in Ids : Owed(id)' <= Owed(id)

LEMMA SteadyKept ==
    ASSUME IsFiniteSet(Vols), TypeOK, TypeOK', Steady, PoolNotOvercommitted
    PROVE  PoolNotOvercommitted'
<1> DEFINE f == [id \in Ids |-> Owed(id)']
           g == [id \in Ids |-> Owed(id)]
<1>1. IsFiniteSet(Ids)
  BY IdsFinite
<1>2. f \in [Ids -> Int] /\ g \in [Ids -> Int]
  <2>1. OwesBytes /\ OwesBytes'
    BY OwedIsNatural, PTL
  <2> QED
    BY <2>1 DEF OwesBytes
<1>3. \A id \in Ids : f[id] <= g[id]
  BY DEF Steady
<1> HIDE DEF f, g
<1>4. SumFunction(f) <= SumFunction(g)
  BY <1>1, <1>2, <1>3, SumMonotone
<1>5. SumFunction(f) \in Int /\ SumFunction(g) \in Int
  BY <1>1, <1>2, SumIsInteger
<1>6. SumFunction(g) <= Total
  BY DEF g, PoolNotOvercommitted
<1>7. SumFunction(f) <= Total
  BY <1>4, <1>5, <1>6, ConstantsAssumption
<1> QED
  BY <1>7 DEF f, PoolNotOvercommitted

\* And a step that moves what is owed from one identity to another.
LEMMA MovedKept ==
    ASSUME IsFiniteSet(Vols), TypeOK, TypeOK', PoolNotOvercommitted,
           NEW x \in Ids, NEW z \in Ids, x # z,
           Owed(x)' + Owed(z)' <= Owed(x) + Owed(z),
           \A id \in Ids : id # x /\ id # z => Owed(id)' <= Owed(id)
    PROVE  PoolNotOvercommitted'
<1> DEFINE f == [id \in Ids |-> Owed(id)']
           g == [id \in Ids |-> Owed(id)]
<1>1. IsFiniteSet(Ids)
  BY IdsFinite
<1>2. f \in [Ids -> Int] /\ g \in [Ids -> Int]
  <2>1. OwesBytes /\ OwesBytes'
    BY OwedIsNatural, PTL
  <2> QED
    BY <2>1 DEF OwesBytes
<1>3. /\ f[x] + f[z] <= g[x] + g[z]
      /\ \A id \in Ids : id # x /\ id # z => f[id] <= g[id]
  OBVIOUS
<1> HIDE DEF f, g
<1>4. SumFunction(f) <= SumFunction(g)
  BY <1>1, <1>2, <1>3, SumMoved
<1>5. SumFunction(f) \in Int /\ SumFunction(g) \in Int
  BY <1>1, <1>2, SumIsInteger
<1>6. SumFunction(g) <= Total
  BY DEF g, PoolNotOvercommitted
<1>7. SumFunction(f) <= Total
  BY <1>4, <1>5, <1>6, ConstantsAssumption
<1> QED
  BY <1>7 DEF f, PoolNotOvercommitted

-----------------------------------------------------------------------------
(***************************************************************************)
(* The steps.                                                              *)
(***************************************************************************)

\* Steps that write the archive records, and those that write metadata.
WritesArchives(p)  == MoveMetadata(p) \/ MarkArchived(p) \/ ReclaimStep(p)
WritesMetadata(p)  == SaveMetadata(p) \/ FoldExpansion(p) \/ MarkDeleting(p)
                      \/ UnlinkMetadata(p) \/ PrepareArchive(p) \/ MoveMetadata(p)
                      \/ GrowMetadata(p)
WritesIntents(p)   == FinishCommitted(p) \/ Admit(p) \/ DropIntent(p)
                      \/ CancelIntent(p) \/ DropLeftover(p)
WritesSpans(p)     == DropExpansion(p) \/ Reserve(p) \/ FinishExpansion(p)

LEMMA Writers ==
    ASSUME NEW p \in Procs, Step(p)
    PROVE  /\ arcMeta' = arcMeta \/ WritesArchives(p)
           /\ meta' = meta \/ WritesMetadata(p)
           /\ intent' = intent \/ WritesIntents(p)
           /\ xint' = xint \/ WritesSpans(p)
<1>1. CASE Arrive(p)
  BY <1>1
     DEF Arrive, TakeIdentity, LookMetadata, LookIntent, ReadEvidence,
         TakeVolumeLock, Relook, Fail, files
<1>2. CASE CreateStep(p)
  BY <1>2
     DEF CreateStep, CreateBody, FinishCommitted, Reconcile, Admit, AdmitCommit,
         EnterCreation, MakePayload, SetQuota, SaveMetadata, DropIntent, RecordSize,
         Fail, files, WritesMetadata, WritesIntents
<1>3. CASE DeleteStep(p)
  BY <1>3
     DEF DeleteStep, DeleteBody, CancelPayload, CancelIntent, CancelCommit,
         FoldExpansion, DropExpansion, DropLeftover, MarkDeleting, DestroyPayload,
         ReleaseRow, UnlinkMetadata, PrepareArchive, MovePayload, MoveRow,
         MoveMetadata, MarkArchived, Fail, files,
         WritesArchives, WritesMetadata, WritesIntents, WritesSpans
<1>4. CASE ExpandStep(p)
  BY <1>4
     DEF ExpandStep, ExpandBody, Requota, Reserve, ReserveCommit, GrowQuota,
         GrowMetadata, FinishExpansion, Fail, files, WritesMetadata, WritesSpans
<1>5. CASE ReclaimStep(p)
  BY <1>5
     DEF ReclaimStep, ReclaimMark, ReclaimPayload, ReclaimRow, ReclaimUnlink,
         Fail, files, WritesArchives
<1> QED
  BY <1>1, <1>2, <1>3, <1>4, <1>5 DEF Step

\* No step of a call begins a purge, and none of a pool without archives
\* begins to archive.
LEMMA StepUnspent ==
    ASSUME Integrity, Resumable, Unspent, NEW p \in Procs, Step(p)
    PROVE  Unspent'
<1>1. /\ TypeOK /\ ProcOK(p) /\ Policed(p) /\ IInv
      /\ Frame(p) /\ GoesOn(p)
  BY StepFacts, StepKeeps DEF Resumable, Integrity, Alone
<1>2. \A q \in Procs : call'[q] # "reclaim"
  BY <1>1 DEF Frame, Same, GoesOn, Unspent
<1>3. ~ReclaimStep(p)
  BY <1>1 DEF ReclaimStep, ReclaimMark, ReclaimPayload, ReclaimRow, ReclaimUnlink,
              ProcOK, CallOK, ReclaimLabels, Unspent
<1>4. CASE MoveMetadata(p)
  <2>1. PICK v \in Vols : vol[p] = v
    BY <1>1, <1>4 DEF MoveMetadata, ProcOK, CallOK
  <2>2. meta[v].state = "archiving" \/ (~Exists(meta[v]) /\ Arriving(v))
    BY <1>1, <1>4, <2>1 DEF MoveMetadata, ProcOK, FileOK, DeleteOK
  <2>3. "archive" \in Policies
    BY <2>2 DEF Unspent, Arriving, Exists
  <2>4. CASE Exists(meta[v])
    <3> DEFINE a == <<v, meta[v].inc>>
    <3>1. arcMeta' = [arcMeta EXCEPT ![a] = meta[v]] /\ meta[v].state = "archiving"
      BY <1>4, <2>1, <2>2, <2>4 DEF MoveMetadata
    <3>2. arcMeta \in [Archives -> Archived] /\ \A w \in Vols, i \in Incs : <<w, i>> \in Archives
      BY <1>1 DEF TypeOK, DurableTyped, Archives
    <3> HIDE DEF a
    <3>3. \A b \in Archives : arcMeta'[b] \in {meta[v], arcMeta[b]}
      BY <3>1, <3>2
    <3> QED
      BY <1>2, <2>3, <3>1, <3>2, <3>3 DEF Unspent
  <2>5. CASE ~Exists(meta[v])
    BY <1>2, <1>4, <2>1, <2>3, <2>5 DEF MoveMetadata, Unspent
  <2> QED
    BY <2>4, <2>5
<1>5. CASE MarkArchived(p)
  <2>1. PICK v \in Vols : vol[p] = v
    BY <1>1, <1>5 DEF MarkArchived, ProcOK, CallOK
  <2>2. PICK i \in Incs : found[p].inc = i /\ arcMeta[<<v, i>>].state = "archiving"
    BY <1>1, <1>5, <2>1 DEF MarkArchived, ProcOK, FileOK, DeleteOK
  <2>3. "archive" \in Policies
    BY <2>2 DEF Unspent, Exists
  <2> DEFINE a == <<v, i>>
  <2>4. /\ a \in Archives /\ arcMeta' = [arcMeta EXCEPT ![a].state = "archived"]
        /\ \A w \in Vols, j \in Incs : <<w, j>> \in Archives
    BY <1>5, <2>1, <2>2 DEF MarkArchived, Archives
  <2>5. arcMeta \in [Archives -> Archived] /\ arcMeta[a].state = "archiving"
    BY <1>1, <2>2 DEF TypeOK, DurableTyped
  <2> HIDE DEF a
  <2>6. arcMeta'[a].state = "archived"
    BY <2>4, <2>5 DEF Archived, Kind, NoRec, Rec
  <2>7. \A b \in Archives : b # a => arcMeta'[b] = arcMeta[b]
    BY <2>4, <2>5
  <2> QED
    BY <1>2, <2>3, <2>4, <2>6, <2>7 DEF Unspent
<1>6. CASE ~MoveMetadata(p) /\ ~MarkArchived(p)
  <2>1. arcMeta' = arcMeta
    BY <1>3, <1>6, Writers DEF WritesArchives
  <2>2. ASSUME "archive" \notin Policies, NEW w \in Vols PROVE meta'[w].state # "archiving"
    <3>1. ~PrepareArchive(p)
      <4>1. policy # "archive"
        BY <1>1, <2>2 DEF TypeOK, DurableTyped
      <4> QED
        BY <1>1, <4>1 DEF PrepareArchive, Policed
    <3>2. meta[w].state # "archiving" /\ meta[w] \in Metadata
      BY <1>1, <2>2 DEF Unspent, TypeOK, DurableTyped
    <3>3. CASE meta' = meta
      BY <3>2, <3>3
    <3>4. CASE SaveMetadata(p) \/ UnlinkMetadata(p)
      BY <1>1, <3>2, <3>4 DEF SaveMetadata, UnlinkMetadata, TypeOK, DurableTyped, NoRec, Rec
    <3>5. CASE FoldExpansion(p) \/ GrowMetadata(p)
      <4>1. PICK u \in Vols : vol[p] = u
        BY <1>1, <3>5 DEF FoldExpansion, GrowMetadata, ProcOK, CallOK
      <4>2. \E s : meta' = meta \/ meta' = [meta EXCEPT ![u].size = s]
        BY <3>5, <4>1 DEF FoldExpansion, GrowMetadata, Fail, files
      <4> QED
        BY <1>1, <3>2, <4>1, <4>2 DEF TypeOK, DurableTyped, Metadata, Kind, NoRec, Rec
    <3>6. CASE MarkDeleting(p)
      <4>1. PICK u \in Vols : vol[p] = u
        BY <1>1, <3>6 DEF MarkDeleting, ProcOK, CallOK
      <4>2. meta' = meta \/ meta' = [meta EXCEPT ![u].state = "deleting"]
        BY <3>6, <4>1 DEF MarkDeleting, Fail, files
      <4> QED
        BY <1>1, <3>2, <4>1, <4>2 DEF TypeOK, DurableTyped, Metadata, Kind, NoRec, Rec
    <3> QED
      BY <1>6, <3>1, <3>3, <3>4, <3>5, <3>6, Writers DEF WritesMetadata
  <2> QED
    BY <1>2, <2>1, <2>2 DEF Unspent
<1> QED
  BY <1>4, <1>5, <1>6

LEMMA NextUnspent ==
    ArchivesStay /\ Integrity /\ Resumable /\ Unspent /\ [Next]_vars => Unspent'
<1> SUFFICES ASSUME ArchivesStay, Integrity, Resumable, Unspent, [Next]_vars
             PROVE  Unspent'
  OBVIOUS
<1>0. TypeOK
  BY DEF Integrity, Alone, IInv
<1>1. CASE \E p \in Procs : Step(p)
  BY <1>1, StepUnspent
<1>2. CASE \E p \in Procs : Start(p)
  <2>1. PICK p \in Procs : Start(p)
    BY <1>2
  <2>2. UNCHANGED files
    BY <2>1 DEF Start, StartCreate, StartDelete, StartExpand, StartReclaim, Begin
  <2>3. ~\E a \in Archives : StartReclaim(p, a)
    <3> SUFFICES ASSUME NEW a \in Archives, StartReclaim(p, a) PROVE FALSE
      OBVIOUS
    <3>1. PICK v \in Vols, i \in Incs : a = <<v, i>>
      BY DEF Archives
    <3>2. "reclaim" \in Calls /\ Exists(arcMeta[a])
      BY DEF StartReclaim, Begin, Exists
    <3> QED
      BY <3>1, <3>2 DEF ArchivesStay, Unspent
  <2>4. \E c \in {"create", "delete", "expand"} : call' = [call EXCEPT ![p] = c]
    BY <2>1, <2>3 DEF Start, StartCreate, StartDelete, StartExpand, Begin
  <2> QED
    BY <1>0, <2>2, <2>4 DEF Unspent, TypeOK, LocalsTyped, files, Exists
<1>3. CASE \E p \in Procs : Abandon(p)
  BY <1>0, <1>3 DEF Abandon, Fail, Leave, Unspent, TypeOK, LocalsTyped, files, Exists
<1>4. CASE ChangePolicy \/ UNCHANGED vars
  BY <1>4 DEF ChangePolicy, vars, files, locals, Unspent, Exists
<1> QED
  BY <1>1, <1>2, <1>3, <1>4 DEF Next

LEMMA InitUnspent == Init => Unspent
BY DEF Init, Unspent, Archives, Exists, NoRec, Rec

\* A step that works on one volume leaves the others and their archives.
Elsewhere(v) ==
    \A w \in Vols \ {v} :
        /\ intent'[w] = intent[w] /\ meta'[w] = meta[w] /\ xint'[w] = xint[w]
        /\ payload'[w] = payload[w]
        /\ \A i \in Incs : arcMeta'[<<w, i>>] = arcMeta[<<w, i>>]

LEMMA ElsewhereSame ==
    ASSUME Unspent, Unspent', NEW v \in Vols, Elsewhere(v),
           NEW id \in Ids, id # v, \A i \in Incs : id # <<v, i>>
    PROVE  Owed(id)' = Owed(id)
<1>1. CASE id \in Vols
  <2>1. /\ intent'[id] = intent[id] /\ meta'[id] = meta[id] /\ xint'[id] = xint[id]
        /\ payload'[id] = payload[id]
    BY <1>1 DEF Elsewhere
  <2> QED
    BY <1>1, <2>1 DEF Owed, Tombstone, CommittedSize, Exists
<1>2. CASE id \notin Vols
  <2>1. PICK w \in Vols, i \in Incs : id = <<w, i>>
    BY <1>2 DEF Ids, Archives
  <2>2. id \in Archives /\ id[1] = w /\ id[2] = i /\ w # v
    BY <2>1 DEF Archives
  <2>3. meta'[w] = meta[w] /\ arcMeta'[id] = arcMeta[id]
    BY <2>1, <2>2 DEF Elsewhere
  <2>4. arcMeta[id].state # "reclaiming"
    BY <2>1 DEF Unspent
  <2> QED
    BY <1>2, <2>2, <2>3, <2>4 DEF Owed, Tombstone, CommittedSize, HandedOff
<1> QED
  BY <1>1, <1>2

\* Such a step has to account for its volume and for its archives.
LEMMA SteadyAt ==
    ASSUME TypeOK, Unspent, Unspent', NEW v \in Vols, Elsewhere(v),
           Owed(v)' <= Owed(v),
           \A i \in Incs : \/ meta'[v].state = "archiving" /\ meta'[v].inc = i
                                /\ meta[v].state = "archiving" /\ meta[v].inc = i
                                /\ meta'[v].size = meta[v].size
                           \/ /\ ~(meta'[v].state = "archiving" /\ meta'[v].inc = i)
                              /\ ~(meta[v].state = "archiving" /\ meta[v].inc = i)
                              /\ arcMeta'[<<v, i>>].size = arcMeta[<<v, i>>].size
    PROVE  Steady
<1> SUFFICES ASSUME NEW id \in Ids PROVE Owed(id)' <= Owed(id)
  BY DEF Steady
<1>1. Owed(id) \in Nat
  BY OwedIsNatural DEF OwesBytes
<1>2. CASE id = v
  BY <1>2
<1>3. ASSUME NEW i \in Incs, id = <<v, i>> PROVE Owed(id)' <= Owed(id)
  <2>1. /\ id \in Archives /\ id \notin Vols /\ id[1] = v /\ id[2] = i
    BY <1>3, ConstantsAssumption DEF Archives
  <2>2. arcMeta[id].state # "reclaiming" /\ arcMeta'[id].state # "reclaiming"
    BY <1>3 DEF Unspent
  <2>3. Owed(id) = IF meta[v].state = "archiving" /\ meta[v].inc = i
                   THEN meta[v].size ELSE arcMeta[id].size
    BY <2>1, <2>2 DEF Owed, Tombstone, CommittedSize, HandedOff
  <2>4. Owed(id)' = IF meta'[v].state = "archiving" /\ meta'[v].inc = i
                    THEN meta'[v].size ELSE arcMeta'[id].size
    BY <2>1, <2>2 DEF Owed, Tombstone, CommittedSize, HandedOff
  <2>5. Owed(id)' = Owed(id)
    BY <1>3, <2>3, <2>4
  <2> QED
    BY <1>1, <2>5
<1>4. CASE id # v /\ \A i \in Incs : id # <<v, i>>
  <2>1. Owed(id)' = Owed(id)
    BY <1>4, ElsewhereSame
  <2> QED
    BY <1>1, <2>1
<1> QED
  BY <1>2, <1>3, <1>4

\* Of a payload the walk only sees whether a tombstone has lost it.
LEMMA QuietSteady ==
    ASSUME TypeOK, Unspent, UNCHANGED <<intent, meta, xint, arcMeta>>,
           \A v \in Vols : meta[v].state = "deleting" /\ payload[v] = NoPayload
                              => payload'[v] = NoPayload
    PROVE  Steady
<1> SUFFICES ASSUME NEW id \in Ids PROVE Owed(id)' <= Owed(id)
  BY DEF Steady
<1>1. Owed(id) \in Nat
  BY OwedIsNatural DEF OwesBytes
<1>2. CASE id \in Vols
  <2>1. Owed(id)' = Owed(id) \/ Owed(id)' = 0
    BY <1>2 DEF Owed, Tombstone, CommittedSize
  <2> QED
    BY <1>1, <2>1
<1>3. CASE id \notin Vols
  <2>1. PICK w \in Vols, i \in Incs : id = <<w, i>>
    BY <1>3 DEF Ids, Archives
  <2>2. arcMeta[id].state # "reclaiming"
    BY <2>1 DEF Unspent
  <2>3. Owed(id)' = Owed(id)
    BY <1>3, <2>2 DEF Owed, Tombstone, CommittedSize, HandedOff
  <2> QED
    BY <1>1, <2>3
<1> QED
  BY <1>2, <1>3

\* Calls that write neither intents nor metadata nor archive records.
LEMMA OtherSteady ==
    ASSUME Integrity, Unspent, NEW p \in Procs, Step(p),
           UNCHANGED <<intent, meta, xint, arcMeta>>
    PROVE  Steady
<1>1. TypeOK /\ IInv /\ ProcOK(p) /\ Knows(p)
  BY StepFacts
<1>2. CASE MakePayload(p) \/ SetQuota(p)
  <2>1. PICK v \in Vols : vol[p] = v
    BY <1>1, <1>2 DEF MakePayload, SetQuota, ProcOK, CallOK
  <2>2. ~Exists(meta[v])
    BY <1>1, <1>2, <2>1 DEF MakePayload, SetQuota, Knows, Unlocked, HasMetadata
  <2>3. \A w \in Vols : w # v => payload'[w] = payload[w]
    BY <1>1, <1>2, <2>1 DEF MakePayload, SetQuota, TypeOK, DurableTyped
  <2>4. \A w \in Vols : meta[w].state = "deleting" => w # v
    BY <2>2 DEF Exists
  <2> QED
    BY <1>1, <2>3, <2>4, QuietSteady
<1>3. CASE Requota(p) \/ GrowQuota(p)
  <2>1. PICK v \in Vols : vol[p] = v
    BY <1>1, <1>3 DEF Requota, GrowQuota, ProcOK, CallOK
  <2>2. meta[v].state = "live"
    BY <1>1, <1>3, <2>1 DEF Requota, GrowQuota, Knows, LockedExpand, Expanding
  <2>3. \A w \in Vols : w # v => payload'[w] = payload[w]
    BY <1>1, <1>3, <2>1 DEF Requota, GrowQuota, QuotaSet, TypeOK, DurableTyped
  <2>4. \A w \in Vols : meta[w].state = "deleting" => w # v
    BY <2>2
  <2> QED
    BY <1>1, <2>3, <2>4, QuietSteady
<1>4. CASE CancelPayload(p) \/ DestroyPayload(p) \/ MovePayload(p)
  <2>1. payload' = payload \/ \E v : payload' = [payload EXCEPT ![v] = NoPayload]
    BY <1>4 DEF CancelPayload, DestroyPayload, MovePayload, Emptied, Fail, files
  <2>2. \A w \in Vols : payload[w] = NoPayload => payload'[w] = NoPayload
    BY <1>1, <2>1 DEF TypeOK, DurableTyped
  <2> QED
    BY <1>1, <2>2, QuietSteady
<1>5. CASE UNCHANGED payload
  BY <1>1, <1>5, QuietSteady
<1>6. \/ UNCHANGED payload
      \/ MakePayload(p) \/ SetQuota(p) \/ Requota(p) \/ GrowQuota(p)
      \/ CancelPayload(p) \/ DestroyPayload(p) \/ MovePayload(p)
  <2>1. CASE Arrive(p)
    BY <2>1
       DEF Arrive, TakeIdentity, LookMetadata, LookIntent, ReadEvidence,
           TakeVolumeLock, Relook, Fail, files
  <2>2. CASE CreateStep(p)
    BY <2>2
       DEF CreateStep, CreateBody, FinishCommitted, Reconcile, Admit, AdmitCommit,
           EnterCreation, SaveMetadata, DropIntent, RecordSize, Fail, files
  <2>3. CASE DeleteStep(p)
    BY <2>3
       DEF DeleteStep, DeleteBody, CancelIntent, CancelCommit, FoldExpansion,
           DropExpansion, DropLeftover, MarkDeleting, ReleaseRow, UnlinkMetadata,
           PrepareArchive, MoveRow, MoveMetadata, MarkArchived, Fail, files
  <2>4. CASE ExpandStep(p)
    BY <2>4
       DEF ExpandStep, ExpandBody, Reserve, ReserveCommit, GrowMetadata,
           FinishExpansion, Fail, files
  <2>5. CASE ReclaimStep(p)
    BY <2>5
       DEF ReclaimStep, ReclaimMark, ReclaimPayload, ReclaimRow, ReclaimUnlink,
           Fail, files
  <2> QED
    BY <2>1, <2>2, <2>3, <2>4, <2>5 DEF Step
<1> QED
  BY <1>2, <1>3, <1>4, <1>5, <1>6

\* An intent is dropped when the metadata owes as much or nothing does.
LEMMA IntentSteady ==
    ASSUME Integrity, Unspent, Unspent', NEW p \in Procs, ~Fail(p),
           FinishCommitted(p) \/ DropIntent(p) \/ CancelIntent(p) \/ DropLeftover(p)
    PROVE  Steady
<1>1. Step(p)
  BY DEF Step, CreateStep, DeleteStep
<1>2. TypeOK /\ ProcOK(p)
  BY <1>1, StepFacts
<1>3. PICK v \in Vols : vol[p] = v
  BY <1>2 DEF FinishCommitted, DropIntent, CancelIntent, DropLeftover, ProcOK, CallOK
<1>4. /\ UNCHANGED <<meta, xint, payload, arcMeta>>
      /\ intent'[v] = NoRec /\ \A w \in Vols \ {v} : intent'[w] = intent[w]
  BY <1>2, <1>3
     DEF FinishCommitted, DropIntent, CancelIntent, DropLeftover, TypeOK, DurableTyped
<1>5. Owed(v)' <= Owed(v)
  <2>1. LiveOK(v) /\ GoneOK(v)
    BY DEF Integrity, Sound
  <2>2. Owed(v)' = Owed(v) \/ Owed(v)' = 0
    BY <1>4, <2>1 DEF Owed, Tombstone, CommittedSize, Exists, NoRec, Rec, LiveOK, GoneOK
  <2>3. Owed(v) \in Nat
    BY <1>2, OwedIsNatural DEF OwesBytes, Ids
  <2> QED
    BY <2>2, <2>3
<1>6. Elsewhere(v)
  BY <1>4 DEF Elsewhere
<1> QED
  BY <1>2, <1>4, <1>5, <1>6, SteadyAt

\* A pending expansion is dropped when the metadata has one of its sizes.
LEMMA SpanSteady ==
    ASSUME Integrity, Unspent, Unspent', NEW p \in Procs, ~Fail(p),
           DropExpansion(p) \/ FinishExpansion(p)
    PROVE  Steady
<1>1. Step(p)
  BY DEF Step, DeleteStep, ExpandStep
<1>2. TypeOK /\ ProcOK(p)
  BY <1>1, StepFacts
<1>3. PICK v \in Vols : vol[p] = v
  BY <1>2 DEF DropExpansion, FinishExpansion, ProcOK, CallOK
<1>4. /\ UNCHANGED <<meta, intent, payload, arcMeta>>
      /\ xint'[v] = NoSpan /\ \A w \in Vols \ {v} : xint'[w] = xint[w]
  BY <1>2, <1>3 DEF DropExpansion, FinishExpansion, TypeOK, DurableTyped
<1>5. Owed(v)' <= Owed(v)
  <2>1. Owed(v) \in Nat
    BY <1>2, OwedIsNatural DEF OwesBytes, Ids
  <2>2. CASE xint[v] = NoSpan
    <3>1. Owed(v)' = Owed(v)
      BY <1>4, <2>2 DEF Owed, Tombstone, CommittedSize, Exists
    <3> QED
      BY <2>1, <3>1
  <2>3. CASE xint[v] # NoSpan
    <3>1. /\ meta[v].state = "live" /\ ~Exists(intent[v])
          /\ xint[v].from <= xint[v].to /\ meta[v].size \in {xint[v].from, xint[v].to}
      BY <2>3 DEF Integrity, Sound, SpanOK
    <3>2. Owed(v) = xint[v].to /\ Owed(v)' = meta[v].size
      BY <1>4, <2>3, <3>1 DEF Owed, Tombstone, CommittedSize, Exists
    <3> QED
      BY <2>1, <3>1, <3>2
  <2> QED
    BY <2>2, <2>3
<1>6. Elsewhere(v)
  BY <1>4 DEF Elsewhere
<1> QED
  BY <1>2, <1>4, <1>5, <1>6, SteadyAt

\* What the metadata promises changes only where an intent promises as much.
LEMMA MetadataSteady ==
    ASSUME Integrity, Unspent, Unspent', NEW p \in Procs, ~Fail(p),
           \/ SaveMetadata(p) \/ FoldExpansion(p) \/ MarkDeleting(p)
           \/ UnlinkMetadata(p) \/ GrowMetadata(p)
    PROVE  Steady
<1>1. Step(p)
  BY DEF Step, CreateStep, DeleteStep, ExpandStep
<1>2. TypeOK /\ TypeOK' /\ ProcOK(p) /\ Knows(p)
  BY <1>1, StepFacts
<1>3. PICK v \in Vols : vol[p] = v
  BY <1>2 DEF SaveMetadata, FoldExpansion, MarkDeleting, UnlinkMetadata, GrowMetadata,
              ProcOK, CallOK
<1>4. /\ UNCHANGED <<xint, intent, payload, arcMeta>>
      /\ \A w \in Vols \ {v} : meta'[w] = meta[w]
  BY <1>2, <1>3
     DEF SaveMetadata, FoldExpansion, MarkDeleting, UnlinkMetadata, GrowMetadata,
         files, TypeOK, DurableTyped
<1>5. Owed(v) \in Nat /\ Owed(v)' \in Nat
  <2>1. OwesBytes /\ OwesBytes'
    BY <1>2, OwedIsNatural, PTL
  <2> QED
    BY <2>1 DEF OwesBytes, Ids
<1>6. meta[v] \in Metadata /\ meta'[v] \in Metadata /\ Sound(v)
  BY <1>2 DEF TypeOK, DurableTyped, Integrity
<1>7. CASE SaveMetadata(p)
  <2>1. ~HasMetadata(v) /\ Exists(intent[v]) /\ intent[v].size = req[p]
    BY <1>2, <1>3, <1>7 DEF SaveMetadata, Knows, Unlocked, LockedCreate
  <2>2. xint[v] = NoSpan /\ meta[v].state = "absent"
    BY <1>6, <2>1 DEF Sound, SpanOK, HasMetadata, Exists
  <2>3. meta'[v].state = "live"
    BY <1>2, <1>3, <1>7 DEF SaveMetadata, Rec, TypeOK, DurableTyped
  <2>4. Owed(v)' = Owed(v)
    BY <1>4, <2>1, <2>2, <2>3 DEF Owed, Tombstone, CommittedSize, Exists
  <2> QED
    BY <1>2, <1>4, <1>5, <2>2, <2>3, <2>4, SteadyAt DEF Elsewhere
<1>8. CASE FoldExpansion(p) \/ GrowMetadata(p)
  <2>1. CASE meta' = meta
    <3>1. payload[v] = NoPayload => payload'[v] = NoPayload
      BY <1>4
    <3> QED
      BY <1>2, <1>4, <2>1, QuietSteady
  <2>2. CASE meta' # meta
    <3>1. xint[v] # NoSpan /\ meta[v].state = "live"
      <4>1. CASE FoldExpansion(p)
        BY <1>3, <1>6, <2>2, <4>1 DEF FoldExpansion, Sound, SpanOK, files
      <4>2. CASE GrowMetadata(p)
        <5>1. xint[v] = [from |-> found[p].size, to |-> req[p]] /\ meta[v].state = "live"
          BY <1>2, <1>3, <4>2
             DEF GrowMetadata, Knows, LockedExpand, Growing, Expanding
        <5>2. req[p] # 0
          BY <1>2, <4>2, ConstantsAssumption
             DEF GrowMetadata, ProcOK, CallOK, Expanding
        <5> QED
          BY <5>1, <5>2 DEF NoSpan
      <4> QED
        BY <1>8, <4>1, <4>2
    <3>2. meta'[v].state = "live"
      <4>1. \E s : meta' = [meta EXCEPT ![v].size = s]
        BY <1>3, <1>8, <2>2 DEF FoldExpansion, GrowMetadata, files
      <4> QED
        BY <1>2, <1>6, <3>1, <4>1 DEF TypeOK, DurableTyped, Metadata, Kind, NoRec, Rec
    <3>3. Owed(v)' = Owed(v)
      BY <1>4, <3>1, <3>2 DEF Owed, Tombstone, CommittedSize
    <3> QED
      BY <1>2, <1>4, <1>5, <3>1, <3>2, <3>3, SteadyAt DEF Elsewhere
  <2> QED
    BY <2>1, <2>2
<1>9. CASE MarkDeleting(p)
  <2>1. xint[v] = NoSpan /\ ~Exists(intent[v])
    BY <1>2, <1>3, <1>9
       DEF MarkDeleting, Knows, LockedDelete, Settled, Removing, ProcOK, FileOK, DeleteOK
  <2>2. MetadataOf(v).state \in {"live", "deleting"}
    BY <1>3, <1>9 DEF MarkDeleting, Deletable
  <2>3. meta[v].state \in {"live", "deleting"}
    BY <1>2, <2>2, MetadataOfFacts DEF HasMetadata, NoRec, Rec, Exists
  <2>4. meta'[v].state = "deleting" /\ meta'[v].size = meta[v].size
    BY <1>2, <1>3, <1>6, <1>9, <2>3
       DEF MarkDeleting, TypeOK, DurableTyped, Metadata, Kind, NoRec, Rec
  <2>5. Owed(v)' = Owed(v) \/ Owed(v)' = 0
    BY <1>4, <2>1, <2>3, <2>4 DEF Owed, Tombstone, CommittedSize, Exists
  <2>6. Owed(v)' <= Owed(v)
    BY <1>5, <2>5
  <2> QED
    BY <1>2, <1>4, <2>3, <2>4, <2>6, SteadyAt DEF Elsewhere
<1>10. CASE UnlinkMetadata(p)
  <2>1. xint[v] = NoSpan /\ ~Exists(intent[v]) /\ meta[v].state = "deleting"
    BY <1>2, <1>3, <1>10
       DEF UnlinkMetadata, Knows, LockedDelete, Settled, Removing, ProcOK, FileOK, DeleteOK
  <2>2. meta'[v].state = "absent"
    BY <1>2, <1>3, <1>10 DEF UnlinkMetadata, NoRec, Rec, TypeOK, DurableTyped
  <2>3. Owed(v)' = 0
    BY <1>4, <2>1, <2>2 DEF Owed, Tombstone, CommittedSize, Exists
  <2>4. Owed(v)' <= Owed(v)
    BY <1>5, <2>3
  <2> QED
    BY <1>2, <1>4, <2>1, <2>2, <2>4, SteadyAt DEF Elsewhere
<1> QED
  BY <1>7, <1>8, <1>9, <1>10

\* _prepare_archive hands what is owed to the volume over to the archive.
LEMMA PrepareKept ==
    ASSUME IsFiniteSet(Vols), OnePolicy, Integrity, Resumable, Unspent, Unspent',
           PoolNotOvercommitted, NEW p \in Procs, ~Fail(p), PrepareArchive(p)
    PROVE  PoolNotOvercommitted'
<1>1. Step(p)
  BY DEF Step, DeleteStep
<1>2. TypeOK /\ TypeOK' /\ ProcOK(p) /\ Knows(p) /\ IInv /\ Policed(p)
  BY <1>1, StepFacts DEF Resumable
<1>3. PICK v \in Vols : vol[p] = v
  BY <1>2 DEF PrepareArchive, ProcOK, CallOK
<1>4. UNCHANGED <<xint, intent, payload, arcMeta>>
  BY DEF PrepareArchive
<1>5. /\ xint[v] = NoSpan /\ ~Exists(intent[v]) /\ policy = "archive"
      /\ meta[v] \in Metadata /\ policy \in Policies
  BY <1>2, <1>3
     DEF PrepareArchive, Knows, LockedDelete, Settled, Removing, ProcOK, FileOK,
         DeleteOK, Policed, TypeOK, DurableTyped
<1>6. meta[v].state # "deleting"
  BY <1>5 DEF OnePolicy, Resumable, Whole
<1>7. CASE meta[v].state # "live"
  <2>1. meta[v].state = "archiving" \/ ~Exists(meta[v])
    BY <1>5, <1>6, <1>7 DEF Metadata, Kind, NoRec, Rec, Exists
  <2>2. meta' = meta
    <3>1. CASE meta[v].state = "archiving"
      <4>1. [meta[v] EXCEPT !.state = "archiving"] = meta[v]
        BY <1>5, <3>1 DEF Metadata, Kind, NoRec, Rec
      <4>2. meta' = [meta EXCEPT ![v] = [meta[v] EXCEPT !.state = "archiving"]]
        BY <1>3, <3>1 DEF PrepareArchive, Exists
      <4> QED
        BY <1>2, <4>1, <4>2 DEF TypeOK, DurableTyped
    <3>2. CASE ~Exists(meta[v])
      BY <1>3, <3>2 DEF PrepareArchive
    <3> QED
      BY <2>1, <3>1, <3>2
  <2>3. Steady
    BY <1>2, <1>4, <2>2, QuietSteady
  <2> QED
    BY <1>2, <2>3, SteadyKept
<1>8. CASE meta[v].state = "live"
  <2>1. PICK i \in Incs : meta[v].inc = i
    BY <1>2, <1>8, RecordFacts DEF Exists
  <2>2. /\ meta'[v].state = "archiving" /\ meta'[v].inc = i
        /\ meta'[v].size = meta[v].size
        /\ \A w \in Vols \ {v} : meta'[w] = meta[w]
    BY <1>2, <1>3, <1>5, <1>8, <2>1
       DEF PrepareArchive, TypeOK, DurableTyped, Metadata, Kind, NoRec, Rec, Exists
  <2> DEFINE a == <<v, i>>
  <2>3. a \in Archives /\ a \in Ids /\ v \in Ids /\ a # v
    BY <2>1, ConstantsAssumption DEF Archives, Ids
  <2>4. ~Exists(arcMeta[a])
    BY <1>2, <1>8, <2>1 DEF IInv, GenerationOK, Exists
  <2>5. arcMeta[a].size = 0
    BY <1>2, <2>3, <2>4 DEF TypeOK, DurableTyped, Archived, Kind, NoRec, Rec, Exists
  <2>6. arcMeta[a].state # "reclaiming"
    BY <2>1 DEF Unspent
  <2>7. Owed(v) = meta[v].size /\ Owed(v)' = 0
    BY <1>4, <1>5, <1>8, <2>2 DEF Owed, Tombstone, CommittedSize, Exists
  <2>8. Owed(a) = 0
    BY <1>8, <2>1, <2>5, <2>6, ArchiveOwes
  <2>9. Owed(a)' = meta[v].size
    <3>1. a \notin Vols /\ a[1] = v /\ a[2] = i
      BY <2>3, ConstantsAssumption
    <3> HIDE DEF a
    <3> QED
      BY <1>4, <2>2, <2>6, <3>1 DEF Owed, Tombstone, CommittedSize, HandedOff
  <2>10. ASSUME NEW id \in Ids, id # v, id # a PROVE Owed(id)' <= Owed(id)
    <3>1. Owed(id) \in Nat
      BY <1>2, OwedIsNatural DEF OwesBytes
    <3>2. CASE \A j \in Incs : id # <<v, j>>
      <4>1. Elsewhere(v)
        BY <1>4, <2>2 DEF Elsewhere
      <4>2. Owed(id)' = Owed(id)
        BY <2>10, <3>2, <4>1, ElsewhereSame
      <4> QED
        BY <3>1, <4>2
    <3>3. ASSUME NEW j \in Incs, id = <<v, j>> PROVE Owed(id)' <= Owed(id)
      <4>1. j # i /\ arcMeta[<<v, j>>].state # "reclaiming"
        BY <2>10, <3>3 DEF Unspent
      <4>2. Owed(id) = arcMeta[<<v, j>>].size
        BY <1>8, <3>3, <4>1, ArchiveOwes
      <4>3. Owed(id)' = arcMeta[<<v, j>>].size
        <5>1. id \notin Vols /\ id[1] = v /\ id[2] = j /\ arcMeta[id].state # "reclaiming"
          BY <3>3, <4>1, ConstantsAssumption DEF Archives
        <5>2. arcMeta[id].size = arcMeta[<<v, j>>].size
          BY <3>3
        <5> QED
          BY <1>4, <2>2, <4>1, <5>1, <5>2 DEF Owed, Tombstone, CommittedSize, HandedOff
      <4> QED
        BY <3>1, <4>2, <4>3
    <3> QED
      BY <3>2, <3>3
  <2>11. meta[v].size \in Nat
    BY <1>2, <2>3, <2>7, OwedIsNatural DEF OwesBytes
  <2>12. Owed(v)' + Owed(a)' <= Owed(v) + Owed(a)
    BY <2>7, <2>8, <2>9, <2>11
  <2> HIDE DEF a
  <2> QED
    BY <1>2, <2>3, <2>10, <2>12, MovedKept
<1> QED
  BY <1>7, <1>8

\* The hand-off, and the last mark on the archive: the record owes the same.
LEMMA HandOffSteady ==
    ASSUME Integrity, Resumable, Unspent, Unspent', NEW p \in Procs, ~Fail(p),
           MoveMetadata(p) \/ MarkArchived(p)
    PROVE  Steady
<1>1. Step(p)
  BY DEF Step, DeleteStep
<1>2. TypeOK /\ TypeOK' /\ ProcOK(p) /\ Knows(p) /\ IInv
  BY <1>1, StepFacts
<1>3. PICK v \in Vols : vol[p] = v
  BY <1>2 DEF MoveMetadata, MarkArchived, ProcOK, CallOK
<1>4. UNCHANGED <<xint, intent, payload>>
  BY DEF MoveMetadata, MarkArchived
<1>5. arcMeta \in [Archives -> Archived] /\ meta \in [Vols -> Metadata]
  BY <1>2 DEF TypeOK, DurableTyped
<1>6. CASE MarkArchived(p)
  <2>1. PICK i \in Incs : found[p].inc = i /\ arcMeta[<<v, i>>].state = "archiving"
    BY <1>2, <1>3, <1>6 DEF MarkArchived, ProcOK, FileOK, DeleteOK
  <2> DEFINE a == <<v, i>>
  <2>2. a \in Archives /\ arcMeta' = [arcMeta EXCEPT ![a].state = "archived"] /\ UNCHANGED meta
    BY <1>3, <1>6, <2>1 DEF MarkArchived, Archives
  <2>3. \A w \in Vols, j \in Incs : <<w, j>> \in Archives /\ (w # v => <<w, j>> # a)
    BY DEF Archives
  <2> HIDE DEF a
  <2>4. \A b \in Archives : arcMeta'[b].size = arcMeta[b].size /\ (b # a => arcMeta'[b] = arcMeta[b])
    BY <1>5, <2>2 DEF Archived, Kind, NoRec, Rec
  <2>5. Elsewhere(v)
    BY <1>4, <2>2, <2>3, <2>4 DEF Elsewhere
  <2>6. Owed(v)' = Owed(v) /\ Owed(v) \in Nat
    BY <1>2, <1>4, <2>2, OwedIsNatural DEF Owed, Tombstone, CommittedSize, OwesBytes, Ids
  <2>7. Owed(v)' <= Owed(v)
    BY <2>6
  <2> QED
    BY <1>2, <2>2, <2>3, <2>4, <2>5, <2>7, SteadyAt
<1>7. CASE MoveMetadata(p) /\ ~Exists(meta[v])
  <2>1. UNCHANGED <<meta, arcMeta>>
    BY <1>3, <1>7 DEF MoveMetadata
  <2> QED
    BY <1>2, <1>4, <2>1, QuietSteady
<1>8. CASE MoveMetadata(p) /\ Exists(meta[v])
  <2>1. /\ meta[v].state = "archiving" /\ xint[v] = NoSpan /\ ~Exists(intent[v])
    BY <1>2, <1>3, <1>8
       DEF MoveMetadata, Knows, LockedDelete, Settled, Removing, ProcOK, FileOK, DeleteOK
  <2>2. PICK i \in Incs : meta[v].inc = i
    BY <1>2, <1>8, RecordFacts
  <2> DEFINE a == <<v, i>>
  <2>3. /\ a \in Archives /\ arcMeta' = [arcMeta EXCEPT ![a] = meta[v]]
        /\ meta' = [meta EXCEPT ![v] = NoRec]
    BY <1>3, <1>8, <2>2 DEF MoveMetadata, Archives
  <2>4. \A w \in Vols, j \in Incs : <<w, j>> \in Archives /\ (w # v \/ j # i => <<w, j>> # a)
    BY DEF Archives
  <2>5. meta'[v].state = "absent" /\ \A w \in Vols \ {v} : meta'[w] = meta[w]
    BY <1>5, <2>3 DEF NoRec, Rec
  <2> HIDE DEF a
  <2>6. arcMeta'[a] = meta[v] /\ \A b \in Archives : b # a => arcMeta'[b] = arcMeta[b]
    BY <1>5, <2>3
  <2>7. Elsewhere(v)
    BY <1>4, <2>4, <2>5, <2>6 DEF Elsewhere
  <2> SUFFICES ASSUME NEW id \in Ids PROVE Owed(id)' <= Owed(id)
    BY DEF Steady
  <2>8. Owed(id) \in Nat
    BY <1>2, OwedIsNatural DEF OwesBytes
  <2>9. CASE id = v
    <3>1. Owed(v)' = 0
      BY <1>4, <2>1, <2>5 DEF Owed, Tombstone, CommittedSize, Exists
    <3> QED
      BY <2>8, <2>9, <3>1
  <2>10. ASSUME NEW j \in Incs, id = <<v, j>> PROVE Owed(id)' <= Owed(id)
    <3>1. /\ id \in Archives /\ id \notin Vols /\ id[1] = v /\ id[2] = j
      BY <2>10, ConstantsAssumption DEF Archives
    <3>2. arcMeta[id].state # "reclaiming" /\ arcMeta'[id].state # "reclaiming"
      BY <2>10 DEF Unspent
    <3>3. Owed(id) = IF j = i THEN meta[v].size ELSE arcMeta[id].size
      BY <2>1, <2>2, <3>1, <3>2 DEF Owed, Tombstone, CommittedSize, HandedOff
    <3>4. Owed(id)' = arcMeta'[id].size
      BY <2>5, <3>1, <3>2 DEF Owed, Tombstone, CommittedSize, HandedOff
    <3>5. arcMeta'[id] = IF j = i THEN meta[v] ELSE arcMeta[id]
      BY <2>4, <2>6, <2>10, <3>1 DEF a
    <3> QED
      BY <2>8, <3>3, <3>4, <3>5
  <2>11. CASE id # v /\ \A j \in Incs : id # <<v, j>>
    <3>1. Owed(id)' = Owed(id)
      BY <2>7, <2>11, ElsewhereSame
    <3> QED
      BY <2>8, <3>1
  <2> QED
    BY <2>9, <2>10, <2>11
<1> QED
  BY <1>6, <1>7, <1>8

\* A step that leaves the metadata and the archives of its volume as they
\* are may change only what is owed to the volume itself.
LEMMA OthersKept ==
    ASSUME TypeOK, Unspent, UNCHANGED <<meta, arcMeta>>,
           NEW v \in Vols, Elsewhere(v), NEW id \in Ids, id # v
    PROVE  Owed(id)' <= Owed(id)
<1>1. Owed(id) \in Nat
  BY OwedIsNatural DEF OwesBytes
<1>2. CASE id \in Vols
  <2>1. /\ intent'[id] = intent[id] /\ xint'[id] = xint[id]
        /\ payload'[id] = payload[id]
    BY <1>2 DEF Elsewhere
  <2>2. Owed(id)' = Owed(id)
    BY <1>2, <2>1 DEF Owed, Tombstone, CommittedSize, Exists
  <2> QED
    BY <1>1, <2>2
<1>3. CASE id \notin Vols
  <2>1. PICK w \in Vols, i \in Incs : id = <<w, i>>
    BY <1>3 DEF Ids, Archives
  <2>2. arcMeta[id].state # "reclaiming"
    BY <2>1 DEF Unspent
  <2>3. Owed(id)' = Owed(id)
    BY <1>3, <2>2 DEF Owed, Tombstone, CommittedSize, HandedOff
  <2> QED
    BY <1>1, <2>3
<1> QED
  BY <1>2, <1>3

\* _admit_volume_creation: the intent it writes was seen to fit.
LEMMA AdmitKept ==
    ASSUME IsFiniteSet(Vols), Integrity, Unspent, PoolNotOvercommitted,
           NEW p \in Procs, ~Fail(p), Admit(p)
    PROVE  PoolNotOvercommitted'
<1>1. Step(p)
  BY DEF Step, CreateStep
<1>2. TypeOK /\ TypeOK' /\ ProcOK(p) /\ Knows(p)
  BY <1>1, StepFacts
<1>3. PICK v \in Vols : vol[p] = v
  BY <1>2 DEF ProcOK, CallOK, Admit
<1>4. /\ pc[p] = "admit" /\ req[p] \in Sizes
      /\ ~Exists(intent[v]) /\ ~Exists(meta[v])
  BY <1>2, <1>3 DEF Admit, ProcOK, CallOK, FileOK, CreateOK, CreateLabels, HasMetadata
<1>5. UNCHANGED <<meta, xint, payload, arcMeta>>
  BY DEF Admit, files
<1>6. CASE UNCHANGED intent
  <2>1. Steady
    BY <1>2, <1>5, <1>6, QuietSteady
  <2> QED
    BY <1>2, <2>1, SteadyKept
<1>7. CASE ~(UNCHANGED intent)
  <2>1. /\ Rebuilt[v] = 0 /\ Fits(req[p], Rebuilt)
        /\ intent' = [intent EXCEPT ![v] = Rec("creating", req[p], nextInc[v])]
    BY <1>3, <1>7 DEF Admit, files
  <2>2. intent'[v] = Rec("creating", req[p], nextInc[v])
        /\ \A w \in Vols \ {v} : intent'[w] = intent[w]
    BY <1>2, <2>1 DEF TypeOK, DurableTyped
  <2>3. xint[v] = NoSpan
    BY <1>4 DEF Integrity, Sound, SpanOK, Exists
  <2>4. Owed(v)' = req[p]
    BY <1>4, <1>5, <2>2, <2>3 DEF Owed, Tombstone, Rec, Exists
  <2>5. Owed(v)' <= Rebuilt[v] + req[p]
    <3>1. req[p] \in Nat
      BY <1>4, ConstantsAssumption
    <3> QED
      BY <2>1, <2>4, <3>1
  <2>6. Elsewhere(v)
    BY <1>5, <2>2 DEF Elsewhere
  <2>7. ASSUME NEW id \in Ids, id # v PROVE Owed(id)' <= Owed(id)
    BY <1>2, <1>5, <2>6, <2>7, OthersKept
  <2>8. req[p] \in Nat
    BY <1>4, ConstantsAssumption
  <2> QED
    BY <1>2, <2>1, <2>5, <2>7, <2>8, FittingAdmitted
<1> QED
  BY <1>6, <1>7

\* reserve_volume_expansion: so was the growth that the expansion intent adds
\* to what the table holds already.
LEMMA ReserveKept ==
    ASSUME IsFiniteSet(Vols), Integrity, Unspent, PoolNotOvercommitted,
           NEW p \in Procs, ~Fail(p), Reserve(p)
    PROVE  PoolNotOvercommitted'
<1>1. ExpandStep(p) /\ Step(p) /\ pc[p] \in Expanding /\ pc[p] = "reserve"
  BY DEF Step, ExpandStep, Reserve, Expanding
<1>2. TypeOK /\ TypeOK' /\ ProcOK(p) /\ Knows(p)
  BY <1>1, StepFacts
<1>3. PICK v \in Vols :
        /\ vol[p] = v /\ req[p] \in Sizes /\ LockedExpand(p) /\ ~Exists(intent[v])
        /\ meta[v].state = "live" /\ found[p].size \in Nat /\ meta[v].size \in Nat
  BY <1>1, GrowingFacts
<1>4. UNCHANGED <<intent, meta, payload, arcMeta>>
  BY DEF Reserve, files
<1>5. CASE UNCHANGED xint
  <2>1. Steady
    BY <1>2, <1>4, <1>5, QuietSteady
  <2> QED
    BY <1>2, <2>1, SteadyKept
<1>6. CASE ~(UNCHANGED xint)
  <2> DEFINE wanted == [from |-> found[p].size, to |-> req[p]]
  <2>1. /\ xint' = [xint EXCEPT ![v] = wanted]
        /\ \/ xint[v] # NoSpan
           \/ Rebuilt[v] = wanted.to
           \/ Fits(wanted.to - wanted.from, Rebuilt)
    BY <1>3, <1>6 DEF Reserve, files
  <2>2. wanted.from = found[p].size /\ wanted.to = req[p] /\ req[p] \in Nat /\ req[p] # 0
    BY <1>3, ConstantsAssumption
  <2>3. xint[v] # NoSpan => xint[v] = wanted
    BY <1>1, <1>3 DEF LockedExpand
  <2>4. xint[v] = NoSpan => meta[v].size = found[p].size /\ found[p].size < req[p]
    BY <1>1, <1>3 DEF LockedExpand
  <2>5. wanted # NoSpan
    BY <2>2 DEF NoSpan
  <2> HIDE DEF wanted
  <2>6. xint'[v] = wanted /\ \A w \in Vols \ {v} : xint'[w] = xint[w]
    BY <1>2, <2>1 DEF TypeOK, DurableTyped
  <2>7. CASE xint[v] # NoSpan
    <3>1. [xint EXCEPT ![v] = xint[v]] = xint
      BY <1>2 DEF TypeOK, DurableTyped
    <3> QED
      BY <1>6, <2>1, <2>3, <2>7, <3>1
  <2>8. CASE xint[v] = NoSpan
    <3>1. Owed(v) = found[p].size
      BY <1>3, <2>4, <2>8 DEF Owed, Tombstone, CommittedSize
    <3>2. Owed(v)' = req[p]
      BY <1>3, <1>4, <2>2, <2>5, <2>6 DEF Owed, Tombstone
    <3>3. found[p].size # 0
      <4>1. meta[v] \in Metadata
        BY <1>2 DEF TypeOK, DurableTyped
      <4> QED
        BY <1>3, <2>4, <2>8, <4>1, ConstantsAssumption DEF Metadata, Kind, NoRec, Rec
    <3>4. Rebuilt[v] = found[p].size
      BY <1>2, <3>1, <3>3, RebuiltCovers DEF Ids
    <3>5. Fits(req[p] - found[p].size, Rebuilt)
      BY <1>3, <2>1, <2>2, <2>4, <2>8, <3>4
    <3>6. req[p] - found[p].size \in Nat
      BY <1>3, <2>2, <2>4, <2>8
    <3>7. Owed(v)' <= Rebuilt[v] + (req[p] - found[p].size)
      BY <1>3, <2>2, <3>2, <3>4
    <3>8. Elsewhere(v)
      BY <1>4, <2>6 DEF Elsewhere
    <3>9. ASSUME NEW id \in Ids, id # v PROVE Owed(id)' <= Owed(id)
      BY <1>2, <1>4, <3>8, <3>9, OthersKept
    <3> QED
      BY <1>2, <3>5, <3>6, <3>7, <3>9, FittingAdmitted
  <2> QED
    BY <2>7, <2>8
<1> QED
  BY <1>5, <1>6

\* A call that leaves the files alone.
LEMMA UntouchedKept ==
    ASSUME IsFiniteSet(Vols), TypeOK, TypeOK', Unspent, UNCHANGED files,
           PoolNotOvercommitted
    PROVE  PoolNotOvercommitted'
<1>1. Steady
  BY QuietSteady DEF files
<1> QED
  BY <1>1, SteadyKept

\* Every step of a call.
LEMMA StepCapacity ==
    ASSUME IsFiniteSet(Vols), OnePolicy, Integrity, Resumable, Unspent,
           PoolNotOvercommitted, NEW p \in Procs, Step(p)
    PROVE  PoolNotOvercommitted'
<1>1. TypeOK /\ TypeOK' /\ ProcOK(p)
  BY StepFacts
<1>2. Unspent'
  BY StepUnspent
<1>3. CASE Fail(p)
  BY <1>1, <1>3, UntouchedKept DEF Fail
<1>4. CASE ~Fail(p)
  <2>1. ~ReclaimStep(p)
    BY <1>1 DEF ReclaimStep, ReclaimMark, ReclaimPayload, ReclaimRow, ReclaimUnlink,
                ProcOK, CallOK, ReclaimLabels, Unspent
  <2>2. CASE PrepareArchive(p)
    BY <1>2, <1>4, <2>2, PrepareKept
  <2>3. CASE Admit(p)
    BY <1>2, <1>4, <2>3, AdmitKept
  <2>4. CASE Reserve(p)
    BY <1>2, <1>4, <2>4, ReserveKept
  <2>5. CASE ~PrepareArchive(p) /\ ~Admit(p) /\ ~Reserve(p)
    <3>1. Steady
      <4>1. CASE MoveMetadata(p) \/ MarkArchived(p)
        BY <1>2, <1>4, <4>1, HandOffSteady
      <4>2. CASE \/ SaveMetadata(p) \/ FoldExpansion(p) \/ MarkDeleting(p)
                 \/ UnlinkMetadata(p) \/ GrowMetadata(p)
        BY <1>2, <1>4, <4>2, MetadataSteady
      <4>3. CASE FinishCommitted(p) \/ DropIntent(p) \/ CancelIntent(p) \/ DropLeftover(p)
        BY <1>2, <1>4, <4>3, IntentSteady
      <4>4. CASE DropExpansion(p) \/ FinishExpansion(p)
        BY <1>2, <1>4, <4>4, SpanSteady
      <4>5. CASE UNCHANGED <<intent, meta, xint, arcMeta>>
        BY <4>5, OtherSteady
      <4> QED
        BY <2>1, <2>5, <4>1, <4>2, <4>3, <4>4, <4>5, Writers
           DEF WritesArchives, WritesMetadata, WritesIntents, WritesSpans
    <3> QED
      BY <1>1, <3>1, SteadyKept
  <2> QED
    BY <2>2, <2>3, <2>4, <2>5
<1> QED
  BY <1>3, <1>4

\* And every other step.
LEMMA NextCapacity ==
    ASSUME IsFiniteSet(Vols), OnePolicy
    PROVE  Integrity /\ Integrity' /\ Resumable /\ Unspent /\ PoolNotOvercommitted
           /\ [Next]_vars => PoolNotOvercommitted'
<1> SUFFICES ASSUME Integrity, Integrity', Resumable, Unspent, PoolNotOvercommitted,
                    [Next]_vars
             PROVE  PoolNotOvercommitted'
  OBVIOUS
<1>0. TypeOK /\ TypeOK'
  BY DEF Integrity, Alone, IInv
<1>1. CASE \E p \in Procs : Step(p)
  BY <1>1, StepCapacity
<1>2. CASE \E p \in Procs : Start(p) \/ Abandon(p)
  <2>1. UNCHANGED files
    BY <1>2 DEF Start, StartCreate, StartDelete, StartExpand, StartReclaim, Begin,
                Abandon, Fail
  <2> QED
    BY <1>0, <2>1, UntouchedKept
<1>3. CASE ChangePolicy \/ UNCHANGED vars
  <2>1. UNCHANGED files
    BY <1>3 DEF ChangePolicy, vars
  <2> QED
    BY <1>0, <2>1, UntouchedKept
<1> QED
  BY <1>1, <1>2, <1>3 DEF Next

LEMMA InitCapacity ==
    ASSUME IsFiniteSet(Vols) PROVE Init => PoolNotOvercommitted
<1> SUFFICES ASSUME Init PROVE PoolNotOvercommitted
  OBVIOUS
<1>1. ASSUME NEW id \in Ids PROVE Owed(id) = 0
  <2>1. CASE id \in Vols
    BY <2>1 DEF Init, Owed, Tombstone, CommittedSize, Exists, NoRec, Rec, NoSpan
  <2>2. CASE id \notin Vols
    <3>1. id \in Archives /\ id[1] \in Vols
      BY <2>2 DEF Ids, Archives
    <3> QED
      BY <2>2, <3>1 DEF Init, Owed, Tombstone, CommittedSize, HandedOff, NoRec, Rec
  <2> QED
    BY <2>1, <2>2
<1>2. [id \in Ids |-> Owed(id)] = [id \in Ids |-> 0]
  BY <1>1
<1>3. SumFunction([id \in Ids |-> 0]) = 0
  BY IdsFinite, SumOfZeros
<1> QED
  BY <1>2, <1>3, ConstantsAssumption DEF PoolNotOvercommitted

\* What the pool promises never exceeds it: however many processes admit,
\* expand, archive and delete, and wherever they die, if callers are orderly
\* and the pool is neither given both policies that remove volumes nor purged
\* of its archives.
THEOREM PoolIsNotOvercommitted ==
    ASSUME IsFiniteSet(Vols), OrderlyCaller, OnePolicy, ArchivesStay
    PROVE  Spec => []PoolNotOvercommitted
<1>1. Init => Resumable
  BY DEF Init, Resumable, Whole, Policed, NoRec, Rec, Archives
<1>2. Integrity /\ Purging /\ Resumable /\ [Next]_vars => Resumable'
  BY NextResumable
<1>3. Init => Unspent
  BY InitUnspent
<1>4. Integrity /\ Resumable /\ Unspent /\ [Next]_vars => Unspent'
  BY NextUnspent
<1>5. Init => PoolNotOvercommitted
  BY InitCapacity
<1>6. Integrity /\ Integrity' /\ Resumable /\ Unspent /\ PoolNotOvercommitted
      /\ [Next]_vars => PoolNotOvercommitted'
  BY NextCapacity
<1> QED
  BY <1>1, <1>2, <1>3, <1>4, <1>5, <1>6, IntegrityHolds, PTL DEF Spec

=============================================================================
