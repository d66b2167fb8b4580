---------------------------- MODULE MarketProofs ----------------------------
(***************************************************************************)
(* Proofs about how the market is read, recorded and replayed.             *)
(***************************************************************************)
EXTENDS MarketTape, MarketIndexer, FiniteSetTheorems, SequenceTheorems, WellFoundedInduction, TLAPS

(***************************************************************************)
(* What the folds of the model compute.                                    *)
(***************************************************************************)

\* Any set of natural numbers has a least: the library's induction, for sets.
LEMMA LeastNatural ==
  ASSUME NEW T, T \subseteq Nat, T # {}
  PROVE  \E n \in T : \A m \in T : n <= m
<1>1. IsWellFoundedOn({ss \in Nat \X Nat : ss[1] < ss[2]}, Nat)
  BY NatLessThanWellFounded DEF OpToRel
<1>2. PICK n \in T : \A m \in T : ~ (<<m, n>> \in {ss \in Nat \X Nat : ss[1] < ss[2]})
  BY <1>1, WFMin, Zenon
<1>3. ASSUME NEW m \in T PROVE n <= m
  <2>1. m \in Nat /\ n \in Nat
    OBVIOUS
  <2>2. ~ (<<m, n>> \in {ss \in Nat \X Nat : ss[1] < ss[2]})
    BY <1>2
  <2>3. QED
    BY <2>1, <2>2
<1>4. QED
  BY <1>3

\* A property of the naturals, as a set, that goes from each to the next.
LEMMA Induct ==
  ASSUME NEW T, 0 \in T, \A n \in Nat : n \in T => n + 1 \in T
  PROVE  \A n \in Nat : n \in T
<1> DEFINE B == {n \in Nat : n \notin T}
<1>1. B = {}
  <2> SUFFICES ASSUME B # {} PROVE FALSE
    OBVIOUS
  <2>1. PICK n \in B : \A m \in B : n <= m
    BY LeastNatural
  <2>2. n \in Nat /\ n # 0
    OBVIOUS
  <2>3. n - 1 \in Nat /\ ~(n <= n - 1) /\ (n - 1) + 1 = n
    BY <2>2
  <2>4. n - 1 \in T
    BY <2>1, <2>3
  <2>5. QED
    BY <2>3, <2>4
<1>2. QED
  BY <1>1

\* The recursion a fold unfolds by: step[x] is what its member x does to what the
\* others gave, and pick[s] the member of s that comes last.
Unfolds(S, pick, base, step, g) ==
  \A s \in SUBSET S :
    g[s] = IF s = {} THEN base ELSE step[pick[s]][g[s \ {pick[s]}]]

\* It has a solution, by induction on the size of the sets folded.
LEMMA FoldExists ==
  ASSUME NEW S, IsFiniteSet(S), NEW pick, \A s \in SUBSET S : s # {} => pick[s] \in s,
         NEW A, NEW base \in A, NEW step \in [S -> [A -> A]]
  PROVE  \E g \in [SUBSET S -> A] : Unfolds(S, pick, base, step, g)
<1> DEFINE Small(n) == {s \in SUBSET S : Cardinality(s) <= n}
           Upto(n, g) == \A s \in Small(n) :
                           g[s] = IF s = {} THEN base ELSE step[pick[s]][g[s \ {pick[s]}]]
           T == {n \in Nat : \E g \in [Small(n) -> A] : Upto(n, g)}
<1>1. \A s \in SUBSET S : IsFiniteSet(s) /\ Cardinality(s) \in Nat /\ Cardinality(s) <= Cardinality(S)
  BY FS_Subset, FS_CardinalityType
<1>2. 0 \in T
  <2>1. \A s \in Small(0) : s = {}
    BY <1>1, FS_EmptySet
  <2>2. PICK g : g = [s \in Small(0) |-> base]
    OBVIOUS
  <2>3. g \in [Small(0) -> A] /\ Upto(0, g)
    BY <2>1, <2>2
  <2>4. QED
    BY <2>3
<1>3. ASSUME NEW n \in Nat, n \in T PROVE n + 1 \in T
  <2>1. PICK g \in [Small(n) -> A] : Upto(n, g)
    BY <1>3
  <2>2. PICK h : h = [s \in Small(n + 1) |->
                        IF s = {} THEN base ELSE step[pick[s]][g[s \ {pick[s]}]]]
    OBVIOUS
  <2>3. ASSUME NEW s \in Small(n) PROVE s \in Small(n + 1) /\ h[s] = g[s]
    <3>1. s \in SUBSET S /\ Cardinality(s) \in Nat /\ Cardinality(s) <= n + 1
      BY <1>1
    <3>2. h[s] = IF s = {} THEN base ELSE step[pick[s]][g[s \ {pick[s]}]]
      BY <2>2, <3>1
    <3>3. QED
      BY <2>1, <3>1, <3>2
  <2>4. ASSUME NEW s \in Small(n + 1), s # {}
        PROVE  pick[s] \in S /\ s \ {pick[s]} \in Small(n)
    <3>1. pick[s] \in s /\ s \in SUBSET S /\ IsFiniteSet(s) /\ Cardinality(s) \in Nat
      BY <1>1, <2>4
    <3>2. Cardinality(s \ {pick[s]}) = Cardinality(s) - 1
      BY <3>1, FS_RemoveElement
    <3>3. QED
      BY <3>1, <3>2
  <2>5. h \in [Small(n + 1) -> A]
    <3>1. ASSUME NEW s \in Small(n + 1) PROVE h[s] \in A
      <4>1. CASE s = {}
        BY <2>2, <4>1
      <4>2. CASE s # {}
        <5>1. step[pick[s]] \in [A -> A] /\ g[s \ {pick[s]}] \in A
          BY <2>4, <4>2, <2>1
        <5>2. step[pick[s]][g[s \ {pick[s]}]] \in A
          BY <5>1
        <5>3. QED
          BY <2>2, <4>2, <5>2
      <4>3. QED
        BY <4>1, <4>2
    <3>2. QED
      BY <2>2, <3>1
  <2>6. Upto(n + 1, h)
    BY <2>2, <2>3, <2>4
  <2>7. n + 1 \in Nat
    OBVIOUS
  <2>8. \E g2 \in [Small(n + 1) -> A] : Upto(n + 1, g2)
    BY <2>5, <2>6
  <2>9. QED
    BY <2>7, <2>8
<1>4. \A n \in Nat : n \in T
  <2> HIDE DEF T
  <2>1. QED
    BY <1>2, <1>3, Induct
<1>5. Cardinality(S) \in Nat /\ Small(Cardinality(S)) = SUBSET S
  BY <1>1, FS_CardinalityType
<1>6. PICK g \in [Small(Cardinality(S)) -> A] : Upto(Cardinality(S), g)
  BY <1>4, <1>5
<1>7. QED
  BY <1>5, <1>6 DEF Unfolds

-----------------------------------------------------------------------------
(***************************************************************************)
(* Loading a tape, a line at a time.                                       *)
(***************************************************************************)

Starts == {START(at) : at \in Nat}
Marks == {COVERED(at, wallAt) : at \in Nat, wallAt \in Nat}
Trades == [kind : {"TRADE"}, id : Nat, at : Nat]
Lines == Starts \cup Marks \cup Trades

Runs == Nat \X Nat
Loads == [pending : Seq(Trades), lines : Seq([visible : Nat, entry : Marks \cup Trades]),
          run : Runs \cup {<<>>}, runs : SUBSET Runs]

LEMMA LineKinds ==
  /\ \A e \in Starts : e.kind = "START"
  /\ \A e \in Marks : e.kind = "COVERED" /\ e.at \in Nat /\ e.wallAt \in Nat
  /\ \A e \in Trades : e.kind = "TRADE" /\ e.id \in Nat /\ e.at \in Nat
BY DEF Starts, Marks, Trades, START, COVERED

LEMMA TopOfTwo ==
  ASSUME NEW x \in Nat, NEW y \in Nat
  PROVE  Top({x, y}) = IF x <= y THEN y ELSE x
<1>1. PICK m : m = IF x <= y THEN y ELSE x
  OBVIOUS
<1>2. m \in {x, y} /\ \A z \in {x, y} : z <= m
  BY <1>1
<1>3. Top({x, y}) \in {x, y} /\ \A z \in {x, y} : z <= Top({x, y})
  BY <1>2 DEF Top
<1>4. QED
  BY <1>1, <1>2, <1>3

\* What a mark leaves when it closes what is pending.
Revealed(clock, pending, e) ==
  [i \in 1..(Len(pending) + 1) |->
     LET read == Append(pending, e)[i]
     IN  [visible |-> IF clock = "wall" THEN e.wallAt ELSE read.at, entry |-> read]]

LEMMA RevealedType ==
  ASSUME NEW clock, NEW pending \in Seq(Trades), NEW e \in Marks
  PROVE  Revealed(clock, pending, e) \in Seq([visible : Nat, entry : Marks \cup Trades])
<1>1. Append(pending, e) \in Seq(Marks \cup Trades) /\ Len(Append(pending, e)) = Len(pending) + 1
      /\ Len(pending) \in Nat
  <2>1. pending \in Seq(Marks \cup Trades) /\ e \in Marks \cup Trades
    BY SeqMonotonic
  <2>2. QED
    BY <2>1, AppendProperties, LenProperties
<1>2. ASSUME NEW i \in 1..(Len(pending) + 1)
      PROVE  Revealed(clock, pending, e)[i] \in [visible : Nat, entry : Marks \cup Trades]
  <2>1. PICK read : read = Append(pending, e)[i]
    OBVIOUS
  <2>2. read \in Marks \cup Trades
    BY <1>1, <2>1, ElementOfSeq
  <2>3. read.at \in Nat /\ e.wallAt \in Nat
    BY <2>2, LineKinds
  <2>4. Revealed(clock, pending, e)[i]
          = [visible |-> IF clock = "wall" THEN e.wallAt ELSE read.at, entry |-> read]
    BY <2>1 DEF Revealed
  <2>5. QED
    BY <2>2, <2>3, <2>4
<1>3. QED
  BY <1>1, <1>2 DEF Revealed

\* What each kind of line does.
LEMMA LoadStart ==
  ASSUME NEW clock, NEW l \in Loads, NEW e \in Starts
  PROVE  LoadLine(clock, l, e)
           = [pending |-> <<>>, lines |-> l.lines, run |-> <<>>, runs |-> Closed(l)]
BY LineKinds DEF LoadLine, Loads

LEMMA LoadTrade ==
  ASSUME NEW clock, NEW l \in Loads, NEW e \in Trades
  PROVE  LoadLine(clock, l, e)
           = [pending |-> Append(l.pending, e), lines |-> l.lines, run |-> l.run, runs |-> l.runs]
BY LineKinds DEF LoadLine, Loads

LEMMA LoadMark ==
  ASSUME NEW clock, NEW l \in Loads, NEW e \in Marks
  PROVE  LoadLine(clock, l, e)
           = [pending |-> <<>>, lines |-> l.lines \o Revealed(clock, l.pending, e),
              run |-> Extend(l.run, IF clock = "wall" THEN e.wallAt ELSE e.at),
              runs |-> l.runs]
BY LineKinds DEF LoadLine, Loads, Revealed

LEMMA ExtendType ==
  ASSUME NEW run \in Runs \cup {<<>>}, NEW at \in Nat
  PROVE  Extend(run, at) \in Runs
BY TopOfTwo DEF Extend, Runs

LEMMA ClosedType == \A l \in Loads : Closed(l) \in SUBSET Runs
BY DEF Closed, Loads

LEMMA LoadFields ==
  ASSUME NEW l \in Loads
  PROVE  /\ l.pending \in Seq(Trades) /\ l.lines \in Seq([visible : Nat, entry : Marks \cup Trades])
         /\ l.run \in Runs \cup {<<>>} /\ l.runs \in SUBSET Runs
BY DEF Loads

LEMMA LoadLineType ==
  ASSUME NEW clock, NEW l \in Loads, NEW e \in Lines
  PROVE  LoadLine(clock, l, e) \in Loads
<1> DEFINE Of(p, ls, r, rs) == [pending |-> p, lines |-> ls, run |-> r, runs |-> rs]
<1>1. \A p \in Seq(Trades), ls \in Seq([visible : Nat, entry : Marks \cup Trades]),
         r \in Runs \cup {<<>>}, rs \in SUBSET Runs : Of(p, ls, r, rs) \in Loads
  BY DEF Loads
<1> HIDE DEF Of
<1>2. CASE e \in Starts
  <2>1. <<>> \in Seq(Trades) /\ Closed(l) \in SUBSET Runs /\ LoadLine(clock, l, e) = Of(<<>>, l.lines, <<>>, Closed(l))
    BY <1>2, EmptySeq, ClosedType, LoadStart DEF Of
  <2>2. QED
    BY <1>1, <2>1, LoadFields
<1>3. CASE e \in Trades
  <2>1. Append(l.pending, e) \in Seq(Trades) /\ LoadLine(clock, l, e) = Of(Append(l.pending, e), l.lines, l.run, l.runs)
    BY <1>3, AppendProperties, LoadFields, LoadTrade DEF Of
  <2>2. QED
    BY <1>1, <2>1, LoadFields
<1>4. CASE e \in Marks
  <2>1. PICK at \in Nat : at = IF clock = "wall" THEN e.wallAt ELSE e.at
    BY <1>4, LineKinds
  <2>2. l.lines \o Revealed(clock, l.pending, e) \in Seq([visible : Nat, entry : Marks \cup Trades])
    BY <1>4, RevealedType, ConcatProperties, LoadFields
  <2>3. Extend(l.run, at) \in Runs /\ <<>> \in Seq(Trades)
    BY ExtendType, LoadFields, EmptySeq
  <2>4. LoadLine(clock, l, e)
          = Of(<<>>, l.lines \o Revealed(clock, l.pending, e), Extend(l.run, at), l.runs)
    BY <1>4, <2>1, LoadMark DEF Of
  <2>5. PICK ls, r, rs : /\ ls = l.lines \o Revealed(clock, l.pending, e)
                         /\ r = Extend(l.run, at) /\ rs = l.runs
    OBVIOUS
  <2>6. Of(<<>>, ls, r, rs) \in Loads
    BY <1>1, <2>2, <2>3, <2>5, LoadFields
  <2>7. QED
    BY <2>4, <2>5, <2>6
<1>5. QED
  BY <1>2, <1>3, <1>4 DEF Lines

LEMMA EmptyLoadType == EmptyLoad \in Loads
<1>1. <<>> \in Seq(Trades) /\ <<>> \in Seq([visible : Nat, entry : Marks \cup Trades])
  BY EmptySeq
<1>2. QED
  BY <1>1 DEF EmptyLoad, Loads

\* LoadOf as the recursion its fold stands for.
LoadFrom(clock, s, g) ==
  g = [t \in SUBSET DOMAIN s |->
         IF t = {} THEN EmptyLoad ELSE LoadLine(clock, g[t \ {Max(t)}], s[Max(t)])]

LEMMA LoadIs ==
  ASSUME NEW clock, NEW s
  PROVE  \E g : /\ g = CHOOSE h : LoadFrom(clock, s, h)
                /\ LoadOf(clock, s) = g[DOMAIN s]
BY DEF LoadOf, FoldLeft, MapThenFoldSet, LoadFrom

\* The largest of a prefix of the places of a sequence is its last.
LEMMA LastPlace ==
  ASSUME NEW n \in Nat
  PROVE  /\ 1..(n + 1) # {} /\ Max(1..(n + 1)) = n + 1 /\ (1..(n + 1)) \ {n + 1} = 1..n
         /\ 1..0 = {}
<1>1. n + 1 \in 1..(n + 1) /\ \A k \in 1..(n + 1) : n + 1 >= k
  OBVIOUS
<1>2. Max(1..(n + 1)) \in 1..(n + 1) /\ \A k \in 1..(n + 1) : Max(1..(n + 1)) >= k
  BY <1>1 DEF Max
<1>3. Max(1..(n + 1)) = n + 1
  BY <1>1, <1>2
<1>4. QED
  BY <1>3

\* A set of places has a last.
LEMMA MaxOfPlaces ==
  ASSUME NEW n \in Nat, NEW s \in SUBSET (1..n), s # {}
  PROVE  Max(s) \in s
<1> DEFINE T == {d \in Nat : n - d \in s}
<1>1. PICK k \in s : TRUE
  OBVIOUS
<1>2. n - k \in T
  BY <1>1
<1>3. PICK d \in T : \A c \in T : d <= c
  BY <1>2, LeastNatural
<1>4. ASSUME NEW m \in s PROVE n - d >= m
  <2>1. n - m \in T /\ m \in Nat
    OBVIOUS
  <2>2. QED
    BY <1>3, <2>1
<1>5. QED
  BY <1>3, <1>4 DEF Max

\* The loads of the prefixes of s.
HeadLoads(clock, s, h) ==
  /\ h[0] = EmptyLoad
  /\ \A k \in 1..Len(s) : h[k] = LoadLine(clock, h[k - 1], s[k])

LEMMA LoadUnfolds ==
  ASSUME NEW clock, NEW s \in Seq(Lines)
  PROVE  \E h \in [0..Len(s) -> Loads] : HeadLoads(clock, s, h) /\ LoadOf(clock, s) = h[Len(s)]
<1> DEFINE n == Len(s)
           D == 1..n
<1>1. n \in Nat /\ DOMAIN s = D /\ \A k \in D : s[k] \in Lines
  BY LenProperties, ElementOfSeq
<1>2. IsFiniteSet(D)
  BY <1>1, FS_Interval
<1>3. PICK pick : pick = [t \in SUBSET D |-> Max(t)]
  OBVIOUS
<1>4. \A t \in SUBSET D : t # {} => pick[t] \in t
  BY <1>1, <1>3, MaxOfPlaces
<1>5. PICK step : step = [k \in D |-> [l \in Loads |-> LoadLine(clock, l, s[k])]]
  OBVIOUS
<1>6. step \in [D -> [Loads -> Loads]]
  BY <1>1, <1>5, LoadLineType
<1>7. PICK f \in [SUBSET D -> Loads] : Unfolds(D, pick, EmptyLoad, step, f)
  BY <1>2, <1>4, <1>6, EmptyLoadType, FoldExists
<1>8. LoadFrom(clock, s, f)
  <2>1. ASSUME NEW t \in SUBSET D
        PROVE  f[t] = IF t = {} THEN EmptyLoad ELSE LoadLine(clock, f[t \ {Max(t)}], s[Max(t)])
    <3>1. CASE t = {}
      BY <1>7, <3>1 DEF Unfolds
    <3>2. CASE t # {}
      <4>1. Max(t) \in D /\ pick[t] = Max(t) /\ f[t \ {Max(t)}] \in Loads
        BY <1>3, <1>4, <1>7, <3>2
      <4>2. f[t] = step[Max(t)][f[t \ {Max(t)}]]
        BY <1>7, <3>2, <4>1 DEF Unfolds
      <4>3. QED
        BY <1>5, <3>2, <4>1, <4>2
    <3>3. QED
      BY <3>1, <3>2
  <2>2. QED
    BY <1>1, <1>7, <2>1 DEF LoadFrom
<1>9. PICK g : g = (CHOOSE h : LoadFrom(clock, s, h)) /\ LoadOf(clock, s) = g[DOMAIN s]
  BY LoadIs
<1>10. LoadFrom(clock, s, g)
  BY <1>8, <1>9
<1>11. PICK h : h = [k \in 0..n |-> g[1..k]]
  OBVIOUS
<1>12. h[0] = EmptyLoad
  <2>1. 1..0 = {} /\ h[0] = g[1..0] /\ {} \in SUBSET DOMAIN s
    BY <1>1, <1>11, LastPlace
  <2>2. QED
    BY <1>10, <2>1 DEF LoadFrom
<1>13. ASSUME NEW k \in D PROVE h[k] = LoadLine(clock, h[k - 1], s[k])
  <2>1. k - 1 \in Nat /\ (k - 1) + 1 = k /\ k \in 0..n /\ k - 1 \in 0..n /\ 1..k \in SUBSET D
    BY <1>1
  <2>2. 1..k # {} /\ Max(1..k) = k /\ (1..k) \ {k} = 1..(k - 1)
    BY <2>1, LastPlace
  <2>3. g[1..k] = LoadLine(clock, g[1..(k - 1)], s[k])
    BY <1>1, <1>10, <2>1, <2>2 DEF LoadFrom
  <2>4. QED
    BY <1>11, <2>1, <2>3
<1>14. \A k \in 0..n : h[k] \in Loads
  <2> DEFINE T == {k \in Nat : k <= n => h[k] \in Loads}
  <2>1. 0 \in T
    BY <1>12, EmptyLoadType
  <2>2. ASSUME NEW k \in Nat, k \in T PROVE k + 1 \in T
    <3>1. CASE k + 1 <= n
      <4>1. k + 1 \in D /\ (k + 1) - 1 = k /\ h[k] \in Loads
        BY <1>1, <2>2, <3>1
      <4>2. QED
        BY <1>1, <1>13, <4>1, LoadLineType
    <3>2. CASE ~(k + 1 <= n)
      BY <3>2
    <3>3. QED
      BY <3>1, <3>2
  <2>3. \A k \in Nat : k \in T
    <3> HIDE DEF T
    <3>1. QED
      BY <2>1, <2>2, Induct
  <2>4. QED
    BY <1>1, <2>3
<1>15. h \in [0..n -> Loads] /\ LoadOf(clock, s) = h[n]
  BY <1>1, <1>9, <1>11, <1>14
<1>16. QED
  BY <1>12, <1>13, <1>15 DEF HeadLoads

LEMMA LoadOfNothing == \A clock : LoadOf(clock, <<>>) = EmptyLoad
<1>1. <<>> \in Seq(Lines) /\ Len(<<>>) = 0
  BY EmptySeq
<1>2. QED
  BY <1>1, LoadUnfolds DEF HeadLoads

\* One more line is one more step.
LEMMA LoadNext ==
  ASSUME NEW clock, NEW s \in Seq(Lines), NEW e \in Lines
  PROVE  /\ LoadOf(clock, s) \in Loads
         /\ LoadOf(clock, Append(s, e)) = LoadLine(clock, LoadOf(clock, s), e)
<1>1. PICK t : t = Append(s, e)
  OBVIOUS
<1>2. /\ t \in Seq(Lines) /\ Len(t) = Len(s) + 1 /\ Len(s) \in Nat
      /\ \A k \in 1..Len(s) : t[k] = s[k]
      /\ t[Len(s) + 1] = e
  BY <1>1, AppendProperties, LenProperties
<1>3. PICK g \in [0..Len(s) -> Loads] : HeadLoads(clock, s, g) /\ LoadOf(clock, s) = g[Len(s)]
  BY LoadUnfolds
<1>4. PICK h \in [0..Len(t) -> Loads] : HeadLoads(clock, t, h) /\ LoadOf(clock, t) = h[Len(t)]
  BY <1>2, LoadUnfolds
<1>5. \A k \in 0..Len(s) : h[k] = g[k]
  <2> DEFINE T == {k \in Nat : k <= Len(s) => h[k] = g[k]}
  <2>1. 0 \in T
    BY <1>3, <1>4 DEF HeadLoads
  <2>2. ASSUME NEW k \in Nat, k \in T PROVE k + 1 \in T
    <3>1. CASE k + 1 <= Len(s)
      <4>1. k + 1 \in 1..Len(s) /\ k + 1 \in 1..Len(t) /\ (k + 1) - 1 = k /\ h[k] = g[k]
        BY <1>2, <2>2, <3>1
      <4>2. QED
        BY <1>2, <1>3, <1>4, <4>1 DEF HeadLoads
    <3>2. CASE ~(k + 1 <= Len(s))
      BY <3>2
    <3>3. QED
      BY <3>1, <3>2
  <2>3. \A k \in Nat : k \in T
    <3> HIDE DEF T
    <3>1. QED
      BY <2>1, <2>2, Induct
  <2>4. QED
    BY <1>2, <2>3
<1>6. h[Len(s) + 1] = LoadLine(clock, h[Len(s)], e)
  <2>1. Len(s) + 1 \in 1..Len(t) /\ (Len(s) + 1) - 1 = Len(s)
    BY <1>2
  <2>2. QED
    BY <1>2, <1>4, <2>1 DEF HeadLoads
<1>7. QED
  BY <1>1, <1>2, <1>3, <1>4, <1>5, <1>6

\* The last of a sequence, behind the rest.
Apart(A, n, u) == \E v \in Seq(A), e \in A : Len(v) = n /\ u = Append(v, e)

LEMMA LastApart ==
  ASSUME NEW A, NEW n \in Nat, NEW u \in Seq(A), Len(u) = n + 1
  PROVE  Apart(A, n, u)
<1>1. /\ \A i \in 1..n : u[i] \in A
      /\ u[n + 1] \in A
  BY ElementOfSeq
<1>2. PICK v : v = SubSeq(u, 1, n)
  OBVIOUS
<1>3. v \in Seq(A) /\ Len(v) = n /\ \A i \in 1..n : v[i] = u[i]
  BY <1>1, <1>2, SubSeqProperties
<1>4. PICK w : w = Append(v, u[n + 1])
  OBVIOUS
<1>5. w \in Seq(A) /\ Len(w) = n + 1 /\ (\A i \in 1..n : w[i] = v[i]) /\ w[n + 1] = u[n + 1]
  BY <1>1, <1>3, <1>4, AppendProperties
<1>6. \A i \in 1..(n + 1) : w[i] = u[i]
  BY <1>3, <1>5
<1>7. w = u
  BY <1>5, <1>6, SeqEqual
<1>8. QED
  BY <1>1, <1>3, <1>4, <1>7 DEF Apart

LEMMA ConcatAppend ==
  ASSUME NEW A, NEW s \in Seq(A), NEW v \in Seq(A), NEW e \in A
  PROVE  s \o Append(v, e) = Append(s \o v, e) /\ s \o v \in Seq(A)
<1>1. <<e>> \in Seq(A) /\ s \o v \in Seq(A)
  BY ConcatProperties
<1>2. Append(v, e) = v \o <<e>> /\ Append(s \o v, e) = (s \o v) \o <<e>>
  BY <1>1, AppendIsConcat
<1>3. QED
  BY <1>1, <1>2, ConcatAssociative

\* Trades wait for the mark that closes them.
LEMMA LoadTrades ==
  ASSUME NEW clock, NEW s \in Seq(Lines), NEW u \in Seq(Trades)
  PROVE  LET l == LoadOf(clock, s)
         IN  LoadOf(clock, s \o u)
               = [pending |-> l.pending \o u, lines |-> l.lines, run |-> l.run, runs |-> l.runs]
<1>1. PICK l : l = LoadOf(clock, s)
  OBVIOUS
<1>2. /\ l \in Loads /\ l.pending \in Seq(Trades)
      /\ l = [pending |-> l.pending, lines |-> l.lines, run |-> l.run, runs |-> l.runs]
  <2>1. START(0) \in Lines
    BY DEF Lines, Starts
  <2>2. l \in Loads
    BY <1>1, <2>1, LoadNext
  <2>3. QED
    BY <2>2, LoadFields DEF Loads
<1> DEFINE Held(w) == [pending |-> l.pending \o w, lines |-> l.lines, run |-> l.run, runs |-> l.runs]
           T == {n \in Nat : \A w \in Seq(Trades) : Len(w) = n => LoadOf(clock, s \o w) = Held(w)}
<1>3. 0 \in T
  <2>1. ASSUME NEW w \in Seq(Trades), Len(w) = 0 PROVE LoadOf(clock, s \o w) = Held(w)
    <3>1. w = <<>>
      BY <2>1, EmptySeq
    <3>2. s \o w = s /\ l.pending \o w = l.pending
      BY <1>2, <3>1, ConcatEmptySeq
    <3>3. QED
      BY <1>1, <1>2, <3>2
  <2>2. QED
    BY <2>1
<1>4. ASSUME NEW n \in Nat, n \in T PROVE n + 1 \in T
  <2>1. ASSUME NEW w \in Seq(Trades), Len(w) = n + 1 PROVE LoadOf(clock, s \o w) = Held(w)
    <3>1. PICK v \in Seq(Trades), e \in Trades : Len(v) = n /\ w = Append(v, e)
      <4>1. Apart(Trades, n, w)
        BY <2>1, LastApart
      <4>2. QED
        BY <4>1 DEF Apart
    <3>2. v \in Seq(Lines) /\ e \in Lines
      BY SeqMonotonic DEF Lines
    <3>3. s \o w = Append(s \o v, e) /\ s \o v \in Seq(Lines)
      BY <3>1, <3>2, ConcatAppend
    <3>4. LoadOf(clock, s \o v) = Held(v)
      BY <1>4, <3>1
    <3>5. /\ LoadOf(clock, s \o v) \in Loads
          /\ LoadOf(clock, s \o w) = LoadLine(clock, LoadOf(clock, s \o v), e)
      BY <3>2, <3>3, LoadNext
    <3>6. LoadOf(clock, s \o w) = [pending |-> Append(l.pending \o v, e), lines |-> l.lines,
                                   run |-> l.run, runs |-> l.runs]
      <4>1. PICK g \in Loads : g = LoadOf(clock, s \o v)
        BY <3>5
      <4>2. LoadLine(clock, g, e) = [pending |-> Append(g.pending, e), lines |-> g.lines,
                                     run |-> g.run, runs |-> g.runs]
        BY LoadTrade
      <4>3. g.pending = l.pending \o v /\ g.lines = l.lines /\ g.run = l.run /\ g.runs = l.runs
        BY <3>4, <4>1
      <4>4. QED
        BY <3>5, <4>1, <4>2, <4>3
    <3>7. Append(l.pending \o v, e) = l.pending \o w
      <4> HIDE DEF T, Held
      <4>1. l.pending \o Append(v, e) = Append(l.pending \o v, e)
        BY <1>2, ConcatAppend
      <4>2. QED
        BY <3>1, <4>1
    <3>8. QED
      BY <3>6, <3>7
  <2>2. n + 1 \in Nat
    OBVIOUS
  <2>3. QED
    BY <2>1, <2>2
<1>5. \A n \in Nat : n \in T
  <2> HIDE DEF T
  <2>1. QED
    BY <1>3, <1>4, Induct
<1>6. Len(u) \in Nat
  BY LenProperties
<1>7. LoadOf(clock, s \o u) = Held(u)
  BY <1>5, <1>6
<1>8. QED
  BY <1>1, <1>7

\* When a line is seen that a mark reveals.
SeenLine(clock, mark, read) ==
  [visible |-> IF clock = "wall" THEN mark.wallAt ELSE read.at, entry |-> read]
SeenLines(clock, mark, reads) == {SeenLine(clock, mark, read) : read \in reads}

LEMMA RevealedRange ==
  ASSUME NEW clock, NEW p \in Seq(Trades), NEW m \in Marks
  PROVE  Range(Revealed(clock, p, m)) = SeenLines(clock, m, Range(p) \cup {m})
<1>1. p \in Seq(Lines) /\ m \in Lines
  BY SeqMonotonic DEF Lines
<1>2. /\ Len(Append(p, m)) = Len(p) + 1 /\ Len(p) \in Nat /\ DOMAIN p = 1..Len(p)
      /\ (\A i \in 1..Len(p) : Append(p, m)[i] = p[i]) /\ Append(p, m)[Len(p) + 1] = m
  BY <1>1, AppendProperties, LenProperties
<1>3. /\ DOMAIN Revealed(clock, p, m) = 1..(Len(p) + 1)
      /\ \A i \in 1..(Len(p) + 1) : Revealed(clock, p, m)[i] = SeenLine(clock, m, Append(p, m)[i])
  BY DEF Revealed, SeenLine
<1>4. ASSUME NEW x \in Range(Revealed(clock, p, m))
      PROVE  \E read \in Range(p) \cup {m} : x = SeenLine(clock, m, read)
  <2>1. PICK i \in 1..(Len(p) + 1) : x = SeenLine(clock, m, Append(p, m)[i])
    BY <1>3 DEF Range
  <2>2. CASE i = Len(p) + 1
    BY <1>2, <2>1, <2>2
  <2>3. CASE i # Len(p) + 1
    <3>1. i \in DOMAIN p /\ Append(p, m)[i] = p[i]
      BY <1>2, <2>3
    <3>2. p[i] \in Range(p)
      BY <3>1 DEF Range
    <3>3. QED
      BY <2>1, <3>1, <3>2
  <2>4. QED
    BY <2>2, <2>3
<1>5. ASSUME NEW read \in Range(p) \cup {m}
      PROVE  SeenLine(clock, m, read) \in Range(Revealed(clock, p, m))
  <2>1. \E i \in 1..(Len(p) + 1) : read = Append(p, m)[i]
    <3>1. CASE read = m
      BY <1>2, <3>1
    <3>2. CASE read \in Range(p)
      <4>1. PICK i \in DOMAIN p : read = p[i]
        BY <3>2 DEF Range
      <4>2. i \in 1..(Len(p) + 1) /\ i \in 1..Len(p)
        BY <1>2
      <4>3. QED
        BY <1>2, <4>1, <4>2
    <3>3. QED
      BY <3>1, <3>2
  <2>2. QED
    BY <1>3, <2>1 DEF Range
<1>6. QED
  BY <1>4, <1>5 DEF SeenLines

\* k is what a mark m makes of a load with these lines and runs, and these reads pending.
Closes(clock, k, lines, run, runs, reads, m) ==
  /\ k \in Loads /\ k.pending = <<>> /\ k.runs = runs
  /\ k.run = Extend(run, IF clock = "wall" THEN m.wallAt ELSE m.at)
  /\ Range(k.lines) = lines \cup SeenLines(clock, m, reads \cup {m})

\* A snapshot closes what was pending and what it brings.
LEMMA LoadSnapshot ==
  ASSUME NEW clock, NEW s \in Seq(Lines), NEW u \in Seq(Trades), NEW m \in Marks
  PROVE  Closes(clock, LoadOf(clock, s \o (u \o <<m>>)), Range(LoadOf(clock, s).lines),
                LoadOf(clock, s).run, LoadOf(clock, s).runs,
                Range(LoadOf(clock, s).pending) \cup Range(u), m)
<1>1. PICK l, k, h : l = LoadOf(clock, s) /\ k = LoadOf(clock, s \o (u \o <<m>>)) /\ h = LoadOf(clock, s \o u)
  OBVIOUS
<1>2. u \in Seq(Lines) /\ m \in Lines
  BY SeqMonotonic DEF Lines
<1>3. s \o (u \o <<m>>) = Append(s \o u, m) /\ s \o u \in Seq(Lines)
  <2>1. u \o <<m>> = Append(u, m)
    BY <1>2, AppendIsConcat
  <2>2. QED
    BY <1>2, <2>1, ConcatAppend
<1>4. l \in Loads /\ h \in Loads /\ k = LoadLine(clock, h, m)
  BY <1>1, <1>2, <1>3, LoadNext
<1>5. h = [pending |-> l.pending \o u, lines |-> l.lines, run |-> l.run, runs |-> l.runs]
  BY <1>1, LoadTrades
<1>6. k \in Loads
  BY <1>2, <1>4, LoadLineType
<1>12. l.pending \o u \in Seq(Trades) /\ h \in Loads
  BY <1>4, LoadFields, ConcatProperties
<1>7. /\ k.pending = <<>> /\ k.runs = l.runs
      /\ k.run = Extend(l.run, IF clock = "wall" THEN m.wallAt ELSE m.at)
      /\ k.lines = l.lines \o Revealed(clock, l.pending \o u, m)
  <2>1. k = [pending |-> <<>>, lines |-> h.lines \o Revealed(clock, h.pending, m),
             run |-> Extend(h.run, IF clock = "wall" THEN m.wallAt ELSE m.at), runs |-> h.runs]
    BY <1>4, LoadMark
  <2>2. h.pending = l.pending \o u /\ h.lines = l.lines /\ h.run = l.run /\ h.runs = l.runs
    BY <1>5
  <2>3. QED
    BY <2>1, <2>2
<1>8. l.pending \o u \in Seq(Trades) /\ Range(l.pending \o u) = Range(l.pending) \cup Range(u)
  BY <1>4, LoadFields, ConcatProperties, RangeConcatenation
<1>9. Range(k.lines) = Range(l.lines) \cup Range(Revealed(clock, l.pending \o u, m))
  <2>1. /\ l.lines \in Seq([visible : Nat, entry : Marks \cup Trades])
        /\ Revealed(clock, l.pending \o u, m) \in Seq([visible : Nat, entry : Marks \cup Trades])
    BY <1>4, <1>8, LoadFields, RevealedType
  <2>2. QED
    BY <1>7, <2>1, RangeConcatenation
<1>10. Range(k.lines) = Range(l.lines) \cup
         SeenLines(clock, m, Range(l.pending) \cup Range(u) \cup {m})
  <2>1. PICK p \in Seq(Trades) : p = l.pending \o u
    BY <1>12
  <2>2. Range(Revealed(clock, p, m)) = SeenLines(clock, m, Range(p) \cup {m})
    BY RevealedRange
  <2>3. Range(p) = Range(l.pending) \cup Range(u)
    BY <1>8, <2>1
  <2>4. QED
    BY <1>9, <2>1, <2>2, <2>3
<1>11. Closes(clock, k, Range(l.lines), l.run, l.runs, Range(l.pending) \cup Range(u), m)
  BY <1>6, <1>7, <1>10 DEF Closes
<1>13. QED
  BY <1>1, <1>11

-----------------------------------------------------------------------------
(***************************************************************************)
(* The coverage an operator is shown is the coverage the replay goes by.   *)
(***************************************************************************)

TapeLines == Lines \cup {TORN}
Read == [id : Nat, at : Nat]

Coverage == [run : Runs \cup {<<>>}, runs : SUBSET Runs]
NoCoverage == [run |-> <<>>, runs |-> {}]

CoverageFrom(clock, g) ==
  g = [t \in SUBSET DOMAIN [i \in DOMAIN tape |-> i] |->
         IF t = {} THEN NoCoverage
         ELSE CoverageLine(clock, g[t \ {Max(t)}], [i \in DOMAIN tape |-> i][Max(t)])]

LEMMA CoverageIs ==
  ASSUME NEW clock
  PROVE  \E g : /\ g = CHOOSE h : CoverageFrom(clock, h)
                /\ runsIn(clock) = Closed(g[DOMAIN [i \in DOMAIN tape |-> i]])
BY DEF runsIn, FoldLeft, MapThenFoldSet, CoverageFrom, NoCoverage

\* Before the first torn line, coverage grows as a load does.
LEMMA CoverageLineIs ==
  ASSUME NEW clock, tape \in Seq(TapeLines), NEW k \in 1..Len(tape),
         NEW a \in Coverage
  PROVE  /\ CoverageLine(clock, a, k) \in Coverage
         /\ tape[k] = TORN => CoverageLine(clock, a, k) = a
         /\ \A l \in Loads :
              /\ tape[k] # TORN /\ (k = 1 \/ tape[k - 1].kind # "TORN")
              /\ a = [run |-> l.run, runs |-> l.runs]
              => LET next == LoadLine(clock, l, tape[k])
                 IN  CoverageLine(clock, a, k) = [run |-> next.run, runs |-> next.runs]
<1>1. PICK e : e = tape[k]
  OBVIOUS
<1>2. e \in Lines \/ e = TORN
  BY <1>1, ElementOfSeq DEF TapeLines
<1>3. /\ a.run \in Runs \cup {<<>>} /\ a.runs \in SUBSET Runs
      /\ a = [run |-> a.run, runs |-> a.runs] /\ Closed(a) \in SUBSET Runs
  BY DEF Coverage, Closed
<1>4. \A r \in Runs \cup {<<>>}, rs \in SUBSET Runs : [run |-> r, runs |-> rs] \in Coverage
  BY DEF Coverage
<1>5. PICK lost : lost = (e.kind = "TORN" \/ (k > 1 /\ tape[k - 1].kind = "TORN"))
  OBVIOUS
<1>6. CASE e = TORN
  <2>1. e.kind = "TORN"
    BY <1>6 DEF TORN
  <2>2. CoverageLine(clock, a, k) = a
    BY <1>1, <2>1 DEF CoverageLine
  <2>3. QED
    BY <1>1, <1>6, <2>2
<1>7. CASE e \in Starts
  <2>1. e.kind = "START"
    BY <1>7, LineKinds
  <2>2. e # TORN
    BY <2>1 DEF TORN
  <2>3. CoverageLine(clock, a, k) = IF k > 1 /\ tape[k - 1].kind = "TORN" THEN a
                                    ELSE [run |-> <<>>, runs |-> Closed(a)]
    BY <1>1, <2>1 DEF CoverageLine
  <2>4. CoverageLine(clock, a, k) \in Coverage
    BY <1>3, <1>4, <2>3
  <2>5. ASSUME NEW l \in Loads, k = 1 \/ tape[k - 1].kind # "TORN",
               a = [run |-> l.run, runs |-> l.runs]
        PROVE  LET next == LoadLine(clock, l, tape[k])
               IN  CoverageLine(clock, a, k) = [run |-> next.run, runs |-> next.runs]
    <3>1. Closed(a) = Closed(l)
      BY <2>5 DEF Closed
    <3>2. LoadLine(clock, l, tape[k])
            = [pending |-> <<>>, lines |-> l.lines, run |-> <<>>, runs |-> Closed(l)]
      BY <1>1, <1>7, LoadStart
    <3>3. CoverageLine(clock, a, k) = [run |-> <<>>, runs |-> Closed(a)]
      BY <2>3, <2>5
    <3>4. QED
      BY <3>1, <3>2, <3>3
  <2>6. QED
    BY <1>1, <2>2, <2>4, <2>5
<1>8. CASE e \in Trades
  <2>1. e.kind = "TRADE"
    BY <1>8, LineKinds
  <2>2. e # TORN
    BY <2>1 DEF TORN
  <2>3. CoverageLine(clock, a, k) = a
    BY <1>1, <2>1 DEF CoverageLine
  <2>4. ASSUME NEW l \in Loads, a = [run |-> l.run, runs |-> l.runs]
        PROVE  LET next == LoadLine(clock, l, tape[k])
               IN  CoverageLine(clock, a, k) = [run |-> next.run, runs |-> next.runs]
    <3>1. LoadLine(clock, l, tape[k]) = [pending |-> Append(l.pending, e), lines |-> l.lines,
                                         run |-> l.run, runs |-> l.runs]
      BY <1>1, <1>8, LoadTrade
    <3>2. QED
      BY <2>3, <2>4, <3>1
  <2>5. QED
    BY <1>1, <2>2, <2>3, <2>4
<1>9. CASE e \in Marks
  <2>1. e.kind = "COVERED"
    BY <1>9, LineKinds
  <2>2. e # TORN
    BY <2>1 DEF TORN
  <2>3. PICK at \in Nat : at = IF clock = "wall" THEN e.wallAt ELSE e.at
    BY <1>9, LineKinds
  <2>4. CoverageLine(clock, a, k) = IF k > 1 /\ tape[k - 1].kind = "TORN" THEN a
                                    ELSE [run |-> Extend(a.run, at), runs |-> a.runs]
    BY <1>1, <1>3, <2>1, <2>3 DEF CoverageLine
  <2>5. Extend(a.run, at) \in Runs
    BY <1>3, ExtendType
  <2>6. CoverageLine(clock, a, k) \in Coverage
    BY <1>3, <1>4, <2>4, <2>5
  <2>7. ASSUME NEW l \in Loads, k = 1 \/ tape[k - 1].kind # "TORN",
               a = [run |-> l.run, runs |-> l.runs]
        PROVE  LET next == LoadLine(clock, l, tape[k])
               IN  CoverageLine(clock, a, k) = [run |-> next.run, runs |-> next.runs]
    <3>1. CoverageLine(clock, a, k) = [run |-> Extend(l.run, at), runs |-> l.runs]
      BY <2>4, <2>7
    <3>2. LoadLine(clock, l, tape[k])
            = [pending |-> <<>>, lines |-> l.lines \o Revealed(clock, l.pending, e),
               run |-> Extend(l.run, at), runs |-> l.runs]
      BY <1>1, <1>9, <2>3, LoadMark
    <3>3. QED
      BY <3>1, <3>2
  <2>8. QED
    BY <1>1, <2>2, <2>6, <2>7
<1>10. QED
  BY <1>2, <1>6, <1>7, <1>8, <1>9 DEF Lines

CoveragePrefixes(clock, c) ==
  /\ c[0] = NoCoverage
  /\ \A k \in 1..Len(tape) : c[k] = CoverageLine(clock, c[k - 1], k)

LEMMA CoverageUnfolds ==
  ASSUME NEW clock, tape \in Seq(TapeLines)
  PROVE  \E c \in [0..Len(tape) -> Coverage] :
            CoveragePrefixes(clock, c) /\ runsIn(clock) = Closed(c[Len(tape)])
<1> DEFINE n == Len(tape)
           D == 1..n
<1>1. n \in Nat /\ DOMAIN tape = D
  BY LenProperties
<1>2. IsFiniteSet(D)
  BY <1>1, FS_Interval
<1>3. PICK pick : pick = [t \in SUBSET D |-> Max(t)]
  OBVIOUS
<1>4. \A t \in SUBSET D : t # {} => pick[t] \in t
  BY <1>1, <1>3, MaxOfPlaces
<1>5. PICK step : step = [k \in D |-> [a \in Coverage |-> CoverageLine(clock, a, k)]]
  OBVIOUS
<1>6. step \in [D -> [Coverage -> Coverage]]
  BY <1>1, <1>5, CoverageLineIs
<1>7. NoCoverage \in Coverage
  BY DEF NoCoverage, Coverage
<1>8. PICK f \in [SUBSET D -> Coverage] : Unfolds(D, pick, NoCoverage, step, f)
  BY <1>2, <1>4, <1>6, <1>7, FoldExists
<1>9. PICK places : places = [i \in DOMAIN tape |-> i]
  OBVIOUS
<1>10. DOMAIN places = D /\ \A i \in D : places[i] = i
  BY <1>1, <1>9
<1>11. CoverageFrom(clock, f)
  <2>1. ASSUME NEW t \in SUBSET D
        PROVE  f[t] = IF t = {} THEN NoCoverage
                      ELSE CoverageLine(clock, f[t \ {Max(t)}], places[Max(t)])
    <3>1. CASE t = {}
      BY <1>8, <3>1 DEF Unfolds
    <3>2. CASE t # {}
      <4>1. Max(t) \in D /\ pick[t] = Max(t) /\ f[t \ {Max(t)}] \in Coverage
        BY <1>3, <1>4, <1>8, <3>2
      <4>2. f[t] = step[Max(t)][f[t \ {Max(t)}]]
        BY <1>8, <3>2, <4>1 DEF Unfolds
      <4>3. QED
        BY <1>5, <1>10, <3>2, <4>1, <4>2
    <3>3. QED
      BY <3>1, <3>2
  <2>2. f = [t \in SUBSET DOMAIN places |-> IF t = {} THEN NoCoverage
                      ELSE CoverageLine(clock, f[t \ {Max(t)}], places[Max(t)])]
    BY <1>8, <1>10, <2>1
  <2>3. QED
    BY <1>9, <2>2 DEF CoverageFrom
<1>12. PICK g : g = (CHOOSE h : CoverageFrom(clock, h)) /\ runsIn(clock) = Closed(g[DOMAIN places])
  BY <1>9, CoverageIs
<1>13. CoverageFrom(clock, g)
  BY <1>11, <1>12
<1>14. \A t \in SUBSET D : g[t] = IF t = {} THEN NoCoverage
                                  ELSE CoverageLine(clock, g[t \ {Max(t)}], places[Max(t)])
  BY <1>9, <1>10, <1>13 DEF CoverageFrom
<1>15. PICK c : c = [k \in 0..n |-> g[1..k]]
  OBVIOUS
<1>16. c[0] = NoCoverage
  <2>1. 1..0 = {} /\ c[0] = g[1..0]
    BY <1>1, <1>15, LastPlace
  <2>2. QED
    BY <1>14, <2>1
<1>17. ASSUME NEW k \in D PROVE c[k] = CoverageLine(clock, c[k - 1], k)
  <2>1. k - 1 \in Nat /\ (k - 1) + 1 = k /\ k \in 0..n /\ k - 1 \in 0..n /\ 1..k \in SUBSET D
    BY <1>1
  <2>2. 1..k # {} /\ Max(1..k) = k /\ (1..k) \ {k} = 1..(k - 1)
    BY <2>1, LastPlace
  <2>3. g[1..k] = CoverageLine(clock, g[1..(k - 1)], k)
    BY <1>10, <1>14, <2>1, <2>2
  <2>4. QED
    BY <1>15, <2>1, <2>3
<1>18. \A k \in 0..n : c[k] \in Coverage
  <2> DEFINE T == {k \in Nat : k <= n => c[k] \in Coverage}
  <2>1. 0 \in T
    BY <1>7, <1>16
  <2>2. ASSUME NEW k \in Nat, k \in T PROVE k + 1 \in T
    <3>1. CASE k + 1 <= n
      <4>1. k + 1 \in D /\ (k + 1) - 1 = k /\ c[k] \in Coverage
        BY <1>1, <2>2, <3>1
      <4>2. QED
        BY <1>17, <4>1, CoverageLineIs
    <3>2. CASE ~(k + 1 <= n)
      BY <3>2
    <3>3. QED
      BY <3>1, <3>2
  <2>3. \A k \in Nat : k \in T
    <3> HIDE DEF T
    <3>1. QED
      BY <2>1, <2>2, Induct
  <2>4. QED
    BY <1>1, <2>3
<1>19. c \in [0..n -> Coverage] /\ runsIn(clock) = Closed(c[n])
  BY <1>1, <1>10, <1>12, <1>15, <1>18
<1>20. QED
  BY <1>16, <1>17, <1>19 DEF CoveragePrefixes

\* What a replay reads of a tape that decodes: all of it but a torn last line.
LEMMA EntriesOf ==
  ASSUME tape \in Seq(TapeLines), decodes
  PROVE  /\ Entries \in Seq(Lines)
         /\ \A k \in 1..Len(Entries) : Entries[k] = tape[k]
         /\ \/ Entries = tape
            \/ Len(tape) = Len(Entries) + 1 /\ tape[Len(tape)] = TORN
<1>1. Len(tape) \in Nat /\ \A k \in 1..Len(tape) : tape[k] \in TapeLines
  BY LenProperties, ElementOfSeq
<1>2. \A e \in TapeLines : e.kind = "TORN" <=> e = TORN
  BY LineKinds DEF TapeLines, Lines, TORN
<1>3. \A k \in 1..(Len(tape) - 1) : tape[k] \in Lines
  <2>1. ASSUME NEW k \in 1..(Len(tape) - 1) PROVE tape[k] \in Lines
    <3>1. tape[k] \in TapeLines /\ tape[k].kind # "TORN"
      BY <1>1 DEF decodes
    <3>2. QED
      BY <1>2, <3>1 DEF TapeLines
  <2>2. QED
    BY <2>1
<1>4. CASE tape # <<>> /\ Last(tape).kind = "TORN"
  <2>1. Entries = SubSeq(tape, 1, Len(tape) - 1)
    BY <1>4 DEF Entries, Front
  <2>2. Len(tape) # 0
    BY <1>4, EmptySeq
  <2>3. /\ Entries \in Seq(Lines) /\ Len(Entries) = Len(tape) - 1
        /\ \A k \in 1..(Len(tape) - 1) : Entries[k] = tape[k]
    <3>1. PICK n \in Nat : n = Len(tape) - 1
      BY <1>1, <2>2
    <3>2. Entries = SubSeq(tape, 1, n) /\ \A k \in 1..n : tape[k] \in Lines
      BY <1>3, <2>1, <3>1
    <3>3. QED
      BY <3>1, <3>2, SubSeqProperties
  <2>4. tape[Len(tape)] = TORN
    BY <1>1, <1>2, <1>4, <2>2 DEF Last
  <2>5. QED
    BY <1>1, <2>2, <2>3, <2>4
<1>5. CASE ~(tape # <<>> /\ Last(tape).kind = "TORN")
  <2>1. Entries = tape
    BY <1>5 DEF Entries
  <2>2. ASSUME NEW k \in 1..Len(tape) PROVE tape[k] \in Lines
    <3>1. CASE k = Len(tape)
      <4>1. tape # <<>> /\ Last(tape) = tape[k] /\ tape[k] \in TapeLines
        BY <1>1, <3>1, EmptySeq DEF Last
      <4>2. QED
        BY <1>2, <1>5, <4>1 DEF TapeLines
    <3>2. CASE k # Len(tape)
      BY <1>1, <1>3, <3>2
    <3>3. QED
      BY <3>1, <3>2
  <2>3. tape \in Seq(Lines)
    BY <2>2, LenProperties
  <2>4. QED
    BY <2>1, <2>3
<1>6. QED
  BY <1>4, <1>5

LEMMA CoverageIsLoads ==
  ASSUME NEW clock, tape \in Seq(TapeLines), decodes
  PROVE  runsIn(clock) = Closed(load(clock))
<1>1. /\ Entries \in Seq(Lines)
      /\ \A k \in 1..Len(Entries) : Entries[k] = tape[k]
      /\ Entries = tape \/ (Len(tape) = Len(Entries) + 1 /\ tape[Len(tape)] = TORN)
  BY EntriesOf
<1>2. Len(Entries) \in Nat /\ Len(tape) \in Nat /\ Len(Entries) <= Len(tape)
      /\ \A k \in 1..Len(Entries) : Entries[k] \in Lines
  BY <1>1, LenProperties, ElementOfSeq
<1>3. PICK h \in [0..Len(Entries) -> Loads] :
        HeadLoads(clock, Entries, h) /\ LoadOf(clock, Entries) = h[Len(Entries)]
  BY <1>1, LoadUnfolds
<1>4. PICK c \in [0..Len(tape) -> Coverage] :
        CoveragePrefixes(clock, c) /\ runsIn(clock) = Closed(c[Len(tape)])
  BY CoverageUnfolds
<1>5. \A e \in Lines : e # TORN /\ e.kind # "TORN"
  BY LineKinds DEF Lines, TORN
<1> DEFINE Same(k) == c[k] = [run |-> h[k].run, runs |-> h[k].runs]
           T == {k \in Nat : k <= Len(Entries) => Same(k)}
<1>6. \A k \in Nat : k \in T
  <2>1. 0 \in T
    <3>1. c[0] = [run |-> <<>>, runs |-> {}] /\ h[0] = EmptyLoad
      BY <1>3, <1>4 DEF HeadLoads, CoveragePrefixes, NoCoverage
    <3>2. h[0].run = <<>> /\ h[0].runs = {}
      BY <3>1 DEF EmptyLoad
    <3>3. Same(0)
      BY <3>1, <3>2
    <3>4. QED
      BY <3>3
  <2>2. ASSUME NEW k \in Nat, k \in T PROVE k + 1 \in T
    <3>1. CASE k + 1 <= Len(Entries)
      <4>1. /\ k + 1 \in 1..Len(Entries) /\ k + 1 \in 1..Len(tape) /\ (k + 1) - 1 = k
            /\ c[k] \in Coverage /\ h[k] \in Loads /\ Same(k)
        BY <1>2, <1>3, <1>4, <2>2, <3>1
      <4>2. tape[k + 1] \in Lines /\ (k + 1 = 1 \/ tape[k] \in Lines)
        BY <1>1, <1>2, <4>1
      <4>3. h[k + 1] = LoadLine(clock, h[k], tape[k + 1]) /\ c[k + 1] = CoverageLine(clock, c[k], k + 1)
        BY <1>1, <1>3, <1>4, <4>1 DEF HeadLoads, CoveragePrefixes
      <4>4. tape[k + 1] # TORN /\ (k + 1 = 1 \/ tape[(k + 1) - 1].kind # "TORN")
        BY <1>5, <4>1, <4>2
      <4>5. Same(k + 1)
        BY <4>1, <4>3, <4>4, CoverageLineIs
      <4>6. QED
        BY <4>5
    <3>2. CASE ~(k + 1 <= Len(Entries))
      BY <3>2
    <3>3. QED
      BY <3>1, <3>2
  <2>3. QED
    <3> HIDE DEF T
    <3>1. QED
      BY <2>1, <2>2, Induct
<1>7. Same(Len(Entries))
  BY <1>2, <1>6
<1>8. c[Len(tape)] = c[Len(Entries)]
  <2>1. CASE Entries = tape
    BY <2>1
  <2>2. CASE Len(tape) = Len(Entries) + 1 /\ tape[Len(tape)] = TORN
    <3>1. Len(tape) \in 1..Len(tape) /\ Len(tape) - 1 = Len(Entries) /\ Len(Entries) \in 0..Len(tape)
      BY <1>2, <2>2
    <3>2. c[Len(tape)] = CoverageLine(clock, c[Len(Entries)], Len(tape)) /\ c[Len(Entries)] \in Coverage
      BY <1>4, <3>1 DEF CoveragePrefixes
    <3>3. QED
      BY <2>2, <3>1, <3>2, CoverageLineIs
  <2>3. QED
    BY <1>1, <2>1, <2>2
<1>9. Closed(c[Len(tape)]) = Closed(h[Len(Entries)])
  BY <1>7, <1>8 DEF Closed
<1>10. QED
  BY <1>3, <1>4, <1>9 DEF load

-----------------------------------------------------------------------------
(***************************************************************************)
(* What a write leaves on a tape.                                          *)
(***************************************************************************)

Decodable(t) == \A i \in 1..(Len(t) - 1) : t[i].kind # "TORN"
Complete(t) == IF t # <<>> /\ Last(t).kind = "TORN" THEN Front(t) ELSE t

LEMMA TornOnly ==
  /\ \A e \in TapeLines : e.kind = "TORN" <=> e = TORN
  /\ \A e \in Lines : e.kind # "TORN" /\ e # TORN
BY LineKinds DEF TapeLines, Lines, TORN

LEMMA WholeTape ==
  ASSUME NEW t \in Seq(Lines)
  PROVE  Complete(t) = t /\ Decodable(t) /\ t \in Seq(TapeLines)
<1>1. Len(t) \in Nat /\ \A k \in 1..Len(t) : t[k] \in Lines
  BY LenProperties, ElementOfSeq
<1>2. t \in Seq(TapeLines)
  BY SeqMonotonic DEF TapeLines
<1>3. ASSUME t # <<>> PROVE Last(t).kind # "TORN"
  <2>1. Len(t) \in 1..Len(t)
    BY <1>1, <1>3, EmptySeq
  <2>2. QED
    BY <1>1, <2>1, TornOnly DEF Last
<1>4. QED
  BY <1>1, <1>2, <1>3, TornOnly DEF Complete, Decodable

\* A line more and the lines before it are whole.
LEMMA WholeBefore ==
  ASSUME NEW t \in Seq(TapeLines), NEW w \in Seq(TapeLines), Decodable(t \o w)
  PROVE  Decodable(t) /\ (w = <<>> \/ t \in Seq(Lines))
<1>1. CASE w = <<>>
  BY <1>1, ConcatEmptySeq
<1>2. CASE w # <<>>
  <2>1. /\ Len(t) \in Nat /\ Len(w) \in Nat /\ Len(w) # 0
        /\ \A k \in 1..Len(t) : t[k] \in TapeLines
    BY <1>2, EmptySeq, LenProperties, ElementOfSeq
  <2>2. Len(t \o w) = Len(t) + Len(w) /\ \A k \in 1..Len(t) : (t \o w)[k] = t[k]
    BY <2>1, ConcatProperties
  <2>3. ASSUME NEW k \in 1..Len(t) PROVE t[k] \in Lines
    <3>1. k \in 1..(Len(t \o w) - 1)
      BY <2>1, <2>2
    <3>2. t[k].kind # "TORN"
      BY <2>2, <3>1 DEF Decodable
    <3>3. QED
      BY <2>1, <3>2, TornOnly DEF TapeLines
  <2>4. t \in Seq(Lines)
    BY <2>1, <2>3, LenProperties
  <2>5. QED
    BY <2>4, WholeTape
<1>3. QED
  BY <1>1, <1>2

LEMMA TornTape ==
  ASSUME NEW t \in Seq(Lines)
  PROVE  Complete(t \o <<TORN>>) = t
<1>1. t \in Seq(TapeLines) /\ TORN \in TapeLines
  BY SeqMonotonic DEF TapeLines
<1>2. PICK w : w = Append(t, TORN)
  OBVIOUS
<1>3. t \o <<TORN>> = w
  BY <1>1, <1>2, AppendIsConcat
<1>4. /\ w \in Seq(TapeLines) /\ w # <<>> /\ Len(w) = Len(t) + 1 /\ Len(t) \in Nat
      /\ w[Len(t) + 1] = TORN /\ \A k \in 1..Len(t) : w[k] = t[k] /\ t[k] \in Lines
  BY <1>1, <1>2, AppendProperties, LenProperties, ElementOfSeq
<1>5. Last(w).kind = "TORN"
  BY <1>4 DEF Last, TORN
<1>6. PICK n \in Nat : n = Len(t)
  BY <1>4
<1>7. SubSeq(w, 1, n) \in Seq(Lines) /\ Len(SubSeq(w, 1, n)) = n
      /\ \A k \in 1..n : SubSeq(w, 1, n)[k] = w[k]
  BY <1>4, <1>6, SubSeqProperties
<1>8. SubSeq(w, 1, n) = t
  BY <1>4, <1>6, <1>7, SeqEqual
<1>9. Complete(w) = SubSeq(w, 1, Len(w) - 1)
  BY <1>4, <1>5 DEF Complete, Front
<1>10. Len(w) - 1 = n
  BY <1>4, <1>6
<1>11. QED
  BY <1>3, <1>8, <1>9, <1>10

\* What is left of a write that a crash cut short.
LEMMA CutShort ==
  ASSUME NEW t \in Seq(TapeLines), NEW part \in Seq(Lines), NEW torn \in {<<>>, <<TORN>>},
         Decodable((t \o part) \o torn)
  PROVE  /\ Decodable(t) /\ (t \o part) \o torn \in Seq(TapeLines)
         /\ \/ (t \o part) \o torn = t
            \/ t \in Seq(Lines) /\ Complete((t \o part) \o torn) = t \o part
<1>1. /\ part \in Seq(TapeLines) /\ TORN \in TapeLines /\ torn \in Seq(TapeLines)
      /\ t \o part \in Seq(TapeLines) /\ part \o torn \in Seq(TapeLines)
  <2>1. part \in Seq(TapeLines) /\ TORN \in TapeLines
    BY SeqMonotonic DEF TapeLines
  <2>2. <<TORN>> \in Seq(TapeLines) /\ <<>> \in Seq(TapeLines)
    BY <2>1
  <2>3. QED
    BY <2>1, <2>2, ConcatProperties
<1>2. (t \o part) \o torn \in Seq(TapeLines) /\ (t \o part) \o torn = t \o (part \o torn)
  BY <1>1, ConcatProperties, ConcatAssociative
<1>3. Decodable(t) /\ (part \o torn = <<>> \/ t \in Seq(Lines))
  BY <1>1, <1>2, WholeBefore
<1>4. CASE part \o torn = <<>>
  BY <1>2, <1>3, <1>4, ConcatEmptySeq
<1>5. CASE t \in Seq(Lines)
  <2>1. t \o part \in Seq(Lines)
    BY <1>5, ConcatProperties
  <2>2. CASE torn = <<>>
    BY <1>2, <1>3, <1>5, <2>1, <2>2, ConcatEmptySeq, WholeTape
  <2>3. CASE torn = <<TORN>>
    BY <1>2, <1>3, <1>5, <2>1, <2>3, TornTape
  <2>4. QED
    BY <2>2, <2>3
<1>6. QED
  BY <1>3, <1>4, <1>5

\* What a snapshot writes before its mark, and after a start's header.
LEMMA CutSnapshot ==
  ASSUME NEW u \in Seq(Trades), NEW m \in Marks, NEW n \in 0..Len(u)
  PROVE  SubSeq(u \o <<m>>, 1, n) \in Seq(Trades)
<1>1. PICK w : w = u \o <<m>>
  OBVIOUS
<1>2. \A k \in 1..Len(u) : w[k] = u[k] /\ u[k] \in Trades
  <2>1. u \in Seq(Lines) /\ <<m>> \in Seq(Lines)
    BY SeqMonotonic DEF Lines
  <2>2. Len(u) \in Nat /\ Len(<<m>>) = 1
    BY LenProperties
  <2>3. QED
    BY <1>1, <2>1, <2>2, ConcatProperties, ElementOfSeq
<1>3. n \in Int /\ \A k \in 1..n : w[k] \in Trades
  BY <1>2, LenProperties
<1>4. SubSeq(w, 1, n) \in Seq(Trades)
  BY <1>3, SubSeqProperties
<1>5. QED
  BY <1>1, <1>4

LEMMA CutStart ==
  ASSUME NEW e \in Starts, NEW u \in Seq(Trades), NEW m \in Marks, NEW n \in 1..(Len(u) + 1)
  PROVE  \E v \in Seq(Trades) : SubSeq(<<e>> \o (u \o <<m>>), 1, n) = <<e>> \o v
<1>1. PICK s, w, v : s = u \o <<m>> /\ w = <<e>> \o s /\ v = SubSeq(s, 1, n - 1)
  OBVIOUS
<1>2. /\ <<e>> \in Seq(Lines) /\ u \in Seq(Lines) /\ <<m>> \in Seq(Lines) /\ Len(u) \in Nat
      /\ Len(<<m>>) = 1 /\ Len(<<e>>) = 1
  <2>1. e \in Lines /\ m \in Lines
    BY DEF Lines
  <2>2. QED
    BY <2>1, SeqMonotonic, LenProperties DEF Lines
<1>3. s \in Seq(Lines) /\ Len(s) = Len(u) + 1
  BY <1>1, <1>2, ConcatProperties
<1>4. w \in Seq(Lines) /\ Len(w) = Len(u) + 2 /\ w[1] = e /\ \A k \in 2..n : w[k] = s[k - 1]
  <2>1. /\ Len(<<e>> \o s) = 1 + Len(s)
        /\ \A k \in 1..(1 + Len(s)) : (<<e>> \o s)[k] = IF k <= 1 THEN <<e>>[k] ELSE s[k - 1]
        /\ <<e>> \o s \in Seq(Lines)
    BY <1>2, <1>3, ConcatProperties
  <2>2. QED
    BY <1>1, <1>2, <1>3, <2>1
<1>5. v \in Seq(Trades)
  BY <1>1, <1>2, CutSnapshot
<1>6. v \in Seq(Lines) /\ Len(v) = n - 1 /\ \A k \in 1..(n - 1) : v[k] = s[k]
  <2>1. PICK j \in Nat : j = n - 1
    OBVIOUS
  <2>2. \A k \in 1..j : s[k] \in Lines
    BY <1>2, <1>3, <2>1, ElementOfSeq
  <2>3. /\ SubSeq(s, 1, j) \in Seq(Lines) /\ Len(SubSeq(s, 1, j)) = j
        /\ \A k \in 1..j : SubSeq(s, 1, j)[k] = s[k]
    BY <2>1, <2>2, SubSeqProperties
  <2>4. QED
    BY <1>1, <2>1, <2>3
<1>7. PICK x : x = SubSeq(w, 1, n)
  OBVIOUS
<1>8. x \in Seq(Lines) /\ Len(x) = n /\ \A k \in 1..n : x[k] = w[k]
  <2>1. \A k \in 1..n : w[k] \in Lines
    BY <1>2, <1>4, ElementOfSeq
  <2>2. QED
    BY <1>7, <2>1, SubSeqProperties
<1>9. PICK y : y = <<e>> \o v
  OBVIOUS
<1>10. y \in Seq(Lines) /\ Len(y) = n /\ y[1] = e /\ \A k \in 2..n : y[k] = v[k - 1]
  <2>1. /\ Len(<<e>> \o v) = 1 + Len(v)
        /\ \A k \in 1..(1 + Len(v)) : (<<e>> \o v)[k] = IF k <= 1 THEN <<e>>[k] ELSE v[k - 1]
        /\ <<e>> \o v \in Seq(Lines)
    BY <1>2, <1>6, ConcatProperties
  <2>2. QED
    BY <1>6, <1>9, <2>1
<1>11. \A k \in 1..n : x[k] = y[k]
  <2>1. ASSUME NEW k \in 1..n PROVE x[k] = y[k]
    <3>1. CASE k = 1
      BY <1>4, <1>8, <1>10, <3>1
    <3>2. CASE k # 1
      <4>1. k \in 2..n /\ k - 1 \in 1..(n - 1)
        BY <3>2
      <4>2. QED
        BY <1>4, <1>6, <1>8, <1>10, <4>1
    <3>3. QED
      BY <3>1, <3>2
  <2>2. QED
    BY <2>1
<1>12. x = y
  BY <1>8, <1>10, <1>11, SeqEqual
<1>13. QED
  BY <1>1, <1>5, <1>7, <1>9, <1>12

\* A start drops what was pending and ends the run.
LEMMA LoadStarted ==
  ASSUME NEW clock, NEW s \in Seq(Lines), NEW e \in Starts, NEW u \in Seq(Trades)
  PROVE  LET l == LoadOf(clock, s)
         IN  LoadOf(clock, s \o (<<e>> \o u))
               = [pending |-> u, lines |-> l.lines, run |-> <<>>, runs |-> Closed(l)]
<1>1. PICK l, h : l = LoadOf(clock, s) /\ h = LoadOf(clock, Append(s, e))
  OBVIOUS
<1>2. e \in Lines /\ <<e>> \in Seq(Lines) /\ u \in Seq(Lines)
  <2>1. e \in Lines
    BY DEF Lines
  <2>2. QED
    BY <2>1, SeqMonotonic DEF Lines
<1>3. Append(s, e) \in Seq(Lines) /\ s \o (<<e>> \o u) = Append(s, e) \o u
  BY <1>2, AppendProperties, AppendIsConcat, ConcatAssociative
<1>4. l \in Loads /\ h = LoadLine(clock, l, e)
  BY <1>1, <1>2, LoadNext
<1>5. h = [pending |-> <<>>, lines |-> l.lines, run |-> <<>>, runs |-> Closed(l)]
  BY <1>4, LoadStart
<1>6. LoadOf(clock, Append(s, e) \o u)
        = [pending |-> h.pending \o u, lines |-> h.lines, run |-> h.run, runs |-> h.runs]
  BY <1>1, <1>3, LoadTrades
<1>7. <<>> \o u = u
  BY ConcatEmptySeq
<1>8. h.pending = <<>> /\ h.lines = l.lines /\ h.run = <<>> /\ h.runs = Closed(l)
  BY <1>5
<1>9. LoadOf(clock, s \o (<<e>> \o u))
        = [pending |-> u, lines |-> l.lines, run |-> <<>>, runs |-> Closed(l)]
  BY <1>3, <1>6, <1>7, <1>8
<1>10. QED
  BY <1>1, <1>9

LEMMA LoadStartSnapshot ==
  ASSUME NEW clock, NEW s \in Seq(Lines), NEW e \in Starts, NEW u \in Seq(Trades), NEW m \in Marks
  PROVE  Closes(clock, LoadOf(clock, s \o (<<e>> \o (u \o <<m>>))), Range(LoadOf(clock, s).lines),
                <<>>, Closed(LoadOf(clock, s)), Range(u), m)
<1>1. PICK started, l, h, k :
        /\ started = Append(s, e) /\ l = LoadOf(clock, s) /\ h = LoadOf(clock, started)
        /\ k = LoadOf(clock, s \o (<<e>> \o (u \o <<m>>)))
  OBVIOUS
<1>2. e \in Lines /\ m \in Lines /\ <<e>> \in Seq(Lines) /\ <<m>> \in Seq(Lines) /\ u \in Seq(Lines)
  <2>1. e \in Lines /\ m \in Lines
    BY DEF Lines
  <2>2. QED
    BY <2>1, SeqMonotonic DEF Lines
<1>3. u \o <<m>> \in Seq(Lines)
  BY <1>2, ConcatProperties
<1>4. started \in Seq(Lines) /\ s \o (<<e>> \o (u \o <<m>>)) = started \o (u \o <<m>>)
  BY <1>1, <1>2, <1>3, AppendProperties, AppendIsConcat, ConcatAssociative
<1>5. l \in Loads /\ h = LoadLine(clock, l, e)
  BY <1>1, <1>2, LoadNext
<1>6. h = [pending |-> <<>>, lines |-> l.lines, run |-> <<>>, runs |-> Closed(l)]
  BY <1>5, LoadStart
<1>7. k = LoadOf(clock, started \o (u \o <<m>>))
  BY <1>1, <1>4
<1>8. Closes(clock, k, Range(h.lines), h.run, h.runs, Range(h.pending) \cup Range(u), m)
  <2>1. h = LoadOf(clock, started) /\ started \in Seq(Lines)
    BY <1>1, <1>4
  <2>2. QED
    BY <1>7, <2>1, LoadSnapshot
<1>9. Range(h.pending) \cup Range(u) = Range(u)
  BY <1>6 DEF Range
<1>10. /\ h.runs = Closed(l) /\ h.run = <<>> /\ h.lines = l.lines
  BY <1>6
<1>11. Closes(clock, k, Range(l.lines), <<>>, Closed(l), Range(u), m)
  BY <1>8, <1>9, <1>10
<1>12. QED
  BY <1>1, <1>11

(***************************************************************************)
(* A source hands its trades out once each, in time order.                 *)
(***************************************************************************)
LEMMA ByTimeHands ==
  ASSUME NEW S, IsFiniteSet(S), S \subseteq Read, \A t, u \in S : t.id = u.id => t = u
  PROVE  ByTime(S) \in Seq(S) /\ Range(ByTime(S)) = S
<1> DEFINE n == Cardinality(S)
<1>1. n \in Nat
  BY FS_CardinalityType
<1>2. \A t \in S : t.id \in Nat /\ t.at \in Nat
  BY DEF Read
<1>3. ASSUME NEW t \in S
      PROVE  Cardinality(Earlier(t, S)) \in 0..(n - 1) /\ IsFiniteSet(Earlier(t, S))
  <2>1. ~Before(t, t)
    BY <1>2 DEF Before
  <2>2. Earlier(t, S) \in SUBSET (S \ {t})
    BY <2>1 DEF Earlier
  <2>3. IsFiniteSet(S \ {t}) /\ Cardinality(S \ {t}) = n - 1
    BY FS_RemoveElement
  <2>4. IsFiniteSet(Earlier(t, S)) /\ Cardinality(Earlier(t, S)) <= n - 1
    BY <2>2, <2>3, FS_Subset
  <2>5. QED
    BY <1>1, <2>4, FS_CardinalityType
<1>4. ASSUME NEW t \in S, NEW u \in S, Before(t, u)
      PROVE  Cardinality(Earlier(t, S)) < Cardinality(Earlier(u, S))
  <2>1. \A v \in S : Before(v, t) => Before(v, u)
    BY <1>2, <1>4 DEF Before
  <2>2. t \in Earlier(u, S) /\ t \notin Earlier(t, S)
    BY <1>2, <1>4 DEF Before, Earlier
  <2>3. Earlier(t, S) \in SUBSET (Earlier(u, S) \ {t})
    BY <2>1, <2>2 DEF Earlier
  <2>4. /\ IsFiniteSet(Earlier(u, S) \ {t})
        /\ Cardinality(Earlier(u, S) \ {t}) = Cardinality(Earlier(u, S)) - 1
    BY <1>3, <2>2, FS_RemoveElement
  <2>5. Cardinality(Earlier(t, S)) <= Cardinality(Earlier(u, S)) - 1
    BY <2>3, <2>4, FS_Subset
  <2>6. QED
    BY <1>3, <2>5
<1>5. ASSUME NEW t \in S, NEW u \in S, Cardinality(Earlier(t, S)) = Cardinality(Earlier(u, S))
      PROVE  t = u
  <2>1. ~Before(t, u) /\ ~Before(u, t)
    BY <1>3, <1>4, <1>5
  <2>2. t.id = u.id
    BY <1>2, <2>1 DEF Before
  <2>3. QED
    BY <2>2
<1>6. PICK rank : rank = [t \in S |-> Cardinality(Earlier(t, S))]
  OBVIOUS
<1>7. rank \in Injection(S, 0..(n - 1))
  <2>1. rank \in [S -> 0..(n - 1)]
    BY <1>3, <1>6
  <2>2. \A t, u \in S : rank[t] = rank[u] => t = u
    BY <1>5, <1>6
  <2>3. QED
    BY <2>1, <2>2 DEF Injection, IsInjective
<1>8. IsFiniteSet(0..(n - 1)) /\ Cardinality(0..(n - 1)) = n
  <2>1. n - 1 \in Int /\ 0 \in Int
    BY <1>1
  <2>2. /\ IsFiniteSet(0..(n - 1))
        /\ Cardinality(0..(n - 1)) = IF 0 > n - 1 THEN 0 ELSE (n - 1) - 0 + 1
    BY <2>1, FS_Interval
  <2>3. QED
    BY <1>1, <2>2
<1>9. rank \in Surjection(S, 0..(n - 1))
  BY <1>7, <1>8, FS_Injection
<1>10. \A i \in 1..n : \E t \in S : Cardinality(Earlier(t, S)) = i - 1
  <2>1. ASSUME NEW i \in 1..n PROVE \E t \in S : Cardinality(Earlier(t, S)) = i - 1
    <3>1. i - 1 \in 0..(n - 1)
      BY <1>1
    <3>2. PICK t \in S : rank[t] = i - 1
      BY <1>9, <3>1 DEF Surjection
    <3>3. QED
      BY <1>6, <3>2
  <2>2. QED
    BY <2>1
<1>11. PICK f : f = ByTime(S)
  OBVIOUS
<1>12. /\ DOMAIN f = 1..n
       /\ f = [i \in 1..n |-> f[i]]
       /\ \A i \in 1..n : f[i] \in S /\ Cardinality(Earlier(f[i], S)) = i - 1
  BY <1>10, <1>11 DEF ByTime
<1>13. f \in Seq(S)
  BY <1>1, <1>12, SeqDef
<1>14. ASSUME NEW t \in S PROVE t \in Range(f)
  <2>1. PICK i \in 1..n : i = Cardinality(Earlier(t, S)) + 1
    BY <1>1, <1>3
  <2>2. f[i] \in S /\ Cardinality(Earlier(f[i], S)) = Cardinality(Earlier(t, S))
    BY <1>3, <1>12, <2>1
  <2>3. f[i] = t
    BY <1>5, <2>2
  <2>4. QED
    BY <1>12, <2>3 DEF Range
<1>15. Range(f) \subseteq S
  BY <1>12 DEF Range
<1>16. QED
  BY <1>11, <1>13, <1>14, <1>15

-----------------------------------------------------------------------------
(***************************************************************************)
(* A recording, and what its replay shows: the inductive invariant.        *)
(***************************************************************************)

Views == [wallAt : Nat, covered : Nat, ids : SUBSET Nat]
Clocks == {"wall", "chain"}

SeenBy(seen) == IF seen = <<>> THEN {} ELSE Last(seen).ids

TapeState ==
  /\ wall \in Nat
  /\ IsFiniteSet(truth) /\ truth \subseteq Read
  /\ \A t \in truth : t.id <= Cardinality(truth) /\ t.at <= wall
  /\ \A t, u \in truth : t.id = u.id => t = u
  /\ source \in [up : BOOLEAN, held : SUBSET truth, covered : Nat] /\ source.covered <= wall
  /\ recorder \in [lastCovered : Nat, written : SUBSET truth]
  /\ tape \in Seq(TapeLines)
  /\ seenAt \in Seq(Views) /\ \A i \in 1..Len(seenAt) : seenAt[i].wallAt <= wall

(* The recorder of a source that is up is where its source is, and the views *)
(* have shown what both hold.                                                *)
InStep ==
  source.up =>
    /\ recorder.lastCovered = source.covered
    /\ Ids(source.held) \subseteq SeenBy(seenAt)
    /\ Ids(recorder.written) \subseteq SeenBy(seenAt)

(* A load shows a view: what the source had shown by then, and how far.      *)
ShownAt(l, view) ==
  /\ tradesSeen(l, view.wallAt) = view.ids
  /\ coversUntil(l, "wall", view.wallAt) = view.covered

WallShows(l, seen, bound) ==
  /\ \A x \in Range(l.lines) :
       /\ seen # <<>> /\ x.visible <= Last(seen).wallAt
       /\ x.entry.kind = "COVERED" => x.entry.at <= bound
  /\ \A i \in 1..Len(seen) :
       i = Len(seen) \/ seen[i + 1].wallAt > seen[i].wallAt => ShownAt(l, seen[i])

(* What lies inside a run was read, written and closed.                      *)
OnTape(l, t) == [visible |-> t.at, entry |-> TRADE(t)] \in Range(l.lines)

ChainShows(l, now, trades) ==
  \A run \in Closed(l) :
    run[2] <= now /\ \A t \in trades : run[1] <= t.at /\ t.at < run[2] => OnTape(l, t)

(* While a source is up, every snapshot is closed and the run is at its edge. *)
Running ==
  LET l == LoadOf("chain", tape)
  IN  /\ tape \in Seq(Lines) /\ \A clock \in Clocks : LoadOf(clock, tape).pending = <<>>
      /\ l.run # <<>> /\ l.run[2] = source.covered
      /\ \A t \in recorder.written : OnTape(l, t)

MarkedBy == IF source.up THEN source.covered ELSE wall

Replays ==
  /\ WallShows(LoadOf("wall", Complete(tape)), seenAt, MarkedBy)
  /\ ChainShows(LoadOf("chain", Complete(tape)), wall, truth)
  /\ source.up => Running

TapeInv == TapeState /\ InStep /\ (Decodable(tape) => Replays)

\* A mark at v shows what v shows, and every earlier view still shows what it did.
LEMMA WallMore ==
  ASSUME NEW l \in Loads, NEW k, NEW seen \in Seq(Views), NEW bound \in Nat, NEW v \in Views,
         NEW S, S \subseteq Read, NEW run, NEW runs,
         WallShows(l, seen, bound), bound <= v.covered,
         \A i \in 1..Len(seen) : seen[i].wallAt <= v.wallAt,
         v.ids = SeenBy(seen) \cup Ids(S),
         Closes("wall", k, Range(l.lines), run, runs, {TRADE(t) : t \in S},
                COVERED(v.covered, v.wallAt))
  PROVE  WallShows(k, Append(seen, v), v.covered)
<1>1. PICK n, m, more : /\ n = Len(seen) /\ m = COVERED(v.covered, v.wallAt)
                        /\ more = {TRADE(t) : t \in S} \cup {m}
  OBVIOUS
<1>2. n \in Nat /\ v.wallAt \in Nat /\ v.covered \in Nat /\ \A i \in 1..n : seen[i] \in Views /\ seen[i].wallAt \in Nat
  <2>1. Len(seen) \in Nat /\ \A i \in 1..Len(seen) : seen[i] \in Views
    BY LenProperties, ElementOfSeq
  <2>2. \A w \in Views : w.wallAt \in Nat /\ w.covered \in Nat
    BY DEF Views
  <2>3. QED
    BY <1>1, <2>1, <2>2
<1>3. PICK seen2 : seen2 = Append(seen, v)
  OBVIOUS
<1>4. /\ seen2 # <<>> /\ Len(seen2) = n + 1 /\ seen2[n + 1] = v /\ Last(seen2) = v
      /\ \A i \in 1..n : seen2[i] = seen[i]
  BY <1>1, <1>2, <1>3, AppendProperties DEF Last
<1>5. n > 0 <=> seen # <<>>
  BY <1>1, EmptySeq
<1>6. seen # <<>> => Last(seen) = seen[n]
  BY <1>1 DEF Last
<1>7. /\ \A x \in Range(k.lines) :
           x \in Range(l.lines) \/ \E read \in more : x = [visible |-> v.wallAt, entry |-> read]
      /\ \A read \in more : [visible |-> v.wallAt, entry |-> read] \in Range(k.lines)
      /\ Range(l.lines) \subseteq Range(k.lines)
  <2>1. Range(k.lines) = Range(l.lines) \cup SeenLines("wall", m, more)
    BY <1>1 DEF Closes
  <2>2. m.wallAt = v.wallAt
    BY <1>1 DEF COVERED
  <2>3. \A read : SeenLine("wall", m, read) = [visible |-> v.wallAt, entry |-> read]
    BY <2>2 DEF SeenLine
  <2>4. QED
    BY <2>1, <2>3 DEF SeenLines
<1>8. \A read \in more : \/ read.kind = "TRADE" /\ read.id \in Ids(S)
                         \/ read.kind = "COVERED" /\ read.at = v.covered
  BY <1>1 DEF TRADE, COVERED, Ids
<1>9. ASSUME NEW x \in Range(l.lines)
      PROVE  /\ x.visible \in Nat /\ x.visible <= v.wallAt /\ seen # <<>> /\ x.visible <= Last(seen).wallAt
             /\ x.entry.kind = "COVERED" => x.entry.at \in Nat /\ x.entry.at <= v.covered
  <2>1. x \in [visible : Nat, entry : Marks \cup Trades]
    BY LoadFields, RangeOfSeq
  <2>2. /\ seen # <<>> /\ x.visible <= Last(seen).wallAt
        /\ x.entry.kind = "COVERED" => x.entry.at <= bound
    BY DEF WallShows
  <2>3. Last(seen).wallAt \in Nat /\ Last(seen).wallAt <= v.wallAt
    BY <1>1, <1>2, <1>5, <1>6, <2>2
  <2>4. x.entry.kind = "COVERED" => x.entry.at \in Nat
    BY <2>1, LineKinds
  <2>5. QED
    BY <1>2, <2>1, <2>2, <2>3, <2>4
<1>10. ASSUME NEW x \in Range(k.lines)
       PROVE  /\ seen2 # <<>> /\ x.visible <= Last(seen2).wallAt
              /\ x.entry.kind = "COVERED" => x.entry.at <= v.covered
  <2>1. CASE x \in Range(l.lines)
    BY <1>4, <1>9, <2>1
  <2>2. CASE \E read \in more : x = [visible |-> v.wallAt, entry |-> read]
    BY <1>2, <1>4, <1>8, <2>2
  <2>3. QED
    BY <1>7, <2>1, <2>2
<1>11. ASSUME NEW i \in 1..n, seen2[i + 1].wallAt > seen2[i].wallAt
       PROVE  ShownAt(k, seen[i])
  <2>1. seen[i].wallAt < v.wallAt /\ (i = n \/ seen[i + 1].wallAt > seen[i].wallAt)
    <3>1. CASE i = n
      BY <1>4, <1>11, <3>1
    <3>2. CASE i # n
      <4>1. i + 1 \in 1..n
        BY <1>2, <3>2
      <4>2. seen[i + 1].wallAt > seen[i].wallAt /\ seen[i + 1].wallAt <= v.wallAt
        BY <1>1, <1>4, <1>11, <4>1
      <4>3. QED
        BY <1>2, <4>1, <4>2
    <3>3. QED
      BY <3>1, <3>2
  <2>2. ShownAt(l, seen[i])
    BY <1>1, <2>1 DEF WallShows
  <2>3. PICK a \in Nat : a = seen[i].wallAt
    BY <1>2
  <2>4. {x \in Range(k.lines) : x.visible <= a} = {x \in Range(l.lines) : x.visible <= a}
    <3>1. ASSUME NEW x \in Range(k.lines), x.visible <= a PROVE x \in Range(l.lines)
      <4>1. ~(\E read \in more : x = [visible |-> v.wallAt, entry |-> read])
        BY <1>2, <2>1, <2>3, <3>1
      <4>2. QED
        BY <1>7, <4>1
    <3>2. QED
      BY <1>7, <3>1
  <2>5. visible(k, a) = visible(l, a)
    BY <2>4 DEF visible
  <2>6. tradesSeen(k, a) = tradesSeen(l, a) /\ coversUntil(k, "wall", a) = coversUntil(l, "wall", a)
    BY <2>5 DEF tradesSeen, coversUntil
  <2>7. QED
    BY <2>2, <2>3, <2>6 DEF ShownAt
<1>12. ShownAt(k, v)
  <2>1. \A e : e \in visible(k, v.wallAt) <=> \E x \in Range(k.lines) : e = x.entry
    BY <1>4, <1>10 DEF visible
  <2>2. /\ \A e \in visible(k, v.wallAt) : e \in more \/ \E x \in Range(l.lines) : e = x.entry
        /\ \A e \in more : e \in visible(k, v.wallAt)
        /\ \A x \in Range(l.lines) : x.entry \in visible(k, v.wallAt)
    <3>1. \A read \in more : \E x \in Range(k.lines) : read = x.entry
      <4>1. ASSUME NEW read \in more PROVE \E x \in Range(k.lines) : read = x.entry
        <5>1. PICK x : x = [visible |-> v.wallAt, entry |-> read]
          OBVIOUS
        <5>2. x \in Range(k.lines) /\ x.entry = read
          BY <1>7, <5>1
        <5>3. QED
          BY <5>2
      <4>2. QED
        BY <4>1
    <3>2. QED
      BY <1>7, <2>1, <3>1
  <2>3. \A id : id \in SeenBy(seen) <=> \E x \in Range(l.lines) : x.entry.kind = "TRADE" /\ x.entry.id = id
    <3>1. CASE seen = <<>>
      BY <1>9, <3>1 DEF SeenBy
    <3>2. CASE seen # <<>>
      <4>1. n \in 1..n /\ Last(seen) = seen[n]
        BY <1>2, <1>5, <1>6, <3>2
      <4>2. ShownAt(l, Last(seen))
        BY <1>1, <4>1 DEF WallShows
      <4>3. tradesSeen(l, Last(seen).wallAt) = SeenBy(seen)
        BY <3>2, <4>2 DEF ShownAt, SeenBy
      <4>4. \A e : e \in visible(l, Last(seen).wallAt) <=> \E x \in Range(l.lines) : e = x.entry
        BY <1>9 DEF visible
      <4>5. QED
        BY <4>3, <4>4 DEF tradesSeen
    <3>3. QED
      BY <3>1, <3>2
  <2>4. \A id : id \in Ids(S) <=> \E read \in more : read.kind = "TRADE" /\ read.id = id
    <3>1. \A t \in S : TRADE(t) \in more /\ TRADE(t).kind = "TRADE" /\ TRADE(t).id = t.id
      BY <1>1 DEF TRADE
    <3>2. \A read \in more : read.kind = "TRADE" => \E t \in S : read = TRADE(t)
      BY <1>1 DEF COVERED
    <3>3. \A id : id \in Ids(S) <=> \E t \in S : t.id = id
      BY DEF Ids
    <3>4. QED
      BY <3>1, <3>2, <3>3
  <2>5. tradesSeen(k, v.wallAt) = v.ids
    <3>1. ASSUME NEW id PROVE id \in tradesSeen(k, v.wallAt) <=> id \in v.ids
      <4>1. id \in tradesSeen(k, v.wallAt) <=> \E e \in visible(k, v.wallAt) : e.kind = "TRADE" /\ e.id = id
        BY DEF tradesSeen
      <4>2. id \in v.ids <=> id \in SeenBy(seen) \/ id \in Ids(S)
        OBVIOUS
      <4>3. QED
        BY <2>2, <2>3, <2>4, <4>1, <4>2
    <3>2. QED
      BY <3>1
  <2>6. PICK marks : marks = {e.at : e \in {x \in visible(k, v.wallAt) : x.kind = "COVERED"}}
    OBVIOUS
  <2>7. coversUntil(k, "wall", v.wallAt) = Top({0} \cup marks \cup {})
    BY <2>6 DEF coversUntil
  <2>8. v.covered \in marks /\ \A at \in marks : at \in Nat /\ at <= v.covered
    <3>1. m \in visible(k, v.wallAt) /\ m.kind = "COVERED" /\ m.at = v.covered
      BY <1>1, <2>2 DEF COVERED
    <3>2. ASSUME NEW at \in marks PROVE at \in Nat /\ at <= v.covered
      <4>1. PICK e \in visible(k, v.wallAt) : e.kind = "COVERED" /\ at = e.at
        BY <2>6
      <4>2. QED
        BY <1>2, <1>8, <1>9, <2>2, <4>1
    <3>3. QED
      BY <2>6, <3>1, <3>2
  <2>9. PICK all : all = {0} \cup marks \cup {}
    OBVIOUS
  <2>10. v.covered \in all /\ \A at \in all : at \in Nat /\ at <= v.covered
    BY <1>2, <2>8, <2>9
  <2>11. Top(all) \in all /\ \A at \in all : at <= Top(all)
    BY <2>10 DEF Top
  <2>12. Top(all) = v.covered
    BY <1>2, <2>10, <2>11
  <2>13. QED
    BY <2>5, <2>7, <2>9, <2>12 DEF ShownAt
<1>13. ASSUME NEW i \in 1..Len(seen2), i = Len(seen2) \/ seen2[i + 1].wallAt > seen2[i].wallAt
       PROVE  ShownAt(k, seen2[i])
  <2>1. CASE i = n + 1
    BY <1>4, <1>12, <2>1
  <2>2. CASE i # n + 1
    <3>1. i \in 1..n /\ i # Len(seen2)
      BY <1>2, <1>4, <2>2
    <3>2. QED
      BY <1>4, <1>11, <1>13, <3>1
  <2>3. QED
    BY <2>1, <2>2
<1>14. WallShows(k, seen2, v.covered)
  BY <1>10, <1>13 DEF WallShows
<1>15. QED
  BY <1>3, <1>14

LEMMA WallSame ==
  ASSUME NEW l \in Loads, NEW k, NEW seen, NEW bound \in Nat, NEW bound2 \in Nat,
         WallShows(l, seen, bound), bound <= bound2, Range(k.lines) = Range(l.lines)
  PROVE  WallShows(k, seen, bound2)
<1>1. \A x \in Range(l.lines) : x.entry.kind = "COVERED" => x.entry.at \in Nat
  <2>1. \A x \in Range(l.lines) : x.entry \in Marks \cup Trades
    <3>1. PICK A : A = [visible : Nat, entry : Marks \cup Trades]
      OBVIOUS
    <3>2. PICK lines \in Seq(A) : lines = l.lines
      BY <3>1, LoadFields
    <3>3. Range(lines) \in SUBSET A
      BY RangeOfSeq
    <3>4. QED
      BY <3>1, <3>2, <3>3
  <2>2. QED
    BY <2>1, LineKinds
<1>2. \A a : tradesSeen(k, a) = tradesSeen(l, a) /\ coversUntil(k, "wall", a) = coversUntil(l, "wall", a)
  BY DEF tradesSeen, coversUntil, visible
<1>3. QED
  BY <1>1, <1>2 DEF WallShows, ShownAt

\* A run of l, or a new one, up to whose end at `to` all is on the tape or in S.
Reaches(l, run, T, S, to) ==
  \/ run = <<>>
  \/ /\ run \in Closed(l) /\ run[2] <= to
     /\ \A t \in T : run[2] <= t.at /\ t.at < to => t \in S \/ OnTape(l, t)

Reached(l, k, now, T, S, to) ==
  /\ ChainShows(k, now, T) /\ k.run # <<>> /\ k.run[2] = to
  /\ \A t \in S : OnTape(k, t)
  /\ \A t \in T : OnTape(l, t) => OnTape(k, t)

\* A mark at `to` takes the run it extends to there, when all up to there is on the tape.
LEMMA ChainMore ==
  ASSUME NEW l \in Loads, NEW k, NEW T, T \subseteq Read, NEW S, S \subseteq T,
         NEW now \in Nat, NEW to \in Nat, to <= now, NEW wallAt,
         NEW run \in Runs \cup {<<>>}, NEW runs \in SUBSET Closed(l),
         ChainShows(l, now, T), Reaches(l, run, T, S, to),
         Closes("chain", k, Range(l.lines), run, runs, {TRADE(t) : t \in S}, COVERED(to, wallAt))
  PROVE  Reached(l, k, now, T, S, to)
<1>0. run # <<>> => /\ run \in Closed(l) /\ run[2] <= to
                    /\ \A t \in T : run[2] <= t.at /\ t.at < to => t \in S \/ OnTape(l, t)
  BY DEF Reaches
<1>1. PICK m, more : m = COVERED(to, wallAt) /\ more = {TRADE(t) : t \in S} \cup {m}
  OBVIOUS
<1>2. Range(k.lines) = Range(l.lines) \cup SeenLines("chain", m, more)
  BY <1>1 DEF Closes
<1>3. \A t \in S : OnTape(k, t)
  <2>1. ASSUME NEW t \in S PROVE OnTape(k, t)
    <3>1. SeenLine("chain", m, TRADE(t)) = [visible |-> t.at, entry |-> TRADE(t)]
      BY DEF SeenLine, TRADE
    <3>2. SeenLine("chain", m, TRADE(t)) \in SeenLines("chain", m, more)
      BY <1>1 DEF SeenLines
    <3>3. QED
      BY <1>2, <3>1, <3>2 DEF OnTape
  <2>2. QED
    BY <2>1
<1>4. \A t : OnTape(l, t) => OnTape(k, t)
  BY <1>2 DEF OnTape
<1>5. \A t \in T : t.at \in Nat
  BY DEF Read
<1>6. k.runs = runs /\ k.run = Extend(run, to)
  BY <1>1 DEF Closes, COVERED
<1>7. \A r \in Closed(l) : r \in Runs
  BY ClosedType
<1>8. /\ k.run \in Runs /\ k.run[2] = to
      /\ run = <<>> => k.run[1] = to
      /\ run # <<>> => k.run[1] = run[1] /\ run[2] \in Nat /\ run[1] \in Nat
  <2>1. CASE run = <<>>
    BY <1>6, <2>1 DEF Extend, Runs
  <2>2. CASE run # <<>>
    <3>1. run \in Runs /\ run[2] \in Nat /\ run[1] \in Nat /\ run[2] <= to
      BY <1>0, <2>2 DEF Runs
    <3>2. Top({run[2], to}) = to
      BY <3>1, TopOfTwo
    <3>3. QED
      BY <1>6, <2>2, <3>1, <3>2 DEF Extend, Runs
  <2>3. QED
    BY <2>1, <2>2
<1>9. k.run # <<>>
  BY <1>8 DEF Runs
<1>10. Closed(k) = runs \cup {k.run}
  BY <1>6, <1>9 DEF Closed
<1>11. ASSUME NEW r \in Closed(k)
       PROVE  r[2] <= now /\ \A t \in T : r[1] <= t.at /\ t.at < r[2] => OnTape(k, t)
  <2>1. CASE r \in runs
    BY <1>4, <2>1 DEF ChainShows
  <2>2. CASE r = k.run
    <3>1. r[2] <= now
      BY <1>8, <2>2
    <3>2. ASSUME NEW t \in T, r[1] <= t.at, t.at < to PROVE OnTape(k, t)
      <4>1. CASE run = <<>>
        BY <1>5, <1>8, <2>2, <3>2, <4>1
      <4>2. CASE run # <<>>
        <5>1. CASE t.at < run[2]
          <6>1. OnTape(l, t)
            BY <1>8, <1>0, <2>2, <3>2, <4>2, <5>1 DEF ChainShows
          <6>2. QED
            BY <1>4, <6>1
        <5>2. CASE ~(t.at < run[2])
          BY <1>3, <1>4, <1>5, <1>8, <1>0, <3>2, <4>2, <5>2
        <5>3. QED
          BY <5>1, <5>2
      <4>3. QED
        BY <4>1, <4>2
    <3>3. QED
      BY <1>8, <2>2, <3>1, <3>2
  <2>3. QED
    BY <1>10, <2>1, <2>2
<1>12. ChainShows(k, now, T)
  BY <1>11 DEF ChainShows
<1>13. QED
  BY <1>3, <1>4, <1>8, <1>9, <1>12 DEF Reached

LEMMA ChainSame ==
  ASSUME NEW l \in Loads, NEW k, NEW now \in Nat, NEW now2 \in Nat, NEW T,
         ChainShows(l, now, T), now <= now2, Range(k.lines) = Range(l.lines), Closed(k) = Closed(l)
  PROVE  ChainShows(k, now2, T)
<1>1. \A run \in Closed(l) : run[2] \in Nat
  BY ClosedType DEF Runs
<1>2. QED
  BY <1>1 DEF ChainShows, OnTape

-----------------------------------------------------------------------------
(***************************************************************************)
(* The steps of a recording.                                               *)
(***************************************************************************)

LEMMA LoadType ==
  ASSUME NEW clock, NEW s \in Seq(Lines)
  PROVE  LoadOf(clock, s) \in Loads
<1>1. START(0) \in Lines
  BY DEF Lines, Starts
<1>2. QED
  BY <1>1, LoadNext

LEMMA WholeLines ==
  ASSUME NEW t \in Seq(TapeLines), Decodable(t)
  PROVE  Complete(t) \in Seq(Lines)
<1>1. Len(t) \in Nat /\ \A k \in 1..Len(t) : t[k] \in TapeLines
  BY LenProperties, ElementOfSeq
<1>2. \A k \in 1..(Len(t) - 1) : t[k] \in Lines
  BY <1>1, TornOnly DEF Decodable, TapeLines
<1>3. CASE t # <<>> /\ Last(t).kind = "TORN"
  <2>1. Len(t) # 0
    BY <1>3, EmptySeq
  <2>2. PICK n \in Nat : n = Len(t) - 1
    BY <1>1, <2>1
  <2>3. SubSeq(t, 1, n) \in Seq(Lines)
    BY <1>2, <2>2, SubSeqProperties
  <2>4. QED
    BY <1>3, <2>2, <2>3 DEF Complete, Front
<1>4. CASE ~(t # <<>> /\ Last(t).kind = "TORN")
  <2>1. ASSUME NEW k \in 1..Len(t) PROVE t[k] \in Lines
    <3>1. CASE k = Len(t)
      <4>1. t # <<>> /\ Last(t) = t[k]
        BY <1>1, <3>1, EmptySeq DEF Last
      <4>2. QED
        BY <1>1, <1>4, <4>1, TornOnly DEF TapeLines
    <3>2. CASE k # Len(t)
      BY <1>1, <1>2, <3>2
    <3>3. QED
      BY <3>1, <3>2
  <2>2. t \in Seq(Lines)
    BY <2>1, LenProperties
  <2>3. QED
    BY <1>4, <2>2 DEF Complete
<1>5. QED
  BY <1>3, <1>4

LEMMA SinceBounds ==
  ASSUME NEW t \in Nat, NEW d \in Nat
  PROVE  Since(t, d) \in Nat /\ Since(t, d) <= t
BY DEF Since

\* What a snapshot writes.
Hands(u, S) == u \in Seq(Trades) /\ Range(u) = {TRADE(t) : t \in S}

LEMMA SnapshotIs ==
  ASSUME TapeState, NEW rec, NEW src, src.held \subseteq truth, src.covered \in Nat
  PROVE  /\ COVERED(src.covered, wall) \in Marks
         /\ \E u : Hands(u, NewTrades(rec, src)) /\ snapshot(rec, src) = u \o <<COVERED(src.covered, wall)>>
<1>1. PICK S : S = NewTrades(rec, src)
  OBVIOUS
<1>2. S \in SUBSET truth
  BY <1>1 DEF NewTrades
<1>3. IsFiniteSet(S) /\ S \subseteq Read /\ \A t, u \in S : t.id = u.id => t = u
  BY <1>2, FS_Subset DEF TapeState
<1>4. PICK f : f = ByTime(S)
  OBVIOUS
<1>5. f \in Seq(S) /\ Range(f) = S
  BY <1>3, <1>4, ByTimeHands
<1>6. /\ Len(f) \in Nat /\ DOMAIN f = 1..Len(f)
      /\ \A i \in 1..Len(f) : f[i] \in S
  BY <1>5, LenProperties, ElementOfSeq
<1>7. PICK u : u = [i \in DOMAIN f |-> TRADE(f[i])]
  OBVIOUS
<1>8. \A t \in S : TRADE(t) \in Trades
  BY <1>3 DEF TRADE, Trades, Read
<1>9. PICK n \in Nat : n = Len(f)
  BY <1>6
<1>10. u \in [1..n -> Trades]
  BY <1>6, <1>7, <1>8, <1>9
<1>11. u \in Seq(Trades)
  BY <1>10, SeqDef
<1>12. Range(u) = {TRADE(t) : t \in S}
  <2>1. DOMAIN u = DOMAIN f /\ \A i \in DOMAIN f : u[i] = TRADE(f[i])
    BY <1>7
  <2>2. QED
    BY <1>5, <2>1 DEF Range
<1>13. snapshot(rec, src) = u \o <<COVERED(src.covered, wall)>>
  BY <1>1, <1>4, <1>7 DEF snapshot
<1>14. COVERED(src.covered, wall) \in Marks
  BY DEF Marks, TapeState
<1>15. QED
  BY <1>1, <1>11, <1>12, <1>13, <1>14 DEF Hands

\* Lines a tape gains that reveal nothing and end no stretch.
Keeps(part) ==
  /\ part \in Seq(Lines)
  /\ \A clock \in Clocks, s \in Seq(Lines) :
       /\ LoadOf(clock, s \o part).lines = LoadOf(clock, s).lines
       /\ Closed(LoadOf(clock, s \o part)) = Closed(LoadOf(clock, s))

LEMMA TradesKeep == \A part \in Seq(Trades) : Keeps(part)
<1> SUFFICES ASSUME NEW part \in Seq(Trades) PROVE Keeps(part)
  OBVIOUS
<1>1. part \in Seq(Lines)
  BY SeqMonotonic DEF Lines
<1>2. ASSUME NEW clock \in Clocks, NEW s \in Seq(Lines)
      PROVE  /\ LoadOf(clock, s \o part).lines = LoadOf(clock, s).lines
             /\ Closed(LoadOf(clock, s \o part)) = Closed(LoadOf(clock, s))
  <2>1. PICK l : l = LoadOf(clock, s)
    OBVIOUS
  <2>2. PICK k : k = LoadOf(clock, s \o part)
    OBVIOUS
  <2>3. k = [pending |-> l.pending \o part, lines |-> l.lines, run |-> l.run, runs |-> l.runs]
    BY <2>1, <2>2, LoadTrades
  <2>4. k.lines = l.lines /\ k.run = l.run /\ k.runs = l.runs
    BY <2>3
  <2>5. QED
    BY <2>1, <2>2, <2>4 DEF Closed
<1>3. QED
  BY <1>1, <1>2 DEF Keeps

LEMMA StartKeeps == \A e \in Starts, v \in Seq(Trades) : Keeps(<<e>> \o v)
<1> SUFFICES ASSUME NEW e \in Starts, NEW v \in Seq(Trades) PROVE Keeps(<<e>> \o v)
  OBVIOUS
<1>1. <<e>> \o v \in Seq(Lines)
  <2>1. e \in Lines /\ v \in Seq(Lines)
    BY SeqMonotonic DEF Lines
  <2>2. QED
    BY <2>1, ConcatProperties
<1>2. ASSUME NEW clock \in Clocks, NEW s \in Seq(Lines)
      PROVE  /\ LoadOf(clock, s \o (<<e>> \o v)).lines = LoadOf(clock, s).lines
             /\ Closed(LoadOf(clock, s \o (<<e>> \o v))) = Closed(LoadOf(clock, s))
  <2>1. PICK l : l = LoadOf(clock, s)
    OBVIOUS
  <2>2. PICK k : k = LoadOf(clock, s \o (<<e>> \o v))
    OBVIOUS
  <2>3. k = [pending |-> v, lines |-> l.lines, run |-> <<>>, runs |-> Closed(l)]
    BY <2>1, <2>2, LoadStarted
  <2>4. k.lines = l.lines /\ k.run = <<>> /\ k.runs = Closed(l)
    BY <2>3
  <2>5. Closed(k) = Closed(l)
    BY <2>4 DEF Closed
  <2>6. QED
    BY <2>1, <2>2, <2>4, <2>5
<1>3. QED
  BY <1>1, <1>2 DEF Keeps

\* A crash takes the source and the recorder, and leaves what the tape showed.
LEMMA CrashStep ==
  ASSUME TapeInv, NEW part, Keeps(part), NEW torn \in {<<>>, <<TORN>>},
         tape' = (tape \o part) \o torn, source' = Down0, recorder' = NewRecorder,
         UNCHANGED <<wall, truth, seenAt>>
  PROVE  TapeInv'
<1>1. tape \in Seq(TapeLines) /\ part \in Seq(Lines) /\ TapeState
  BY DEF TapeInv, TapeState, Keeps
<1>2. tape' \in Seq(TapeLines)
  <2>1. part \in Seq(TapeLines) /\ TORN \in TapeLines
    BY <1>1, SeqMonotonic DEF TapeLines
  <2>2. <<TORN>> \in Seq(TapeLines) /\ <<>> \in Seq(TapeLines)
    BY <2>1
  <2>4. torn \in Seq(TapeLines)
    BY <2>2
  <2>3. QED
    BY <1>1, <2>1, <2>4, ConcatProperties
<1>3. TapeState'
  BY <1>1, <1>2 DEF TapeState, Down0, NewRecorder
<1>4. InStep'
  BY DEF InStep, Down0
<1>5. ASSUME Decodable(tape') PROVE Replays'
  <2>1. /\ Decodable(tape)
        /\ tape' = tape \/ (tape \in Seq(Lines) /\ Complete(tape') = tape \o part)
    BY <1>1, <1>5, CutShort
  <2>2. PICK s : s = Complete(tape)
    OBVIOUS
  <2>3. PICK s2 : s2 = Complete(tape')
    OBVIOUS
  <2>4. s \in Seq(Lines)
    BY <1>1, <2>1, <2>2, WholeLines
  <2>5. s2 = s \/ s2 = s \o part
    BY <2>1, <2>2, <2>3, WholeTape
  <2>6. \A clock \in Clocks : /\ LoadOf(clock, s2).lines = LoadOf(clock, s).lines
                              /\ Closed(LoadOf(clock, s2)) = Closed(LoadOf(clock, s))
    BY <2>4, <2>5 DEF Keeps
  <2>7. Replays /\ MarkedBy \in Nat /\ MarkedBy <= wall /\ wall \in Nat
    BY <1>1, <2>1 DEF TapeInv, TapeState, MarkedBy
  <2>8. "wall" \in Clocks /\ "chain" \in Clocks /\ \A clock : LoadOf(clock, s) \in Loads
    BY <2>4, LoadType DEF Clocks
  <2>9. WallShows(LoadOf("wall", s2), seenAt, wall)
    <3>1. WallShows(LoadOf("wall", s), seenAt, MarkedBy)
      BY <2>2, <2>7 DEF Replays
    <3>2. PICK l \in Loads : l = LoadOf("wall", s)
      BY <2>8
    <3>3. PICK k : k = LoadOf("wall", s2)
      OBVIOUS
    <3>4. k.lines = l.lines
      BY <2>6, <2>8, <3>2, <3>3
    <3>5. QED
      BY <2>7, <3>1, <3>2, <3>3, <3>4, WallSame
  <2>10. ChainShows(LoadOf("chain", s2), wall, truth)
    <3>1. ChainShows(LoadOf("chain", s), wall, truth)
      BY <2>2, <2>7 DEF Replays
    <3>2. PICK l \in Loads : l = LoadOf("chain", s)
      BY <2>8
    <3>3. PICK k : k = LoadOf("chain", s2)
      OBVIOUS
    <3>4. k.lines = l.lines /\ Closed(k) = Closed(l)
      BY <2>6, <2>8, <3>2, <3>3
    <3>5. QED
      BY <2>7, <3>1, <3>2, <3>3, <3>4, ChainSame
  <2>11. MarkedBy' = wall /\ ~source.up'
    BY DEF MarkedBy, Down0
  <2>12. QED
    BY <2>3, <2>9, <2>10, <2>11 DEF Replays
<1>6. QED
  BY <1>3, <1>4, <1>5 DEF TapeInv

\* What a write that ended leaves of the types.
LEMMA WriteState ==
  ASSUME TapeState, NEW lines \in Seq(Lines), tape' = tape \o lines, UNCHANGED <<wall, truth>>,
         source' \in [up : BOOLEAN, held : SUBSET truth, covered : Nat], source.covered' <= wall,
         recorder' \in [lastCovered : Nat, written : SUBSET truth],
         NEW v \in Views, v.wallAt = wall, seenAt' = Append(seenAt, v)
  PROVE  TapeState' /\ SeenBy(seenAt') = v.ids
<1>1. tape' \in Seq(TapeLines)
  <2>1. lines \in Seq(TapeLines)
    BY SeqMonotonic DEF TapeLines
  <2>2. QED
    BY <2>1, ConcatProperties DEF TapeState
<1>2. seenAt \in Seq(Views) /\ Len(seenAt) \in Nat
  BY LenProperties DEF TapeState
<1>3. PICK seen2 : seen2 = Append(seenAt, v)
  OBVIOUS
<1>4. /\ seen2 \in Seq(Views) /\ Len(seen2) = Len(seenAt) + 1 /\ seen2 # <<>>
      /\ seen2[Len(seenAt) + 1] = v
      /\ \A i \in 1..Len(seenAt) : seen2[i] = seenAt[i]
  <2>1. PICK seen \in Seq(Views) : seen = seenAt
    BY <1>2
  <2>2. /\ Append(seen, v) \in Seq(Views) /\ Append(seen, v) # <<>>
        /\ Len(Append(seen, v)) = Len(seen) + 1
        /\ \A i \in 1..Len(seen) : Append(seen, v)[i] = seen[i]
        /\ Append(seen, v)[Len(seen) + 1] = v
    BY AppendProperties
  <2>3. QED
    BY <1>3, <2>1, <2>2
<1>5. \A i \in 1..Len(seen2) : seen2[i].wallAt <= wall
  <2>1. \A i \in 1..Len(seenAt) : seenAt[i].wallAt <= wall
    BY DEF TapeState
  <2>2. v.wallAt <= wall
    BY DEF TapeState
  <2>3. \A i \in 1..Len(seen2) : i \in 1..Len(seenAt) \/ i = Len(seenAt) + 1
    BY <1>2, <1>4
  <2>4. QED
    BY <1>4, <2>1, <2>2, <2>3
<1>6. Last(seen2) = v
  BY <1>4 DEF Last
<1>7. TapeState'
  BY <1>1, <1>3, <1>4, <1>5 DEF TapeState
<1>8. QED
  BY <1>3, <1>4, <1>6, <1>7 DEF SeenBy

\* A snapshot's marks and trades, in both clocks.
Closing(run, runs, S, m, lines) ==
  \A clock \in Clocks :
    Closes(clock, LoadOf(clock, tape \o lines), Range(LoadOf(clock, tape).lines),
           run[clock], runs[clock], {TRADE(t) : t \in S}, m)

\* A write that ended, whose snapshot closes all that was read up to its mark.
LEMMA WriteReplays ==
  ASSUME TapeInv, TapeState', NEW lines \in Seq(Lines), lines # <<>>, Decodable(tape'),
         tape' = tape \o lines, UNCHANGED <<wall, truth>>,
         source.up', MarkedBy <= source.covered', source.covered' <= wall,
         NEW S \in SUBSET truth, NEW run, NEW runs,
         tape \in Seq(Lines) => Closing(run, runs, S, COVERED(source.covered', wall), lines),
         run["chain"] \in Runs \cup {<<>>},
         Decodable(tape) => runs["chain"] \in SUBSET Closed(LoadOf("chain", tape)),
         Decodable(tape) => Reaches(LoadOf("chain", tape), run["chain"], truth, S, source.covered'),
         NEW v \in Views, v.wallAt = wall, v.covered = source.covered',
         v.ids = SeenBy(seenAt) \cup Ids(S), seenAt' = Append(seenAt, v),
         \A t \in recorder.written' : t \in S \/ (t \in truth /\ OnTape(LoadOf("chain", tape), t))
  PROVE  Replays'
<1>1. TapeState /\ tape \in Seq(TapeLines) /\ wall \in Nat
  BY DEF TapeInv, TapeState
<1>2. Decodable(tape) /\ tape \in Seq(Lines)
  <2>1. lines \in Seq(TapeLines)
    BY SeqMonotonic DEF TapeLines
  <2>2. QED
    BY <1>1, <2>1, WholeBefore
<1>3. tape' \in Seq(Lines) /\ Complete(tape') = tape' /\ Complete(tape) = tape
  BY <1>2, ConcatProperties, WholeTape
<1>4. Replays
  BY <1>2 DEF TapeInv
<1>5. PICK m, to : m = COVERED(source.covered', wall) /\ to = source.covered'
  OBVIOUS
<1>6. to \in Nat /\ to <= wall /\ MarkedBy \in Nat /\ MarkedBy <= to
  BY <1>1, <1>5 DEF TapeState, MarkedBy
<1>7. Closing(run, runs, S, m, lines)
  BY <1>2, <1>5
<1>8. truth \subseteq Read /\ S \subseteq Read
  BY <1>1 DEF TapeState
<1>9. WallShows(LoadOf("wall", tape'), seenAt', source.covered')
  <2>1. PICK l \in Loads : l = LoadOf("wall", tape)
    BY <1>2, LoadType
  <2>2. PICK k : k = LoadOf("wall", tape')
    OBVIOUS
  <2>3. WallShows(l, seenAt, MarkedBy)
    BY <1>3, <1>4, <2>1 DEF Replays
  <2>4. Closes("wall", k, Range(l.lines), run["wall"], runs["wall"], {TRADE(t) : t \in S},
               COVERED(v.covered, v.wallAt))
    BY <1>7, <1>5, <2>1, <2>2 DEF Closing, Clocks
  <2>5. seenAt \in Seq(Views) /\ \A i \in 1..Len(seenAt) : seenAt[i].wallAt <= v.wallAt
    BY <1>1 DEF TapeState
  <2>6. MarkedBy \in Nat /\ MarkedBy <= v.covered
    BY <1>5, <1>6
  <2>7. WallShows(k, Append(seenAt, v), v.covered)
    BY <1>8, <2>3, <2>4, <2>5, <2>6, WallMore
  <2>8. QED
    BY <2>2, <2>7
<1>10. /\ ChainShows(LoadOf("chain", tape'), wall, truth)
       /\ LoadOf("chain", tape').run # <<>> /\ LoadOf("chain", tape').run[2] = to
       /\ \A t \in recorder.written' : OnTape(LoadOf("chain", tape'), t)
  <2>1. PICK l \in Loads : l = LoadOf("chain", tape)
    BY <1>2, LoadType
  <2>2. PICK k : k = LoadOf("chain", tape')
    OBVIOUS
  <2>3. ChainShows(l, wall, truth)
    BY <1>3, <1>4, <2>1 DEF Replays
  <2>4. PICK r \in Runs \cup {<<>>} : r = run["chain"]
    OBVIOUS
  <2>5. PICK rs \in SUBSET Closed(l) : rs = runs["chain"]
    BY <1>2, <2>1
  <2>6. Closes("chain", k, Range(l.lines), r, rs, {TRADE(t) : t \in S}, COVERED(to, wall))
    BY <1>5, <1>7, <2>1, <2>2, <2>4, <2>5 DEF Closing, Clocks
  <2>7. Reaches(l, r, truth, S, to)
    BY <1>2, <1>5, <2>1, <2>4
  <2>8. /\ ChainShows(k, wall, truth) /\ k.run # <<>> /\ k.run[2] = to
        /\ \A t \in S : OnTape(k, t)
        /\ \A t \in truth : OnTape(l, t) => OnTape(k, t)
    <3>1. PICK T, now, at : T = truth /\ now = wall /\ at = to
      OBVIOUS
    <3>2. /\ T \subseteq Read /\ S \subseteq T /\ now \in Nat /\ at \in Nat /\ at <= now
          /\ ChainShows(l, now, T)
          /\ Closes("chain", k, Range(l.lines), r, rs, {TRADE(t) : t \in S}, COVERED(at, now))
          /\ Reaches(l, r, T, S, at)
      BY <1>1, <1>6, <1>8, <2>3, <2>6, <2>7, <3>1
    <3>3. Reached(l, k, now, T, S, at)
      BY <3>2, ChainMore
    <3>4. QED
      BY <3>1, <3>3 DEF Reached
  <2>9. QED
    BY <2>1, <2>2, <2>8
<1>11. \A clock \in Clocks : LoadOf(clock, tape').pending = <<>>
  BY <1>7 DEF Closing, Closes
<1>12. Running'
  BY <1>3, <1>5, <1>10, <1>11 DEF Running
<1>13. MarkedBy' = source.covered'
  BY DEF MarkedBy
<1>14. QED
  BY <1>3, <1>9, <1>10, <1>12, <1>13 DEF Replays

\* What a recorder holds after a snapshot.
LEMMA AfterSnapshotIs ==
  ASSUME TapeState, NEW rec, NEW src, rec.lastCovered \in Nat, rec.written \subseteq truth,
         src.held \subseteq truth, src.covered \in Nat, rec.lastCovered <= src.covered
  PROVE  LET after == AfterSnapshot(rec, src)
         IN  /\ after \in [lastCovered : Nat, written : SUBSET truth]
             /\ after.lastCovered = src.covered
             /\ after.written \subseteq rec.written \cup NewTrades(rec, src)
<1>1. PICK from, to : from = rec.lastCovered /\ to = src.covered
  OBVIOUS
<1>2. Top({from, to}) = to
  BY <1>1, TopOfTwo
<1>3. PICK after : after = AfterSnapshot(rec, src)
  OBVIOUS
<1>4. /\ after = [lastCovered |-> after.lastCovered, written |-> after.written]
      /\ after.lastCovered = Top({from, to})
      /\ after.written \subseteq rec.written \cup NewTrades(rec, src)
  BY <1>1, <1>3 DEF AfterSnapshot
<1>5. NewTrades(rec, src) \subseteq truth
  BY DEF NewTrades
<1>6. after.written \in SUBSET truth /\ after.lastCovered \in Nat
  BY <1>1, <1>2, <1>4, <1>5
<1>7. after \in [lastCovered : Nat, written : SUBSET truth]
  BY <1>4, <1>6
<1>8. QED
  BY <1>1, <1>2, <1>3, <1>4, <1>7

LEMMA ShownIs ==
  ASSUME TapeState, NEW src, src.held \subseteq truth, src.covered \in Nat
  PROVE  /\ Shown(src) \in Views /\ Shown(src).wallAt = wall /\ Shown(src).covered = src.covered
         /\ Shown(src).ids = Ids(src.held) \cup SeenBy(seenAt)
<1>1. SeenBy(seenAt) \in SUBSET Nat
  <2>1. seenAt \in Seq(Views)
    BY DEF TapeState
  <2>2. CASE seenAt = <<>>
    BY <2>2 DEF SeenBy
  <2>3. CASE seenAt # <<>>
    <3>1. Len(seenAt) \in 1..Len(seenAt)
      BY <2>1, <2>3, EmptySeq
    <3>2. seenAt[Len(seenAt)] \in Views
      BY <2>1, <3>1, ElementOfSeq
    <3>3. QED
      BY <2>3, <3>2 DEF SeenBy, Last, Views
  <2>4. QED
    BY <2>2, <2>3
<1>2. Ids(src.held) \in SUBSET Nat
  BY DEF Ids, TapeState, Read
<1>3. Shown(src) = [wallAt |-> wall, covered |-> src.covered, ids |-> Ids(src.held) \cup SeenBy(seenAt)]
  BY DEF Shown, SeenBy
<1>4. QED
  BY <1>1, <1>2, <1>3 DEF Views, TapeState

\* A write that a crash cut short.
LEMMA CutStep ==
  ASSUME TapeInv, NEW lines, \A n \in 0..(Len(lines) - 1) : Keeps(SubSeq(lines, 1, n)),
         NEW n \in 0..(Len(lines) - 1), NEW torn \in {<<>>, <<TORN>>},
         tape' = tape \o SubSeq(lines, 1, n) \o torn, source' = Down0, recorder' = NewRecorder,
         UNCHANGED <<wall, truth, seenAt>>
  PROVE  TapeInv'
<1>1. PICK part : part = SubSeq(lines, 1, n)
  OBVIOUS
<1>2. Keeps(part) /\ tape' = (tape \o part) \o torn
  BY <1>1
<1>3. QED
  BY <1>2, CrashStep

LEMMA StartStep ==
  ASSUME TapeInv, StartRecording
  PROVE  TapeInv'
<1>1. TapeState /\ wall \in Nat /\ tape \in Seq(TapeLines) /\ ~source.up /\ UNCHANGED <<wall, truth>>
  BY DEF TapeInv, TapeState, StartRecording
<1>2. PICK src : src = [up |-> TRUE, covered |-> wall, held |-> {t \in truth : t.at >= Since(wall, RETENTION)}]
  OBVIOUS
<1>3. /\ src \in [up : BOOLEAN, held : SUBSET truth, covered : Nat]
      /\ src.up /\ src.covered = wall /\ src.held \subseteq truth
  BY <1>1, <1>2
<1>4. PICK S : S = NewTrades(NewRecorder, src)
  OBVIOUS
<1>5. S = src.held /\ S \in SUBSET truth
  <2>1. Since(0, OVERLAP) = 0
    BY TapeAssumption DEF Since
  <2>2. \A t \in src.held : t.at \in Nat
    BY <1>1, <1>3 DEF TapeState, Read
  <2>3. Ids({}) = {}
    BY DEF Ids
  <2>4. QED
    BY <1>3, <1>4, <2>1, <2>2, <2>3 DEF NewTrades, NewRecorder
<1>6. PICK m, u : /\ m \in Marks
                  /\ m = COVERED(wall, wall) /\ Hands(u, S)
                  /\ snapshot(NewRecorder, src) = u \o <<m>>
  BY <1>1, <1>3, <1>4, SnapshotIs
<1>7. m \in Marks /\ u \in Seq(Trades) /\ Range(u) = {TRADE(t) : t \in S}
  BY <1>6 DEF Hands
<1>8. PICK e \in Starts : e = START(wall)
  BY <1>1 DEF Starts
<1>9. PICK lines : lines = <<e>> \o (u \o <<m>>)
  OBVIOUS
<1>10. lines \in Seq(Lines) /\ Len(lines) = Len(u) + 2 /\ lines # <<>> /\ Len(u) \in Nat
  <2>1. e \in Lines /\ m \in Lines /\ u \in Seq(Lines)
    BY <1>7, SeqMonotonic DEF Lines
  <2>2. u \o <<m>> \in Seq(Lines) /\ Len(u \o <<m>>) = Len(u) + 1 /\ Len(u) \in Nat
    BY <2>1, ConcatProperties, LenProperties
  <2>3. <<e>> \in Seq(Lines) /\ Len(<<e>>) = 1
    BY <2>1
  <2>4. lines \in Seq(Lines) /\ Len(lines) = 1 + (Len(u) + 1)
    BY <1>9, <2>2, <2>3, ConcatProperties
  <2>5. Len(lines) # 0
    BY <2>2, <2>4
  <2>6. lines # <<>>
    BY <2>5, EmptySeq
  <2>7. QED
    BY <2>2, <2>4, <2>6
<1>11. write(lines, src, AfterSnapshot(NewRecorder, src))
  BY <1>2, <1>6, <1>8, <1>9 DEF StartRecording
<1>12. CASE /\ tape' = tape \o lines
            /\ source' = src /\ recorder' = AfterSnapshot(NewRecorder, src)
            /\ seenAt' = Append(seenAt, Shown(src))
  <2>1. /\ recorder' \in [lastCovered : Nat, written : SUBSET truth]
        /\ recorder.lastCovered' = wall /\ recorder.written' \subseteq S
    <3>1. PICK rec : rec = NewRecorder
      OBVIOUS
    <3>2. rec.lastCovered \in Nat /\ rec.written = {} /\ rec.lastCovered <= src.covered
      BY <1>1, <1>3, <3>1 DEF NewRecorder
    <3>3. LET after == AfterSnapshot(rec, src)
          IN  /\ after \in [lastCovered : Nat, written : SUBSET truth]
              /\ after.lastCovered = src.covered
              /\ after.written \subseteq rec.written \cup NewTrades(rec, src)
      BY <1>1, <1>3, <3>2, AfterSnapshotIs
    <3>4. QED
      BY <1>3, <1>4, <1>12, <3>1, <3>2, <3>3
  <2>2. PICK v \in Views : /\ v = Shown(src) /\ v.wallAt = wall /\ v.covered = wall
                           /\ v.ids = Ids(S) \cup SeenBy(seenAt)
    BY <1>1, <1>3, <1>5, ShownIs
  <2>3. TapeState' /\ SeenBy(seenAt') = v.ids
    <3>1. source' \in [up : BOOLEAN, held : SUBSET truth, covered : Nat] /\ source.covered' <= wall
      BY <1>1, <1>3, <1>12
    <3>2. tape' = tape \o lines /\ seenAt' = Append(seenAt, v) /\ v.wallAt = wall
      BY <1>12, <2>2
    <3>3. QED
      BY <1>1, <1>10, <2>1, <3>1, <3>2, WriteState
  <2>4. InStep'
    <3>1. Ids(recorder.written') \subseteq Ids(S)
      BY <2>1 DEF Ids
    <3>2. QED
      BY <1>3, <1>5, <1>12, <2>1, <2>2, <2>3, <3>1 DEF InStep
  <2>5. ASSUME Decodable(tape') PROVE Replays'
    <3>1. PICK run, runs : /\ run = [clock \in Clocks |-> <<>>]
                           /\ runs = [clock \in Clocks |-> Closed(LoadOf(clock, tape))]
      OBVIOUS
    <3>2. tape \in Seq(Lines) => Closing(run, runs, S, m, lines)
      <4>1. ASSUME tape \in Seq(Lines), NEW clock \in Clocks
            PROVE  Closes(clock, LoadOf(clock, tape \o lines), Range(LoadOf(clock, tape).lines),
                          run[clock], runs[clock], {TRADE(t) : t \in S}, m)
        <5>1. PICK s \in Seq(Lines) : s = tape
          BY <4>1
        <5>2. Closes(clock, LoadOf(clock, s \o (<<e>> \o (u \o <<m>>))), Range(LoadOf(clock, s).lines),
                     <<>>, Closed(LoadOf(clock, s)), Range(u), m)
          BY <1>7, LoadStartSnapshot
        <5>3. run[clock] = <<>> /\ runs[clock] = Closed(LoadOf(clock, s))
          BY <3>1, <5>1
        <5>4. QED
          BY <1>7, <1>9, <5>1, <5>2, <5>3
      <4>2. QED
        BY <4>1 DEF Closing
    <3>3. run["chain"] = <<>> /\ runs["chain"] = Closed(LoadOf("chain", tape))
      BY <3>1 DEF Clocks
    <3>4. Reaches(LoadOf("chain", tape), run["chain"], truth, S, source.covered')
      BY <3>3 DEF Reaches
    <3>5. source.covered' = wall /\ source.up' /\ MarkedBy = wall /\ wall <= wall
      BY <1>1, <1>3, <1>12 DEF MarkedBy
    <3>6. m = COVERED(source.covered', wall)
      BY <1>6, <3>5
    <3>7. \A t \in recorder.written' : t \in S \/ (t \in truth /\ OnTape(LoadOf("chain", tape), t))
      BY <2>1
    <3>8. /\ tape' = tape \o lines /\ seenAt' = Append(seenAt, v) /\ v.covered = source.covered'
          /\ v.ids = SeenBy(seenAt) \cup Ids(S)
      BY <1>12, <2>2, <3>5
    <3>9. /\ run["chain"] \in Runs \cup {<<>>}
          /\ Decodable(tape) => runs["chain"] \in SUBSET Closed(LoadOf("chain", tape))
          /\ tape \in Seq(Lines) => Closing(run, runs, S, COVERED(source.covered', wall), lines)
          /\ source.up' /\ MarkedBy <= source.covered' /\ source.covered' <= wall
      BY <1>1, <3>2, <3>3, <3>5, <3>6
    <3>10. QED
      BY <1>1, <1>5, <1>10, <2>2, <2>3, <2>5, <3>4, <3>7, <3>8, <3>9, WriteReplays
  <2>6. QED
    BY <2>3, <2>4, <2>5 DEF TapeInv
<1>13. CASE /\ \E n \in 0..(Len(lines) - 1), torn \in {<<>>, <<TORN>>} :
                 tape' = tape \o SubSeq(lines, 1, n) \o torn
            /\ source' = Down0 /\ recorder' = NewRecorder /\ UNCHANGED seenAt
  <2>1. ASSUME NEW n \in 0..(Len(lines) - 1) PROVE Keeps(SubSeq(lines, 1, n))
    <3>1. CASE n = 0
      <4>1. SubSeq(lines, 1, n) = <<>> /\ <<>> \in Seq(Trades)
        BY <3>1, SubSeqEmpty, EmptySeq
      <4>2. QED
        BY <4>1, TradesKeep
    <3>2. CASE n # 0
      <4>1. n \in 1..(Len(u) + 1)
        BY <1>10, <3>2
      <4>2. PICK v \in Seq(Trades) : SubSeq(<<e>> \o (u \o <<m>>), 1, n) = <<e>> \o v
        BY <1>7, <4>1, CutStart
      <4>3. QED
        BY <1>9, <4>2, StartKeeps
    <3>3. QED
      BY <3>1, <3>2
  <2>2. QED
    BY <1>1, <1>13, <2>1, CutStep
<1>14. QED
  BY <1>11, <1>12, <1>13 DEF write

\* A snapshot after a poll to `to`, or after one that failed.
LEMMA PollStep ==
  ASSUME TapeInv, source.up, UNCHANGED <<wall, truth>>,
         NEW src \in [up : BOOLEAN, held : SUBSET truth, covered : Nat],
         src.up, source.covered <= src.covered, src.covered <= wall,
         \A t \in src.held : t \in source.held \/ t.at >= source.covered,
         \A t \in truth : source.covered <= t.at /\ t.at < src.covered => t \in src.held,
         write(snapshot(recorder, src), src, AfterSnapshot(recorder, src))
  PROVE  TapeInv'
<1>1. /\ TapeState /\ wall \in Nat /\ tape \in Seq(TapeLines) /\ InStep
      /\ source.covered \in Nat /\ source.held \subseteq truth /\ src.covered \in Nat
      /\ recorder.lastCovered = source.covered /\ recorder.written \subseteq truth
      /\ Ids(source.held) \subseteq SeenBy(seenAt) /\ Ids(recorder.written) \subseteq SeenBy(seenAt)
      /\ src.held \subseteq truth
  BY DEF TapeInv, TapeState, InStep
<1>2. \A t \in truth : t.at \in Nat
  BY <1>1 DEF TapeState, Read
<1>4. PICK S : S = NewTrades(recorder, src)
  OBVIOUS
<1>3. Since(recorder.lastCovered, OVERLAP) \in Nat /\ Since(recorder.lastCovered, OVERLAP) <= source.covered
  BY <1>1, TapeAssumption, SinceBounds
<1>5. /\ S \in SUBSET truth /\ S \subseteq src.held
      /\ \A t \in src.held : \/ t \in S \/ t \in source.held
                             \/ t.id \in Ids(recorder.written)
      /\ \A t \in src.held : t.at >= source.covered => t \in S \/ t.id \in Ids(recorder.written)
  BY <1>1, <1>2, <1>3, <1>4 DEF NewTrades
<1>6. PICK m, u : /\ m \in Marks
                  /\ m = COVERED(src.covered, wall) /\ Hands(u, S)
                  /\ snapshot(recorder, src) = u \o <<m>>
  BY <1>1, <1>4, SnapshotIs
<1>7. m \in Marks /\ u \in Seq(Trades) /\ Range(u) = {TRADE(t) : t \in S}
  BY <1>6 DEF Hands
<1>9. PICK lines : lines = u \o <<m>>
  OBVIOUS
<1>10. lines \in Seq(Lines) /\ Len(lines) = Len(u) + 1 /\ lines # <<>> /\ Len(u) \in Nat
  <2>1. m \in Lines /\ u \in Seq(Lines)
    BY <1>7, SeqMonotonic DEF Lines
  <2>2. lines \in Seq(Lines) /\ Len(lines) = Len(u) + 1 /\ Len(u) \in Nat
    BY <1>9, <2>1, ConcatProperties, LenProperties
  <2>5. Len(lines) # 0
    BY <2>2
  <2>6. lines # <<>>
    BY <2>5, EmptySeq
  <2>7. QED
    BY <2>2, <2>6
<1>11. write(lines, src, AfterSnapshot(recorder, src))
  BY <1>6, <1>9
<1>12. CASE /\ tape' = tape \o lines
            /\ source' = src /\ recorder' = AfterSnapshot(recorder, src)
            /\ seenAt' = Append(seenAt, Shown(src))
  <2>1. /\ recorder' \in [lastCovered : Nat, written : SUBSET truth]
        /\ recorder.lastCovered' = src.covered /\ recorder.written' \subseteq recorder.written \cup S
    <3>1. PICK rec : rec = recorder
      OBVIOUS
    <3>2. rec.lastCovered \in Nat /\ rec.written \subseteq truth /\ rec.lastCovered <= src.covered
      BY <1>1, <3>1
    <3>3. LET after == AfterSnapshot(rec, src)
          IN  /\ after \in [lastCovered : Nat, written : SUBSET truth]
              /\ after.lastCovered = src.covered
              /\ after.written \subseteq rec.written \cup NewTrades(rec, src)
      BY <1>1, <3>2, AfterSnapshotIs
    <3>4. QED
      BY <1>4, <1>12, <3>1, <3>3
  <2>2. PICK v \in Views : /\ v = Shown(src) /\ v.wallAt = wall /\ v.covered = src.covered
                           /\ v.ids = Ids(src.held) \cup SeenBy(seenAt)
    BY <1>1, ShownIs
  <2>10. Ids(src.held) \cup SeenBy(seenAt) = SeenBy(seenAt) \cup Ids(S)
    <3>1. \A t \in src.held : t.id \in SeenBy(seenAt) \cup Ids(S)
      BY <1>1, <1>5 DEF Ids
    <3>2. \A t \in S : t.id \in Ids(src.held)
      BY <1>5 DEF Ids
    <3>3. QED
      BY <3>1, <3>2 DEF Ids
  <2>3. TapeState' /\ SeenBy(seenAt') = v.ids
    <3>1. source' \in [up : BOOLEAN, held : SUBSET truth, covered : Nat] /\ source.covered' <= wall
      BY <1>1, <1>12
    <3>2. tape' = tape \o lines /\ seenAt' = Append(seenAt, v) /\ v.wallAt = wall
      BY <1>12, <2>2
    <3>3. QED
      BY <1>1, <1>10, <2>1, <3>1, <3>2, WriteState
  <2>4. InStep'
    <3>1. Ids(recorder.written') \subseteq Ids(recorder.written) \cup Ids(S)
      BY <2>1 DEF Ids
    <3>2. QED
      BY <1>1, <1>12, <2>1, <2>2, <2>3, <2>10, <3>1 DEF InStep
  <2>5. ASSUME Decodable(tape') PROVE Replays'
    <3>0. Decodable(tape) /\ tape \in Seq(Lines)
      <4>1. lines \in Seq(TapeLines)
        BY <1>10, SeqMonotonic DEF TapeLines
      <4>2. QED
        BY <1>1, <1>10, <1>12, <2>5, <4>1, WholeBefore
    <3>11. Running
      BY <3>0 DEF TapeInv, Replays
    <3>12. PICK l \in Loads : l = LoadOf("chain", tape)
      BY <3>0, LoadType
    <3>13. /\ l.run # <<>> /\ l.run[2] = source.covered /\ \A t \in recorder.written : OnTape(l, t)
           /\ \A clock \in Clocks : LoadOf(clock, tape).pending = <<>>
      BY <3>11, <3>12 DEF Running
    <3>1. PICK run, runs : /\ run = [clock \in Clocks |-> LoadOf(clock, tape).run]
                           /\ runs = [clock \in Clocks |-> LoadOf(clock, tape).runs]
      OBVIOUS
    <3>2. Closing(run, runs, S, m, lines)
      <4>1. ASSUME NEW clock \in Clocks
            PROVE  Closes(clock, LoadOf(clock, tape \o lines), Range(LoadOf(clock, tape).lines),
                          run[clock], runs[clock], {TRADE(t) : t \in S}, m)
        <5>1. PICK s \in Seq(Lines) : s = tape
          BY <3>0
        <5>2. Closes(clock, LoadOf(clock, s \o (u \o <<m>>)), Range(LoadOf(clock, s).lines),
                     LoadOf(clock, s).run, LoadOf(clock, s).runs,
                     Range(LoadOf(clock, s).pending) \cup Range(u), m)
          BY <1>7, LoadSnapshot
        <5>3. run[clock] = LoadOf(clock, s).run /\ runs[clock] = LoadOf(clock, s).runs
          BY <3>1, <5>1
        <5>4. Range(LoadOf(clock, s).pending) \cup Range(u) = {TRADE(t) : t \in S}
          <6>1. LoadOf(clock, s).pending = <<>>
            BY <3>13, <5>1
          <6>2. Range(<<>>) = {}
            BY DEF Range
          <6>3. QED
            BY <1>7, <6>1, <6>2
        <5>5. QED
          BY <1>9, <5>1, <5>2, <5>3, <5>4
      <4>2. QED
        BY <4>1 DEF Closing
    <3>3. /\ run["chain"] = l.run /\ runs["chain"] = l.runs
          /\ run["chain"] \in Runs \cup {<<>>} /\ runs["chain"] \in SUBSET Closed(l)
          /\ l.run \in Closed(l)
      <4>1. run["chain"] = l.run /\ runs["chain"] = l.runs
        BY <3>1, <3>12 DEF Clocks
      <4>2. l.run \in Runs \cup {<<>>} /\ l.runs \in SUBSET Closed(l) /\ l.run \in Closed(l)
        BY <3>13, LoadFields DEF Closed
      <4>3. QED
        BY <4>1, <4>2
    <3>14. ASSUME NEW t \in truth, source.covered <= t.at, t.at < src.covered
           PROVE  t \in S \/ OnTape(l, t)
      <4>1. t \in src.held
        BY <3>14
      <4>2. CASE t.id \in Ids(recorder.written)
        <5>1. PICK w \in recorder.written : w.id = t.id
          BY <4>2 DEF Ids
        <5>2. w = t
          BY <1>1, <5>1 DEF TapeState
        <5>3. QED
          BY <3>13, <5>1, <5>2
      <4>3. QED
        BY <1>5, <3>14, <4>1, <4>2
    <3>5. source.covered' = src.covered /\ source.up' /\ MarkedBy = source.covered
      BY <1>12 DEF MarkedBy
    <3>4. Reaches(LoadOf("chain", tape), run["chain"], truth, S, source.covered')
      <4>1. Reaches(l, l.run, truth, S, src.covered)
        BY <3>3, <3>13, <3>14 DEF Reaches
      <4>2. QED
        BY <3>3, <3>5, <3>12, <4>1
    <3>6. m = COVERED(source.covered', wall)
      BY <1>6, <3>5
    <3>7. \A t \in recorder.written' : t \in S \/ (t \in truth /\ OnTape(LoadOf("chain", tape), t))
      BY <1>1, <2>1, <3>12, <3>13
    <3>8. /\ tape' = tape \o lines /\ seenAt' = Append(seenAt, v) /\ v.covered = source.covered'
          /\ v.ids = SeenBy(seenAt) \cup Ids(S)
      BY <1>12, <2>2, <2>10, <3>5
    <3>9. /\ MarkedBy <= source.covered' /\ source.covered' <= wall
          /\ runs["chain"] \in SUBSET Closed(LoadOf("chain", tape))
      BY <3>3, <3>5, <3>12
    <3>10. QED
      BY <1>1, <1>5, <1>10, <2>2, <2>3, <2>5, <3>2, <3>3, <3>4, <3>5, <3>6, <3>7, <3>8, <3>9, WriteReplays
  <2>6. QED
    BY <2>3, <2>4, <2>5 DEF TapeInv
<1>13. CASE /\ \E n \in 0..(Len(lines) - 1), torn \in {<<>>, <<TORN>>} :
                 tape' = tape \o SubSeq(lines, 1, n) \o torn
            /\ source' = Down0 /\ recorder' = NewRecorder /\ UNCHANGED seenAt
  <2>1. ASSUME NEW n \in 0..(Len(lines) - 1) PROVE Keeps(SubSeq(lines, 1, n))
    <3>1. n \in 0..Len(u)
      BY <1>10
    <3>2. SubSeq(u \o <<m>>, 1, n) \in Seq(Trades)
      BY <1>7, <3>1, CutSnapshot
    <3>3. QED
      BY <1>9, <3>2, TradesKeep
  <2>2. QED
    BY <1>1, <1>13, <2>1, CutStep
<1>14. QED
  BY <1>11, <1>12, <1>13 DEF write

LEMMA PollAndRecordStep ==
  ASSUME TapeInv, PollAndRecord
  PROVE  TapeInv'
<1>1. /\ TapeState /\ source.up /\ UNCHANGED <<wall, truth>>
      /\ source \in [up : BOOLEAN, held : SUBSET truth, covered : Nat]
      /\ source.covered \in Nat /\ wall \in Nat /\ source.covered <= wall
      /\ \A t \in truth : t.at \in Nat
  BY DEF TapeInv, TapeState, PollAndRecord, Read
<1>2. PICK to \in source.covered..wall :
        /\ to - source.covered <= POLL_SPAN
        /\ LET read == {t \in truth : t.at <= to}
               src == [up |-> TRUE, covered |-> to,
                       held |-> {t \in source.held \cup {u \in read : u.at >= source.covered} :
                                   t.at >= Since(to, RETENTION)}]
               failed == [source EXCEPT !.held = @ \cup {u \in read : u.at >= source.covered}]
           IN  \/ write(snapshot(recorder, src), src, AfterSnapshot(recorder, src))
               \/ write(snapshot(recorder, failed), failed, AfterSnapshot(recorder, failed))
  BY DEF PollAndRecord
<1>3. to \in Nat /\ source.covered <= to /\ to <= wall /\ Since(to, RETENTION) <= source.covered
      /\ Since(to, RETENTION) \in Nat
  BY <1>1, <1>2, TapeAssumption DEF Since
<1>4. PICK fresh : fresh = {u \in {t \in truth : t.at <= to} : u.at >= source.covered}
  OBVIOUS
<1>5. PICK src : src = [up |-> TRUE, covered |-> to,
                        held |-> {t \in source.held \cup fresh : t.at >= Since(to, RETENTION)}]
  OBVIOUS
<1>6. PICK failed : failed = [source EXCEPT !.held = @ \cup fresh]
  OBVIOUS
<1>7. CASE write(snapshot(recorder, src), src, AfterSnapshot(recorder, src))
  <2>1. /\ src \in [up : BOOLEAN, held : SUBSET truth, covered : Nat]
        /\ src.up /\ src.covered = to
        /\ \A t \in src.held : t \in source.held \/ t.at >= source.covered
    BY <1>1, <1>3, <1>4, <1>5
  <2>2. ASSUME NEW t \in truth, source.covered <= t.at, t.at < src.covered
        PROVE  t \in src.held
    <3>1. t.at <= to /\ t.at >= source.covered /\ t.at >= Since(to, RETENTION)
      BY <1>1, <1>3, <2>1, <2>2
    <3>2. QED
      BY <1>4, <1>5, <3>1
  <2>3. source.covered <= src.covered /\ src.covered <= wall
    BY <1>3, <2>1
  <2>4. QED
    BY <1>1, <1>7, <2>1, <2>2, <2>3, PollStep
<1>8. CASE write(snapshot(recorder, failed), failed, AfterSnapshot(recorder, failed))
  <2>1. /\ failed \in [up : BOOLEAN, held : SUBSET truth, covered : Nat]
        /\ failed.up /\ failed.covered = source.covered
        /\ failed.held = source.held \cup fresh
    BY <1>1, <1>4, <1>6
  <2>2. \A t \in failed.held : t \in source.held \/ t.at >= source.covered
    BY <1>4, <2>1
  <2>3. \A t \in truth : source.covered <= t.at /\ t.at < failed.covered => t \in failed.held
    BY <1>1, <2>1
  <2>4. source.covered <= failed.covered /\ failed.covered <= wall
    BY <1>1, <2>1
  <2>5. QED
    BY <1>1, <1>8, <2>1, <2>2, <2>3, <2>4, PollStep
<1>9. QED
  BY <1>2, <1>4, <1>5, <1>6, <1>7, <1>8

LEMMA TradeStep ==
  ASSUME TapeInv, TradeHappens
  PROVE  TapeInv'
<1>1. /\ TapeState /\ wall \in Nat /\ UNCHANGED <<wall, source, recorder, tape, seenAt>>
      /\ tape \in Seq(TapeLines)
  BY DEF TapeInv, TapeState, TradeHappens
<1>2. PICK t : t = [id |-> Cardinality(truth) + 1, at |-> wall]
  OBVIOUS
<1>3. truth' = truth \cup {t} /\ IsFiniteSet(truth) /\ Cardinality(truth) \in Nat
  BY <1>1, <1>2, FS_CardinalityType DEF TradeHappens, TapeState
<1>4. t \in Read /\ t.id = Cardinality(truth) + 1 /\ t.at = wall
  BY <1>1, <1>2, <1>3 DEF Read
<1>5. \A u \in truth : u \in Read /\ u.id \in Nat /\ u.id <= Cardinality(truth) /\ u.at <= wall
  BY <1>1 DEF TapeState, Read
<1>6. t \notin truth
  BY <1>3, <1>4, <1>5
<1>7. IsFiniteSet(truth') /\ Cardinality(truth') = Cardinality(truth) + 1
  BY <1>3, <1>6, FS_AddElement
<1>8. TapeState'
  <2>1. /\ truth' \subseteq Read
        /\ \A u \in truth' : u.id <= Cardinality(truth') /\ u.at <= wall
    BY <1>1, <1>3, <1>4, <1>5, <1>7
  <2>2. \A u, w \in truth' : u.id = w.id => u = w
    <3>1. \A u \in truth : u.id # t.id
      BY <1>3, <1>4, <1>5
    <3>2. QED
      BY <1>1, <1>3, <3>1 DEF TapeState
  <2>3. /\ source \in [up : BOOLEAN, held : SUBSET truth', covered : Nat]
        /\ recorder \in [lastCovered : Nat, written : SUBSET truth']
    BY <1>1, <1>3 DEF TapeState
  <2>4. QED
    BY <1>1, <1>7, <2>1, <2>2, <2>3 DEF TapeState
<1>9. InStep'
  BY <1>1 DEF TapeInv, InStep
<1>10. ASSUME Decodable(tape) PROVE Replays'
  <2>1. Replays
    BY <1>10 DEF TapeInv
  <2>2. PICK l \in Loads : l = LoadOf("chain", Complete(tape))
    BY <1>1, <1>10, WholeLines, LoadType
  <2>3. ChainShows(l, wall, truth')
    <3>1. \A run \in Closed(l) : run[2] \in Nat /\ run[2] <= wall
      BY <2>1, <2>2, ClosedType DEF Replays, ChainShows, Runs
    <3>2. QED
      BY <1>1, <1>3, <1>4, <2>1, <2>2, <3>1 DEF Replays, ChainShows
  <2>4. Running' <=> Running
    BY <1>1 DEF Running
  <2>5. MarkedBy' = MarkedBy
    BY <1>1 DEF MarkedBy
  <2>6. QED
    BY <1>1, <2>1, <2>2, <2>3, <2>4, <2>5 DEF Replays
<1>11. QED
  BY <1>1, <1>8, <1>9, <1>10 DEF TapeInv

LEMMA TickStep ==
  ASSUME TapeInv, WallTick
  PROVE  TapeInv'
<1>1. /\ TapeState /\ wall \in Nat /\ wall' = wall + 1
      /\ UNCHANGED <<truth, source, recorder, tape, seenAt>>
      /\ tape \in Seq(TapeLines)
  BY DEF TapeInv, TapeState, WallTick
<1>2. TapeState'
  <2>1. \A t \in truth : t.at \in Nat
    BY <1>1 DEF TapeState, Read
  <2>2. \A i \in 1..Len(seenAt) : seenAt[i].wallAt \in Nat
    <3>1. seenAt \in Seq(Views)
      BY <1>1 DEF TapeState
    <3>2. \A i \in 1..Len(seenAt) : seenAt[i] \in Views
      BY <3>1, ElementOfSeq
    <3>3. QED
      BY <3>2 DEF Views
  <2>3. QED
    BY <1>1, <2>1, <2>2 DEF TapeState
<1>3. InStep'
  BY <1>1 DEF TapeInv, InStep
<1>4. ASSUME Decodable(tape) PROVE Replays'
  <2>1. Replays
    BY <1>4 DEF TapeInv
  <2>2. Complete(tape) \in Seq(Lines)
    BY <1>1, <1>4, WholeLines
  <2>3. MarkedBy \in Nat /\ MarkedBy' \in Nat /\ MarkedBy <= MarkedBy'
    BY <1>1 DEF TapeState, MarkedBy
  <2>4. WallShows(LoadOf("wall", Complete(tape)), seenAt, MarkedBy')
    <3>1. PICK l \in Loads : l = LoadOf("wall", Complete(tape))
      BY <2>2, LoadType
    <3>2. PICK seen, bound, bound2 : seen = seenAt /\ bound = MarkedBy /\ bound2 = MarkedBy'
      OBVIOUS
    <3>3. WallShows(l, seen, bound)
      BY <2>1, <3>1, <3>2 DEF Replays
    <3>4. WallShows(l, seen, bound2)
      BY <2>3, <3>2, <3>3, WallSame
    <3>5. QED
      BY <3>1, <3>2, <3>4
  <2>5. ChainShows(LoadOf("chain", Complete(tape)), wall', truth)
    <3>1. PICK l \in Loads : l = LoadOf("chain", Complete(tape))
      BY <2>2, LoadType
    <3>2. PICK now, now2, T : now = wall /\ now2 = wall' /\ T = truth
      OBVIOUS
    <3>3. ChainShows(l, now, T) /\ now \in Nat /\ now2 \in Nat /\ now <= now2
      BY <1>1, <2>1, <3>1, <3>2 DEF Replays
    <3>4. ChainShows(l, now2, T)
      BY <3>3, ChainSame
    <3>5. QED
      BY <3>1, <3>2, <3>4
  <2>6. Running' <=> Running
    BY <1>1 DEF Running
  <2>7. QED
    BY <1>1, <2>1, <2>4, <2>5, <2>6 DEF Replays
<1>5. QED
  BY <1>1, <1>2, <1>3, <1>4 DEF TapeInv

LEMMA TapeStarts ==
  ASSUME TapeInit
  PROVE  TapeInv
<1>1. TapeState
  <2>1. <<>> \in Seq(TapeLines) /\ <<>> \in Seq(Views) /\ Len(<<>>) = 0
    BY EmptySeq
  <2>2. IsFiniteSet({}) /\ 1..0 = {}
    BY FS_EmptySet
  <2>3. QED
    BY <2>1, <2>2 DEF TapeInit, TapeState, Down0, NewRecorder
<1>2. InStep
  BY DEF TapeInit, InStep, Down0
<1>3. Replays
  <2>1. Complete(<<>>) = <<>> /\ tape = <<>> /\ seenAt = <<>> /\ ~source.up
    BY DEF Complete, TapeInit, Down0
  <2>2. \A clock : LoadOf(clock, <<>>) = EmptyLoad
    BY LoadOfNothing
  <2>3. Range(EmptyLoad.lines) = {} /\ Closed(EmptyLoad) = {}
    BY DEF EmptyLoad, Range, Closed
  <2>4. WallShows(EmptyLoad, <<>>, MarkedBy)
    <3>1. 1..Len(<<>>) = {}
      BY EmptySeq
    <3>2. QED
      BY <2>3, <3>1 DEF WallShows
  <2>5. ChainShows(EmptyLoad, wall, truth)
    BY <2>3 DEF ChainShows
  <2>6. QED
    BY <2>1, <2>2, <2>4, <2>5 DEF Replays
<1>4. QED
  BY <1>1, <1>2, <1>3 DEF TapeInv

LEMMA TapeSteps ==
  ASSUME TapeInv, [TapeNext]_tapeVars
  PROVE  TapeInv'
<1>1. CASE StartRecording
  BY <1>1, StartStep
<1>2. CASE PollAndRecord
  BY <1>2, PollAndRecordStep
<1>3. CASE TradeHappens
  BY <1>3, TradeStep
<1>4. CASE WallTick
  BY <1>4, TickStep
<1>5. CASE UNCHANGED tapeVars
  <2>1. UNCHANGED <<wall, truth, source, recorder, tape, seenAt>>
    BY <1>5 DEF tapeVars
  <2>2. TapeState' /\ InStep' /\ (Replays <=> Replays')
    BY <2>1 DEF TapeInv, TapeState, InStep, Replays, Running, MarkedBy
  <2>3. QED
    BY <2>1, <2>2 DEF TapeInv
<1>6. QED
  BY <1>1, <1>2, <1>3, <1>4, <1>5 DEF TapeNext

\* The invariant says what is promised.
LEMMA TapeInvShows == TapeInv => ReplayIsWhatWasRead
<1> SUFFICES ASSUME TapeInv, decodes PROVE ReplayIsWhatWasRead
  BY DEF ReplayIsWhatWasRead
<1>1. TapeState /\ tape \in Seq(TapeLines) /\ wall \in Nat
  BY DEF TapeInv, TapeState
<1>2. Entries = Complete(tape) /\ Decodable(tape)
  BY DEF Entries, Complete, decodes, Decodable
<1>3. Replays
  BY <1>2 DEF TapeInv
<1>4. \A clock : load(clock) = LoadOf(clock, Complete(tape)) /\ load(clock) \in Loads
  BY <1>1, <1>2, WholeLines, LoadType DEF load
<1>5. ASSUME NEW i \in DOMAIN seenAt, i = Len(seenAt) \/ seenAt[i + 1].wallAt > seenAt[i].wallAt
      PROVE  /\ tradesSeen(load("wall"), seenAt[i].wallAt) = seenAt[i].ids
             /\ coversUntil(load("wall"), "wall", seenAt[i].wallAt) = seenAt[i].covered
  <2>1. i \in 1..Len(seenAt)
    BY <1>1, LenProperties DEF TapeState
  <2>2. ShownAt(load("wall"), seenAt[i])
    BY <1>3, <1>4, <1>5, <2>1 DEF Replays, WallShows
  <2>3. QED
    BY <2>2 DEF ShownAt
<1>6. ASSUME NEW s \in played(load("chain")),
             NEW u \in truth, u.at >= s - WARMUP, u.at < s + ROUND_LENGTH
      PROVE  u.id \in tradesSeen(load("chain"), s + ROUND_LENGTH)
  <2>1. PICK l \in Loads : l = load("chain")
    BY <1>4
  <2>2. /\ s \in Nat /\ s >= WARMUP
        /\ \E run \in Closed(l) : run[1] <= s - WARMUP /\ s + ROUND_LENGTH <= run[2]
    BY <2>1, TapeAssumption DEF played, slots, records
  <2>3. PICK run \in Closed(l) : run[1] <= s - WARMUP /\ s + ROUND_LENGTH <= run[2]
    BY <2>2
  <2>4. run[1] \in Nat /\ run[2] \in Nat /\ u.at \in Nat /\ WARMUP \in Nat /\ ROUND_LENGTH \in Nat
    BY <1>1, <2>1, <2>3, ClosedType, TapeAssumption DEF Runs, TapeState, Read
  <2>5. run[1] <= u.at /\ u.at < run[2]
    BY <1>6, <2>2, <2>3, <2>4
  <2>6. OnTape(l, u)
    BY <1>3, <1>4, <2>1, <2>3, <2>5 DEF Replays, ChainShows
  <2>7. u.at <= s + ROUND_LENGTH
    BY <1>6, <2>2, <2>4
  <2>8. TRADE(u) \in visible(l, s + ROUND_LENGTH)
    <3>1. PICK x : x = [visible |-> u.at, entry |-> TRADE(u)]
      OBVIOUS
    <3>2. x \in Range(l.lines) /\ x.visible <= s + ROUND_LENGTH /\ x.entry = TRADE(u)
      BY <2>6, <2>7, <3>1 DEF OnTape
    <3>3. QED
      BY <3>2 DEF visible
  <2>9. TRADE(u).kind = "TRADE" /\ TRADE(u).id = u.id
    BY DEF TRADE
  <2>10. QED
    BY <2>1, <2>8, <2>9 DEF tradesSeen
<1>7. \A clock \in {"chain", "wall"} : runsIn(clock) = Closed(load(clock))
  BY <1>1, CoverageIsLoads
<1>8. QED
  BY <1>5, <1>6, <1>7 DEF ReplayIsWhatWasRead

(* A tape replays the market it was recorded from: at every instant it shows  *)
(* what the recorder had read by then, no round is played on a stretch with a *)
(* hole, and the coverage an operator is shown is the coverage that is played. *)
THEOREM TapesReplayWhatWasRead ==
  TapeInit /\ [][TapeNext]_tapeVars => []ReplayIsWhatWasRead
<1>1. TapeInit => TapeInv
  BY TapeStarts
<1>2. TapeInv /\ [TapeNext]_tapeVars => TapeInv'
  BY TapeSteps
<1>3. TapeInv => ReplayIsWhatWasRead
  BY TapeInvShows
<1>4. QED
  BY <1>1, <1>2, <1>3, PTL

(***************************************************************************)
(* The indexer's lists.                                                    *)
(***************************************************************************)

Swaps == [id : Nat, at : Nat]
Activities == [id : Nat, at : Nat, wallet : {NoWallet, Sender}]
IdsOf(list) == {t.id : t \in Range(list)}

\* A nonempty set of places has a greatest.
LEMMA GreatestOf ==
  ASSUME NEW n \in Nat, NEW s \in SUBSET (0..n), s # {}
  PROVE  Greatest(s) \in s /\ \A y \in s : y <= Greatest(s)
<1> DEFINE T == {d \in Nat : n - d \in s}
<1>1. PICK k \in s : TRUE
  OBVIOUS
<1>2. n - k \in T
  BY <1>1
<1>3. PICK d \in T : \A c \in T : d <= c
  BY <1>2, LeastNatural
<1>4. ASSUME NEW m \in s PROVE m <= n - d
  <2>1. m \in 0..n
    OBVIOUS
  <2>2. n - m \in T
    BY <2>1
  <2>3. d <= n - m /\ d \in Nat
    BY <1>3, <2>2
  <2>4. QED
    BY <2>1, <2>3
<1>5. QED
  BY <1>3, <1>4 DEF Greatest

\* The place an entry is inserted behind.
Splits(list, n, at) ==
  /\ n \in 0..Len(list)
  /\ n # 0 => list[n].at <= at
  /\ \A i \in (n + 1)..Len(list) : at < list[i].at

LEMMA BehindSplits ==
  ASSUME NEW E, \A t \in E : t.at \in Nat, NEW list \in Seq(E), NEW at \in Nat
  PROVE  Splits(list, behind(list, at), at)
<1>1. Len(list) \in Nat /\ DOMAIN list = 1..Len(list) /\ \A i \in DOMAIN list : list[i] \in E
  BY LenProperties, ElementOfSeq
<1>2. PICK S : S = {0} \cup {i \in DOMAIN list : list[i].at <= at}
  OBVIOUS
<1>3. S \in SUBSET (0..Len(list)) /\ S # {}
  BY <1>1, <1>2
<1>4. PICK n : n = behind(list, at) /\ n \in S /\ \A y \in S : y <= n
  BY <1>2, <1>3, <1>1, GreatestOf DEF behind
<1>5. ASSUME NEW i \in (n + 1)..Len(list) PROVE at < list[i].at
  <2>1. i \in DOMAIN list /\ ~(i <= n) /\ list[i].at \in Nat
    BY <1>1, <1>3, <1>4
  <2>2. i \notin S
    BY <1>4, <2>1
  <2>3. QED
    BY <1>2, <2>1, <2>2
<1>6. QED
  BY <1>2, <1>3, <1>4, <1>5 DEF Splits

\* What an insertion leaves, place by place.
Inserted(list, n, e, r) ==
  /\ Len(r) = Len(list) + 1
  /\ \A i \in 1..n : r[i] = list[i]
  /\ r[n + 1] = e
  /\ \A i \in (n + 2)..(Len(list) + 1) : r[i] = list[i - 1]

LEMMA InsertPlaces ==
  ASSUME NEW E, \A t \in E : t.at \in Nat, NEW list \in Seq(E), NEW e \in E
  PROVE  /\ insertByTime(list, e) \in Seq(E)
         /\ \E n : Splits(list, n, e.at) /\ Inserted(list, n, e, insertByTime(list, e))
<1>1. PICK at \in Nat : at = e.at
  OBVIOUS
<1>2. PICK n : n = behind(list, at) /\ Splits(list, n, at)
  BY BehindSplits
<1>3. PICK k \in Nat : k = Len(list)
  BY LenProperties
<1>4. n \in 0..k
  BY <1>2, <1>3 DEF Splits
<1>5. PICK u, v : u = SubSeq(list, 1, n) /\ v = SubSeq(list, n + 1, k)
  OBVIOUS
<1>6. u \in Seq(E) /\ Len(u) = n /\ \A i \in 1..n : u[i] = list[i]
  BY <1>3, <1>4, <1>5, SubSeqProperties
<1>7. v \in Seq(E) /\ Len(v) = k - n /\ \A i \in 1..(k - n) : v[i] = list[n + i]
  BY <1>3, <1>4, <1>5, SubSeqProperties
<1>8. PICK w : w = u \o <<e>>
  OBVIOUS
<1>9. /\ w \in Seq(E) /\ Len(w) = n + 1 /\ w[n + 1] = e
      /\ \A i \in 1..n : w[i] = list[i]
  <2>1. n + 1 \in Nat /\ n \in Nat
    BY <1>4
  <2>2. w = Append(u, e)
    BY <1>6, <1>8
  <2>3. QED
    BY <1>6, <2>1, <2>2, AppendProperties
<1>10. PICK r : r = w \o v
  OBVIOUS
<1>11. r = insertByTime(list, e)
  BY <1>1, <1>2, <1>3, <1>5, <1>8, <1>10 DEF insertByTime
<1>12. /\ r \in Seq(E) /\ Len(r) = Len(w) + Len(v)
       /\ \A i \in 1..Len(r) : r[i] = IF i <= Len(w) THEN w[i] ELSE v[i - Len(w)]
  <2>1. Len(w) \in Nat /\ Len(v) \in Nat /\ w \in Seq(E) /\ v \in Seq(E)
    BY <1>4, <1>7, <1>9
  <2>2. QED
    BY <1>10, <2>1, ConcatProperties
<1>13. Len(r) = k + 1
  BY <1>4, <1>7, <1>9, <1>12
<1>14. ASSUME NEW i \in 1..n PROVE r[i] = list[i]
  <2>1. i \in 1..Len(r) /\ i <= Len(w)
    BY <1>4, <1>9, <1>13
  <2>2. QED
    BY <1>9, <1>12, <2>1
<1>15. r[n + 1] = e
  BY <1>4, <1>9, <1>12, <1>13
<1>16. ASSUME NEW i \in (n + 2)..(k + 1) PROVE r[i] = list[i - 1]
  <2>1. i \in Nat /\ i \in 1..Len(r) /\ ~(i <= Len(w)) /\ i - (n + 1) \in 1..(k - n)
    BY <1>4, <1>9, <1>13
  <2>2. r[i] = v[i - (n + 1)] /\ n + (i - (n + 1)) = i - 1
    BY <1>4, <1>9, <1>12, <2>1
  <2>3. QED
    BY <1>7, <2>1, <2>2
<1>17. Inserted(list, n, e, r)
  BY <1>3, <1>13, <1>14, <1>15, <1>16 DEF Inserted
<1>18. QED
  BY <1>1, <1>2, <1>11, <1>12, <1>17

\* An entry inserted joins the others, in its place in time.
LEMMA InsertKeeps ==
  ASSUME NEW E, \A t \in E : t.at \in Nat, NEW list \in Seq(E), NEW e \in E
  PROVE  /\ insertByTime(list, e) \in Seq(E)
         /\ Range(insertByTime(list, e)) = Range(list) \cup {e}
         /\ InTimeOrder(list) => InTimeOrder(insertByTime(list, e))
         /\ OncePerEvent(list) /\ e.id \notin IdsOf(list) => OncePerEvent(insertByTime(list, e))
<1>1. PICK r : r = insertByTime(list, e)
  OBVIOUS
<1>2. PICK n : Splits(list, n, e.at) /\ Inserted(list, n, e, r) /\ r \in Seq(E)
  BY <1>1, InsertPlaces
<1>3. PICK k \in Nat : k = Len(list) /\ DOMAIN list = 1..k /\ \A i \in 1..k : list[i] \in E
  BY LenProperties, ElementOfSeq
<1>4. /\ n \in 0..k /\ (n # 0 => list[n].at <= e.at) /\ \A i \in (n + 1)..k : e.at < list[i].at
  BY <1>2, <1>3 DEF Splits
<1>5. /\ Len(r) = k + 1 /\ DOMAIN r = 1..(k + 1)
      /\ \A i \in 1..n : r[i] = list[i]
      /\ r[n + 1] = e /\ \A i \in (n + 2)..(k + 1) : r[i] = list[i - 1]
  BY <1>2, <1>3, LenProperties DEF Inserted
<1>6. \A i \in 1..(k + 1) : i \in 1..n \/ i = n + 1 \/ i \in (n + 2)..(k + 1)
  BY <1>4
<1>7. Range(r) = Range(list) \cup {e}
  <2>1. ASSUME NEW i \in 1..(k + 1) PROVE r[i] \in Range(list) \cup {e}
    <3>1. CASE i \in 1..n
      BY <1>3, <1>4, <1>5, <3>1 DEF Range
    <3>2. CASE i = n + 1
      BY <1>5, <3>2
    <3>3. CASE i \in (n + 2)..(k + 1)
      <4>1. i - 1 \in 1..k
        BY <1>4, <3>3
      <4>2. QED
        BY <1>3, <1>5, <3>3, <4>1 DEF Range
    <3>4. QED
      BY <1>6, <3>1, <3>2, <3>3
  <2>2. ASSUME NEW i \in 1..k PROVE list[i] \in Range(r)
    <3>1. CASE i <= n
      <4>1. i \in 1..n /\ i \in 1..(k + 1)
        BY <1>4, <3>1
      <4>2. QED
        BY <1>5, <4>1 DEF Range
    <3>2. CASE ~(i <= n)
      <4>1. i + 1 \in (n + 2)..(k + 1) /\ (i + 1) - 1 = i /\ i + 1 \in 1..(k + 1)
        BY <1>4, <3>2
      <4>2. QED
        BY <1>5, <4>1 DEF Range
    <3>3. QED
      BY <3>1, <3>2
  <2>3. n + 1 \in 1..(k + 1)
    BY <1>4
  <2>4. e \in Range(r)
    BY <1>5, <2>3 DEF Range
  <2>5. QED
    BY <1>3, <1>5, <2>1, <2>2, <2>4 DEF Range
<1>8. InTimeOrder(list) => InTimeOrder(r)
  <2>1. SUFFICES ASSUME InTimeOrder(list), NEW i \in 1..(k + 1), NEW j \in 1..(k + 1), i <= j
                 PROVE  r[i].at <= r[j].at
    BY <1>5 DEF InTimeOrder
  <2>2. \A a, b \in 1..k : a <= b => list[a].at <= list[b].at /\ list[a].at \in Nat /\ list[b].at \in Nat
    BY <1>3, <2>1 DEF InTimeOrder
  <2>3. e.at \in Nat
    OBVIOUS
  <2>4. \A a \in 1..n : list[a].at \in Nat /\ list[a].at <= e.at
    <3>1. SUFFICES ASSUME NEW a \in 1..n PROVE list[a].at \in Nat /\ list[a].at <= e.at
      OBVIOUS
    <3>2. a \in 1..k /\ n \in 1..k /\ a <= n /\ n # 0
      BY <1>4
    <3>3. QED
      BY <1>4, <2>2, <2>3, <3>2
  <2>5. CASE i \in 1..n
    <3>1. i \in 1..k /\ r[i] = list[i]
      BY <1>4, <1>5, <2>5
    <3>2. CASE j \in 1..n
      <4>1. j \in 1..k /\ r[j] = list[j]
        BY <1>4, <1>5, <3>2
      <4>2. QED
        BY <2>1, <2>2, <3>1, <4>1
    <3>3. CASE j = n + 1
      BY <1>5, <2>4, <2>5, <3>1, <3>3
    <3>4. CASE j \in (n + 2)..(k + 1)
      <4>1. j - 1 \in 1..k /\ i <= j - 1 /\ r[j] = list[j - 1]
        BY <1>4, <1>5, <2>5, <3>4
      <4>2. QED
        BY <2>2, <3>1, <4>1
    <3>5. QED
      BY <1>6, <3>2, <3>3, <3>4
  <2>6. CASE i = n + 1
    <3>1. CASE j = n + 1
      BY <1>5, <2>3, <2>6, <3>1
    <3>2. CASE j \in (n + 2)..(k + 1)
      <4>1. j - 1 \in (n + 1)..k /\ j - 1 \in 1..k /\ r[j] = list[j - 1]
        BY <1>4, <1>5, <3>2
      <4>2. QED
        BY <1>4, <1>5, <2>2, <2>3, <2>6, <4>1
    <3>3. QED
      BY <1>4, <1>6, <2>1, <2>6, <3>1, <3>2
  <2>7. CASE i \in (n + 2)..(k + 1)
    <3>1. j \in (n + 2)..(k + 1) /\ i - 1 \in 1..k /\ j - 1 \in 1..k /\ i - 1 <= j - 1
      BY <1>4, <2>1, <2>7
    <3>2. QED
      BY <1>5, <2>2, <2>7, <3>1
  <2>8. QED
    BY <1>6, <2>5, <2>6, <2>7
<1>9. OncePerEvent(list) /\ e.id \notin IdsOf(list) => OncePerEvent(r)
  <2>1. SUFFICES ASSUME OncePerEvent(list), e.id \notin IdsOf(list),
                        NEW i \in 1..(k + 1), NEW j \in 1..(k + 1), r[i].id = r[j].id
                 PROVE  i = j
    BY <1>5 DEF OncePerEvent
  <2>2. \A a, b \in 1..k : list[a].id = list[b].id => a = b
    BY <1>3, <2>1 DEF OncePerEvent
  <2>3. \A a \in 1..k : list[a].id # e.id
    BY <1>3, <2>1 DEF IdsOf, Range
  <2> DEFINE from(a) == IF a <= n THEN a ELSE a - 1
  <2>4. ASSUME NEW a \in 1..(k + 1), a # n + 1
        PROVE  from(a) \in 1..k /\ r[a] = list[from(a)]
    BY <1>4, <1>5, <2>4
  <2>5. CASE i = n + 1 /\ j # n + 1
    BY <1>5, <2>1, <2>3, <2>4, <2>5
  <2>6. CASE i # n + 1 /\ j = n + 1
    BY <1>5, <2>1, <2>3, <2>4, <2>6
  <2>7. CASE i # n + 1 /\ j # n + 1
    <3>1. from(i) \in 1..k /\ r[i] = list[from(i)] /\ from(j) \in 1..k /\ r[j] = list[from(j)]
      BY <2>1, <2>4, <2>7
    <3> HIDE DEF from
    <3>2. from(i) = from(j)
      BY <2>1, <2>2, <3>1
    <3> USE DEF from
    <3>3. QED
      BY <1>4, <2>7, <3>2
  <2>8. QED
    BY <2>5, <2>6, <2>7
<1>10. QED
  BY <1>1, <1>2, <1>7, <1>8, <1>9

\* What is dropped is what is older, and the rest stays as it was.
LEMMA DropKeeps ==
  ASSUME NEW E, \A t \in E : t.at \in Nat, NEW list \in Seq(E), NEW cutoff \in Nat, InTimeOrder(list)
  PROVE  /\ dropBefore(list, cutoff) \in Seq(E)
         /\ Range(dropBefore(list, cutoff)) = {t \in Range(list) : t.at >= cutoff}
         /\ InTimeOrder(dropBefore(list, cutoff))
         /\ OncePerEvent(list) => OncePerEvent(dropBefore(list, cutoff))
<1>1. PICK k \in Nat : k = Len(list) /\ DOMAIN list = 1..k /\ \A i \in 1..k : list[i] \in E
  BY LenProperties, ElementOfSeq
<1>2. PICK S : S = {0} \cup {i \in DOMAIN list : list[i].at < cutoff}
  OBVIOUS
<1>3. S \in SUBSET (0..k) /\ S # {}
  BY <1>1, <1>2
<1>4. PICK n : n = lowerBound(list, cutoff) /\ n \in S /\ \A y \in S : y <= n
  BY <1>2, <1>3, <1>1, GreatestOf DEF lowerBound
<1>5. n \in 0..k
  BY <1>3, <1>4
<1>6. PICK r : r = dropBefore(list, cutoff)
  OBVIOUS
<1>7. /\ r \in Seq(E) /\ Len(r) = k - n /\ DOMAIN r = 1..(k - n)
      /\ \A i \in 1..(k - n) : r[i] = list[n + i]
  <2>1. r = SubSeq(list, n + 1, k)
    BY <1>1, <1>4, <1>6 DEF dropBefore
  <2>2. /\ r \in Seq(E) /\ Len(r) = k - n /\ \A i \in 1..(k - n) : r[i] = list[n + i]
    BY <1>1, <1>5, <2>1, SubSeqProperties
  <2>3. QED
    BY <2>2, LenProperties
<1>8. \A i \in 1..k : i \in 1..n => list[i].at < cutoff
  <2>1. SUFFICES ASSUME NEW i \in 1..k, i \in 1..n PROVE list[i].at < cutoff
    OBVIOUS
  <2>2. n \in 1..k /\ n # 0 /\ i <= n
    BY <1>5, <2>1
  <2>3. list[n].at < cutoff /\ list[n].at \in Nat /\ list[i].at \in Nat
    BY <1>1, <1>2, <1>4, <2>2
  <2>4. list[i].at <= list[n].at
    BY <1>1, <2>2 DEF InTimeOrder
  <2>5. QED
    BY <2>3, <2>4
<1>9. \A i \in 1..k : i \in (n + 1)..k => list[i].at >= cutoff
  <2>1. SUFFICES ASSUME NEW i \in 1..k, i \in (n + 1)..k PROVE list[i].at >= cutoff
    OBVIOUS
  <2>2. i \notin S /\ list[i].at \in Nat
    BY <1>1, <1>4, <1>5, <2>1
  <2>3. QED
    BY <1>1, <1>2, <2>2
<1>10. Range(r) = {t \in Range(list) : t.at >= cutoff}
  <2>1. ASSUME NEW i \in 1..(k - n) PROVE r[i] \in Range(list) /\ r[i].at >= cutoff
    <3>1. n + i \in (n + 1)..k /\ n + i \in 1..k
      BY <1>5
    <3>2. QED
      BY <1>1, <1>7, <1>9, <3>1 DEF Range
  <2>2. ASSUME NEW i \in 1..k, list[i].at >= cutoff PROVE list[i] \in Range(r)
    <3>1. ~(i \in 1..n)
      <4>1. list[i].at \in Nat
        BY <1>1
      <4>2. QED
        BY <1>8, <2>2, <4>1
    <3>2. i - n \in 1..(k - n) /\ n + (i - n) = i
      BY <1>5, <3>1
    <3>3. QED
      BY <1>7, <3>2 DEF Range
  <2>3. QED
    BY <1>1, <1>7, <2>1, <2>2 DEF Range
<1>11. InTimeOrder(r)
  <2>1. SUFFICES ASSUME NEW i \in 1..(k - n), NEW j \in 1..(k - n), i <= j PROVE r[i].at <= r[j].at
    BY <1>7 DEF InTimeOrder
  <2>2. n + i \in 1..k /\ n + j \in 1..k /\ n + i <= n + j
    BY <1>5, <2>1
  <2>3. QED
    BY <1>1, <1>7, <2>2 DEF InTimeOrder
<1>12. OncePerEvent(list) => OncePerEvent(r)
  <2>1. SUFFICES ASSUME OncePerEvent(list), NEW i \in 1..(k - n), NEW j \in 1..(k - n), r[i].id = r[j].id
                 PROVE  i = j
    BY <1>7 DEF OncePerEvent
  <2>2. n + i \in 1..k /\ n + j \in 1..k
    BY <1>5
  <2>3. n + i = n + j
    BY <1>1, <1>7, <2>1, <2>2 DEF OncePerEvent
  <2>4. QED
    BY <1>5, <2>3
<1>13. QED
  BY <1>6, <1>7, <1>10, <1>11, <1>12

\* A recording stays within what happened: the source holds and covers nothing that is not
\* there yet, and a recorder remembers no instant beyond the clock, across crashes too
\* (tape-recorder.ts).
THEOREM TapesAreWellTyped == TapeInit /\ [][TapeNext]_tapeVars => []TapeTypeOK
<1> DEFINE Bounded == /\ wall \in 1..MaxWall /\ Cardinality(truth) <= MaxTrades
                      /\ \A t \in truth : t.id >= 1 /\ t.at >= 1
                      /\ recorder.lastCovered <= wall /\ crashes \in 0..MaxCrashes
<1>1. MaxWall \in Nat /\ MaxWall >= 1 /\ MaxTrades \in Nat /\ MaxCrashes \in Nat
  BY TapeAssumption
<1>2. TapeInit => Bounded
  BY <1>1, FS_EmptySet DEF TapeInit, NewRecorder
<1>3. ASSUME TapeInv, Bounded, [TapeNext]_tapeVars
      PROVE  Bounded'
  <2>1. /\ wall \in Nat /\ wall \in 1..MaxWall /\ source.covered \in Nat /\ source.covered <= wall
        /\ recorder.lastCovered \in Nat /\ recorder.lastCovered <= wall
        /\ crashes \in 0..MaxCrashes
    BY <1>3 DEF TapeInv, TapeState
  <2>2. ASSUME NEW lines, NEW src, NEW rec, write(lines, src, rec)
        PROVE  /\ crashes' \in 0..MaxCrashes
               /\ recorder' = rec \/ recorder' = NewRecorder
    BY <1>1, <2>1, <2>2 DEF write
  <2>3. ASSUME NEW rec, NEW src, rec.lastCovered \in 0..wall, src.covered \in 0..wall
        PROVE  AfterSnapshot(rec, src).lastCovered <= wall
    <3>1. PICK from, to : from = rec.lastCovered /\ to = src.covered
      OBVIOUS
    <3>2. Top({from, to}) \in {from, to}
      BY <2>1, <2>3, <3>1, TopOfTwo
    <3>3. AfterSnapshot(rec, src).lastCovered = Top({from, to})
      BY <3>1 DEF AfterSnapshot
    <3>4. QED
      BY <2>1, <2>3, <3>1, <3>2, <3>3
  <2>4. NewRecorder.lastCovered = 0
    BY DEF NewRecorder
  <2>5. CASE StartRecording
    <3>1. UNCHANGED <<wall, truth>>
      BY <2>5 DEF StartRecording
    <3>2. PICK src : /\ src.covered = wall
                     /\ write(<<START(wall)>> \o snapshot(NewRecorder, src), src,
                              AfterSnapshot(NewRecorder, src))
      BY <2>5 DEF StartRecording
    <3>3. AfterSnapshot(NewRecorder, src).lastCovered <= wall
      BY <2>1, <2>3, <2>4, <3>2
    <3>4. recorder'.lastCovered <= wall /\ crashes' \in 0..MaxCrashes
      BY <2>1, <2>2, <2>4, <3>2, <3>3
    <3>5. QED
      BY <1>3, <3>1, <3>4
  <2>6. CASE PollAndRecord
    <3>1. UNCHANGED <<wall, truth>>
      BY <2>6 DEF PollAndRecord
    <3>2. PICK src : /\ src.covered \in source.covered..wall
                     /\ write(snapshot(recorder, src), src, AfterSnapshot(recorder, src))
      <4> DEFINE Newly(to) == {t \in {t \in truth : t.at <= to} : t.at >= source.covered}
                 Polled(to) == [up |-> TRUE, covered |-> to,
                                held |-> {t \in source.held \cup Newly(to) : t.at >= Since(to, RETENTION)}]
                 Failed(to) == [source EXCEPT !.held = source.held \cup Newly(to)]
      <4>1. PICK to \in source.covered..wall :
              \/ write(snapshot(recorder, Polled(to)), Polled(to), AfterSnapshot(recorder, Polled(to)))
              \/ write(snapshot(recorder, Failed(to)), Failed(to), AfterSnapshot(recorder, Failed(to)))
        BY <2>6 DEF PollAndRecord
      <4>2. Polled(to).covered \in source.covered..wall
        OBVIOUS
      <4>3. Failed(to).covered \in source.covered..wall
        BY <1>3, <2>1 DEF TapeInv, TapeState
      <4>4. QED
        BY <4>1, <4>2, <4>3
    <3>3. AfterSnapshot(recorder, src).lastCovered <= wall
      BY <2>1, <2>3, <3>2
    <3>4. recorder'.lastCovered <= wall /\ crashes' \in 0..MaxCrashes
      BY <2>1, <2>2, <2>4, <3>2, <3>3
    <3>5. QED
      BY <1>3, <3>1, <3>4
  <2>7. CASE TradeHappens
    <3>1. IsFiniteSet(truth) /\ Cardinality(truth) \in Nat
      BY <1>3, FS_CardinalityType DEF TapeInv, TapeState
    <3>2. PICK t : /\ truth' = truth \cup {t} /\ Cardinality(truth) < MaxTrades
                   /\ t = [id |-> Cardinality(truth) + 1, at |-> wall]
      BY <2>7 DEF TradeHappens
    <3>3. Cardinality(truth') = Cardinality(truth) \/ Cardinality(truth') = Cardinality(truth) + 1
      BY <3>1, <3>2, FS_AddElement
    <3>4. Cardinality(truth') <= MaxTrades
      BY <1>1, <3>1, <3>2, <3>3
    <3>5. UNCHANGED <<wall, recorder, crashes>>
      BY <2>7 DEF TradeHappens
    <3>6. t.id >= 1 /\ t.at >= 1
      BY <2>1, <3>1, <3>2
    <3>7. QED
      BY <1>3, <3>2, <3>4, <3>5, <3>6
  <2>8. CASE WallTick \/ UNCHANGED tapeVars
    BY <1>1, <1>3, <2>1, <2>8 DEF WallTick, tapeVars
  <2>9. QED
    BY <1>3, <2>5, <2>6, <2>7, <2>8 DEF TapeNext
<1>4. ASSUME TapeInv, Bounded
      PROVE  TapeTypeOK
  <2>1. truth \subseteq [id : 1..MaxTrades, at : 1..MaxWall]
    <3>1. SUFFICES ASSUME NEW t \in truth PROVE t \in [id : 1..MaxTrades, at : 1..MaxWall]
      OBVIOUS
    <3>2. IsFiniteSet(truth) /\ t \in Read /\ t.id <= Cardinality(truth) /\ t.at <= wall
      BY <1>4 DEF TapeInv, TapeState
    <3>3. Cardinality(truth) \in Nat /\ Cardinality(truth) <= MaxTrades /\ wall \in 1..MaxWall
          /\ t.id >= 1 /\ t.at >= 1
      BY <1>4, <3>2, FS_CardinalityType
    <3>4. QED
      BY <1>1, <3>2, <3>3 DEF Read
  <2>2. source.held \subseteq truth /\ source.covered \in 0..MaxWall
    BY <1>1, <1>4 DEF TapeInv, TapeState
  <2>3. recorder.lastCovered \in 0..MaxWall /\ recorder.written \subseteq truth
    BY <1>1, <1>4 DEF TapeInv, TapeState
  <2>4. ASSUME NEW e \in Range(tape)
        PROVE  e.kind \in {"START", "COVERED", "TRADE", "TORN"}
    <3>1. tape \in Seq(TapeLines)
      BY <1>4 DEF TapeInv, TapeState
    <3>2. e \in TapeLines
      BY <3>1, ElementOfSeq DEF Range
    <3>3. QED
      BY <3>2, LineKinds DEF TapeLines, Lines, TORN
  <2>5. QED
    BY <1>4, <2>1, <2>2, <2>3, <2>4 DEF TapeTypeOK
<1>5. QED
  BY <1>2, <1>3, <1>4, TapeStarts, TapeSteps, PTL

-----------------------------------------------------------------------------
(***************************************************************************)
(* The indexer's folds over blocks.                                        *)
(***************************************************************************)

\* What holds of a fold of nothing, and of a fold with one more member when it does of
\* the fold without, holds of the whole.
LEMMA FoldInduct ==
  ASSUME NEW S, IsFiniteSet(S), NEW pick, \A s \in SUBSET S : s # {} => pick[s] \in s,
         NEW g, NEW K, <<{}, g[{}]>> \in K,
         \A s \in SUBSET S : s # {} /\ <<s \ {pick[s]}, g[s \ {pick[s]}]>> \in K => <<s, g[s]>> \in K
  PROVE  <<S, g[S]>> \in K
<1> DEFINE T == {n \in Nat : \A s \in SUBSET S : Cardinality(s) = n => <<s, g[s]>> \in K}
<1>1. \A s \in SUBSET S : IsFiniteSet(s) /\ Cardinality(s) \in Nat
  BY FS_Subset, FS_CardinalityType
<1>2. 0 \in T
  <2>1. \A s \in SUBSET S : Cardinality(s) = 0 => s = {}
    BY <1>1, FS_EmptySet
  <2>2. QED
    BY <2>1
<1>3. ASSUME NEW n \in Nat, n \in T PROVE n + 1 \in T
  <2>1. ASSUME NEW s \in SUBSET S, Cardinality(s) = n + 1 PROVE <<s, g[s]>> \in K
    <3>1. s # {}
      <4>1. Cardinality({}) = 0
        BY FS_EmptySet
      <4>2. Cardinality(s) # 0
        BY <2>1
      <4>3. QED
        BY <4>1, <4>2
    <3>2. pick[s] \in s /\ s \ {pick[s]} \in SUBSET S
      BY <3>1
    <3>3. Cardinality(s \ {pick[s]}) = n
      <4>1. IsFiniteSet(s) /\ pick[s] \in s
        BY <1>1, <3>2
      <4>2. Cardinality(s \ {pick[s]}) = Cardinality(s) - 1
        BY <4>1, FS_RemoveElement
      <4>3. QED
        BY <2>1, <4>2
    <3>4. <<s \ {pick[s]}, g[s \ {pick[s]}]>> \in K
      BY <1>3, <3>2, <3>3
    <3>5. QED
      BY <3>1, <3>4
  <2>2. QED
    BY <2>1
<1>4. \A n \in Nat : n \in T
  <2> HIDE DEF T
  <2>1. QED
    BY <1>2, <1>3, Induct
<1>5. QED
  BY <1>1, <1>4

LEMMA Halves ==
  ASSUME NEW d \in Nat \ {0}, NEW a \in Nat
  PROVE  /\ a \div d \in Nat /\ a % d \in 0..(d - 1) /\ a = d * (a \div d) + (a % d)
OBVIOUS

LEMMA DivideUpTo ==
  ASSUME NEW d \in Nat \ {0}, NEW a \in Nat, NEW k \in Nat, a < d * (k + 1)
  PROVE  a \div d \in Nat /\ a \div d <= k
<1>1. PICK q \in Nat, r \in 0..(d - 1) : q = a \div d /\ r = a % d
  BY Halves
<1>2. a = d * q + r
  BY <1>1, Halves
<1>3. ASSUME q > k PROVE FALSE
  <2>1. PICK e \in Nat : q = (k + 1) + e
    <3>1. q - (k + 1) \in Nat /\ q = (k + 1) + (q - (k + 1))
      BY <1>3
    <3>2. QED
      BY <3>1
  <2>2. d * q = d * (k + 1) + d * e
    BY <2>1
  <2>3. d * e \in Nat /\ d * (k + 1) \in Nat
    OBVIOUS
  <2>4. QED
    BY <1>2, <2>2, <2>3
<1>4. QED
  BY <1>1, <1>3

LEMMA DivideInOrder ==
  ASSUME NEW d \in Nat \ {0}, NEW a \in Nat, NEW b \in Nat, a <= b
  PROVE  a \div d \in Nat /\ b \div d \in Nat /\ a \div d <= b \div d
<1>1. PICK q \in Nat, r \in 0..(d - 1) : q = b \div d /\ b = d * q + r
  BY Halves
<1>2. d * (q + 1) = d * q + d /\ d * q \in Nat
  OBVIOUS
<1>3. a < d * (q + 1)
  BY <1>1, <1>2
<1>4. QED
  BY <1>1, <1>3, DivideUpTo

-----------------------------------------------------------------------------
(***************************************************************************)
(* Sums over finite sets, and the folds of a read.                         *)
(***************************************************************************)

SumFrom(f, g) ==
  g = [s \in SUBSET DOMAIN f |->
         IF s = {} THEN 0
         ELSE LET x == CHOOSE x \in s : TRUE IN f[x] + g[s \ {x}]]

LEMMA SumIs ==
  ASSUME NEW f
  PROVE  \E g : g = (CHOOSE h : SumFrom(f, h)) /\ SumFunction(f) = g[DOMAIN f]
BY DEF SumFunction, SumFunctionOnSet, FoldFunctionOnSet, MapThenFoldSet, SumFrom

\* The sums of the parts of d, of which SumFunction is the last.
Sums(d, f, pick, g) ==
  /\ g[{}] = 0
  /\ \A s \in SUBSET d : s # {} => g[s] = f[pick[s]] + g[s \ {pick[s]}]
  /\ SumFunction(f) = g[d]

LEMMA SumUnfolds ==
  ASSUME NEW d, IsFiniteSet(d), NEW f \in [d -> Nat],
         NEW pick, pick = [s \in SUBSET d |-> CHOOSE x \in s : TRUE]
  PROVE  \E g : Sums(d, f, pick, g)
<1>1. \A s \in SUBSET d : s # {} => pick[s] \in s
  OBVIOUS
<1>2. PICK step : step = [x \in d |-> [n \in Nat |-> f[x] + n]]
  OBVIOUS
<1>3. step \in [d -> [Nat -> Nat]]
  BY <1>2
<1>4. PICK h \in [SUBSET d -> Nat] : Unfolds(d, pick, 0, step, h)
  BY <1>1, <1>3, FoldExists
<1>5. SumFrom(f, h)
  <2>1. ASSUME NEW s \in SUBSET d
        PROVE  h[s] = IF s = {} THEN 0
                      ELSE LET x == CHOOSE x \in s : TRUE IN f[x] + h[s \ {x}]
    <3>1. CASE s = {}
      BY <1>4, <3>1 DEF Unfolds
    <3>2. CASE s # {}
      <4>1. PICK x : x = CHOOSE y \in s : TRUE
        OBVIOUS
      <4>2. pick[s] = x /\ x \in s /\ x \in d /\ h[s \ {x}] \in Nat
        BY <1>1, <1>4, <3>2, <4>1
      <4>3. h[s] = step[x][h[s \ {x}]]
        BY <1>4, <3>2, <4>2 DEF Unfolds
      <4>4. QED
        BY <1>2, <3>2, <4>1, <4>2, <4>3
    <3>3. QED
      BY <3>1, <3>2
  <2>2. QED
    BY <1>4, <2>1 DEF SumFrom
<1>6. PICK g : g = (CHOOSE k : SumFrom(f, k)) /\ SumFunction(f) = g[DOMAIN f]
  BY SumIs
<1>7. SumFrom(f, g)
  BY <1>5, <1>6
<1>8. QED
  BY <1>6, <1>7 DEF SumFrom, Sums

\* One changed summand changes the sum by the difference.
LEMMA SumOfChange ==
  ASSUME NEW d, IsFiniteSet(d), NEW f \in [d -> Nat], NEW h \in [d -> Nat],
         NEW x \in d, \A y \in d \ {x} : h[y] = f[y]
  PROVE  SumFunction(f) \in Nat /\ SumFunction(h) + f[x] = SumFunction(f) + h[x]
<1>1. PICK pick : pick = [s \in SUBSET d |-> CHOOSE y \in s : TRUE]
  OBVIOUS
<1>2. \A s \in SUBSET d : s # {} => pick[s] \in s
  BY <1>1
<1>3. PICK g : Sums(d, f, pick, g)
  BY <1>1, SumUnfolds
<1>4. PICK k : Sums(d, h, pick, k)
  BY <1>1, SumUnfolds
<1> DEFINE Right(s) == /\ g[s] \in Nat /\ k[s] \in Nat
                       /\ x \in s => k[s] + f[x] = g[s] + h[x]
                       /\ x \notin s => k[s] = g[s]
           K == {p \in (SUBSET d) \X {TRUE} : Right(p[1])}
           t == [s \in SUBSET d |-> TRUE]
<1>5. <<{}, t[{}]>> \in K
  <2>1. Right({})
    BY <1>3, <1>4 DEF Sums
  <2>2. {} \in SUBSET d
    OBVIOUS
  <2>3. QED
    BY <2>1, <2>2
<1>6. ASSUME NEW s \in SUBSET d, s # {}, <<s \ {pick[s]}, t[s \ {pick[s]}]>> \in K
      PROVE  <<s, t[s]>> \in K
  <2>1. PICK y, r : y = pick[s] /\ r = s \ {y} /\ y \in s /\ r \in SUBSET d
    BY <1>2, <1>6
  <2>2. Right(r)
    BY <1>6, <2>1
  <2>3. g[s] = f[y] + g[r] /\ k[s] = h[y] + k[r]
    BY <1>3, <1>4, <1>6, <2>1 DEF Sums
  <2>4. f[y] \in Nat /\ h[y] \in Nat /\ f[x] \in Nat /\ h[x] \in Nat
    BY <2>1
  <2>5. CASE y = x
    <3>1. x \notin r /\ x \in s
      BY <2>1, <2>5
    <3>2. Right(s)
      BY <2>2, <2>3, <2>4, <2>5, <3>1
    <3>3. QED
      BY <3>2
  <2>6. CASE y # x
    <3>1. h[y] = f[y] /\ (x \in s <=> x \in r)
      BY <2>1, <2>6
    <3>2. Right(s)
      BY <2>2, <2>3, <2>4, <3>1
    <3>3. QED
      BY <3>2
  <2>7. QED
    BY <2>5, <2>6
<1>7. <<d, t[d]>> \in K
  <2> HIDE DEF K, t
  <2>1. QED
    BY <1>2, <1>5, <1>6, FoldInduct
<1>8. Right(d)
  BY <1>7
<1>9. QED
  BY <1>3, <1>4, <1>8 DEF Sums

\* apply, as the recursion its fold stands for.
ApplyFrom(x, blocks, at, g) ==
  g = [s \in SUBSET blocks |->
         IF s = {} THEN x
         ELSE applied(g[s \ {Greatest(s)}], Greatest(s), at[Greatest(s)])]

LEMMA ApplyIs ==
  ASSUME NEW x, NEW blocks, NEW at
  PROVE  \E g : /\ g = CHOOSE f : ApplyFrom(x, blocks, at, f)
                /\ apply(x, blocks, at) = g[blocks]
BY DEF apply, MapThenFoldSet, ApplyFrom

\* What is so of the memory a read starts from, and stays so as each of its blocks is
\* applied, is so of what the read leaves.
LEMMA ApplyInduct ==
  ASSUME NEW blocks \in SUBSET Nat, IsFiniteSet(blocks), NEW at, NEW A, NEW x \in A, NEW K,
         \A s \in SUBSET blocks : s # {} => Greatest(s) \in s,
         \A b \in blocks, y \in A : applied(y, b, at[b]) \in A,
         <<{}, x>> \in K,
         \A s \in SUBSET blocks, b \in blocks, y \in A :
           b \notin s /\ <<s, y>> \in K => <<s \cup {b}, applied(y, b, at[b])>> \in K
  PROVE  apply(x, blocks, at) \in A /\ <<blocks, apply(x, blocks, at)>> \in K
<1>1. PICK pick : pick = [s \in SUBSET blocks |-> Greatest(s)]
  OBVIOUS
<1>2. \A s \in SUBSET blocks : s # {} => pick[s] \in s
  BY <1>1
<1>3. PICK step : step = [b \in blocks |-> [y \in A |-> applied(y, b, at[b])]]
  OBVIOUS
<1>4. step \in [blocks -> [A -> A]]
  BY <1>3
<1>5. PICK h \in [SUBSET blocks -> A] : Unfolds(blocks, pick, x, step, h)
  BY <1>2, <1>4, FoldExists
<1>6. ASSUME NEW g, ApplyFrom(x, blocks, at, g)
      PROVE  g[blocks] \in A /\ <<blocks, g[blocks]>> \in K
  <2> DEFINE L == {p \in (SUBSET blocks) \X A : p \in K}
  <2>1. <<{}, g[{}]>> \in L
    <3>1. {} \in SUBSET blocks /\ g[{}] = x
      BY <1>6 DEF ApplyFrom
    <3>2. QED
      BY <3>1
  <2>2. ASSUME NEW s \in SUBSET blocks, s # {}, <<s \ {pick[s]}, g[s \ {pick[s]}]>> \in L
        PROVE  <<s, g[s]>> \in L
    <3>1. PICK b, r : b = pick[s] /\ r = s \ {b}
      OBVIOUS
    <3>6. b \in blocks /\ b \notin r /\ r \in SUBSET blocks /\ r \cup {b} = s
      <4>1. b \in s /\ s \subseteq blocks
        BY <1>2, <2>2, <3>1
      <4>2. QED
        BY <3>1, <4>1
    <3>2. PICK y : y = g[r] /\ y \in A /\ <<r, y>> \in K
      BY <2>2, <3>1, <3>6
    <3>3. g[s] = applied(y, b, at[b])
      BY <1>1, <1>6, <2>2, <3>1, <3>2 DEF ApplyFrom
    <3>4. <<r \cup {b}, applied(y, b, at[b])>> \in K /\ applied(y, b, at[b]) \in A
      BY <3>2, <3>6
    <3>5. QED
      BY <3>3, <3>4, <3>6
  <2>3. <<blocks, g[blocks]>> \in L
    <3> HIDE DEF L
    <3>1. QED
      BY <1>2, <2>1, <2>2, FoldInduct
  <2>4. QED
    BY <2>3
<1>7. ApplyFrom(x, blocks, at, h)
  <2>1. ASSUME NEW s \in SUBSET blocks
        PROVE  h[s] = IF s = {} THEN x
                      ELSE applied(h[s \ {Greatest(s)}], Greatest(s), at[Greatest(s)])
    <3>1. CASE s = {}
      BY <1>5, <3>1 DEF Unfolds
    <3>2. CASE s # {}
      <4>1. PICK b : b = Greatest(s) /\ pick[s] = b /\ b \in blocks /\ h[s \ {b}] \in A
        BY <1>1, <1>2, <1>5, <3>2
      <4>2. h[s] = step[b][h[s \ {b}]]
        BY <1>5, <3>2, <4>1 DEF Unfolds
      <4>3. QED
        BY <1>3, <3>2, <4>1, <4>2
    <3>3. QED
      BY <3>1, <3>2
  <2>2. QED
    BY <1>5, <2>1 DEF ApplyFrom
<1>8. PICK g : g = (CHOOSE f : ApplyFrom(x, blocks, at, f)) /\ apply(x, blocks, at) = g[blocks]
  BY ApplyIs
<1>9. ApplyFrom(x, blocks, at, g)
  BY <1>7, <1>8
<1>10. QED
  BY <1>6, <1>8, <1>9

-----------------------------------------------------------------------------
(***************************************************************************)
(* The clock never dates a block before the anchors' step behind it.       *)
(***************************************************************************)

\* A chain's timestamps, and the instant no block of it may be dated before.
Clock(n, times) ==
  /\ n \in Nat \ {0} /\ times \in [1..n -> Nat]
  /\ \A i, j \in 1..n : i <= j => times[i] <= times[j]
FloorAt(times, b) == times[IF b > COARSE_ANCHOR_BLOCKS THEN b - COARSE_ANCHOR_BLOCKS ELSE 1]

LEMMA LeastOf ==
  ASSUME NEW s \in SUBSET Nat, s # {}
  PROVE  Least(s) \in s /\ \A y \in s : Least(s) <= y
<1>1. PICK k \in s : \A y \in s : k <= y
  BY LeastNatural
<1>2. QED
  BY <1>1 DEF Least

LEMMA BetweenAnchors ==
  ASSUME NEW n \in Nat, NEW anchors \in SUBSET (1..n), NEW b \in 1..n,
         NEW low \in anchors, low <= b, NEW high \in anchors, b <= high
  PROVE  /\ around(anchors, b).below \in low..b /\ around(anchors, b).below \in anchors
         /\ around(anchors, b).above \in b..high /\ around(anchors, b).above \in anchors
<1>1. PICK L, H : L = {a \in anchors : a <= b} /\ H = {a \in anchors : a >= b}
  OBVIOUS
<1>2. low \in L /\ high \in H /\ L \in SUBSET (0..n) /\ H \in SUBSET Nat
  <2>1. low \in L /\ high \in H
    <3>1. low \in Nat /\ high \in Nat /\ b \in Nat
      OBVIOUS
    <3>2. QED
      BY <1>1, <3>1
  <2>2. L \subseteq anchors /\ H \subseteq anchors
    BY <1>1
  <2>3. QED
    BY <2>1, <2>2
<1>3. PICK l : l = Greatest(L) /\ l \in L /\ \A y \in L : y <= l
  BY <1>2, GreatestOf
<1>4. PICK h : h = Least(H) /\ h \in H /\ \A y \in H : h <= y
  BY <1>2, LeastOf
<1>5. around(anchors, b).below = l /\ around(anchors, b).above = h
  BY <1>1, <1>2, <1>3, <1>4 DEF around
<1>6. l \in Nat /\ h \in Nat /\ low \in Nat /\ high \in Nat /\ l <= b /\ low <= l /\ b <= h /\ h <= high
  BY <1>1, <1>2, <1>3, <1>4
<1>7. QED
  BY <1>1, <1>3, <1>4, <1>5, <1>6

LEMMA NoAnchor ==
  ASSUME NEW n \in Nat, NEW anchors \in SUBSET (1..n), NEW b \in 1..n,
         around(anchors, b).below # NoBlock, around(anchors, b).above # NoBlock
  PROVE  (\E low \in anchors : low <= b) /\ (\E high \in anchors : b <= high)
<1>1. PICK L, H : L = {a \in anchors : a <= b} /\ H = {a \in anchors : a >= b}
  OBVIOUS
<1>2. L # {} /\ H # {}
  BY <1>1 DEF around
<1>3. QED
  BY <1>1, <1>2

LEMMA InterpolateBounds ==
  ASSUME NEW n, NEW times, Clock(n, times), NEW b \in 1..n,
         NEW below \in 1..n, below <= b, NEW above \in 1..n, b <= above
  PROVE  /\ interpolate(times, b, below, above) \in Nat
         /\ times[below] <= interpolate(times, b, below, above)
         /\ interpolate(times, b, below, above) <= times[above]
<1>1. PICK u \in Nat, v \in Nat : u = times[below] /\ v = times[above] /\ u <= v
  BY DEF Clock
<1>2. CASE below = above
  BY <1>1, <1>2 DEF interpolate
<1>3. CASE below # above
  <2>1. PICK den \in Nat \ {0}, x \in Nat, e \in Nat, k \in Nat :
          den = above - below /\ x = b - below /\ e = above - b /\ k = v - u /\ den = x + e
    <3>1. above - below \in Nat \ {0} /\ b - below \in Nat /\ above - b \in Nat /\ v - u \in Nat
          /\ above - below = (b - below) + (above - b)
      BY <1>1, <1>3
    <3>2. QED
      BY <3>1
  <2>2. k * den = k * x + k * e /\ k * x \in Nat /\ k * e \in Nat /\ k * den \in Nat
    BY <2>1
  <2>3. PICK a \in Nat, d \in Nat \ {0} : a = 2 * (k * x) + den /\ d = 2 * den
    BY <2>1, <2>2
  <2>4. d * (k + 1) = 2 * (k * den) + 2 * den
    BY <2>1, <2>3
  <2>5. a < d * (k + 1)
    BY <2>1, <2>2, <2>3, <2>4
  <2>6. a \div d \in Nat /\ a \div d <= k
    BY <2>1, <2>3, <2>5, DivideUpTo
  <2>7. interpolate(times, b, below, above) = u + (a \div d)
    BY <1>1, <1>3, <2>1, <2>3 DEF interpolate
  <2>8. QED
    BY <1>1, <2>1, <2>6, <2>7
<1>4. QED
  BY <1>2, <1>3

\* The anchors a block is placed between are at most a step before it.
LEMMA CellAnchors ==
  ASSUME NEW n \in Nat, NEW l \in 1..n, NEW h \in 1..n, NEW b \in 1..n, l <= b, b <= h,
         NEW step \in Nat \ {0}, NEW cell, cell = l + ((b - l) \div step) * step,
         NEW next, next = IF cell + step < h THEN cell + step ELSE h
  PROVE  /\ cell \in 1..n /\ cell <= b /\ b - step <= cell
         /\ next \in 1..n /\ b <= next
<1>1. PICK x \in Nat : x = b - l
  OBVIOUS
<1>2. PICK q \in Nat, r \in 0..(step - 1) : q = x \div step /\ x = step * q + r
  <2>1. x \div step \in Nat /\ x % step \in 0..(step - 1) /\ x = step * (x \div step) + (x % step)
    BY Halves
  <2>2. QED
    BY <2>1
<1>3. PICK s \in Nat : s = step * q /\ s = q * step
  OBVIOUS
<1>4. cell = l + s /\ x = s + r /\ r < step
  BY <1>1, <1>2, <1>3
<1>5. cell \in 1..n /\ cell <= b /\ b - step <= cell /\ b < cell + step
  BY <1>1, <1>3, <1>4
<1>6. QED
  BY <1>5

LEMMA TimeOfBounds ==
  ASSUME NEW n, NEW times, Clock(n, times), NEW anchors \in SUBSET (1..n), NEW b \in 1..n,
         NEW step \in Nat \ {0}, step <= COARSE_ANCHOR_BLOCKS,
         NEW one, one = TimeOf(times, anchors, b, step)
  PROVE  /\ one.anchors \in SUBSET (1..n)
         /\ one.at \in Nat /\ FloorAt(times, b) <= one.at /\ one.at <= times[n]
<1>1. PICK near : near = around(anchors, b)
  OBVIOUS
<1>2. COARSE_ANCHOR_BLOCKS \in Nat \ {0} /\ n \in Nat \ {0}
  BY MarketAssumption DEF Clock
<1>3. PICK f \in 1..n : f = IF b > COARSE_ANCHOR_BLOCKS THEN b - COARSE_ANCHOR_BLOCKS ELSE 1
  <2>1. b \in Nat /\ b <= n /\ 1 \in 1..n /\ n \in Nat
    BY <1>2
  <2>2. b > COARSE_ANCHOR_BLOCKS => b - COARSE_ANCHOR_BLOCKS \in 1..n
    BY <1>2, <2>1
  <2>3. QED
    BY <2>1, <2>2
<1>4. FloorAt(times, b) = times[f] /\ f <= b /\ \A c \in 1..n : b - step <= c => f <= c
  BY <1>2, <1>3 DEF FloorAt
<1>5. \A i, j \in 1..n : i <= j => times[i] \in Nat /\ times[j] \in Nat /\ times[i] <= times[j]
  BY DEF Clock
<1>6. n \in 1..n /\ b <= n
  BY <1>2
<1>7. CASE near.below = NoBlock \/ near.above = NoBlock
  <2>1. one = [at |-> times[b], anchors |-> anchors \cup {b}]
    BY <1>1, <1>7 DEF TimeOf
  <2>2. QED
    BY <1>4, <1>5, <1>6, <2>1
<1>8. CASE near.below # NoBlock /\ near.above # NoBlock
  <2>1. PICK l, h : l = near.below /\ h = near.above
    OBVIOUS
  <2>2. l \in anchors /\ l <= b /\ h \in anchors /\ b <= h
    <3>1. PICK low \in anchors : low <= b
      BY <1>1, <1>2, <1>8, NoAnchor
    <3>2. PICK high \in anchors : b <= high
      BY <1>1, <1>2, <1>8, NoAnchor
    <3>3. near.below \in low..b /\ near.below \in anchors /\ near.above \in b..high /\ near.above \in anchors
      BY <1>1, <1>2, <3>1, <3>2, BetweenAnchors
    <3>4. QED
      BY <2>1, <3>3
  <2>3. l \in 1..n /\ h \in 1..n
    BY <2>2
  <2>4. PICK cell, next : /\ cell = l + ((b - l) \div step) * step
                         /\ next = IF cell + step < h THEN cell + step ELSE h
    OBVIOUS
  <2>5. /\ cell \in 1..n /\ cell <= b /\ b - step <= cell
        /\ next \in 1..n /\ b <= next
    BY <1>2, <2>2, <2>3, <2>4, CellAnchors
  <2>6. PICK more : more = IF h - l > step THEN anchors \cup {cell, next} ELSE anchors
    OBVIOUS
  <2>7. more \in SUBSET (1..n)
    BY <2>5, <2>6
  <2>8. PICK low \in more, high \in more : low <= b /\ b - step <= low /\ b <= high
    <3>1. CASE h - l > step
      BY <2>5, <2>6, <3>1
    <3>2. CASE ~(h - l > step)
      <4>1. l \in more /\ h \in more /\ b - step <= l
        BY <2>2, <2>3, <2>6, <3>2
      <4>2. QED
        BY <2>2, <4>1
    <3>3. QED
      BY <3>1, <3>2
  <2>9. PICK fine : fine = around(more, b)
    OBVIOUS
  <2>10. fine.below \in low..b /\ fine.below \in more /\ fine.above \in b..high /\ fine.above \in more
    BY <1>2, <2>7, <2>8, <2>9, BetweenAnchors
  <2>11. PICK i \in 1..n, j \in 1..n : i = fine.below /\ j = fine.above /\ i <= b /\ b <= j /\ b - step <= i
    BY <2>7, <2>8, <2>10
  <2>12. one = [at |-> interpolate(times, b, i, j), anchors |-> more]
    BY <1>1, <1>8, <2>1, <2>4, <2>6, <2>9, <2>11 DEF TimeOf
  <2>13. PICK at \in Nat : at = interpolate(times, b, i, j) /\ times[i] <= at /\ at <= times[j]
    BY <2>11, InterpolateBounds
  <2>14. f <= i /\ times[f] <= times[i] /\ times[j] <= times[n]
    BY <1>4, <1>5, <1>6, <2>11
  <2>15. times[f] \in Nat /\ times[i] \in Nat /\ times[j] \in Nat /\ times[n] \in Nat
    BY <1>5, <1>6
  <2>16. one.anchors = more /\ one.at = at
    BY <2>12, <2>13
  <2>17. QED
    BY <1>4, <2>7, <2>13, <2>14, <2>15, <2>16
<1>9. QED
  BY <1>7, <1>8

\* The instants a read's blocks are placed at, whatever anchors it starts from.
Placings(n) == [at : UNION {[s -> Nat] : s \in SUBSET (1..n)}, anchors : SUBSET (1..n)]

DatedFrom(times, anchors, wanted, spacing, g) ==
  g = [s \in SUBSET wanted |->
         IF s = {} THEN [at |-> [b \in {} |-> 0], anchors |-> anchors]
         ELSE Dated(times, g[s \ {Greatest(s)}], Greatest(s), spacing[Greatest(s)])]

LEMMA TimesIs ==
  ASSUME NEW times, NEW anchors, NEW wanted, NEW spacing
  PROVE  \E g : /\ g = CHOOSE f : DatedFrom(times, anchors, wanted, spacing, f)
                /\ timesOf(times, anchors, wanted, spacing) = g[wanted]
BY DEF timesOf, MapThenFoldSet, DatedFrom

\* The blocks of s are dated, none before its floor or after the head.
Bounded(n, times, s, acc) ==
  /\ acc.at \in [s -> Nat]
  /\ \A b \in s : FloorAt(times, b) <= acc.at[b] /\ acc.at[b] <= times[n]

LEMMA DatedKeeps ==
  ASSUME NEW n, NEW times, Clock(n, times), NEW acc \in Placings(n), NEW b \in 1..n,
         NEW step \in Nat \ {0}, step <= COARSE_ANCHOR_BLOCKS,
         NEW next, next = Dated(times, acc, b, step)
  PROVE  /\ next \in Placings(n)
         /\ \A s \in SUBSET (1..n) : Bounded(n, times, s, acc) => Bounded(n, times, s \cup {b}, next)
<1>1. PICK one : one = TimeOf(times, acc.anchors, b, step)
  OBVIOUS
<1>2. PICK d \in SUBSET (1..n) : acc.at \in [d -> Nat]
  BY DEF Placings
<1>3. /\ one.anchors \in SUBSET (1..n)
      /\ one.at \in Nat /\ FloorAt(times, b) <= one.at /\ one.at <= times[n]
  <2>1. acc.anchors \in SUBSET (1..n)
    BY DEF Placings
  <2>2. QED
    BY <1>1, <2>1, TimeOfBounds
<1>4. PICK at : at = [x \in d \cup {b} |-> IF x = b THEN one.at ELSE acc.at[x]]
  OBVIOUS
<1>5. next = [at |-> at, anchors |-> one.anchors]
  BY <1>1, <1>2, <1>4 DEF Dated
<1>6. at \in [d \cup {b} -> Nat] /\ d \cup {b} \in SUBSET (1..n)
  BY <1>2, <1>3, <1>4
<1>7. ASSUME NEW s \in SUBSET (1..n), Bounded(n, times, s, acc)
      PROVE  Bounded(n, times, s \cup {b}, next)
  <2>1. s = d
    BY <1>2, <1>7 DEF Bounded
  <2>2. \A x \in s \cup {b} : FloorAt(times, x) <= at[x] /\ at[x] <= times[n]
    BY <1>3, <1>4, <1>7, <2>1 DEF Bounded
  <2>3. QED
    BY <1>5, <1>6, <2>1, <2>2 DEF Bounded
<1>8. next \in Placings(n)
  <2>1. PICK e \in SUBSET (1..n) : at \in [e -> Nat]
    BY <1>6
  <2>2. at \in UNION {[s -> Nat] : s \in SUBSET (1..n)}
    BY <2>1
  <2>3. QED
    BY <1>3, <1>5, <2>2 DEF Placings
<1>9. QED
  BY <1>7, <1>8

LEMMA TimesBounded ==
  ASSUME NEW n, NEW times, Clock(n, times), NEW anchors \in SUBSET (1..n), NEW wanted \in SUBSET (1..n),
         NEW spacing, \A b \in wanted : spacing[b] \in Nat \ {0} /\ spacing[b] <= COARSE_ANCHOR_BLOCKS
  PROVE  /\ timesOf(times, anchors, wanted, spacing).anchors \in SUBSET (1..n)
         /\ Bounded(n, times, wanted, timesOf(times, anchors, wanted, spacing))
<1>1. PICK pick : pick = [s \in SUBSET wanted |-> Greatest(s)]
  OBVIOUS
<1>2. n \in Nat /\ IsFiniteSet(wanted)
  <2>1. n \in Nat /\ IsFiniteSet(1..n)
    BY FS_Interval DEF Clock
  <2>2. QED
    BY <2>1, FS_Subset
<1>3. \A s \in SUBSET wanted : s # {} => pick[s] \in s
  <2>1. ASSUME NEW s \in SUBSET wanted, s # {} PROVE Greatest(s) \in s
    <3>1. s \in SUBSET (0..n)
      BY <1>2
    <3>2. QED
      BY <1>2, <2>1, <3>1, GreatestOf
  <2>2. QED
    BY <1>1, <2>1
<1>4. PICK A, base : A = Placings(n) /\ base = [at |-> [b \in {} |-> 0], anchors |-> anchors]
  OBVIOUS
<1>5. base \in A /\ Bounded(n, times, {}, base)
  <2>1. [b \in {} |-> 0] \in [{} -> Nat]
    OBVIOUS
  <2>2. {} \in SUBSET (1..n)
    OBVIOUS
  <2>3. base \in A
    BY <1>4, <2>1, <2>2 DEF Placings
  <2>4. QED
    BY <1>4, <2>1, <2>3 DEF Bounded
<1>6. PICK step : step = [b \in wanted |-> [y \in A |-> Dated(times, y, b, spacing[b])]]
  OBVIOUS
<1>7. \A b \in wanted, y \in A :
        /\ Dated(times, y, b, spacing[b]) \in A
        /\ \A s \in SUBSET (1..n) : Bounded(n, times, s, y) =>
              Bounded(n, times, s \cup {b}, Dated(times, y, b, spacing[b]))
  <2>1. SUFFICES ASSUME NEW b \in wanted, NEW y \in Placings(n)
                 PROVE  /\ Dated(times, y, b, spacing[b]) \in Placings(n)
                        /\ \A s \in SUBSET (1..n) : Bounded(n, times, s, y) =>
                              Bounded(n, times, s \cup {b}, Dated(times, y, b, spacing[b]))
    BY <1>4
  <2>2. PICK w, next : w = spacing[b] /\ next = Dated(times, y, b, w)
    OBVIOUS
  <2>3. w \in Nat \ {0} /\ w <= COARSE_ANCHOR_BLOCKS /\ b \in 1..n
    BY <2>2
  <2>4. next \in Placings(n) /\ \A s \in SUBSET (1..n) :
          Bounded(n, times, s, y) => Bounded(n, times, s \cup {b}, next)
    BY <2>2, <2>3, DatedKeeps
  <2>5. QED
    BY <2>2, <2>4
<1>8. step \in [wanted -> [A -> A]]
  BY <1>6, <1>7
<1>9. PICK h \in [SUBSET wanted -> A] : Unfolds(wanted, pick, base, step, h)
  BY <1>2, <1>3, <1>5, <1>8, FoldExists
<1>10. DatedFrom(times, anchors, wanted, spacing, h)
  <2>1. ASSUME NEW s \in SUBSET wanted
        PROVE  h[s] = IF s = {} THEN base
                      ELSE Dated(times, h[s \ {Greatest(s)}], Greatest(s), spacing[Greatest(s)])
    <3>1. CASE s = {}
      BY <1>9, <3>1 DEF Unfolds
    <3>2. CASE s # {}
      <4>1. PICK b : b = Greatest(s) /\ pick[s] = b /\ b \in wanted /\ h[s \ {b}] \in A
        BY <1>1, <1>3, <1>9, <3>2
      <4>2. h[s] = step[b][h[s \ {b}]]
        BY <1>9, <3>2, <4>1 DEF Unfolds
      <4>3. QED
        BY <1>6, <3>2, <4>1, <4>2
    <3>3. QED
      BY <3>1, <3>2
  <2>2. QED
    BY <1>4, <1>9, <2>1 DEF DatedFrom
<1>11. PICK g : /\ g = (CHOOSE f : DatedFrom(times, anchors, wanted, spacing, f))
                /\ timesOf(times, anchors, wanted, spacing) = g[wanted]
  BY TimesIs
<1>12. DatedFrom(times, anchors, wanted, spacing, g)
  BY <1>10, <1>11
<1> DEFINE K == {p \in (SUBSET wanted) \X A : Bounded(n, times, p[1], p[2])}
<1>13. <<{}, g[{}]>> \in K
  <2>1. {} \in SUBSET wanted /\ g[{}] = base
    BY <1>4, <1>12 DEF DatedFrom
  <2>2. QED
    BY <1>5, <2>1
<1>14. ASSUME NEW s \in SUBSET wanted, s # {}, <<s \ {pick[s]}, g[s \ {pick[s]}]>> \in K
       PROVE  <<s, g[s]>> \in K
  <2>1. PICK b, r : b = pick[s] /\ r = s \ {b}
    OBVIOUS
  <2>2. b \in s /\ s \subseteq wanted
    BY <1>3, <1>14, <2>1
  <2>3. b \in wanted /\ r \in SUBSET wanted /\ r \in SUBSET (1..n) /\ r \cup {b} = s
    BY <2>1, <2>2
  <2>4. PICK y : y = g[r] /\ y \in A /\ Bounded(n, times, r, y)
    BY <1>14, <2>1
  <2>5. g[s] = Dated(times, y, b, spacing[b])
    BY <1>1, <1>12, <1>14, <2>1, <2>4 DEF DatedFrom
  <2>6. g[s] \in A /\ Bounded(n, times, s, g[s])
    BY <1>7, <2>3, <2>4, <2>5
  <2>7. QED
    BY <2>6
<1>15. <<wanted, g[wanted]>> \in K
  <2> HIDE DEF K
  <2>1. QED
    BY <1>2, <1>3, <1>13, <1>14, FoldInduct
<1>16. g[wanted] \in A /\ Bounded(n, times, wanted, g[wanted])
  BY <1>15
<1>17. QED
  BY <1>4, <1>11, <1>16 DEF Placings

-----------------------------------------------------------------------------
(***************************************************************************)
(* The block search ends at a block that is early enough.                  *)
(***************************************************************************)

Ranges(head) == [low : 1..head, high : 1..head, bisect : BOOLEAN]
Width(r) == IF r.high > r.low THEN r.high - r.low ELSE 0

LEMMA ClampedBetween ==
  ASSUME NEW value \in Int, NEW low \in Nat, NEW high \in Nat, high - low > 1
  PROVE  clampBetween(value, low, high) \in (low + 1)..(high - 1)
BY DEF clampBetween

LEMMA ProbeType ==
  ASSUME NEW n, NEW times, Clock(n, times), NEW aim \in Int, NEW r \in Ranges(n), r.high - r.low > 1
  PROVE  probe(times, aim, r) \in Int
<1>1. r.low \in 1..n /\ r.high \in 1..n /\ times[r.low] \in Nat /\ times[r.high] \in Nat /\ n \in Nat
  BY DEF Ranges, Clock
<1>2. PICK x \in Nat, y \in Nat, d \in Nat \ {0} :
        /\ x = r.high - r.low
        /\ y = IF aim > times[r.low] THEN aim - times[r.low] ELSE 0
        /\ d = IF times[r.high] > times[r.low] THEN times[r.high] - times[r.low] ELSE 1
  <2>1. r.high - r.low \in Nat
    BY <1>1
  <2>2. (IF aim > times[r.low] THEN aim - times[r.low] ELSE 0) \in Nat
    BY <1>1
  <2>3. (IF times[r.high] > times[r.low] THEN times[r.high] - times[r.low] ELSE 1) \in Nat \ {0}
    BY <1>1
  <2>4. QED
    BY <2>1, <2>2, <2>3
<1>3. x * y \in Nat
  OBVIOUS
<1>4. (x * y) \div d \in Nat
  BY <1>3, Halves
<1>5. probe(times, aim, r) = r.low + ((x * y) \div d)
  BY <1>2 DEF probe
<1>6. QED
  BY <1>1, <1>4, <1>5

\* The two ends of a search lie on the two sides of its instant.
Straddles(times, target, r) == r.low < r.high /\ times[r.low] <= target /\ target < times[r.high]

LEMMA NarrowedIs ==
  ASSUME NEW n, NEW times, Clock(n, times), NEW target \in Int, NEW tolerance \in Nat,
         NEW r \in Ranges(n), r.high - r.low > 1, NEW q, q = narrowed(times, target, tolerance, r)
  PROVE  /\ q \in Ranges(n) /\ Width(q) < Width(r)
         /\ Straddles(times, target, r) => Straddles(times, target, q)
<1>1. r.low \in 1..n /\ r.high \in 1..n /\ r.bisect \in BOOLEAN /\ n \in Nat
  BY DEF Ranges, Clock
<1>2. PICK aim \in Int : aim = target - tolerance \div 2
  <2>1. tolerance \div 2 \in Nat
    BY Halves
  <2>2. QED
    BY <2>1
<1>3. PICK m : m = IF r.bisect THEN (r.low + r.high) \div 2
                   ELSE clampBetween(probe(times, aim, r), r.low, r.high)
  OBVIOUS
<1>4. m \in (r.low + 1)..(r.high - 1)
  <2>1. CASE r.bisect
    <3>1. PICK s \in Nat : s = r.low + r.high
      BY <1>1
    <3>2. s \div 2 \in Nat /\ s % 2 \in 0..1 /\ s = 2 * (s \div 2) + (s % 2)
      BY Halves
    <3>3. QED
      BY <1>1, <1>3, <2>1, <3>1, <3>2
  <2>2. CASE ~r.bisect
    <3>1. probe(times, aim, r) \in Int
      BY ProbeType
    <3>2. r.low \in Nat /\ r.high \in Nat
      BY <1>1
    <3>3. clampBetween(probe(times, aim, r), r.low, r.high) \in (r.low + 1)..(r.high - 1)
      BY <3>1, <3>2, ClampedBetween
    <3>4. QED
      BY <1>3, <2>2, <3>3
  <2>3. QED
    BY <1>1, <2>1, <2>2
<1>5. m \in 1..n /\ times[m] \in Nat
  BY <1>1, <1>4 DEF Clock
<1>6. PICK lo, hi : /\ lo = IF times[m] <= target THEN m ELSE r.low
                    /\ hi = IF times[m] <= target THEN r.high ELSE m
  OBVIOUS
<1>7. /\ lo \in 1..n /\ hi \in 1..n /\ lo < hi /\ hi - lo < r.high - r.low
      /\ times[r.low] <= target => times[lo] <= target
      /\ target < times[r.high] => target < times[hi]
  BY <1>1, <1>4, <1>5, <1>6
<1>8. PICK c \in BOOLEAN : c = (~r.bisect /\ (hi - lo) * 2 > r.high - r.low)
  OBVIOUS
<1>9. q = [low |-> lo, high |-> hi, bisect |-> c]
  BY <1>2, <1>3, <1>6, <1>8 DEF narrowed
<1>10. q \in Ranges(n) /\ q.low = lo /\ q.high = hi
  BY <1>7, <1>9 DEF Ranges
<1>11. Width(q) = hi - lo /\ Width(r) = r.high - r.low
  BY <1>1, <1>7, <1>10 DEF Width
<1>12. QED
  BY <1>7, <1>10, <1>11 DEF Straddles

\* A recursion that goes on to an argument of smaller size has a solution.
Repeats(D, done, value, next, g) ==
  g = [p \in D |-> IF p \in done THEN value[p] ELSE g[next[p]]]

\* Every argument it goes on to is smaller.
Shrinks(D, done, next, n, size) ==
  /\ done \in SUBSET D /\ next \in [D -> D] /\ n \in Nat /\ size \in [D -> 0..n]
  /\ \A p \in D : p \notin done => size[next[p]] < size[p]

LEMMA RepeatExists ==
  ASSUME NEW D, NEW done, NEW value, NEW next, NEW n, NEW size, Shrinks(D, done, next, n, size)
  PROVE  \E g : Repeats(D, done, value, next, g)
<1> DEFINE Upto(k, g) == /\ g = [p \in D |-> g[p]]
                         /\ \A p \in D : size[p] < k =>
                               g[p] = IF p \in done THEN value[p] ELSE g[next[p]]
           T == {k \in Nat : \E g : Upto(k, g)}
<1> USE DEF Shrinks
<1>1. 0 \in T
  <2>1. PICK g : g = [p \in D |-> value[p]]
    OBVIOUS
  <2>2. Upto(0, g)
    BY <2>1
  <2>3. QED
    BY <2>2
<1>2. ASSUME NEW k \in Nat, k \in T PROVE k + 1 \in T
  <2>1. PICK g : Upto(k, g)
    BY <1>2
  <2>2. PICK h : h = [p \in D |-> IF p \in done THEN value[p] ELSE g[next[p]]]
    OBVIOUS
  <2>3. ASSUME NEW p \in D, size[p] < k PROVE h[p] = g[p]
    BY <2>1, <2>2, <2>3
  <2>4. ASSUME NEW p \in D, size[p] < k + 1 PROVE h[p] = IF p \in done THEN value[p] ELSE h[next[p]]
    <3>1. CASE p \in done
      BY <2>2, <3>1
    <3>2. CASE p \notin done
      <4>1. next[p] \in D /\ size[p] \in 0..n /\ size[next[p]] \in 0..n /\ size[next[p]] < size[p]
        BY <3>2
      <4>2. size[next[p]] < k
        BY <2>4, <4>1
      <4>3. QED
        BY <2>2, <2>3, <3>2, <4>1, <4>2
    <3>3. QED
      BY <3>1, <3>2
  <2>5. Upto(k + 1, h)
    BY <2>2, <2>4
  <2>6. QED
    BY <2>5
<1>3. \A k \in Nat : k \in T
  <2> HIDE DEF T
  <2>1. QED
    BY <1>1, <1>2, Induct
<1>4. PICK g : Upto(n + 1, g)
  <2>1. n + 1 \in Nat
    OBVIOUS
  <2>2. n + 1 \in T
    BY <1>3, <2>1
  <2>3. QED
    BY <2>2
<1>5. \A p \in D : size[p] < n + 1
  OBVIOUS
<1>6. QED
  BY <1>4, <1>5 DEF Repeats

\* The arguments in good lead to one another and end in V.
Leads(good, done, value, next, V) ==
  \A p \in good : (p \in done => value[p] \in V) /\ (p \notin done => next[p] \in good)

\* What the arguments it starts from keep, its answer has.
LEMMA RepeatInduct ==
  ASSUME NEW D, NEW done, NEW value, NEW next, NEW n, NEW size, Shrinks(D, done, next, n, size),
         NEW g, Repeats(D, done, value, next, g),
         NEW good \in SUBSET D, NEW V, Leads(good, done, value, next, V)
  PROVE  \A p \in good : g[p] \in V
<1> DEFINE T == {k \in Nat : \A p \in good : size[p] < k => g[p] \in V}
<1> USE DEF Shrinks
<1>1. 0 \in T
  OBVIOUS
<1>2. ASSUME NEW k \in Nat, k \in T PROVE k + 1 \in T
  <2>1. ASSUME NEW p \in good, size[p] < k + 1 PROVE g[p] \in V
    <3>1. CASE p \in done
      BY <3>1 DEF Repeats, Leads
    <3>2. CASE p \notin done
      <4>1. next[p] \in good /\ next[p] \in D /\ size[p] \in 0..n /\ size[next[p]] \in 0..n
            /\ size[next[p]] < size[p]
        BY <3>2 DEF Leads
      <4>2. size[next[p]] < k
        BY <2>1, <4>1
      <4>3. g[next[p]] \in V
        BY <1>2, <4>1, <4>2
      <4>4. QED
        BY <3>2, <4>3 DEF Repeats
    <3>3. QED
      BY <3>1, <3>2
  <2>2. QED
    BY <2>1
<1>3. \A k \in Nat : k \in T
  <2> HIDE DEF T
  <2>1. QED
    BY <1>1, <1>2, Induct
<1>4. \A p \in good : size[p] < n + 1
  OBVIOUS
<1>5. n + 1 \in T
  BY <1>3
<1>6. QED
  BY <1>4, <1>5

SearchFrom(times, head, target, tolerance, g) ==
  g = [r \in [low : 1..head, high : 1..head, bisect : BOOLEAN] |->
         IF r.high - r.low <= 1 \/ target - times[r.low] <= tolerance THEN r.low
         ELSE g[narrowed(times, target, tolerance, r)]]

LEMMA SearchIs ==
  ASSUME NEW times, NEW head, NEW target, NEW tolerance, ~(target >= times[head]), ~(times[1] > target),
         NEW g, g = CHOOSE f : SearchFrom(times, head, target, tolerance, f)
  PROVE  blockAtOrBefore(times, head, target, tolerance) = g[[low |-> 1, high |-> head, bisect |-> FALSE]]
BY DEF blockAtOrBefore, SearchFrom

\* Not after the instant, unless it is the first block, and the last such block
\* unless it is within the tolerance.
Found(times, n, target, tolerance, b) ==
  /\ b \in 1..n
  /\ b = 1 \/ times[b] <= target
  /\ b = n \/ target < times[b + 1] \/ target - times[b] <= tolerance

LEMMA SearchEnds ==
  ASSUME NEW n, NEW times, Clock(n, times), NEW target \in Int, NEW tolerance \in Nat
  PROVE  Found(times, n, target, tolerance, blockAtOrBefore(times, n, target, tolerance))
<1>1. n \in Nat \ {0} /\ 1 \in 1..n /\ n \in 1..n /\ times \in [1..n -> Nat]
  BY DEF Clock
<1>2. CASE target >= times[n]
  <2>1. blockAtOrBefore(times, n, target, tolerance) = n
    BY <1>2 DEF blockAtOrBefore
  <2>2. times[n] \in Nat
    BY <1>1
  <2>3. QED
    BY <1>1, <1>2, <2>1, <2>2 DEF Found
<1>3. CASE ~(target >= times[n]) /\ times[1] > target
  <2>1. blockAtOrBefore(times, n, target, tolerance) = 1
    BY <1>3 DEF blockAtOrBefore
  <2>2. ASSUME 1 # n PROVE target < times[1 + 1]
    <3>1. 1 + 1 \in 1..n
      BY <1>1, <2>2
    <3>2. times[1] <= times[1 + 1] /\ times[1] \in Nat /\ times[1 + 1] \in Nat
      BY <1>1, <3>1 DEF Clock
    <3>3. QED
      BY <1>3, <3>2
  <2>3. QED
    BY <1>1, <2>1, <2>2 DEF Found
<1>4. CASE ~(target >= times[n]) /\ ~(times[1] > target)
  <2>1. PICK D, size, done, value, next, good, V :
          /\ D = Ranges(n)
          /\ size = [r \in D |-> Width(r)]
          /\ done = {r \in D : r.high - r.low <= 1 \/ target - times[r.low] <= tolerance}
          /\ value = [r \in D |-> r.low]
          /\ next = [r \in D |-> IF r \in done THEN r ELSE narrowed(times, target, tolerance, r)]
          /\ good = {r \in D : Straddles(times, target, r)}
          /\ V = {b \in 1..n : Found(times, n, target, tolerance, b)}
    OBVIOUS
  <2>2. ASSUME NEW r \in D
        PROVE  /\ r.low \in 1..n /\ r.high \in 1..n /\ size[r] \in 0..n
               /\ r \notin done =>
                    /\ next[r] \in D /\ next[r] = narrowed(times, target, tolerance, r)
                    /\ size[next[r]] < size[r]
                    /\ Straddles(times, target, r) => Straddles(times, target, next[r])
    <3>1. r \in Ranges(n) /\ r.low \in 1..n /\ r.high \in 1..n
      BY <2>1 DEF Ranges
    <3>2. size[r] = Width(r) /\ size[r] \in 0..n
      <4>1. size[r] = Width(r)
        BY <2>1
      <4>2. Width(r) \in 0..n
        BY <1>1, <3>1 DEF Width
      <4>3. QED
        BY <4>1, <4>2
    <3>3. ASSUME r \notin done
          PROVE  /\ next[r] \in D /\ next[r] = narrowed(times, target, tolerance, r)
                 /\ size[next[r]] < size[r]
                 /\ Straddles(times, target, r) => Straddles(times, target, next[r])
      <4>1. PICK q : q = narrowed(times, target, tolerance, r) /\ next[r] = q
        BY <2>1, <3>3
      <4>2. r.high - r.low > 1
        BY <2>1, <3>1, <3>3
      <4>3. q \in Ranges(n) /\ Width(q) < Width(r) /\ (Straddles(times, target, r) => Straddles(times, target, q))
        BY <3>1, <4>1, <4>2, NarrowedIs
      <4>4. QED
        BY <2>1, <3>2, <4>1, <4>3
    <3>4. QED
      BY <3>1, <3>2, <3>3
  <2>3. done \in SUBSET D /\ next \in [D -> D] /\ size \in [D -> 0..n] /\ good \in SUBSET D
    <3>1. \A r \in D : next[r] \in D
      BY <2>1, <2>2
    <3>2. \A r \in D : size[r] \in 0..n
      BY <2>2
    <3>3. QED
      BY <2>1, <3>1, <3>2
  <2>4. \A r \in D : r \notin done => size[next[r]] < size[r]
    BY <2>2
  <2>5. Leads(good, done, value, next, V)
    <3>1. ASSUME NEW r \in good, r \in done PROVE value[r] \in V
      <4>1. /\ r \in D /\ r.low \in 1..n /\ r.high \in 1..n /\ Straddles(times, target, r)
            /\ r.high - r.low <= 1 \/ target - times[r.low] <= tolerance
        BY <2>1, <2>2, <3>1
      <4>2. r.high - r.low <= 1 => r.high = r.low + 1
        BY <1>1, <4>1 DEF Straddles
      <4>3. Found(times, n, target, tolerance, r.low)
        BY <4>1, <4>2 DEF Found, Straddles
      <4>4. QED
        BY <2>1, <4>1, <4>3
    <3>2. ASSUME NEW r \in good, r \notin done PROVE next[r] \in good
      BY <2>1, <2>2, <3>2
    <3>3. QED
      BY <3>1, <3>2 DEF Leads
  <2>15. Shrinks(D, done, next, n, size)
    BY <1>1, <2>3, <2>4 DEF Shrinks
  <2>6. PICK h : Repeats(D, done, value, next, h)
    BY <2>15, RepeatExists
  <2>7. ASSUME NEW f
        PROVE  Repeats(D, done, value, next, f) <=> SearchFrom(times, n, target, tolerance, f)
    <3>1. \A r \in D : (r \in done <=> r.high - r.low <= 1 \/ target - times[r.low] <= tolerance)
                       /\ value[r] = r.low /\ (r \notin done => next[r] = narrowed(times, target, tolerance, r))
      BY <2>1, <2>2
    <3>2. D = [low : 1..n, high : 1..n, bisect : BOOLEAN]
      BY <2>1 DEF Ranges
    <3>3. \A r \in D : (IF r \in done THEN value[r] ELSE f[next[r]]) =
                       (IF r.high - r.low <= 1 \/ target - times[r.low] <= tolerance THEN r.low
                        ELSE f[narrowed(times, target, tolerance, r)])
      BY <3>1
    <3>4. [r \in D |-> IF r \in done THEN value[r] ELSE f[next[r]]] =
          [r \in D |-> IF r.high - r.low <= 1 \/ target - times[r.low] <= tolerance THEN r.low
                       ELSE f[narrowed(times, target, tolerance, r)]]
      BY <3>3
    <3>5. QED
      BY <3>2, <3>4 DEF Repeats, SearchFrom
  <2>8. PICK g : g = CHOOSE f : SearchFrom(times, n, target, tolerance, f)
    OBVIOUS
  <2>9. Repeats(D, done, value, next, g)
    BY <2>6, <2>7, <2>8
  <2>10. PICK r : r = [low |-> 1, high |-> n, bisect |-> FALSE]
    OBVIOUS
  <2>11. r \in good
    <3>1. r \in D /\ r.low = 1 /\ r.high = n
      BY <1>1, <2>1, <2>10 DEF Ranges
    <3>2. times[1] \in Nat /\ times[n] \in Nat /\ times[1] <= target /\ target < times[n]
      BY <1>1, <1>4
    <3>3. Straddles(times, target, r)
      BY <1>1, <3>1, <3>2 DEF Straddles
    <3>4. QED
      BY <2>1, <3>1, <3>3
  <2>12. g[r] \in V
    <3>1. good \in SUBSET D
      BY <2>3
    <3>2. \A p \in good : g[p] \in V
      BY <2>5, <2>9, <2>15, <3>1, RepeatInduct
    <3>3. QED
      BY <2>11, <3>2
  <2>13. blockAtOrBefore(times, n, target, tolerance) = g[r]
    BY <1>4, <2>8, <2>10, SearchIs
  <2>14. QED
    BY <2>1, <2>12, <2>13
<1>5. QED
  BY <1>2, <1>3, <1>4

\* The block `step` before the last, or the first.
BackFrom(n, step) == IF n > step THEN n - step ELSE 1

\* A bisection's range, and the half of it the cutoff is in.
Spans(n) == [low : 1..n, high : 1..n]
HalvedTo(times, cutoff, r) ==
  IF times[r.low + (r.high - r.low) \div 2] >= cutoff
  THEN [r EXCEPT !.high = r.low + (r.high - r.low) \div 2]
  ELSE [r EXCEPT !.low = r.low + (r.high - r.low) \div 2]

\* The low end is before the cutoff, the high one is not.
Brackets(times, cutoff, r) == times[r.low] < cutoff /\ times[r.high] >= cutoff

\* The first block of the cutoff or after it.
FirstAt(times, n, cutoff, b) == b \in 1..n /\ times[b] >= cutoff /\ (b = 1 \/ times[b - 1] < cutoff)

LEMMA BracketIsOrdered ==
  ASSUME NEW n, NEW times, Clock(n, times), NEW cutoff \in Int,
         NEW r \in Spans(n), Brackets(times, cutoff, r)
  PROVE  r.low \in 1..n /\ r.high \in 1..n /\ r.low < r.high
<1>1. r.low \in 1..n /\ r.high \in 1..n /\ n \in Nat
  BY DEF Spans, Clock
<1>2. times[r.low] \in Nat /\ times[r.high] \in Nat
  BY <1>1 DEF Clock
<1>3. r.high <= r.low => times[r.high] <= times[r.low]
  BY <1>1 DEF Clock
<1>4. QED
  BY <1>1, <1>2, <1>3 DEF Brackets

LEMMA HalvedIs ==
  ASSUME NEW n, NEW times, Clock(n, times), NEW cutoff \in Int,
         NEW r \in Spans(n), r.high - r.low > 1, NEW q, q = HalvedTo(times, cutoff, r)
  PROVE  /\ q \in Spans(n) /\ Width(q) < Width(r)
         /\ Brackets(times, cutoff, r) => Brackets(times, cutoff, q)
<1>1. r.low \in 1..n /\ r.high \in 1..n /\ n \in Nat /\ r = [low |-> r.low, high |-> r.high]
  BY DEF Spans, Clock
<1>2. PICK wide \in Nat : wide = r.high - r.low /\ wide > 1
  BY <1>1
<1>3. PICK half \in Nat : half = wide \div 2 /\ half >= 1 /\ half < wide
  BY <1>2, Halves
<1>4. PICK m : m = r.low + half
  OBVIOUS
<1>5. m \in 1..n /\ r.low < m /\ m < r.high
  BY <1>1, <1>2, <1>3, <1>4
<1>6. times[m] \in Nat
  BY <1>5 DEF Clock
<1>7. m = r.low + (r.high - r.low) \div 2
  BY <1>2, <1>3, <1>4
<1>8. CASE times[m] >= cutoff
  <2>1. q = [low |-> r.low, high |-> m]
    BY <1>1, <1>7, <1>8 DEF HalvedTo
  <2>2. QED
    BY <1>1, <1>5, <1>8, <2>1 DEF Spans, Brackets, Width
<1>9. CASE ~(times[m] >= cutoff)
  <2>1. q = [low |-> m, high |-> r.high]
    BY <1>1, <1>7, <1>9 DEF HalvedTo
  <2>2. QED
    BY <1>1, <1>5, <1>6, <1>9, <2>1 DEF Spans, Brackets, Width
<1>10. QED
  BY <1>8, <1>9

BisectFrom(times, n, cutoff, g) ==
  g = [r \in [low : 1..n, high : 1..n] |->
         IF r.high - r.low <= 1 THEN r.high ELSE g[HalvedTo(times, cutoff, r)]]

WalkFrom(times, n, cutoff, found, g) ==
  g = [w \in [step : Nat \ {0}, atOrAfter : 1..n] |->
         IF w.atOrAfter = 1 THEN 1
         ELSE IF times[BackFrom(n, w.step)] >= cutoff
              THEN g[[step |-> 2 * w.step, atOrAfter |-> BackFrom(n, w.step)]]
         ELSE found[[low |-> BackFrom(n, w.step), high |-> w.atOrAfter]]]

LEMMA FirstFinalizedIs ==
  ASSUME NEW times, NEW n, NEW cutoff,
         NEW found, found = CHOOSE f : BisectFrom(times, n, cutoff, f),
         NEW g, g = CHOOSE f : WalkFrom(times, n, cutoff, found, f)
  PROVE  firstFinalizedBlockAtOrAfter(times, n, cutoff) =
           IF ~(times[n] >= cutoff) THEN NoBlock ELSE g[[step |-> 1, atOrAfter |-> n]]
BY DEF firstFinalizedBlockAtOrAfter, BisectFrom, WalkFrom, BackFrom, HalvedTo

LEMMA BisectEnds ==
  ASSUME NEW n, NEW times, Clock(n, times), NEW cutoff \in Int,
         NEW found, found = CHOOSE f : BisectFrom(times, n, cutoff, f),
         NEW r \in Spans(n), Brackets(times, cutoff, r)
  PROVE  FirstAt(times, n, cutoff, found[r])
<1>1. n \in Nat
  BY DEF Clock
<1>2. PICK D, size, done, value, next, good, V :
        /\ D = Spans(n)
        /\ size = [p \in D |-> Width(p)]
        /\ done = {p \in D : p.high - p.low <= 1}
        /\ value = [p \in D |-> p.high]
        /\ next = [p \in D |-> IF p \in done THEN p ELSE HalvedTo(times, cutoff, p)]
        /\ good = {p \in D : Brackets(times, cutoff, p)}
        /\ V = {b \in 1..n : FirstAt(times, n, cutoff, b)}
  OBVIOUS
<1>3. ASSUME NEW p \in D
      PROVE  /\ p \in Spans(n) /\ p.low \in 1..n /\ p.high \in 1..n
             /\ size[p] = Width(p) /\ size[p] \in 0..n
             /\ (p \in done <=> p.high - p.low <= 1) /\ value[p] = p.high
             /\ (p \notin done => next[p] = HalvedTo(times, cutoff, p))
  <2>1. p \in Spans(n) /\ p.low \in 1..n /\ p.high \in 1..n
    BY <1>2 DEF Spans
  <2>2. size[p] = Width(p)
    BY <1>2
  <2>3. Width(p) \in 0..n
    BY <1>1, <2>1 DEF Width
  <2>4. QED
    BY <1>2, <2>1, <2>2, <2>3
<1>4. ASSUME NEW p \in D, p \notin done
      PROVE  /\ next[p] \in D /\ size[next[p]] < size[p]
             /\ Brackets(times, cutoff, p) => Brackets(times, cutoff, next[p])
  <2>1. PICK q : q = HalvedTo(times, cutoff, p) /\ next[p] = q
    BY <1>3, <1>4
  <2>2. p \in Spans(n) /\ p.high - p.low > 1
    BY <1>1, <1>3, <1>4
  <2>3. q \in Spans(n) /\ Width(q) < Width(p) /\ (Brackets(times, cutoff, p) => Brackets(times, cutoff, q))
    BY <2>1, <2>2, HalvedIs
  <2>4. q \in D
    BY <1>2, <2>3
  <2>5. size[q] = Width(q) /\ size[p] = Width(p)
    BY <1>3, <2>4
  <2>6. QED
    BY <2>1, <2>3, <2>4, <2>5
<1>5. Shrinks(D, done, next, n, size)
  <2>1. \A p \in D : next[p] \in D
    BY <1>2, <1>4
  <2>2. done \in SUBSET D /\ next \in [D -> D]
    BY <1>2, <2>1
  <2>3. size \in [D -> 0..n]
    BY <1>2, <1>3
  <2>4. QED
    BY <1>1, <1>4, <2>2, <2>3 DEF Shrinks
<1>6. Leads(good, done, value, next, V)
  <2>1. ASSUME NEW p \in good, p \in done PROVE value[p] \in V
    <3>1. p \in D /\ Brackets(times, cutoff, p)
      BY <1>2, <2>1
    <3>2. p \in Spans(n) /\ p.high - p.low <= 1 /\ value[p] = p.high
      BY <1>3, <2>1, <3>1
    <3>3. p.low \in 1..n /\ p.high \in 1..n /\ p.low < p.high
      BY <3>1, <3>2, BracketIsOrdered
    <3>4. p.low = p.high - 1
      BY <1>1, <3>2, <3>3
    <3>5. FirstAt(times, n, cutoff, p.high)
      BY <3>1, <3>3, <3>4 DEF FirstAt, Brackets
    <3>6. QED
      BY <1>2, <3>2, <3>3, <3>5
  <2>2. ASSUME NEW p \in good, p \notin done PROVE next[p] \in good
    BY <1>2, <1>4, <2>2
  <2>3. QED
    BY <2>1, <2>2 DEF Leads
<1>7. PICK h : Repeats(D, done, value, next, h)
  BY <1>5, RepeatExists
<1>8. ASSUME NEW f
      PROVE  Repeats(D, done, value, next, f) <=> BisectFrom(times, n, cutoff, f)
  <2>1. D = [low : 1..n, high : 1..n]
    BY <1>2 DEF Spans
  <2>2. \A p \in D : (IF p \in done THEN value[p] ELSE f[next[p]]) =
                     (IF p.high - p.low <= 1 THEN p.high ELSE f[HalvedTo(times, cutoff, p)])
    BY <1>3
  <2>3. [p \in D |-> IF p \in done THEN value[p] ELSE f[next[p]]] =
        [p \in D |-> IF p.high - p.low <= 1 THEN p.high ELSE f[HalvedTo(times, cutoff, p)]]
    BY <2>2
  <2>4. QED
    BY <2>1, <2>3 DEF Repeats, BisectFrom
<1>9. Repeats(D, done, value, next, found)
  BY <1>7, <1>8
<1>10. \A p \in good : found[p] \in V
  <2>1. good \in SUBSET D
    BY <1>2
  <2>2. QED
    BY <1>5, <1>6, <1>9, <2>1, RepeatInduct
<1>11. r \in good
  BY <1>2
<1>12. QED
  BY <1>2, <1>10, <1>11

\* The steps of a walk back, how much of it is left, and where the next ends.
Walks(n) == [step : Nat \ {0}, atOrAfter : 1..n]
LeftToWalk(n, w) == (IF w.step < n THEN n - w.step ELSE 0) + (IF w.atOrAfter = 1 THEN 0 ELSE 1)
FurtherBack(n, w) == [step |-> 2 * w.step, atOrAfter |-> BackFrom(n, w.step)]

LEMMA FurtherBackIs ==
  ASSUME NEW n \in Nat \ {0}, NEW w \in Walks(n), w.atOrAfter # 1, NEW v, v = FurtherBack(n, w)
  PROVE  v \in Walks(n) /\ v.atOrAfter = BackFrom(n, w.step) /\ LeftToWalk(n, v) < LeftToWalk(n, w)
<1>1. PICK s \in Nat \ {0} : w.step = s
  BY DEF Walks
<1>2. PICK b \in 1..n : b = BackFrom(n, s)
  BY DEF BackFrom
<1>3. v = [step |-> 2 * s, atOrAfter |-> b]
  BY <1>1, <1>2 DEF FurtherBack
<1>4. 2 * s \in Nat \ {0}
  OBVIOUS
<1>5. v \in Walks(n) /\ v.step = 2 * s /\ v.atOrAfter = b
  BY <1>3, <1>4 DEF Walks
<1>6. LeftToWalk(n, v) = (IF 2 * s < n THEN n - 2 * s ELSE 0) + (IF b = 1 THEN 0 ELSE 1)
  BY <1>5 DEF LeftToWalk
<1>7. LeftToWalk(n, w) = (IF s < n THEN n - s ELSE 0) + 1
  BY <1>1 DEF LeftToWalk
<1>8. CASE s < n
  BY <1>6, <1>7, <1>8, <1>1, <1>2, <1>5
<1>9. CASE ~(s < n)
  <2>1. b = 1
    BY <1>2, <1>9 DEF BackFrom
  <2>2. QED
    BY <1>1, <1>2, <1>5, <1>6, <1>7, <1>9, <2>1
<1>10. QED
  BY <1>8, <1>9

LEMMA WalkEnds ==
  ASSUME NEW n, NEW times, Clock(n, times), NEW cutoff \in Int, times[n] >= cutoff,
         NEW found, found = CHOOSE f : BisectFrom(times, n, cutoff, f),
         NEW g, g = CHOOSE f : WalkFrom(times, n, cutoff, found, f)
  PROVE  FirstAt(times, n, cutoff, g[[step |-> 1, atOrAfter |-> n]])
<1>1. n \in Nat \ {0}
  BY DEF Clock
<1>2. PICK D, size, done, value, next, good, V :
        /\ D = Walks(n)
        /\ size = [w \in D |-> LeftToWalk(n, w)]
        /\ done = {w \in D : w.atOrAfter = 1 \/ ~(times[BackFrom(n, w.step)] >= cutoff)}
        /\ value = [w \in D |-> IF w.atOrAfter = 1 THEN 1
                                ELSE found[[low |-> BackFrom(n, w.step), high |-> w.atOrAfter]]]
        /\ next = [w \in D |-> IF w \in done THEN w ELSE FurtherBack(n, w)]
        /\ good = {w \in D : times[w.atOrAfter] >= cutoff}
        /\ V = {b \in 1..n : FirstAt(times, n, cutoff, b)}
  OBVIOUS
<1>3. ASSUME NEW w \in D
      PROVE  /\ w \in Walks(n) /\ w.step \in Nat \ {0} /\ w.atOrAfter \in 1..n
             /\ BackFrom(n, w.step) \in 1..n
             /\ size[w] = LeftToWalk(n, w) /\ size[w] \in 0..n
             /\ (w \in done <=> w.atOrAfter = 1 \/ ~(times[BackFrom(n, w.step)] >= cutoff))
             /\ value[w] = IF w.atOrAfter = 1 THEN 1
                           ELSE found[[low |-> BackFrom(n, w.step), high |-> w.atOrAfter]]
             /\ (w \notin done => next[w] = FurtherBack(n, w))
  <2>1. w \in Walks(n) /\ w.step \in Nat \ {0} /\ w.atOrAfter \in 1..n
    BY <1>2 DEF Walks
  <2>2. BackFrom(n, w.step) \in 1..n
    BY <1>1, <2>1 DEF BackFrom
  <2>3. size[w] = LeftToWalk(n, w)
    BY <1>2
  <2>4. LeftToWalk(n, w) \in 0..n
    BY <1>1, <2>1 DEF LeftToWalk
  <2>5. QED
    BY <1>2, <2>1, <2>2, <2>3, <2>4
<1>4. ASSUME NEW w \in D, w \notin done
      PROVE  next[w] \in D /\ size[next[w]] < size[w] /\ next[w] \in good
  <2>1. PICK v : v = FurtherBack(n, w) /\ next[w] = v
    BY <1>3, <1>4
  <2>2. w \in Walks(n) /\ w.atOrAfter # 1 /\ times[BackFrom(n, w.step)] >= cutoff
    BY <1>3, <1>4
  <2>3. v \in Walks(n) /\ v.atOrAfter = BackFrom(n, w.step) /\ LeftToWalk(n, v) < LeftToWalk(n, w)
    BY <1>1, <2>1, <2>2, FurtherBackIs
  <2>4. v \in D
    BY <1>2, <2>3
  <2>5. size[v] = LeftToWalk(n, v) /\ size[w] = LeftToWalk(n, w)
    BY <1>3, <2>4
  <2>6. v \in good
    BY <1>2, <2>2, <2>3, <2>4
  <2>7. QED
    BY <2>1, <2>3, <2>4, <2>5, <2>6
<1>5. Shrinks(D, done, next, n, size)
  <2>1. \A w \in D : next[w] \in D
    BY <1>2, <1>4
  <2>2. done \in SUBSET D /\ next \in [D -> D]
    BY <1>2, <2>1
  <2>3. size \in [D -> 0..n]
    BY <1>2, <1>3
  <2>4. QED
    BY <1>1, <1>4, <2>2, <2>3 DEF Shrinks
<1>6. Leads(good, done, value, next, V)
  <2>1. ASSUME NEW w \in good, w \in done PROVE value[w] \in V
    <3>1. w \in D /\ times[w.atOrAfter] >= cutoff
      BY <1>2, <2>1
    <3>2. CASE w.atOrAfter = 1
      <4>1. value[w] = 1 /\ times[1] >= cutoff /\ 1 \in 1..n
        BY <1>1, <1>3, <3>1, <3>2
      <4>2. FirstAt(times, n, cutoff, 1)
        BY <4>1 DEF FirstAt
      <4>3. QED
        BY <1>2, <4>1, <4>2
    <3>3. CASE w.atOrAfter # 1
      <4>1. PICK r : r = [low |-> BackFrom(n, w.step), high |-> w.atOrAfter]
        OBVIOUS
      <4>2. /\ value[w] = found[r] /\ ~(times[BackFrom(n, w.step)] >= cutoff)
            /\ BackFrom(n, w.step) \in 1..n /\ w.atOrAfter \in 1..n
        BY <1>3, <2>1, <3>1, <3>3, <4>1
      <4>3. times[BackFrom(n, w.step)] \in Nat
        BY <4>2 DEF Clock
      <4>4. r \in Spans(n) /\ r.low = BackFrom(n, w.step) /\ r.high = w.atOrAfter
        BY <4>1, <4>2 DEF Spans
      <4>5. Brackets(times, cutoff, r)
        BY <3>1, <4>2, <4>3, <4>4 DEF Brackets
      <4>6. FirstAt(times, n, cutoff, found[r])
        BY <4>4, <4>5, BisectEnds
      <4>7. found[r] \in 1..n
        BY <4>6 DEF FirstAt
      <4>8. QED
        BY <1>2, <4>2, <4>6, <4>7
    <3>4. QED
      BY <3>2, <3>3
  <2>2. ASSUME NEW w \in good, w \notin done PROVE next[w] \in good
    BY <1>2, <1>4, <2>2
  <2>3. QED
    BY <2>1, <2>2 DEF Leads
<1>7. PICK h : Repeats(D, done, value, next, h)
  BY <1>5, RepeatExists
<1>8. ASSUME NEW f
      PROVE  Repeats(D, done, value, next, f) <=> WalkFrom(times, n, cutoff, found, f)
  <2>1. D = [step : Nat \ {0}, atOrAfter : 1..n]
    BY <1>2 DEF Walks
  <2>2. \A w \in D : (IF w \in done THEN value[w] ELSE f[next[w]]) =
                     (IF w.atOrAfter = 1 THEN 1
                      ELSE IF times[BackFrom(n, w.step)] >= cutoff
                           THEN f[[step |-> 2 * w.step, atOrAfter |-> BackFrom(n, w.step)]]
                      ELSE found[[low |-> BackFrom(n, w.step), high |-> w.atOrAfter]])
    BY <1>3 DEF FurtherBack
  <2>3. [w \in D |-> IF w \in done THEN value[w] ELSE f[next[w]]] =
        [w \in D |-> IF w.atOrAfter = 1 THEN 1
                      ELSE IF times[BackFrom(n, w.step)] >= cutoff
                           THEN f[[step |-> 2 * w.step, atOrAfter |-> BackFrom(n, w.step)]]
                      ELSE found[[low |-> BackFrom(n, w.step), high |-> w.atOrAfter]]]
    BY <2>2
  <2>4. QED
    BY <2>1, <2>3 DEF Repeats, WalkFrom
<1>9. Repeats(D, done, value, next, g)
  BY <1>7, <1>8
<1>10. \A w \in good : g[w] \in V
  <2>1. good \in SUBSET D
    BY <1>2
  <2>2. QED
    BY <1>5, <1>6, <1>9, <2>1, RepeatInduct
<1>11. PICK w : w = [step |-> 1, atOrAfter |-> n]
  OBVIOUS
<1>12. w \in Walks(n) /\ w.atOrAfter = n
  BY <1>1, <1>11 DEF Walks
<1>13. w \in good
  BY <1>2, <1>12
<1>14. g[w] \in V
  BY <1>10, <1>13
<1>15. FirstAt(times, n, cutoff, g[w])
  BY <1>2, <1>14
<1>16. QED
  BY <1>11, <1>15

(***************************************************************************)
(* The two searches for a block, on every chain whose times never go down: *)
(* blockAtOrBefore finds a block that is not after the instant (or the     *)
(* first, when all are) and is the last such, unless it is within the      *)
(* tolerance of it (market-indexer.ts:724); firstFinalizedBlockAtOrAfter   *)
(* finds the first block of the cutoff or after it, and none exactly when  *)
(* the finalized head has not reached it (finalized-block.ts:58).          *)
(***************************************************************************)
THEOREM BlockSearchesAreRight ==
  ASSUME NEW n, NEW times, Clock(n, times), NEW target \in Int, NEW tolerance \in Nat
  PROVE  /\ Found(times, n, target, tolerance, blockAtOrBefore(times, n, target, tolerance))
         /\ times[n] >= target => FirstAt(times, n, target, firstFinalizedBlockAtOrAfter(times, n, target))
         /\ times[n] < target => firstFinalizedBlockAtOrAfter(times, n, target) = NoBlock
<1>1. n \in 1..n /\ times[n] \in Nat
  BY DEF Clock
<1>2. PICK found : found = CHOOSE f : BisectFrom(times, n, target, f)
  OBVIOUS
<1>3. PICK g : g = CHOOSE f : WalkFrom(times, n, target, found, f)
  OBVIOUS
<1>4. firstFinalizedBlockAtOrAfter(times, n, target) =
        IF ~(times[n] >= target) THEN NoBlock ELSE g[[step |-> 1, atOrAfter |-> n]]
  BY <1>2, <1>3, FirstFinalizedIs
<1>5. times[n] >= target => FirstAt(times, n, target, g[[step |-> 1, atOrAfter |-> n]])
  BY <1>2, <1>3, WalkEnds
<1>6. Found(times, n, target, tolerance, blockAtOrBefore(times, n, target, tolerance))
  BY SearchEnds
<1>7. QED
  BY <1>1, <1>4, <1>5, <1>6

-----------------------------------------------------------------------------
(***************************************************************************)
(* What one log does to the indexer's memory.                              *)
(***************************************************************************)

Index ==
  [usdgPools : SUBSET STRING, ponsPools : SUBSET STRING, curves : SUBSET STRING,
   notCurves : SUBSET STRING, pending : Seq(Swaps), dexTrades : Seq(Swaps),
   minuteVolume : [Minutes -> Nat], keepTradesFrom : Nat, ponsTrades : Seq(Activities),
   seen : SUBSET Nat, senders : SUBSET Nat, lastBlock : Nat, covered : Nat,
   anchors : SUBSET Nat, fineFromBlock : Nat]

AnyLog ==
  [kind : {"INITIALIZE", "REGISTER", "LAUNCH", "SWAP", "CURVE_TRADE"},
   place : STRING, emitter : STRING, quote : Nat, token : Nat, routed : BOOLEAN]

ToDex(x, log) == log.kind = "SWAP" /\ log.place \in x.usdgPools /\ log.token > 0
ToPons(x, log) ==
  \/ log.kind = "SWAP" /\ log.place \notin x.usdgPools /\ log.place \in x.ponsPools
  \/ log.kind = "CURVE_TRADE" /\ log.place \in x.curves
Waits(x, log) == log.kind = "CURVE_TRADE" /\ log.place \notin x.curves /\ log.place \notin x.notCurves
Wallet(log) == IF log.kind = "SWAP" \/ log.routed THEN NoWallet ELSE Sender

\* The fields no log changes.
Unmoved(x, y) ==
  /\ y.keepTradesFrom = x.keepTradesFrom /\ y.lastBlock = x.lastBlock /\ y.covered = x.covered
  /\ y.anchors = x.anchors /\ y.notCurves = x.notCurves

Pooled(x, y, log) ==
  /\ y.usdgPools = IF log.kind = "INITIALIZE" THEN x.usdgPools \cup {log.place} ELSE x.usdgPools
  /\ y.ponsPools = IF log.kind = "REGISTER" THEN x.ponsPools \cup {log.place} ELSE x.ponsPools
  /\ y.curves = IF log.kind = "LAUNCH" THEN x.curves \cup {log.place} ELSE x.curves

DexListed(x, y, log, b, at) ==
  y.dexTrades = IF ToDex(x, log) /\ at >= x.keepTradesFrom
                THEN insertByTime(x.dexTrades, [id |-> b, at |-> at]) ELSE x.dexTrades
PonsListed(x, y, log, b, at) ==
  y.ponsTrades = IF ToPons(x, log)
                 THEN insertByTime(x.ponsTrades, [id |-> b, at |-> at, wallet |-> Wallet(log)])
                 ELSE x.ponsTrades
Held(x, y, log, b, at) ==
  y.pending = IF Waits(x, log) THEN Append(x.pending, [id |-> b, at |-> at]) ELSE x.pending
Counted(x, y, log, at) ==
  y.minuteVolume = IF ToDex(x, log) THEN volumeWith(x.minuteVolume, log, at) ELSE x.minuteVolume

Recorded(x, y, log, b, at) ==
  /\ Pooled(x, y, log) /\ DexListed(x, y, log, b, at) /\ PonsListed(x, y, log, b, at)
  /\ Held(x, y, log, b, at) /\ Counted(x, y, log, at)

LEMMA MinuteOf ==
  ASSUME NEW at \in 0..MaxTime
  PROVE  at \in Nat /\ at \div MINUTE \in Minutes
<1>1. MaxTime \in Nat /\ MINUTE \in Nat \ {0} /\ at \in Nat /\ at <= MaxTime
  BY MarketAssumption
<1>2. at \div MINUTE \in Nat /\ MaxTime \div MINUTE \in Nat /\ at \div MINUTE <= MaxTime \div MINUTE
  BY <1>1, DivideInOrder
<1>3. QED
  BY <1>1, <1>2 DEF Minutes

LEMMA SwapDates == (\A t \in Swaps : t.at \in Nat /\ t.id \in Nat) /\ (\A t \in Activities : t.at \in Nat /\ t.id \in Nat)
BY DEF Swaps, Activities

LEMMA NewEntries ==
  ASSUME NEW x \in Index, NEW b \in Nat, NEW at \in Nat, NEW w \in {NoWallet, Sender}
  PROVE  /\ insertByTime(x.dexTrades, [id |-> b, at |-> at]) \in Seq(Swaps)
         /\ insertByTime(x.ponsTrades, [id |-> b, at |-> at, wallet |-> w]) \in Seq(Activities)
         /\ Append(x.pending, [id |-> b, at |-> at]) \in Seq(Swaps)
<1>1. x.dexTrades \in Seq(Swaps) /\ x.ponsTrades \in Seq(Activities) /\ x.pending \in Seq(Swaps)
  BY DEF Index
<1>2. PICK e, f : e = [id |-> b, at |-> at] /\ f = [id |-> b, at |-> at, wallet |-> w]
  OBVIOUS
<1>3. e \in Swaps /\ f \in Activities
  BY <1>2 DEF Swaps, Activities
<1>4. QED
  BY <1>1, <1>2, <1>3, SwapDates, InsertKeeps, AppendProperties

LEMMA RecordSwap ==
  ASSUME NEW x \in Index, NEW log \in AnyLog, NEW b \in Nat, NEW at \in 0..MaxTime, log.kind = "SWAP",
         NEW y, y = record(x, log, b, at)
  PROVE  y \in Index /\ Unmoved(x, y) /\ y.seen = x.seen /\ Recorded(x, y, log, b, at)
<1>1. y = recordSwap(x, log, b, at)
  BY DEF record
<1>2. at \in Nat /\ at \div MINUTE \in Minutes /\ log.quote \in Nat /\ Wallet(log) = NoWallet
  BY MinuteOf DEF AnyLog, Wallet
<1>3. PICK s, p : /\ s = insertByTime(x.dexTrades, [id |-> b, at |-> at]) /\ s \in Seq(Swaps)
                  /\ p = insertByTime(x.ponsTrades, [id |-> b, at |-> at, wallet |-> NoWallet])
                  /\ p \in Seq(Activities)
  BY <1>2, NewEntries
<1>4. ~Waits(x, log) /\ ~(log.kind = "INITIALIZE") /\ ~(log.kind = "REGISTER") /\ ~(log.kind = "LAUNCH")
  BY DEF Waits
<1>a. log.token \in Nat
  BY DEF AnyLog
<1>b. CASE log.place \in x.usdgPools /\ log.token = 0
  <2>1. ~ToDex(x, log) /\ ~ToPons(x, log) /\ y = x
    BY <1>1, <1>b DEF ToDex, ToPons, recordSwap
  <2>2. QED
    BY <1>4, <2>1 DEF Recorded, Pooled, DexListed, PonsListed, Held, Counted, Unmoved
<1>5. CASE log.place \in x.usdgPools /\ log.token # 0
  <2>1. ToDex(x, log) /\ ~ToPons(x, log)
    BY <1>a, <1>5 DEF ToDex, ToPons
  <2>2. PICK v : v = volumeWith(x.minuteVolume, log, at)
    OBVIOUS
  <2>3. v \in [Minutes -> Nat]
    <3>1. x.minuteVolume \in [Minutes -> Nat]
      BY DEF Index
    <3>2. QED
      BY <1>2, <2>2, <3>1 DEF volumeWith
  <2>4. PICK d : d = (IF at >= x.keepTradesFrom THEN s ELSE x.dexTrades) /\ d \in Seq(Swaps)
    BY <1>3 DEF Index
  <2>5. y = [x EXCEPT !.minuteVolume = v, !.dexTrades = d]
    BY <1>1, <1>3, <1>5, <2>2, <2>4 DEF recordSwap
  <2>6. /\ y \in Index /\ y.minuteVolume = v /\ y.dexTrades = d
        /\ Unmoved(x, y) /\ y.seen = x.seen
        /\ y.usdgPools = x.usdgPools /\ y.ponsPools = x.ponsPools /\ y.curves = x.curves
        /\ y.ponsTrades = x.ponsTrades /\ y.pending = x.pending
    BY <2>3, <2>4, <2>5 DEF Index, Unmoved
  <2>7. QED
    BY <1>3, <1>4, <2>1, <2>2, <2>4, <2>6 DEF Recorded, Pooled, DexListed, PonsListed, Held, Counted
<1>6. CASE log.place \notin x.usdgPools /\ log.place \in x.ponsPools
  <2>1. ~ToDex(x, log) /\ ToPons(x, log)
    BY <1>6 DEF ToDex, ToPons
  <2>2. y = [x EXCEPT !.ponsTrades = p]
    BY <1>1, <1>3, <1>6 DEF recordSwap
  <2>3. /\ y \in Index /\ y.ponsTrades = p
        /\ Unmoved(x, y) /\ y.seen = x.seen
        /\ y.usdgPools = x.usdgPools /\ y.ponsPools = x.ponsPools /\ y.curves = x.curves
        /\ y.minuteVolume = x.minuteVolume /\ y.dexTrades = x.dexTrades /\ y.pending = x.pending
    BY <1>3, <2>2 DEF Index, Unmoved
  <2>4. QED
    BY <1>2, <1>3, <1>4, <2>1, <2>3 DEF Recorded, Pooled, DexListed, PonsListed, Held, Counted
<1>7. CASE log.place \notin x.usdgPools /\ log.place \notin x.ponsPools
  <2>1. ~ToDex(x, log) /\ ~ToPons(x, log) /\ y = x
    BY <1>1, <1>7 DEF ToDex, ToPons, recordSwap
  <2>2. QED
    BY <1>4, <2>1 DEF Recorded, Pooled, DexListed, PonsListed, Held, Counted, Unmoved
<1>8. QED
  BY <1>b, <1>5, <1>6, <1>7

LEMMA RecordCurveTrade ==
  ASSUME NEW x \in Index, NEW log \in AnyLog, NEW b \in Nat, NEW at \in 0..MaxTime, log.kind = "CURVE_TRADE",
         NEW y, y = record(x, log, b, at)
  PROVE  y \in Index /\ Unmoved(x, y) /\ y.seen = x.seen /\ Recorded(x, y, log, b, at)
<1>1. y = recordCurveTrade(x, log, b, at)
  BY DEF record
<1>2. at \in Nat /\ Wallet(log) = (IF log.routed THEN NoWallet ELSE Sender) /\ Wallet(log) \in {NoWallet, Sender}
  BY DEF Wallet
<1>3. PICK p, q : /\ p = insertByTime(x.ponsTrades, [id |-> b, at |-> at, wallet |-> Wallet(log)])
                  /\ p \in Seq(Activities)
                  /\ q = Append(x.pending, [id |-> b, at |-> at]) /\ q \in Seq(Swaps)
  BY <1>2, NewEntries
<1>4. ~ToDex(x, log) /\ ~(log.kind = "INITIALIZE") /\ ~(log.kind = "REGISTER") /\ ~(log.kind = "LAUNCH")
  BY DEF ToDex
<1>5. CASE log.place \in x.curves
  <2>1. ToPons(x, log) /\ ~Waits(x, log)
    BY <1>5 DEF ToPons, Waits
  <2>2. y = [x EXCEPT !.ponsTrades = p]
    BY <1>1, <1>2, <1>3, <1>5 DEF recordCurveTrade
  <2>3. /\ y \in Index /\ y.ponsTrades = p
        /\ Unmoved(x, y) /\ y.seen = x.seen
        /\ y.usdgPools = x.usdgPools /\ y.ponsPools = x.ponsPools /\ y.curves = x.curves
        /\ y.minuteVolume = x.minuteVolume /\ y.dexTrades = x.dexTrades /\ y.pending = x.pending
    BY <1>3, <2>2 DEF Index, Unmoved
  <2>4. QED
    BY <1>3, <1>4, <2>1, <2>3 DEF Recorded, Pooled, DexListed, PonsListed, Held, Counted
<1>6. CASE log.place \notin x.curves /\ log.place \notin x.notCurves
  <2>1. ~ToPons(x, log) /\ Waits(x, log)
    BY <1>6 DEF ToPons, Waits
  <2>2. y = [x EXCEPT !.pending = q]
    BY <1>1, <1>3, <1>6 DEF recordCurveTrade
  <2>3. /\ y \in Index /\ y.pending = q
        /\ Unmoved(x, y) /\ y.seen = x.seen
        /\ y.usdgPools = x.usdgPools /\ y.ponsPools = x.ponsPools /\ y.curves = x.curves
        /\ y.minuteVolume = x.minuteVolume /\ y.dexTrades = x.dexTrades /\ y.ponsTrades = x.ponsTrades
    BY <1>3, <2>2 DEF Index, Unmoved
  <2>4. QED
    BY <1>3, <1>4, <2>1, <2>3 DEF Recorded, Pooled, DexListed, PonsListed, Held, Counted
<1>7. CASE log.place \notin x.curves /\ log.place \in x.notCurves
  <2>1. ~ToPons(x, log) /\ ~Waits(x, log) /\ y = x
    BY <1>1, <1>7 DEF ToPons, Waits, recordCurveTrade
  <2>2. QED
    BY <1>4, <2>1 DEF Recorded, Pooled, DexListed, PonsListed, Held, Counted, Unmoved
<1>8. QED
  BY <1>5, <1>6, <1>7

LEMMA RecordPlace ==
  ASSUME NEW x \in Index, NEW log \in AnyLog, NEW b \in Nat, NEW at \in Nat,
         log.kind \notin {"SWAP", "CURVE_TRADE"}, NEW y, y = record(x, log, b, at)
  PROVE  y \in Index /\ Unmoved(x, y) /\ y.seen = x.seen /\ Recorded(x, y, log, b, at)
<1>1. log.place \in STRING
  BY DEF AnyLog
<1>2. ~ToDex(x, log) /\ ~ToPons(x, log) /\ ~Waits(x, log)
  BY DEF ToDex, ToPons, Waits
<1>3. CASE log.kind = "INITIALIZE"
  <2>1. PICK p \in SUBSET STRING : p = x.usdgPools \cup {log.place}
    BY <1>1 DEF Index
  <2>2. y = [x EXCEPT !.usdgPools = p]
    BY <2>1, <1>3 DEF record
  <2>3. /\ y \in Index /\ y.usdgPools = p
        /\ Unmoved(x, y) /\ y.seen = x.seen /\ y.ponsPools = x.ponsPools /\ y.curves = x.curves
        /\ y.minuteVolume = x.minuteVolume /\ y.dexTrades = x.dexTrades
        /\ y.ponsTrades = x.ponsTrades /\ y.pending = x.pending
    BY <2>2 DEF Index, Unmoved
  <2>4. QED
    BY <1>2, <1>3, <2>1, <2>3 DEF Recorded, Pooled, DexListed, PonsListed, Held, Counted
<1>4. CASE log.kind = "REGISTER"
  <2>1. PICK p \in SUBSET STRING : p = x.ponsPools \cup {log.place}
    BY <1>1 DEF Index
  <2>2. y = [x EXCEPT !.ponsPools = p]
    BY <2>1, <1>4 DEF record
  <2>3. /\ y \in Index /\ y.ponsPools = p
        /\ Unmoved(x, y) /\ y.seen = x.seen /\ y.usdgPools = x.usdgPools /\ y.curves = x.curves
        /\ y.minuteVolume = x.minuteVolume /\ y.dexTrades = x.dexTrades
        /\ y.ponsTrades = x.ponsTrades /\ y.pending = x.pending
    BY <2>2 DEF Index, Unmoved
  <2>4. QED
    BY <1>2, <1>4, <2>1, <2>3 DEF Recorded, Pooled, DexListed, PonsListed, Held, Counted
<1>5. CASE log.kind = "LAUNCH"
  <2>1. PICK p \in SUBSET STRING : p = x.curves \cup {log.place}
    BY <1>1 DEF Index
  <2>2. y = [x EXCEPT !.curves = p]
    BY <2>1, <1>5 DEF record
  <2>3. /\ y \in Index /\ y.curves = p
        /\ Unmoved(x, y) /\ y.seen = x.seen /\ y.usdgPools = x.usdgPools /\ y.ponsPools = x.ponsPools
        /\ y.minuteVolume = x.minuteVolume /\ y.dexTrades = x.dexTrades
        /\ y.ponsTrades = x.ponsTrades /\ y.pending = x.pending
    BY <2>2 DEF Index, Unmoved
  <2>4. QED
    BY <1>2, <1>5, <2>1, <2>3 DEF Recorded, Pooled, DexListed, PonsListed, Held, Counted
<1>6. QED
  BY <1>3, <1>4, <1>5 DEF AnyLog

LEMMA RecordIs ==
  ASSUME NEW x \in Index, NEW log \in AnyLog, NEW b \in Nat, NEW at \in 0..MaxTime,
         NEW y, y = record(x, log, b, at)
  PROVE  y \in Index /\ Unmoved(x, y) /\ y.seen = x.seen /\ Recorded(x, y, log, b, at)
<1>1. at \in Nat
  OBVIOUS
<1>2. QED
  BY <1>1, RecordSwap, RecordCurveTrade, RecordPlace

LEMMA AppliedIs ==
  ASSUME NEW x \in Index, NEW b \in Nat, chain[b].log \in AnyLog, NEW at \in 0..MaxTime,
         b \notin x.seen, emittedBy(chain[b].log), NEW y, y = applied(x, b, at)
  PROVE  y \in Index /\ Unmoved(x, y) /\ y.seen = x.seen \cup {b} /\ Recorded(x, y, chain[b].log, b, at)
<1>1. PICK z, log : z = [x EXCEPT !.seen = @ \cup {b}] /\ log = chain[b].log
  OBVIOUS
<1>2. y = record(z, log, b, at)
  BY <1>1 DEF applied
<1>3. /\ z \in Index /\ z.seen = x.seen \cup {b} /\ Unmoved(x, z)
      /\ z.usdgPools = x.usdgPools /\ z.ponsPools = x.ponsPools /\ z.curves = x.curves
      /\ z.minuteVolume = x.minuteVolume /\ z.dexTrades = x.dexTrades
      /\ z.ponsTrades = x.ponsTrades /\ z.pending = x.pending
  BY <1>1 DEF Index, Unmoved
<1>4. y \in Index /\ Unmoved(z, y) /\ y.seen = z.seen /\ Recorded(z, y, log, b, at)
  <2>1. log \in AnyLog
    BY <1>1
  <2>2. QED
    BY ONLY <1>2, <1>3, <2>1, b \in Nat, at \in 0..MaxTime, RecordIs
<1>5. /\ Unmoved(x, y)
      /\ ToDex(z, log) = ToDex(x, log) /\ ToPons(z, log) = ToPons(x, log) /\ Waits(z, log) = Waits(x, log)
  BY <1>3, <1>4 DEF Unmoved, ToDex, ToPons, Waits
<1>6. Pooled(x, y, log) /\ PonsListed(x, y, log, b, at) /\ Held(x, y, log, b, at) /\ Counted(x, y, log, at)
  BY <1>3, <1>4, <1>5 DEF Recorded, Pooled, PonsListed, Held, Counted
<1>7. DexListed(x, y, log, b, at)
  BY <1>3, <1>4, <1>5 DEF Recorded, DexListed, Unmoved
<1>8. QED
  BY <1>1, <1>3, <1>4, <1>5, <1>6, <1>7 DEF Recorded

LEMMA AppliedStays ==
  ASSUME NEW x, NEW b, NEW at, b \in x.seen \/ ~emittedBy(chain[b].log)
  PROVE  applied(x, b, at) = x
BY DEF applied

-----------------------------------------------------------------------------
(***************************************************************************)
(* What the indexer's memory says of the chain.                            *)
(***************************************************************************)

Launchable == {l.place : l \in {k \in Logs : k.kind = "LAUNCH" /\ emittedBy(k)}}

Emits(b, kind, place) ==
  chain[b].log.kind = kind /\ emittedBy(chain[b].log) /\ chain[b].log.place = place

\* Blocks in time order; a pool trades after it is created, a curve after its launch.
ChainOK ==
  /\ chain \in Seq([at : 0..MaxTime, log : Logs \cup {Nothing}])
  /\ Len(chain) \in 1..MaxBlocks
  /\ \A i, j \in Blocks : i <= j => chain[i].at <= chain[j].at
  /\ \A b \in Blocks : chain[b].log.kind = "SWAP" /\ emittedBy(chain[b].log) =>
       \E c \in 1..(b - 1) : \E kind \in PoolKinds : Emits(c, kind, chain[b].log.place)
  /\ \A b \in Blocks : chain[b].log.kind = "CURVE_TRADE" /\ chain[b].log.place \in Launchable =>
       \E c \in 1..(b - 1) : Emits(c, "LAUNCH", chain[b].log.place)

LEMMA NothingSilent == ~emittedBy(Nothing) /\ Nothing.kind = "NONE"
BY DEF emittedBy, Nothing

LEMMA ChainType ==
  ASSUME ChainOK
  PROVE  /\ Len(chain) \in Nat \ {0} /\ Len(chain) <= MaxBlocks /\ Blocks = 1..Len(chain)
         /\ Clock(Len(chain), Times)
         /\ \A b \in Blocks : /\ chain[b].log \in Logs \cup {Nothing}
                              /\ chain[b].at \in 0..MaxTime /\ Times[b] = chain[b].at
<1>1. /\ Len(chain) \in Nat \ {0} /\ Len(chain) <= MaxBlocks /\ DOMAIN chain = 1..Len(chain)
      /\ \A b \in 1..Len(chain) : chain[b] \in [at : 0..MaxTime, log : Logs \cup {Nothing}]
  <2>1. PICK E : E = [at : 0..MaxTime, log : Logs \cup {Nothing}]
    OBVIOUS
  <2>2. chain \in Seq(E) /\ Len(chain) \in 1..MaxBlocks
    BY <2>1 DEF ChainOK
  <2>3. Len(chain) \in Nat \ {0} /\ Len(chain) <= MaxBlocks
    BY <2>2, MarketAssumption
  <2>4. DOMAIN chain = 1..Len(chain) /\ \A b \in 1..Len(chain) : chain[b] \in E
    BY <2>2, LenProperties, ElementOfSeq
  <2>5. QED
    BY <2>1, <2>3, <2>4
<1>2. Blocks = 1..Len(chain)
  BY <1>1 DEF Blocks
<1>3. \A b \in Blocks : /\ chain[b].log \in Logs \cup {Nothing}
                        /\ chain[b].at \in 0..MaxTime /\ Times[b] = chain[b].at
  BY <1>1, <1>2 DEF Times, Blocks
<1>4. Times \in [Blocks -> Nat]
  <2>1. \A b \in Blocks : chain[b].at \in Nat
    BY <1>3
  <2>2. QED
    BY <2>1 DEF Times, Blocks
<1>5. Clock(Len(chain), Times)
  BY <1>1, <1>2, <1>3, <1>4 DEF Clock, ChainOK
<1>6. QED
  BY <1>1, <1>2, <1>3, <1>5

LEMMA EmittedLog ==
  ASSUME ChainOK, NEW b \in Blocks, emittedBy(chain[b].log)
  PROVE  chain[b].log \in Logs /\ chain[b].log \in AnyLog
<1>1. chain[b].log \in Logs
  BY ChainType, NothingSilent
<1>2. QED
  BY <1>1, MarketAssumption DEF AnyLog

LEMMA EveryQuote ==
  ASSUME ChainOK, NEW b \in Blocks
  PROVE  chain[b].log.quote \in Nat
<1>1. chain[b].log \in Logs \/ chain[b].log = Nothing
  BY ChainType
<1>2. CASE chain[b].log \in Logs
  BY <1>2, MarketAssumption
<1>3. CASE chain[b].log = Nothing
  <2>1. Nothing.quote = 0
    BY DEF Nothing
  <2>2. QED
    BY <1>3, <2>1
<1>4. QED
  BY <1>1, <1>2, <1>3

LEMMA FloorBounds ==
  ASSUME ChainOK, NEW b \in Blocks
  PROVE  /\ Floor(b) \in Nat /\ Floor(b) = FloorAt(Times, b)
         /\ Times[b] \in Nat /\ Floor(b) <= Times[b] /\ Times[b] <= MaxTime /\ MaxTime \in Nat
<1>1. PICK n \in Nat \ {0} : n = Len(chain) /\ Blocks = 1..n /\ Clock(n, Times)
  BY ChainType
<1>2. COARSE_ANCHOR_BLOCKS \in Nat \ {0} /\ MaxTime \in Nat /\ b \in 1..n
  BY <1>1, MarketAssumption
<1>3. PICK f : f = IF b > COARSE_ANCHOR_BLOCKS THEN b - COARSE_ANCHOR_BLOCKS ELSE 1
  OBVIOUS
<1>4. f \in 1..n /\ f <= b
  BY <1>1, <1>2, <1>3
<1>5. Floor(b) = Times[f] /\ FloorAt(Times, b) = Times[f]
  BY <1>3 DEF Floor, FloorAt
<1>6. Times[f] \in Nat /\ Times[b] \in Nat /\ Times[f] <= Times[b]
  BY <1>1, <1>2, <1>4 DEF Clock
<1>7. Times[b] <= MaxTime
  BY ChainType
<1>8. QED
  BY <1>2, <1>5, <1>6, <1>7

LEMMA CreatedKinds ==
  ASSUME ChainOK, NEW p
  PROVE  /\ ~(Created("INITIALIZE", p) /\ Created("REGISTER", p))
         /\ Created("LAUNCH", p) => p \in Launchable
<1>1. ~(Created("INITIALIZE", p) /\ Created("REGISTER", p))
  <2> SUFFICES ASSUME Created("INITIALIZE", p), Created("REGISTER", p) PROVE FALSE
    OBVIOUS
  <2>1. PICK b \in Blocks : Emits(b, "INITIALIZE", p)
    BY DEF Created, Emits
  <2>2. PICK c \in Blocks : Emits(c, "REGISTER", p)
    BY DEF Created, Emits
  <2>3. chain[b].log \in Logs /\ chain[c].log \in Logs
    BY <2>1, <2>2, EmittedLog DEF Emits
  <2>4. QED
    BY <2>1, <2>2, <2>3, LogsAssumption DEF Emits
<1>2. Created("LAUNCH", p) => p \in Launchable
  <2>1. SUFFICES ASSUME NEW b \in Blocks, Emits(b, "LAUNCH", p) PROVE p \in Launchable
    BY DEF Created, Emits
  <2>2. chain[b].log \in Logs
    BY <2>1, EmittedLog DEF Emits
  <2>3. QED
    BY <2>1, <2>2 DEF Launchable, Emits
<1>3. QED
  BY <1>1, <1>2

\* The creation a trusted trade rests on is before it.
LEMMA TradeAfter ==
  ASSUME ChainOK, NEW b \in Blocks
  PROVE  /\ DexTradeOn(b) => \E c \in 1..(b - 1) : Emits(c, "INITIALIZE", chain[b].log.place)
         /\ chain[b].log.kind = "SWAP" /\ PonsTradeOn(b) =>
              \E c \in 1..(b - 1) : Emits(c, "REGISTER", chain[b].log.place)
<1>1. PICK n \in Nat : Blocks = 1..n
  BY ChainType
<1>2. PICK p : p = chain[b].log.place
  OBVIOUS
<1>3. ASSUME NEW c \in 1..(b - 1), NEW kind, Emits(c, kind, p) PROVE Created(kind, p)
  <2>1. c \in Blocks
    BY <1>1
  <2>2. QED
    BY <1>3, <2>1 DEF Emits, Created
<1>4. ASSUME chain[b].log.kind = "SWAP", emittedBy(chain[b].log)
      PROVE  \E c \in 1..(b - 1) : Emits(c, "INITIALIZE", p) \/ Emits(c, "REGISTER", p)
  BY <1>2, <1>4 DEF ChainOK, PoolKinds
<1>5. ASSUME DexTradeOn(b) PROVE \E c \in 1..(b - 1) : Emits(c, "INITIALIZE", p)
  <2>1. chain[b].log.kind = "SWAP" /\ emittedBy(chain[b].log) /\ Created("INITIALIZE", p)
    BY <1>2, <1>5 DEF DexTradeOn, Genuine
  <2>2. QED
    BY <1>3, <1>4, <2>1, CreatedKinds
<1>6. ASSUME chain[b].log.kind = "SWAP", PonsTradeOn(b)
      PROVE  \E c \in 1..(b - 1) : Emits(c, "REGISTER", p)
  <2>1. chain[b].log.kind = "SWAP" /\ emittedBy(chain[b].log) /\ Created("REGISTER", p)
    BY <1>2, <1>6 DEF PonsTradeOn, Genuine
  <2>2. QED
    BY <1>3, <1>4, <2>1, CreatedKinds
<1>7. QED
  BY <1>2, <1>5, <1>6

\* The blocks whose logs the indexer has been through.
ReadBy(x) == x.seen \cup (1..x.lastBlock)

Sources(x) ==
  /\ \A p \in x.usdgPools : Created("INITIALIZE", p)
  /\ \A p \in x.ponsPools : Created("REGISTER", p)
  /\ \A p \in x.curves : Created("LAUNCH", p)
  /\ x.notCurves \cap Launchable = {}

\* A trade held is of a block that was read, and dated between its floor and the end.
Placed(x, t) == t.id \in ReadBy(x) /\ t.id \in Blocks /\ Floor(t.id) <= t.at /\ t.at <= MaxTime

DexBook(x) ==
  /\ OncePerEvent(x.dexTrades) /\ InTimeOrder(x.dexTrades)
  /\ \A t \in Range(x.dexTrades) : DexTradeOn(t.id) /\ Placed(x, t)

\* Every trader is known up to the last block.
PonsBook(x) ==
  /\ OncePerEvent(x.ponsTrades) /\ InTimeOrder(x.ponsTrades)
  /\ \A t \in Range(x.ponsTrades) :
       PonsTradeOn(t.id) /\ Placed(x, t) /\ (t.wallet = NoWallet => t.id > x.lastBlock)

\* A trade whose curve is not known yet is of the poll under way.
Waiting(x) ==
  /\ OncePerEvent(x.pending)
  /\ \A t \in Range(x.pending) :
       /\ chain[t.id].log.kind = "CURVE_TRADE" /\ emittedBy(chain[t.id].log)
       /\ Placed(x, t) /\ t.id > x.lastBlock

Known(x) ==
  \A b \in ReadBy(x) : emittedBy(chain[b].log) =>
    /\ chain[b].log.kind = "INITIALIZE" => chain[b].log.place \in x.usdgPools
    /\ chain[b].log.kind = "REGISTER" => chain[b].log.place \in x.ponsPools
    /\ chain[b].log.kind = "LAUNCH" /\ b \in x.seen => chain[b].log.place \in x.curves

DexKept(x) ==
  \A b \in ReadBy(x) : DexTradeOn(b) /\ Floor(b) > x.keepTradesFrom => b \in IdsOf(x.dexTrades)

PonsKept(x, waits) ==
  \A b \in ReadBy(x) : PonsTradeOn(b) /\ Floor(b) > AgoFrom(x.covered, PONS_RETENTION) =>
    b \in IdsOf(x.ponsTrades) \cup waits

Books(x) ==
  \A m \in Minutes : m * MINUTE >= x.keepTradesFrom => x.minuteVolume[m] = VolumeHeld(x.dexTrades, m)

\* waits are the trades that wait for an answer about their curve.
Memory(x, waits) ==
  /\ x \in Index /\ x.seen \subseteq Blocks /\ x.anchors \subseteq Blocks /\ x.lastBlock <= Len(chain)
  /\ Sources(x) /\ DexBook(x) /\ PonsBook(x) /\ Waiting(x) /\ Known(x)
  /\ DexKept(x) /\ PonsKept(x, waits) /\ Books(x)
  /\ IdsOf(x.ponsTrades) \cap waits = {}

\* y is x with the log of block b recorded, which x had not recorded before.
Takes(x, y, b, at) ==
  /\ x \in Index /\ y \in Index /\ b \in Blocks /\ at \in 0..MaxTime /\ emittedBy(chain[b].log)
  /\ Unmoved(x, y) /\ Recorded(x, y, chain[b].log, b, at)
  /\ x.seen \subseteq y.seen /\ y.seen \subseteq x.seen \cup {b} /\ b \in ReadBy(y)
  /\ chain[b].log.kind \in TradeKinds =>
       b > x.lastBlock /\ Floor(b) <= at /\ b \notin IdsOf(x.dexTrades) /\ b \notin IdsOf(x.ponsTrades)
  /\ chain[b].log.kind = "SWAP" =>
       \A c \in 1..(b - 1) : \A kind \in PoolKinds : \A p : Emits(c, kind, p) => c \in ReadBy(x)

LEMMA ReadMore ==
  ASSUME NEW x, NEW y, NEW b, NEW at, Takes(x, y, b, at)
  PROVE  ReadBy(y) = ReadBy(x) \cup {b}
BY DEF Takes, Unmoved, ReadBy

LEMMA SourcesStay ==
  ASSUME ChainOK, NEW x, NEW y, NEW b, NEW at, Takes(x, y, b, at), Sources(x)
  PROVE  Sources(y)
<1>1. PICK log : log = chain[b].log
  OBVIOUS
<1>2. Pooled(x, y, log) /\ y.notCurves = x.notCurves /\ b \in Blocks /\ emittedBy(log)
  BY <1>1 DEF Takes, Recorded, Unmoved
<1>3. log.kind \in {"INITIALIZE", "REGISTER", "LAUNCH"} => Created(log.kind, log.place)
  BY <1>1, <1>2 DEF Created
<1>4. QED
  BY <1>2, <1>3 DEF Pooled, Sources

LEMMA KnownStays ==
  ASSUME NEW x, NEW y, NEW b, NEW at, Takes(x, y, b, at), Known(x)
  PROVE  Known(y)
<1>1. PICK log : log = chain[b].log
  OBVIOUS
<1>2. Pooled(x, y, log)
  BY <1>1 DEF Takes, Recorded
<1>3. x.usdgPools \subseteq y.usdgPools /\ x.ponsPools \subseteq y.ponsPools /\ x.curves \subseteq y.curves
  BY <1>2 DEF Pooled
<1>4. ReadBy(y) = ReadBy(x) \cup {b} /\ y.seen \subseteq x.seen \cup {b}
  BY ReadMore DEF Takes
<1>5. /\ log.kind = "INITIALIZE" => log.place \in y.usdgPools
      /\ log.kind = "REGISTER" => log.place \in y.ponsPools
      /\ log.kind = "LAUNCH" => log.place \in y.curves
  BY <1>2 DEF Pooled
<1>6. QED
  BY <1>1, <1>3, <1>4, <1>5 DEF Known

\* Where a trusted trade goes, once the pools before it are known.
LEMMA TradeGoes ==
  ASSUME ChainOK, NEW x, NEW y, NEW b, NEW at, Takes(x, y, b, at), Sources(x), Known(x),
         NEW log, log = chain[b].log
  PROVE  /\ DexTradeOn(b) <=> ToDex(x, log)
         /\ ToPons(x, log) => PonsTradeOn(b)
         /\ PonsTradeOn(b) => ToPons(x, log) \/ Waits(x, log)
<1>1. /\ b \in Blocks /\ emittedBy(log)
      /\ log.kind = "SWAP" => \A c \in 1..(b - 1) : \A kind \in PoolKinds : \A p : Emits(c, kind, p) => c \in ReadBy(x)
  BY DEF Takes
<1>2. ASSUME DexTradeOn(b) PROVE ToDex(x, log)
  <2>1. log.kind = "SWAP" /\ log.token > 0
    BY <1>2 DEF DexTradeOn, Genuine
  <2>2. PICK c \in 1..(b - 1) : Emits(c, "INITIALIZE", log.place)
    BY <1>1, <1>2, TradeAfter
  <2>3. c \in ReadBy(x)
    BY <1>1, <2>1, <2>2 DEF PoolKinds
  <2>4. log.place \in x.usdgPools
    BY <2>2, <2>3 DEF Known, Emits
  <2>5. QED
    BY <2>1, <2>4 DEF ToDex
<1>3. ASSUME ToDex(x, log) PROVE DexTradeOn(b)
  BY <1>1, <1>3 DEF ToDex, DexTradeOn, Genuine, Sources
<1>4. ASSUME ToPons(x, log) PROVE PonsTradeOn(b)
  BY <1>1, <1>4 DEF ToPons, PonsTradeOn, Genuine, Sources
<1>5. ASSUME PonsTradeOn(b) PROVE ToPons(x, log) \/ Waits(x, log)
  <2>1. CASE log.kind = "SWAP"
    <3>1. PICK c \in 1..(b - 1) : Emits(c, "REGISTER", log.place)
      BY <1>1, <1>5, <2>1, TradeAfter
    <3>2. c \in ReadBy(x)
      BY <1>1, <2>1, <3>1 DEF PoolKinds
    <3>3. log.place \in x.ponsPools
      BY <3>1, <3>2 DEF Known, Emits
    <3>4. Created("REGISTER", log.place)
      BY <3>3 DEF Sources
    <3>5. log.place \notin x.usdgPools
      BY <3>4, CreatedKinds DEF Sources
    <3>6. QED
      BY <2>1, <3>3, <3>5 DEF ToPons
  <2>2. CASE log.kind # "SWAP"
    <3>1. log.kind = "CURVE_TRADE" /\ Created("LAUNCH", log.place)
      BY <1>5, <2>2 DEF PonsTradeOn, Genuine
    <3>2. log.place \in Launchable
      BY <3>1, CreatedKinds
    <3>3. log.place \notin x.notCurves
      BY <3>2 DEF Sources
    <3>4. QED
      BY <3>1, <3>3 DEF ToPons, Waits
  <2>3. QED
    BY <2>1, <2>2
<1>6. QED
  BY <1>2, <1>3, <1>4, <1>5

LEMMA ListTypes ==
  ASSUME NEW x \in Index
  PROVE  /\ x.dexTrades \in Seq(Swaps) /\ x.ponsTrades \in Seq(Activities) /\ x.pending \in Seq(Swaps)
         /\ \A t \in Range(x.dexTrades) : t.id \in Nat /\ t.at \in Nat
         /\ \A t \in Range(x.ponsTrades) : t.id \in Nat /\ t.at \in Nat
         /\ \A t \in Range(x.pending) : t \in Swaps
<1>1. x.dexTrades \in Seq(Swaps) /\ x.ponsTrades \in Seq(Activities) /\ x.pending \in Seq(Swaps)
  BY DEF Index
<1>2. ASSUME NEW E, NEW s \in Seq(E), NEW t \in Range(s) PROVE t \in E
  BY ElementOfSeq, LenProperties DEF Range
<1>3. QED
  BY <1>1, <1>2, SwapDates

\* What the list of Stock Token trades becomes.
LEMMA DexAfter ==
  ASSUME ChainOK, NEW x, NEW y, NEW b, NEW at, Takes(x, y, b, at), DexBook(x),
         ToDex(x, chain[b].log), at >= x.keepTradesFrom
  PROVE  /\ OncePerEvent(y.dexTrades) /\ InTimeOrder(y.dexTrades)
         /\ Range(y.dexTrades) = Range(x.dexTrades) \cup {[id |-> b, at |-> at]}
<1>1. /\ x \in Index /\ at \in Nat /\ b \in Nat /\ b \notin IdsOf(x.dexTrades)
      /\ y.dexTrades = insertByTime(x.dexTrades, [id |-> b, at |-> at])
  <2>1. b \in Nat /\ at \in Nat
    BY ChainType DEF Takes
  <2>2. QED
    BY <2>1 DEF Takes, Recorded, DexListed, ToDex, TradeKinds
<1>2. PICK e : e = [id |-> b, at |-> at]
  OBVIOUS
<1>3. e \in Swaps /\ e.id = b
  BY <1>1, <1>2 DEF Swaps
<1>4. x.dexTrades \in Seq(Swaps) /\ OncePerEvent(x.dexTrades) /\ InTimeOrder(x.dexTrades)
  BY <1>1, ListTypes DEF DexBook
<1>5. QED
  BY <1>1, <1>2, <1>3, <1>4, SwapDates, InsertKeeps

LEMMA DexBookStays ==
  ASSUME ChainOK, NEW x, NEW y, NEW b, NEW at, Takes(x, y, b, at), Sources(x), Known(x), DexBook(x)
  PROVE  DexBook(y)
<1>1. ReadBy(y) = ReadBy(x) \cup {b} /\ b \in Blocks /\ at \in 0..MaxTime /\ MaxTime \in Nat
  BY ReadMore, MarketAssumption DEF Takes
<1>2. CASE ToDex(x, chain[b].log) /\ at >= x.keepTradesFrom
  <2>1. /\ OncePerEvent(y.dexTrades) /\ InTimeOrder(y.dexTrades)
        /\ Range(y.dexTrades) = Range(x.dexTrades) \cup {[id |-> b, at |-> at]}
    BY <1>2, DexAfter
  <2>2. DexTradeOn(b)
    BY <1>2, TradeGoes
  <2>3. Floor(b) <= at
    BY <1>2 DEF Takes, ToDex, TradeKinds
  <2>4. ASSUME NEW t \in Range(y.dexTrades) PROVE DexTradeOn(t.id) /\ Placed(y, t)
    <3>1. CASE t \in Range(x.dexTrades)
      BY <1>1, <3>1 DEF DexBook, Placed
    <3>2. CASE t = [id |-> b, at |-> at]
      <4>1. t.id = b /\ t.at = at
        BY <3>2
      <4>2. QED
        BY <1>1, <2>2, <2>3, <4>1 DEF Placed
    <3>3. QED
      BY <2>1, <3>1, <3>2
  <2>5. QED
    BY <2>1, <2>4 DEF DexBook
<1>3. CASE ~(ToDex(x, chain[b].log) /\ at >= x.keepTradesFrom)
  <2>1. y.dexTrades = x.dexTrades
    BY <1>3 DEF Takes, Recorded, DexListed
  <2>2. QED
    BY <1>1, <2>1 DEF DexBook, Placed
<1>4. QED
  BY <1>2, <1>3

LEMMA DexKeptStays ==
  ASSUME ChainOK, NEW x, NEW y, NEW b, NEW at, Takes(x, y, b, at), Sources(x), Known(x), DexBook(x), DexKept(x)
  PROVE  DexKept(y)
<1>1. SUFFICES ASSUME NEW c \in ReadBy(y), DexTradeOn(c), Floor(c) > y.keepTradesFrom
               PROVE  c \in IdsOf(y.dexTrades)
  BY DEF DexKept
<1>2. ReadBy(y) = ReadBy(x) \cup {b} /\ y.keepTradesFrom = x.keepTradesFrom
  BY ReadMore DEF Takes, Unmoved
<1>3. CASE ToDex(x, chain[b].log) /\ at >= x.keepTradesFrom
  <2>1. Range(y.dexTrades) = Range(x.dexTrades) \cup {[id |-> b, at |-> at]}
    BY <1>3, DexAfter
  <2>2. [id |-> b, at |-> at].id = b
    OBVIOUS
  <2>3. IdsOf(x.dexTrades) \subseteq IdsOf(y.dexTrades) /\ b \in IdsOf(y.dexTrades)
    BY <2>1, <2>2 DEF IdsOf
  <2>4. QED
    BY <1>1, <1>2, <2>3 DEF DexKept
<1>4. CASE ~(ToDex(x, chain[b].log) /\ at >= x.keepTradesFrom)
  <2>1. y.dexTrades = x.dexTrades
    BY <1>4 DEF Takes, Recorded, DexListed
  <2>2. c # b
    <3>1. SUFFICES ASSUME c = b PROVE FALSE
      OBVIOUS
    <3>2. ToDex(x, chain[b].log) /\ b \in Blocks
      BY <1>1, <3>1, TradeGoes DEF Takes
    <3>3. Floor(b) <= at /\ Floor(b) > x.keepTradesFrom
      BY <1>1, <1>2, <3>1, <3>2 DEF Takes, ToDex, TradeKinds
    <3>4. Floor(b) \in Nat /\ at \in Nat /\ x.keepTradesFrom \in Nat
      BY <3>2, FloorBounds DEF Takes, Index
    <3>5. QED
      BY <1>4, <3>2, <3>3, <3>4
  <2>3. QED
    BY <1>1, <1>2, <2>1, <2>2 DEF DexKept
<1>5. QED
  BY <1>3, <1>4

\* What the list of Pons activity becomes.
LEMMA PonsAfter ==
  ASSUME ChainOK, NEW x, NEW y, NEW b, NEW at, Takes(x, y, b, at), PonsBook(x), ToPons(x, chain[b].log)
  PROVE  \E e : /\ e.id = b /\ e.at = at
                /\ OncePerEvent(y.ponsTrades) /\ InTimeOrder(y.ponsTrades)
                /\ Range(y.ponsTrades) = Range(x.ponsTrades) \cup {e}
<1>1. PICK e : e = [id |-> b, at |-> at, wallet |-> Wallet(chain[b].log)]
  OBVIOUS
<1>2. /\ x \in Index /\ at \in Nat /\ b \in Nat /\ b \notin IdsOf(x.ponsTrades)
      /\ y.ponsTrades = insertByTime(x.ponsTrades, e)
  <2>1. b \in Nat /\ at \in Nat
    BY ChainType DEF Takes
  <2>2. chain[b].log.kind \in TradeKinds
    BY DEF ToPons, TradeKinds
  <2>3. QED
    BY <1>1, <2>1, <2>2 DEF Takes, Recorded, PonsListed
<1>3. e \in Activities /\ e.id = b /\ e.at = at
  BY <1>1, <1>2 DEF Activities, Wallet
<1>4. x.ponsTrades \in Seq(Activities) /\ OncePerEvent(x.ponsTrades) /\ InTimeOrder(x.ponsTrades)
  BY <1>2, ListTypes DEF PonsBook
<1>5. QED
  BY <1>2, <1>3, <1>4, SwapDates, InsertKeeps

LEMMA PonsBookStays ==
  ASSUME ChainOK, NEW x, NEW y, NEW b, NEW at, Takes(x, y, b, at), Sources(x), Known(x), PonsBook(x)
  PROVE  PonsBook(y)
<1>1. /\ ReadBy(y) = ReadBy(x) \cup {b} /\ b \in Blocks /\ at \in 0..MaxTime /\ MaxTime \in Nat
      /\ y.lastBlock = x.lastBlock
  BY ReadMore, MarketAssumption DEF Takes, Unmoved
<1>2. CASE ToPons(x, chain[b].log)
  <2>1. PICK e : /\ e.id = b /\ e.at = at
                 /\ OncePerEvent(y.ponsTrades) /\ InTimeOrder(y.ponsTrades)
                 /\ Range(y.ponsTrades) = Range(x.ponsTrades) \cup {e}
    BY <1>2, PonsAfter
  <2>2. PonsTradeOn(b)
    BY <1>2, TradeGoes
  <2>3. Floor(b) <= at /\ b > x.lastBlock
    BY <1>2 DEF Takes, ToPons, TradeKinds
  <2>4. ASSUME NEW t \in Range(y.ponsTrades)
        PROVE  PonsTradeOn(t.id) /\ Placed(y, t) /\ (t.wallet = NoWallet => t.id > y.lastBlock)
    <3>1. CASE t \in Range(x.ponsTrades)
      BY <1>1, <3>1 DEF PonsBook, Placed
    <3>2. CASE t = e
      BY <1>1, <2>1, <2>2, <2>3, <3>2 DEF Placed
    <3>3. QED
      BY <2>1, <3>1, <3>2
  <2>5. QED
    BY <2>1, <2>4 DEF PonsBook
<1>3. CASE ~ToPons(x, chain[b].log)
  <2>1. y.ponsTrades = x.ponsTrades
    BY <1>3 DEF Takes, Recorded, PonsListed
  <2>2. QED
    BY <1>1, <2>1 DEF PonsBook, Placed
<1>4. QED
  BY <1>2, <1>3

\* The trades that wait once the log of b is recorded.
StillWaits(x, b, waits) == (waits \ {b}) \cup IF Waits(x, chain[b].log) THEN {b} ELSE {}

LEMMA PonsKeptStays ==
  ASSUME ChainOK, NEW x, NEW y, NEW b, NEW at, Takes(x, y, b, at), Sources(x), Known(x), PonsBook(x),
         NEW waits, PonsKept(x, waits), IdsOf(x.ponsTrades) \cap waits = {}
  PROVE  /\ PonsKept(y, StillWaits(x, b, waits))
         /\ IdsOf(y.ponsTrades) \cap StillWaits(x, b, waits) = {}
<1>1. PICK rest : rest = StillWaits(x, b, waits)
  OBVIOUS
<1>2. ReadBy(y) = ReadBy(x) \cup {b} /\ y.covered = x.covered
  BY ReadMore DEF Takes, Unmoved
<1>3. \A c \in waits : c # b => c \in rest
  BY <1>1 DEF StillWaits
<1>4. CASE ToPons(x, chain[b].log)
  <2>1. PICK e : e.id = b /\ Range(y.ponsTrades) = Range(x.ponsTrades) \cup {e}
    BY <1>4, PonsAfter
  <2>2. IdsOf(y.ponsTrades) = IdsOf(x.ponsTrades) \cup {b}
    BY <2>1 DEF IdsOf
  <2>3. rest = waits \ {b}
    BY <1>1, <1>4 DEF StillWaits, ToPons, Waits
  <2>4. PonsKept(y, rest)
    BY <1>2, <1>3, <2>2 DEF PonsKept
  <2>5. QED
    BY <1>1, <2>2, <2>3, <2>4
<1>5. CASE ~ToPons(x, chain[b].log)
  <2>1. y.ponsTrades = x.ponsTrades
    BY <1>5 DEF Takes, Recorded, PonsListed
  <2>2. PonsTradeOn(b) => b \in rest
    <3>1. SUFFICES ASSUME PonsTradeOn(b) PROVE b \in rest
      OBVIOUS
    <3>2. Waits(x, chain[b].log)
      BY <1>5, <3>1, TradeGoes
    <3>3. QED
      BY <1>1, <3>2 DEF StillWaits
  <2>3. PonsKept(y, rest)
    BY <1>2, <1>3, <2>1, <2>2 DEF PonsKept
  <2>4. Waits(x, chain[b].log) => b \notin IdsOf(x.ponsTrades)
    BY DEF Waits, Takes, TradeKinds
  <2>5. QED
    BY <1>1, <2>1, <2>3, <2>4 DEF StillWaits
<1>6. QED
  BY <1>4, <1>5

\* What a Stock Token trade of block c put into minute m.
WorthOf(trades, m) ==
  [c \in 1..MaxBlocks |->
     IF /\ \E t \in Range(trades) : t.id = c /\ t.at \div MINUTE = m
        /\ chain[c].log.quote >= MIN_TRADE_QUOTE
     THEN chain[c].log.quote ELSE 0]

LEMMA VolumeIs ==
  ASSUME NEW trades, NEW m
  PROVE  VolumeHeld(trades, m) = SumFunction(WorthOf(trades, m))
BY DEF VolumeHeld, WorthOf

LEMMA WorthType ==
  ASSUME ChainOK, NEW trades, \A t \in Range(trades) : t.id \in Blocks, NEW m
  PROVE  WorthOf(trades, m) \in [1..MaxBlocks -> Nat]
<1>1. ASSUME NEW c \in 1..MaxBlocks, NEW t \in Range(trades), t.id = c PROVE chain[c].log.quote \in Nat
  BY <1>1, EveryQuote
<1>2. ASSUME NEW c \in 1..MaxBlocks
      PROVE  (IF /\ \E t \in Range(trades) : t.id = c /\ t.at \div MINUTE = m
                 /\ chain[c].log.quote >= MIN_TRADE_QUOTE
              THEN chain[c].log.quote ELSE 0) \in Nat
  BY <1>1
<1>3. QED
  BY <1>2 DEF WorthOf

LEMMA BooksStay ==
  ASSUME ChainOK, NEW x, NEW y, NEW b, NEW at, Takes(x, y, b, at), DexBook(x), Books(x)
  PROVE  Books(y)
<1>1. SUFFICES ASSUME NEW m \in Minutes, m * MINUTE >= y.keepTradesFrom
               PROVE  y.minuteVolume[m] = VolumeHeld(y.dexTrades, m)
  BY DEF Books
<1>2. PICK log, k : log = chain[b].log /\ k = at \div MINUTE
  OBVIOUS
<1>3. /\ y.keepTradesFrom = x.keepTradesFrom /\ x.keepTradesFrom \in Nat /\ at \in Nat /\ b \in Blocks
      /\ x.minuteVolume \in [Minutes -> Nat] /\ at \in 0..MaxTime
  BY DEF Takes, Unmoved, Index
<1>4. m \in Nat /\ k \in Minutes /\ k \in Nat /\ MINUTE \in Nat \ {0} /\ k * MINUTE <= at
  <2>1. MINUTE \in Nat \ {0} /\ k \in Minutes
    BY <1>2, <1>3, MinuteOf, MarketAssumption
  <2>2. k \in Nat /\ at % MINUTE \in 0..(MINUTE - 1) /\ at = MINUTE * k + (at % MINUTE)
    BY <1>2, <1>3, <2>1, Halves
  <2>3. MINUTE * k \in Nat /\ MINUTE * k = k * MINUTE
    BY <2>1, <2>2
  <2>4. QED
    BY <2>1, <2>2, <2>3 DEF Minutes
<1>5. x.minuteVolume[m] = VolumeHeld(x.dexTrades, m)
  BY <1>1, <1>3 DEF Books
<1>6. log.quote \in Nat /\ MIN_TRADE_QUOTE \in Nat
  BY <1>2, <1>3, EveryQuote, MarketAssumption
<1>7. CASE ToDex(x, log) /\ at >= x.keepTradesFrom
  <2>1. y.minuteVolume = volumeWith(x.minuteVolume, log, at)
    BY <1>2, <1>7 DEF Takes, Recorded, Counted
  <2>2. PICK q \in Nat : q = IF k = m /\ log.quote >= MIN_TRADE_QUOTE THEN log.quote ELSE 0
    BY <1>6
  <2>3. y.minuteVolume[m] = x.minuteVolume[m] + q
    BY <1>1, <1>2, <1>3, <1>4, <1>6, <2>1, <2>2 DEF volumeWith
  <2>4. PICK e : e = [id |-> b, at |-> at] /\ e.id = b /\ e.at = at
    <3>1. [id |-> b, at |-> at].id = b /\ [id |-> b, at |-> at].at = at
      OBVIOUS
    <3>2. QED
      BY <3>1
  <2>5. Range(y.dexTrades) = Range(x.dexTrades) \cup {e}
    BY <1>2, <1>7, <2>4, DexAfter
  <2>6. PICK f, h : f = WorthOf(x.dexTrades, m) /\ h = WorthOf(y.dexTrades, m)
    OBVIOUS
  <2>7. f \in [1..MaxBlocks -> Nat] /\ h \in [1..MaxBlocks -> Nat]
    <3>1. \A t \in Range(x.dexTrades) : t.id \in Blocks
      BY DEF DexBook, Placed
    <3>2. \A t \in Range(y.dexTrades) : t.id \in Blocks
      BY <1>3, <2>4, <2>5, <3>1
    <3>3. QED
      BY <2>6, <3>1, <3>2, WorthType
  <2>8. b \in 1..MaxBlocks
    BY <1>3, ChainType, MarketAssumption
  <2>9. f[b] = 0
    <3>1. b \notin IdsOf(x.dexTrades)
      BY <1>2, <1>7 DEF Takes, ToDex, TradeKinds
    <3>2. ~\E t \in Range(x.dexTrades) : t.id = b
      BY <3>1 DEF IdsOf
    <3>3. QED
      BY <2>6, <2>8, <3>2 DEF WorthOf
  <2>10. h[b] = q
    <3>1. (\E t \in Range(y.dexTrades) : t.id = b /\ t.at \div MINUTE = m) <=> k = m
      <4>1. ~\E t \in Range(x.dexTrades) : t.id = b
        BY <1>2, <1>7 DEF Takes, ToDex, TradeKinds, IdsOf
      <4>2. QED
        BY <1>2, <2>4, <2>5, <4>1
    <3>2. QED
      BY <1>2, <2>2, <2>6, <2>8, <3>1 DEF WorthOf
  <2>11. ASSUME NEW c \in (1..MaxBlocks) \ {b} PROVE h[c] = f[c]
    <3>1. (\E t \in Range(y.dexTrades) : t.id = c /\ t.at \div MINUTE = m) <=>
          (\E t \in Range(x.dexTrades) : t.id = c /\ t.at \div MINUTE = m)
      BY <2>4, <2>5
    <3>2. QED
      BY <2>6, <3>1 DEF WorthOf
  <2>12. SumFunction(f) \in Nat /\ SumFunction(h) + f[b] = SumFunction(f) + h[b]
    <3>1. IsFiniteSet(1..MaxBlocks)
      BY MarketAssumption, FS_Interval
    <3>2. QED
      BY <2>7, <2>8, <2>11, <3>1, SumOfChange
  <2>13. SumFunction(h) = SumFunction(f) + q
    <3>1. h \in [1..MaxBlocks -> Nat] /\ IsFiniteSet(1..MaxBlocks)
      <4>1. MaxBlocks \in Int /\ 1 \in Int
        BY MarketAssumption
      <4>2. IsFiniteSet(1..MaxBlocks)
        BY <4>1, FS_Interval
      <4>3. QED
        BY <2>7, <4>2
    <3>2. SumFunction(h) \in Nat
      BY <2>8, <3>1, SumOfChange
    <3>3. QED
      BY <2>9, <2>10, <2>12, <3>2
  <2>14. QED
    BY <1>5, <2>3, <2>6, <2>13, VolumeIs
<1>8. CASE ToDex(x, log) /\ ~(at >= x.keepTradesFrom)
  <2>1. y.dexTrades = x.dexTrades /\ y.minuteVolume = volumeWith(x.minuteVolume, log, at)
    BY <1>2, <1>8 DEF Takes, Recorded, DexListed, Counted
  <2>2. k # m
    BY <1>1, <1>3, <1>4, <1>8
  <2>3. y.minuteVolume[m] = x.minuteVolume[m]
    BY <1>2, <1>3, <1>4, <2>1, <2>2 DEF volumeWith
  <2>4. QED
    BY <1>5, <2>1, <2>3
<1>9. CASE ~ToDex(x, log)
  BY <1>2, <1>5, <1>9 DEF Takes, Recorded, DexListed, Counted
<1>10. QED
  BY <1>7, <1>8, <1>9

LEMMA WaitingStays ==
  ASSUME ChainOK, NEW x, NEW y, NEW b, NEW at, Takes(x, y, b, at), Waiting(x),
         Waits(x, chain[b].log) => b \notin IdsOf(x.pending)
  PROVE  Waiting(y)
<1>1. /\ ReadBy(y) = ReadBy(x) \cup {b} /\ b \in Blocks /\ at \in 0..MaxTime /\ MaxTime \in Nat
      /\ y.lastBlock = x.lastBlock
  BY ReadMore, MarketAssumption DEF Takes, Unmoved
<1>2. CASE Waits(x, chain[b].log)
  <2>1. PICK e : e = [id |-> b, at |-> at] /\ e.id = b /\ e.at = at
    <3>1. [id |-> b, at |-> at].id = b /\ [id |-> b, at |-> at].at = at
      OBVIOUS
    <3>2. QED
      BY <3>1
  <2>2. y.pending = Append(x.pending, e)
    BY <1>2, <2>1 DEF Takes, Recorded, Held
  <2>3. x.pending \in Seq(Swaps) /\ e \in Swaps
    <3>1. b \in Nat /\ at \in Nat
      BY <1>1, ChainType
    <3>2. QED
      BY <2>1, <3>1, ListTypes DEF Takes, Swaps
  <2>4. PICK n \in Nat : n = Len(x.pending) /\ DOMAIN x.pending = 1..n
    BY <2>3, LenProperties
  <2>5. /\ DOMAIN y.pending = 1..(n + 1) /\ y.pending[n + 1] = e
        /\ \A i \in 1..n : y.pending[i] = x.pending[i]
    BY <2>2, <2>3, <2>4, AppendProperties, LenProperties
  <2>6. Range(y.pending) = Range(x.pending) \cup {e}
    BY <2>4, <2>5 DEF Range
  <2>7. OncePerEvent(y.pending)
    <3>1. \A i \in 1..n : x.pending[i].id # b
      BY <1>2, <2>4 DEF IdsOf, Range
    <3>2. \A i, j \in 1..n : x.pending[i].id = x.pending[j].id => i = j
      BY <2>4 DEF Waiting, OncePerEvent
    <3>3. SUFFICES ASSUME NEW i \in 1..(n + 1), NEW j \in 1..(n + 1), y.pending[i].id = y.pending[j].id
                   PROVE  i = j
      BY <2>5 DEF OncePerEvent
    <3>4. \A l \in 1..(n + 1) : l \in 1..n \/ l = n + 1
      OBVIOUS
    <3>5. QED
      BY <2>1, <2>5, <3>1, <3>2, <3>3, <3>4
  <2>8. /\ chain[b].log.kind = "CURVE_TRADE" /\ emittedBy(chain[b].log)
        /\ Floor(b) <= at /\ b > x.lastBlock
    BY <1>2 DEF Waits, Takes, TradeKinds
  <2>9. ASSUME NEW t \in Range(y.pending)
        PROVE  /\ chain[t.id].log.kind = "CURVE_TRADE" /\ emittedBy(chain[t.id].log)
               /\ Placed(y, t) /\ t.id > y.lastBlock
    <3>1. CASE t \in Range(x.pending)
      BY <1>1, <3>1 DEF Waiting, Placed
    <3>2. CASE t = e
      BY <1>1, <2>1, <2>8, <3>2 DEF Placed
    <3>3. QED
      BY <2>6, <3>1, <3>2
  <2>10. QED
    BY <2>7, <2>9 DEF Waiting
<1>3. CASE ~Waits(x, chain[b].log)
  <2>1. y.pending = x.pending
    BY <1>3 DEF Takes, Recorded, Held
  <2>2. QED
    BY <1>1, <2>1 DEF Waiting, Placed
<1>4. QED
  BY <1>2, <1>3

\* Recording one log leaves the memory as true of the chain as it was.
LEMMA TakesKeeps ==
  ASSUME ChainOK, NEW x, NEW y, NEW b, NEW at, Takes(x, y, b, at), NEW waits, Memory(x, waits),
         Waits(x, chain[b].log) => b \notin IdsOf(x.pending)
  PROVE  Memory(y, StillWaits(x, b, waits))
<1>1. y \in Index /\ y.seen \subseteq Blocks /\ y.anchors \subseteq Blocks /\ y.lastBlock <= Len(chain)
  BY DEF Takes, Unmoved, Memory
<1>2. /\ Sources(x) /\ DexBook(x) /\ PonsBook(x) /\ Waiting(x) /\ Known(x) /\ DexKept(x)
      /\ PonsKept(x, waits) /\ Books(x) /\ IdsOf(x.ponsTrades) \cap waits = {}
  BY DEF Memory
<1>3. Sources(y) /\ Known(y) /\ DexBook(y) /\ PonsBook(y)
  BY <1>2, SourcesStay, KnownStays, DexBookStays, PonsBookStays
<1>4. DexKept(y) /\ Books(y) /\ Waiting(y)
  BY <1>2, DexKeptStays, BooksStay, WaitingStays
<1>5. PonsKept(y, StillWaits(x, b, waits)) /\ IdsOf(y.ponsTrades) \cap StillWaits(x, b, waits) = {}
  BY <1>2, PonsKeptStays
<1>6. QED
  BY <1>1, <1>3, <1>4, <1>5 DEF Memory

\* The trades that wait have been seen, in the poll under way.
LEMMA WaitersSeen ==
  ASSUME ChainOK, NEW x, x \in Index, Waiting(x), NEW b \in IdsOf(x.pending)
  PROVE  b \in x.seen /\ b \in Blocks /\ b > x.lastBlock /\ chain[b].log.kind = "CURVE_TRADE"
<1>1. PICK t \in Range(x.pending) : t.id = b
  BY DEF IdsOf
<1>2. Placed(x, t) /\ t.id > x.lastBlock /\ chain[t.id].log.kind = "CURVE_TRADE"
  BY <1>1 DEF Waiting
<1>3. x.lastBlock \in Nat
  BY DEF Index
<1>4. b \notin 1..x.lastBlock
  <2>1. b \in Nat
    BY <1>1, <1>2, ChainType DEF Placed
  <2>2. QED
    BY <1>1, <1>2, <1>3, <2>1
<1>5. QED
  BY <1>1, <1>2, <1>4 DEF Placed, ReadBy

\* What has to be so of a block for its log to be applied.
Ready(x, b, at) ==
  /\ at \in 0..MaxTime
  /\ chain[b].log.kind \in TradeKinds => b > x.lastBlock /\ Floor(b) <= at
  /\ chain[b].log.kind = "SWAP" =>
       \A c \in 1..(b - 1) : \A kind \in PoolKinds : \A p : Emits(c, kind, p) => c \in ReadBy(x)

\* What one more block does to a memory.
OneMore(x, y, b) ==
  /\ y \in Index /\ Unmoved(x, y) /\ x.curves \subseteq y.curves
  /\ y.seen = x.seen \cup {c \in {b} : emittedBy(chain[c].log)}
  /\ chain[b].log.kind # "CURVE_TRADE" => y.pending = x.pending

LEMMA AppliedType ==
  ASSUME ChainOK, NEW x \in Index, NEW b \in Blocks, NEW at \in 0..MaxTime, NEW y, y = applied(x, b, at)
  PROVE  OneMore(x, y, b)
<1>1. CASE b \in x.seen \/ ~emittedBy(chain[b].log)
  <2>1. y = x
    BY <1>1, AppliedStays
  <2>2. QED
    BY <1>1, <2>1 DEF Unmoved, OneMore
<1>2. CASE b \notin x.seen /\ emittedBy(chain[b].log)
  <2>1. b \in Nat /\ chain[b].log \in AnyLog
    BY <1>2, ChainType, EmittedLog
  <2>2. y \in Index /\ Unmoved(x, y) /\ y.seen = x.seen \cup {b} /\ Recorded(x, y, chain[b].log, b, at)
    BY <1>2, <2>1, AppliedIs
  <2>3. (chain[b].log.kind # "CURVE_TRADE" => y.pending = x.pending) /\ x.curves \subseteq y.curves
    BY <2>2 DEF Recorded, Held, Waits, Pooled
  <2>4. QED
    BY <1>2, <2>2, <2>3 DEF OneMore
<1>3. QED
  BY <1>1, <1>2

LEMMA AppliedKeeps ==
  ASSUME ChainOK, NEW x, Memory(x, IdsOf(x.pending)), NEW b \in Blocks, NEW at, Ready(x, b, at),
         NEW y, y = applied(x, b, at)
  PROVE  Memory(y, IdsOf(y.pending)) /\ OneMore(x, y, b)
<1>1. x \in Index /\ Waiting(x) /\ DexBook(x) /\ PonsBook(x) /\ at \in 0..MaxTime
  BY DEF Memory, Ready
<1>2. OneMore(x, y, b)
  BY <1>1, AppliedType
<1>3. CASE b \in x.seen \/ ~emittedBy(chain[b].log)
  <2>1. y = x
    BY <1>3, AppliedStays
  <2>2. QED
    BY <1>2, <2>1
<1>4. CASE b \notin x.seen /\ emittedBy(chain[b].log)
  <2>1. b \in Nat /\ chain[b].log \in AnyLog
    BY <1>4, ChainType, EmittedLog
  <2>2. y \in Index /\ Unmoved(x, y) /\ y.seen = x.seen \cup {b} /\ Recorded(x, y, chain[b].log, b, at)
    BY <1>1, <1>4, <2>1, AppliedIs
  <2>3. ASSUME b > x.lastBlock PROVE b \notin IdsOf(x.dexTrades) /\ b \notin IdsOf(x.ponsTrades)
    <3>1. x.lastBlock \in Nat
      BY <1>1 DEF Index
    <3>2. b \notin ReadBy(x)
      BY <1>4, <2>1, <2>3, <3>1 DEF ReadBy
    <3>3. QED
      BY <1>1, <3>2 DEF DexBook, PonsBook, Placed, IdsOf
  <2>4. Takes(x, y, b, at)
    BY <1>1, <1>4, <2>2, <2>3 DEF Takes, Ready, ReadBy
  <2>5. b \notin IdsOf(x.pending)
    BY <1>1, <1>4, WaitersSeen
  <2>6. PICK rest : rest = StillWaits(x, b, IdsOf(x.pending))
    OBVIOUS
  <2>7. Memory(y, rest)
    BY <2>4, <2>5, <2>6, TakesKeeps
  <2>8. rest = IdsOf(y.pending)
    <3>1. CASE Waits(x, chain[b].log)
      <4>1. PICK e : e = [id |-> b, at |-> at] /\ e.id = b
        <5>1. [id |-> b, at |-> at].id = b
          OBVIOUS
        <5>2. QED
          BY <5>1
      <4>2. y.pending = Append(x.pending, e)
        BY <2>2, <3>1, <4>1 DEF Recorded, Held
      <4>3. x.pending \in Seq(Swaps) /\ e \in Swaps
        <5>1. at \in Nat
          BY <1>1, MarketAssumption
        <5>2. QED
          BY <1>1, <2>1, <4>1, <5>1, ListTypes DEF Swaps
      <4>4. PICK n \in Nat : n = Len(x.pending) /\ DOMAIN x.pending = 1..n
        BY <4>3, LenProperties
      <4>5. /\ DOMAIN y.pending = 1..(n + 1) /\ y.pending[n + 1] = e
            /\ \A i \in 1..n : y.pending[i] = x.pending[i]
        BY <4>2, <4>3, <4>4, AppendProperties, LenProperties
      <4>6. Range(y.pending) = Range(x.pending) \cup {e}
        BY <4>4, <4>5 DEF Range
      <4>7. IdsOf(y.pending) = IdsOf(x.pending) \cup {b}
        BY <4>1, <4>6 DEF IdsOf
      <4>8. QED
        BY <2>5, <2>6, <3>1, <4>7 DEF StillWaits
    <3>2. CASE ~Waits(x, chain[b].log)
      <4>1. y.pending = x.pending
        BY <2>2, <3>2 DEF Recorded, Held
      <4>2. QED
        BY <2>5, <2>6, <3>2, <4>1 DEF StillWaits
    <3>3. QED
      BY <3>1, <3>2
  <2>9. QED
    BY <1>2, <2>7, <2>8
<1>5. QED
  BY <1>3, <1>4

\* What a read of blocks does to a memory.
More(x, y, blocks) ==
  /\ y \in Index /\ Unmoved(x, y) /\ x.curves \subseteq y.curves
  /\ y.seen = x.seen \cup {c \in blocks : emittedBy(chain[c].log)}
  /\ (\A b \in blocks : chain[b].log.kind # "CURVE_TRADE") => y.pending = x.pending

LEMMA ReadyLater ==
  ASSUME NEW x, NEW y, NEW b, NEW at, Ready(x, b, at), Unmoved(x, y), x.seen \subseteq y.seen
  PROVE  Ready(y, b, at)
BY DEF Ready, Unmoved, ReadBy

LEMMA OneMoreOf ==
  ASSUME NEW x, NEW y, NEW z, NEW s, NEW b, More(x, y, s), OneMore(y, z, b)
  PROVE  More(x, z, s \cup {b})
BY DEF More, OneMore, Unmoved

LEMMA ApplyKeeps ==
  ASSUME ChainOK, NEW x, Memory(x, IdsOf(x.pending)), NEW blocks \in SUBSET Blocks,
         NEW at, \A b \in blocks : Ready(x, b, at[b]), NEW y, y = apply(x, blocks, at)
  PROVE  Memory(y, IdsOf(y.pending)) /\ More(x, y, blocks)
<1>1. PICK n \in Nat : Blocks = 1..n /\ blocks \in SUBSET (0..n) /\ blocks \in SUBSET Nat /\ IsFiniteSet(blocks)
  <2>1. PICK n \in Nat : Blocks = 1..n
    BY ChainType
  <2>2. blocks \in SUBSET (1..n) /\ IsFiniteSet(1..n)
    BY <2>1, FS_Interval
  <2>3. IsFiniteSet(blocks)
    BY <2>2, FS_Subset
  <2>4. blocks \in SUBSET (0..n) /\ blocks \in SUBSET Nat
    BY <2>2
  <2>5. QED
    BY <2>1, <2>3, <2>4
<1>2. ASSUME NEW s \in SUBSET blocks, s # {} PROVE Greatest(s) \in s
  <2>1. s \in SUBSET (0..n)
    BY <1>1
  <2>2. QED
    BY <1>2, <2>1, GreatestOf
<1>3. x \in Index
  BY DEF Memory
<1>4. ASSUME NEW b \in blocks, NEW z \in Index PROVE applied(z, b, at[b]) \in Index
  <2>1. at[b] \in 0..MaxTime /\ b \in Blocks
    BY DEF Ready
  <2>2. QED
    BY <2>1, AppliedType DEF OneMore
<1> DEFINE Good(p) == Memory(p[2], IdsOf(p[2].pending)) /\ More(x, p[2], p[1])
           K == {p \in (SUBSET blocks) \X Index : Good(p)}
<1>5. <<{}, x>> \in K
  <2>1. More(x, x, {})
    BY <1>3 DEF More, Unmoved
  <2>2. QED
    BY <1>3, <2>1
<1>6. ASSUME NEW s \in SUBSET blocks, NEW b \in blocks, NEW z \in Index, b \notin s, <<s, z>> \in K
      PROVE  <<s \cup {b}, applied(z, b, at[b])>> \in K
  <2>1. PICK w : w = applied(z, b, at[b])
    OBVIOUS
  <2>2. Memory(z, IdsOf(z.pending)) /\ More(x, z, s)
    BY <1>6
  <2>3. Ready(z, b, at[b])
    BY <2>2, ReadyLater DEF More
  <2>4. b \in Blocks
    OBVIOUS
  <2>5. Memory(w, IdsOf(w.pending)) /\ OneMore(z, w, b)
    BY <2>1, <2>2, <2>3, <2>4, AppliedKeeps
  <2>6. More(x, w, s \cup {b}) /\ w \in Index /\ s \cup {b} \in SUBSET blocks
    BY <2>2, <2>5, OneMoreOf DEF OneMore
  <2>7. QED
    BY <2>1, <2>5, <2>6
<1>7. y \in Index /\ <<blocks, y>> \in K
  <2> HIDE DEF K
  <2>1. QED
    BY <1>1, <1>2, <1>3, <1>4, <1>5, <1>6, ApplyInduct
<1>8. QED
  BY <1>7

-----------------------------------------------------------------------------
(***************************************************************************)
(* The trades that waited for an answer about their curve.                 *)
(***************************************************************************)

WaitingFrom(x, s, g) ==
  g = [t \in SUBSET DOMAIN s |->
         IF t = {} THEN x
         ELSE record(g[t \ {Max(t)}], chain[s[Max(t)].id].log, s[Max(t)].id, s[Max(t)].at)]

LEMMA WaitingIs ==
  ASSUME NEW x, NEW s
  PROVE  \E g : /\ g = CHOOSE h : WaitingFrom(x, s, h)
                /\ recordWaiting(x, s) = g[DOMAIN s]
BY DEF recordWaiting, FoldLeft, MapThenFoldSet, WaitingFrom

\* The memory after each of the trades.
OneByOne(x, s, h) ==
  /\ h[0] = x
  /\ \A k \in 1..Len(s) : h[k] = record(h[k - 1], chain[s[k].id].log, s[k].id, s[k].at)

LEMMA WaitingUnfolds ==
  ASSUME NEW x \in Index, NEW s \in Seq(Swaps),
         \A k \in 1..Len(s) : s[k].id \in Nat /\ chain[s[k].id].log \in AnyLog /\ s[k].at \in 0..MaxTime
  PROVE  \E h \in [0..Len(s) -> Index] : OneByOne(x, s, h) /\ recordWaiting(x, s) = h[Len(s)]
<1> DEFINE n == Len(s)
           D == 1..n
<1>1. n \in Nat /\ DOMAIN s = D
  BY LenProperties
<1>2. IsFiniteSet(D)
  BY <1>1, FS_Interval
<1>3. PICK pick : pick = [t \in SUBSET D |-> Max(t)]
  OBVIOUS
<1>4. \A t \in SUBSET D : t # {} => pick[t] \in t
  BY <1>1, <1>3, MaxOfPlaces
<1>5. \A k \in D, y \in Index : record(y, chain[s[k].id].log, s[k].id, s[k].at) \in Index
  BY RecordIs
<1>6. PICK step : step = [k \in D |-> [y \in Index |-> record(y, chain[s[k].id].log, s[k].id, s[k].at)]]
  OBVIOUS
<1>7. step \in [D -> [Index -> Index]]
  BY <1>5, <1>6
<1>8. PICK f \in [SUBSET D -> Index] : Unfolds(D, pick, x, step, f)
  BY <1>2, <1>4, <1>7, FoldExists
<1>9. WaitingFrom(x, s, f)
  <2>1. ASSUME NEW t \in SUBSET D
        PROVE  f[t] = IF t = {} THEN x
                      ELSE record(f[t \ {Max(t)}], chain[s[Max(t)].id].log, s[Max(t)].id, s[Max(t)].at)
    <3>1. CASE t = {}
      BY <1>8, <3>1 DEF Unfolds
    <3>2. CASE t # {}
      <4>1. PICK k : k = Max(t) /\ k \in D /\ pick[t] = k /\ f[t \ {k}] \in Index
        BY <1>3, <1>4, <1>8, <3>2
      <4>2. f[t] = step[k][f[t \ {k}]]
        BY <1>8, <3>2, <4>1 DEF Unfolds
      <4>3. QED
        BY <1>6, <3>2, <4>1, <4>2
    <3>3. QED
      BY <3>1, <3>2
  <2>2. QED
    BY <1>1, <1>8, <2>1 DEF WaitingFrom
<1>10. PICK g : g = (CHOOSE h : WaitingFrom(x, s, h)) /\ recordWaiting(x, s) = g[DOMAIN s]
  BY WaitingIs
<1>11. WaitingFrom(x, s, g)
  BY <1>9, <1>10
<1>12. PICK h : h = [k \in 0..n |-> g[1..k]]
  OBVIOUS
<1>13. h[0] = x
  <2>1. 1..0 = {} /\ h[0] = g[1..0] /\ {} \in SUBSET DOMAIN s
    BY <1>1, <1>12, LastPlace
  <2>2. QED
    BY <1>11, <2>1 DEF WaitingFrom
<1>14. ASSUME NEW k \in D PROVE h[k] = record(h[k - 1], chain[s[k].id].log, s[k].id, s[k].at)
  <2>1. k - 1 \in Nat /\ (k - 1) + 1 = k /\ k \in 0..n /\ k - 1 \in 0..n /\ 1..k \in SUBSET D
    BY <1>1
  <2>2. 1..k # {} /\ Max(1..k) = k /\ (1..k) \ {k} = 1..(k - 1)
    BY <2>1, LastPlace
  <2>3. g[1..k] = record(g[1..(k - 1)], chain[s[k].id].log, s[k].id, s[k].at)
    BY <1>1, <1>11, <2>1, <2>2 DEF WaitingFrom
  <2>4. QED
    BY <1>12, <2>1, <2>3
<1>15. \A k \in 0..n : h[k] \in Index
  <2> DEFINE T == {k \in Nat : k <= n => h[k] \in Index}
  <2>1. 0 \in T
    BY <1>13
  <2>2. ASSUME NEW k \in Nat, k \in T PROVE k + 1 \in T
    <3>1. CASE k + 1 <= n
      <4>1. k + 1 \in D /\ (k + 1) - 1 = k /\ h[k] \in Index
        BY <1>1, <2>2, <3>1
      <4>2. QED
        BY <1>5, <1>14, <4>1
    <3>2. CASE ~(k + 1 <= n)
      BY <3>2
    <3>3. QED
      BY <3>1, <3>2
  <2>3. \A k \in Nat : k \in T
    <3> HIDE DEF T
    <3>1. QED
      BY <2>1, <2>2, Induct
  <2>4. QED
    BY <1>1, <2>3
<1>16. h \in [0..n -> Index] /\ recordWaiting(x, s) = h[n]
  BY <1>1, <1>10, <1>12, <1>15
<1>17. QED
  BY <1>13, <1>14, <1>16 DEF OneByOne

\* What is left of a memory by the answer about its curves.
Steady(x, y) ==
  /\ y.keepTradesFrom = x.keepTradesFrom /\ y.lastBlock = x.lastBlock /\ y.covered = x.covered
  /\ y.anchors = x.anchors

\* y is x with the trade of block b, which waited, recorded or dropped.
Answered(x, y, waits, b, at) ==
  /\ b \in waits /\ b \in x.seen /\ b > x.lastBlock /\ emittedBy(chain[b].log)
  /\ chain[b].log.kind = "CURVE_TRADE" /\ chain[b].log.place \in x.curves \cup x.notCurves
  /\ at \in 0..MaxTime /\ Floor(b) <= at /\ y = record(x, chain[b].log, b, at)

\* One trade that waited is recorded, or dropped, once its curve is known.
LEMMA WaiterRecorded ==
  ASSUME ChainOK, NEW x, NEW y, NEW waits, Memory(x, waits), NEW b, NEW at, Answered(x, y, waits, b, at)
  PROVE  /\ Memory(y, waits \ {b}) /\ Steady(x, y) /\ y.seen = x.seen /\ y.pending = x.pending
         /\ y.curves = x.curves /\ y.notCurves = x.notCurves
<1>a. /\ b \in waits \cap x.seen /\ b > x.lastBlock /\ emittedBy(chain[b].log)
      /\ chain[b].log.kind = "CURVE_TRADE" /\ chain[b].log.place \in x.curves \cup x.notCurves
      /\ at \in 0..MaxTime /\ Floor(b) <= at /\ y = record(x, chain[b].log, b, at)
  BY DEF Answered
<1>1. PICK log : log = chain[b].log
  OBVIOUS
<1>2. x \in Index /\ b \in Blocks /\ emittedBy(log) /\ b \in Nat
  BY <1>a, <1>1, ChainType DEF Memory
<1>3. log \in AnyLog
  BY <1>1, <1>2, EmittedLog
<1>4. y \in Index /\ Unmoved(x, y) /\ y.seen = x.seen /\ Recorded(x, y, log, b, at)
  BY <1>a, <1>1, <1>2, <1>3, RecordIs
<1>5. b \notin IdsOf(x.ponsTrades)
  BY <1>a DEF Memory
<1>6. b \notin IdsOf(x.dexTrades)
  BY <1>a DEF Memory, DexBook, IdsOf, DexTradeOn, Genuine
<1>7. Takes(x, y, b, at)
  BY <1>a, <1>1, <1>2, <1>4, <1>5, <1>6 DEF Takes, ReadBy
<1>8. ~Waits(x, log)
  BY <1>a, <1>1 DEF Waits
<1>9. StillWaits(x, b, waits) = waits \ {b}
  BY <1>a, <1>1, <1>8 DEF StillWaits
<1>10. Memory(y, waits \ {b})
  BY <1>1, <1>7, <1>8, <1>9, TakesKeeps
<1>11. y.pending = x.pending /\ y.curves = x.curves
  BY <1>a, <1>1, <1>4, <1>8 DEF Recorded, Held, Pooled
<1>12. QED
  BY <1>4, <1>10, <1>11 DEF Unmoved, Steady

\* The trades from the k-th on.
Rest(s, k) == {s[i].id : i \in k..Len(s)}

\* A trade that waits.
Waiter(x, t) ==
  /\ t.id \in x.seen /\ t.id > x.lastBlock
  /\ chain[t.id].log.kind = "CURVE_TRADE" /\ emittedBy(chain[t.id].log)
  /\ chain[t.id].log.place \in x.curves \cup x.notCurves
  /\ t.at \in 0..MaxTime /\ Floor(t.id) <= t.at

LEMMA WaitersRecorded ==
  ASSUME ChainOK, NEW x, NEW s \in Seq(Swaps), OncePerEvent(s), Memory(x, IdsOf(s)),
         \A t \in Range(s) : Waiter(x, t), NEW y, y = recordWaiting(x, s)
  PROVE  Memory(y, {}) /\ Steady(x, y) /\ y.seen = x.seen /\ y.pending = x.pending
<1>1. PICK n \in Nat : n = Len(s) /\ DOMAIN s = 1..n
  BY LenProperties
<1>2. \A k \in 1..n : s[k] \in Range(s) /\ Waiter(x, s[k])
  BY <1>1 DEF Range
<1>3. x \in Index /\ x.seen \subseteq Blocks
  BY DEF Memory
<1>4. \A k \in 1..n : s[k].id \in Nat /\ s[k].id \in Blocks /\ chain[s[k].id].log \in AnyLog /\ s[k].at \in 0..MaxTime
  <2>1. SUFFICES ASSUME NEW k \in 1..n
                 PROVE  s[k].id \in Nat /\ s[k].id \in Blocks /\ chain[s[k].id].log \in AnyLog /\ s[k].at \in 0..MaxTime
    OBVIOUS
  <2>2. PICK b : b = s[k].id /\ b \in Blocks /\ emittedBy(chain[b].log) /\ s[k].at \in 0..MaxTime
    BY <1>2, <1>3 DEF Waiter
  <2>3. b \in Nat /\ chain[b].log \in AnyLog
    BY <2>2, ChainType, EmittedLog
  <2>4. QED
    BY <2>2, <2>3
<1>5. PICK h \in [0..n -> Index] : OneByOne(x, s, h) /\ y = h[n]
  BY <1>1, <1>3, <1>4, WaitingUnfolds
<1> DEFINE Good(k, z) == /\ Memory(z, Rest(s, k + 1)) /\ Steady(x, z) /\ z.seen = x.seen
                         /\ z.pending = x.pending /\ z.curves = x.curves /\ z.notCurves = x.notCurves
           T == {k \in Nat : k <= n => Good(k, h[k])}
<1>6. 0 \in T
  <2>1. Rest(s, 0 + 1) = IdsOf(s)
    <3>1. Rest(s, 1) = IdsOf(s)
      BY <1>1 DEF Rest, IdsOf, Range
    <3>2. QED
      BY <3>1
  <2>2. h[0] = x
    BY <1>5 DEF OneByOne
  <2>3. Good(0, h[0])
    BY <2>1, <2>2 DEF Steady
  <2>4. QED
    BY <2>3
<1>7. ASSUME NEW k \in Nat, k \in T PROVE k + 1 \in T
  <2>1. SUFFICES ASSUME k + 1 <= n PROVE Good(k + 1, h[k + 1])
    OBVIOUS
  <2>2. k + 1 \in 1..n /\ (k + 1) - 1 = k
    BY <2>1
  <2>3. PICK z, w, b, at : z = h[k] /\ w = h[k + 1] /\ b = s[k + 1].id /\ at = s[k + 1].at
    OBVIOUS
  <2>4. Good(k, z)
    BY <1>7, <2>1, <2>3
  <2>5. w = record(z, chain[b].log, b, at)
    BY <1>1, <1>5, <2>2, <2>3 DEF OneByOne
  <2>6. PICK waits : waits = Rest(s, k + 1)
    OBVIOUS
  <2>7. b \in waits
    <3>1. k + 1 \in (k + 1)..n
      BY <2>2
    <3>2. waits = {s[i].id : i \in (k + 1)..n}
      BY <1>1, <2>6 DEF Rest
    <3>3. QED
      BY <2>3, <3>1, <3>2
  <2>8. Waiter(x, s[k + 1])
    BY <1>2, <2>2
  <2>9. /\ b \in z.seen /\ b > z.lastBlock /\ chain[b].log.kind = "CURVE_TRADE"
        /\ emittedBy(chain[b].log)
        /\ chain[b].log.place \in z.curves \cup z.notCurves /\ at \in 0..MaxTime /\ Floor(b) <= at
    BY <2>3, <2>4, <2>8 DEF Waiter, Steady
  <2>10. /\ Memory(w, waits \ {b}) /\ Steady(z, w) /\ w.seen = z.seen /\ w.pending = z.pending
         /\ w.curves = z.curves /\ w.notCurves = z.notCurves
    <3>1. Memory(z, waits) /\ b \in waits \cap z.seen
      BY <2>4, <2>6, <2>7, <2>9
    <3>2. Answered(z, w, waits, b, at)
      BY <2>5, <2>9, <3>1 DEF Answered
    <3>3. QED
      BY <3>1, <3>2, WaiterRecorded
  <2>11. waits \ {b} = Rest(s, (k + 1) + 1)
    <3>1. \A i \in (k + 1)..n : i = k + 1 \/ i \in ((k + 1) + 1)..n
      OBVIOUS
    <3>2. \A i \in ((k + 1) + 1)..n : i \in (k + 1)..n /\ s[i].id # b
      <4>1. SUFFICES ASSUME NEW i \in ((k + 1) + 1)..n PROVE i \in (k + 1)..n /\ s[i].id # b
        OBVIOUS
      <4>2. i \in 1..n /\ k + 1 \in 1..n /\ i # k + 1 /\ i \in (k + 1)..n
        BY <2>2
      <4>3. QED
        BY <1>1, <2>3, <4>2 DEF OncePerEvent
    <3>3. waits = {s[i].id : i \in (k + 1)..n} /\ Rest(s, (k + 1) + 1) = {s[i].id : i \in ((k + 1) + 1)..n}
      BY <1>1, <2>6 DEF Rest
    <3>4. QED
      BY <2>3, <3>1, <3>2, <3>3
  <2>12. Good(k + 1, w)
    BY <2>4, <2>10, <2>11 DEF Steady
  <2>13. QED
    BY <2>3, <2>12
<1>8. n \in T
  <2> HIDE DEF T
  <2>1. QED
    BY <1>6, <1>7, Induct
<1>9. Good(n, y)
  BY <1>5, <1>8
<1>10. Rest(s, n + 1) = {}
  <2>1. (n + 1)..n = {}
    OBVIOUS
  <2>2. QED
    BY <1>1, <2>1 DEF Rest
<1>11. QED
  BY <1>9, <1>10

LEMMA NoneListed ==
  ASSUME NEW s, s = <<>>
  PROVE  Range(s) = {} /\ IdsOf(s) = {} /\ OncePerEvent(s) /\ InTimeOrder(s) /\ s \in Seq(Swaps) /\ s \in Seq(Activities)
<1>1. DOMAIN s = {} /\ s \in Seq(Swaps) /\ s \in Seq(Activities)
  OBVIOUS
<1>2. Range(s) = {}
  BY <1>1 DEF Range
<1>3. QED
  BY <1>1, <1>2 DEF IdsOf, OncePerEvent, InTimeOrder

\* The answer about the curves of the trades that wait: their launches, and the rest are none.
Asked(x, to, unknown, launches, asked, known) ==
  /\ unknown = {chain[t.id].log.place : t \in Range(x.pending)} \ (x.curves \cup x.notCurves)
  /\ launches = launchesOf(unknown, to)
  /\ asked = apply(x, launches, Undated(launches))
  /\ known = [asked EXCEPT !.notCurves = @ \cup (unknown \ asked.curves), !.pending = <<>>]

LEMMA ResolveIs ==
  ASSUME NEW x, NEW to, x.pending # <<>>
  PROVE  \E unknown, launches, asked, known :
           Asked(x, to, unknown, launches, asked, known) /\ resolveCurves(x, to) = recordWaiting(known, x.pending)
BY DEF resolveCurves, Asked

\* Launches asked of the factory are recorded whichever contracts were asked about.
LEMMA LaunchesRecorded ==
  ASSUME ChainOK, NEW x, Memory(x, IdsOf(x.pending)), NEW to \in Nat, NEW places,
         NEW launches, launches = launchesOf(places, to), NEW y, y = apply(x, launches, Undated(launches))
  PROVE  /\ Memory(y, IdsOf(y.pending)) /\ More(x, y, launches) /\ y.pending = x.pending
         /\ launches \in SUBSET Blocks /\ \A b \in launches : b <= to
<1>1. launches \in SUBSET Blocks /\ \A b \in launches : b <= to /\ chain[b].log.kind = "LAUNCH"
  <2>1. launches \subseteq scan(1, to, {"LAUNCH"})
    BY DEF launchesOf
  <2>2. \A b \in scan(1, to, {"LAUNCH"}) : b \in Blocks /\ b \in 1..to /\ chain[b].log.kind = "LAUNCH"
    BY DEF scan
  <2>3. \A b \in 1..to : b <= to
    OBVIOUS
  <2>4. QED
    BY <2>1, <2>2, <2>3
<1>2. \A b \in launches : Ready(x, b, Undated(launches)[b])
  <2>1. SUFFICES ASSUME NEW b \in launches PROVE Ready(x, b, Undated(launches)[b])
    OBVIOUS
  <2>2. Undated(launches)[b] = 0 /\ 0 \in 0..MaxTime
    BY MarketAssumption DEF Undated
  <2>3. QED
    BY <1>1, <2>2 DEF Ready, TradeKinds
<1>3. PICK at : at = Undated(launches)
  OBVIOUS
<1>4. Memory(y, IdsOf(y.pending)) /\ More(x, y, launches)
  BY <1>1, <1>2, <1>3, ApplyKeeps
<1>5. y.pending = x.pending
  BY <1>1, <1>4 DEF More
<1>6. QED
  BY <1>1, <1>4, <1>5

LEMMA PlacesAsked ==
  ASSUME ChainOK, NEW x, Memory(x, IdsOf(x.pending)), NEW to \in Nat, \A b \in IdsOf(x.pending) : b <= to,
         NEW unknown, NEW launches, NEW asked, NEW known, Asked(x, to, unknown, launches, asked, known)
  PROVE  /\ Memory(asked, IdsOf(asked.pending)) /\ More(x, asked, launches) /\ asked.pending = x.pending
         /\ launches \in SUBSET Blocks /\ \A b \in launches : b <= to
         /\ unknown \subseteq STRING /\ (unknown \ asked.curves) \cap Launchable = {}
<1>1. PICK n \in Nat : n = Len(chain) /\ Blocks = 1..n
  BY ChainType
<1>2. \A t \in Range(x.pending) : /\ t.id \in IdsOf(x.pending) /\ t.id \in Blocks
                                  /\ chain[t.id].log.kind = "CURVE_TRADE"
                                  /\ emittedBy(chain[t.id].log)
  BY DEF Memory, Waiting, Placed, IdsOf
<1>3. asked = apply(x, launches, Undated(launches)) /\ launches = launchesOf(unknown, to)
  BY DEF Asked
<1>4. /\ Memory(asked, IdsOf(asked.pending)) /\ More(x, asked, launches) /\ asked.pending = x.pending
      /\ launches \in SUBSET Blocks /\ \A b \in launches : b <= to
  BY <1>3, LaunchesRecorded
<1>5. unknown \subseteq STRING
  <2>1. SUFFICES ASSUME NEW t \in Range(x.pending) PROVE chain[t.id].log.place \in STRING
    BY DEF Asked
  <2>2. PICK b \in Blocks : b = t.id /\ emittedBy(chain[b].log)
    BY <1>2
  <2>3. QED
    BY <2>2, EmittedLog DEF AnyLog
<1>6. ASSUME NEW p \in unknown, p \in Launchable PROVE p \in asked.curves
  <2>1. PICK t \in Range(x.pending) : chain[t.id].log.place = p
    BY DEF Asked
  <2>2. PICK b \in Blocks : b = t.id /\ chain[b].log.kind = "CURVE_TRADE" /\ b <= to /\ chain[b].log.place = p
    BY <1>2, <2>1
  <2>3. PICK c \in 1..(b - 1) : Emits(c, "LAUNCH", p)
    BY <1>6, <2>2 DEF ChainOK
  <2>4. c \in Blocks /\ c \in 1..to
    BY <1>1, <2>2
  <2>5. chain[c].log.emitter = "ponsFactory" /\ chain[c].log.kind = "LAUNCH" /\ chain[c].log.place = p /\ emittedBy(chain[c].log)
    BY <2>3 DEF Emits, emittedBy
  <2>6. c \in launches
    BY <2>4, <2>5 DEF Asked, launchesOf, scan
  <2>7. c \in asked.seen
    BY <1>4, <2>5, <2>6 DEF More
  <2>8. QED
    BY <1>4, <2>5, <2>7 DEF Memory, Known, ReadBy
<1>7. QED
  BY <1>4, <1>5, <1>6

LEMMA CurvesKnown ==
  ASSUME ChainOK, NEW x, Memory(x, IdsOf(x.pending)), NEW to \in Nat, \A b \in IdsOf(x.pending) : b <= to,
         NEW unknown, NEW launches, NEW asked, NEW known, Asked(x, to, unknown, launches, asked, known)
  PROVE  /\ Memory(known, IdsOf(x.pending)) /\ Steady(x, known) /\ known.pending = <<>>
         /\ known.seen = asked.seen
         /\ x.curves \cup x.notCurves \cup unknown \subseteq known.curves \cup known.notCurves
<1>1. /\ Memory(asked, IdsOf(asked.pending)) /\ More(x, asked, launches) /\ asked.pending = x.pending
      /\ unknown \subseteq STRING /\ (unknown \ asked.curves) \cap Launchable = {}
  BY PlacesAsked
<1>2. asked \in Index
  BY <1>1 DEF Memory
<1>3. PICK none : none = asked.notCurves \cup (unknown \ asked.curves) /\ none \in SUBSET STRING
  BY <1>1, <1>2 DEF Index
<1>4. PICK empty : empty = <<>> /\ empty \in Seq(Swaps)
  BY NoneListed
<1>5. known = [asked EXCEPT !.notCurves = none, !.pending = empty]
  BY <1>3, <1>4 DEF Asked
<1>6. /\ known \in Index /\ known.notCurves = none /\ known.pending = empty
      /\ known.usdgPools = asked.usdgPools /\ known.ponsPools = asked.ponsPools
      /\ known.curves = asked.curves /\ known.dexTrades = asked.dexTrades
      /\ known.minuteVolume = asked.minuteVolume /\ known.keepTradesFrom = asked.keepTradesFrom
      /\ known.ponsTrades = asked.ponsTrades /\ known.seen = asked.seen
      /\ known.lastBlock = asked.lastBlock /\ known.covered = asked.covered /\ known.anchors = asked.anchors
  BY <1>2, <1>3, <1>4, <1>5 DEF Index
<1>7. ReadBy(known) = ReadBy(asked)
  BY <1>6 DEF ReadBy
<1>8. Sources(known)
  BY <1>1, <1>3, <1>6 DEF Memory, Sources
<1>9. DexBook(known) /\ PonsBook(known) /\ Known(known) /\ DexKept(known) /\ Books(known)
  BY <1>1, <1>6, <1>7 DEF Memory, DexBook, PonsBook, Placed, Known, DexKept, Books
<1>10. Waiting(known)
  BY <1>4, <1>6, NoneListed DEF Waiting
<1>11. PonsKept(known, IdsOf(x.pending)) /\ IdsOf(known.ponsTrades) \cap IdsOf(x.pending) = {}
  BY <1>1, <1>6, <1>7 DEF Memory, PonsKept
<1>12. Memory(known, IdsOf(x.pending))
  BY <1>1, <1>6, <1>8, <1>9, <1>10, <1>11 DEF Memory
<1>13. Steady(x, known)
  BY <1>1, <1>6 DEF Steady, More, Unmoved
<1>14. x.curves \cup x.notCurves \cup unknown \subseteq known.curves \cup known.notCurves
  BY <1>1, <1>3, <1>6 DEF More, Unmoved
<1>15. QED
  BY <1>4, <1>6, <1>12, <1>13, <1>14

\* What the answer about the curves leaves.
Resolved(x, y, to) ==
  /\ Memory(y, {}) /\ Steady(x, y) /\ y.pending = <<>>
  /\ x.seen \subseteq y.seen /\ \A b \in y.seen : b \in x.seen \/ b <= to

LEMMA ResolveKeeps ==
  ASSUME ChainOK, NEW x, Memory(x, IdsOf(x.pending)), NEW to \in Nat, \A b \in IdsOf(x.pending) : b <= to,
         NEW y, y = resolveCurves(x, to)
  PROVE  Resolved(x, y, to)
<1>1. CASE x.pending = <<>>
  <2>1. y = x /\ IdsOf(x.pending) = {}
    BY <1>1, NoneListed DEF resolveCurves
  <2>2. QED
    BY <1>1, <2>1 DEF Resolved, Steady
<1>2. CASE x.pending # <<>>
  <2>1. PICK unknown, launches, asked, known :
          Asked(x, to, unknown, launches, asked, known) /\ y = recordWaiting(known, x.pending)
    BY <1>2, ResolveIs
  <2>2. /\ Memory(known, IdsOf(x.pending)) /\ Steady(x, known) /\ known.pending = <<>>
        /\ known.seen = asked.seen
        /\ x.curves \cup x.notCurves \cup unknown \subseteq known.curves \cup known.notCurves
    BY <2>1, CurvesKnown
  <2>3. More(x, asked, launches) /\ \A b \in launches : b <= to
    BY <2>1, PlacesAsked
  <2>4. x.pending \in Seq(Swaps) /\ OncePerEvent(x.pending)
    BY ListTypes DEF Memory, Waiting
  <2>5. ASSUME NEW t \in Range(x.pending) PROVE Waiter(known, t)
    <3>1. /\ t.id \in x.seen /\ t.id > x.lastBlock
          /\ chain[t.id].log.kind = "CURVE_TRADE" /\ emittedBy(chain[t.id].log)
          /\ Floor(t.id) <= t.at /\ t.at <= MaxTime
      <4>1. t.id \in IdsOf(x.pending)
        BY <2>5 DEF IdsOf
      <4>2. t.id \in x.seen
        BY <4>1, WaitersSeen DEF Memory
      <4>3. QED
        BY <2>5, <4>2 DEF Memory, Waiting, Placed
    <3>2. t.at \in 0..MaxTime
      <4>1. t.at \in Nat
        BY <2>5, ListTypes DEF Memory, Swaps
      <4>2. QED
        BY <3>1, <4>1, MarketAssumption
    <3>3. chain[t.id].log.place \in known.curves \cup known.notCurves
      BY <2>1, <2>2, <2>5 DEF Asked
    <3>4. t.id \in known.seen /\ known.lastBlock = x.lastBlock
      BY <2>2, <2>3, <3>1 DEF More, Steady
    <3>5. QED
      BY <3>1, <3>2, <3>3, <3>4 DEF Waiter
  <2>6. Memory(y, {}) /\ Steady(known, y) /\ y.seen = known.seen /\ y.pending = known.pending
    BY <2>1, <2>2, <2>4, <2>5, WaitersRecorded
  <2>7. QED
    BY <2>2, <2>3, <2>6 DEF Resolved, Steady, More
<1>3. QED
  BY <1>1, <1>2

-----------------------------------------------------------------------------
(***************************************************************************)
(* The end of a range: the traders are named and the range is closed.      *)
(***************************************************************************)

\* Every trader of the list is known.
Named(list) == \A t \in Range(list) : t.wallet # NoWallet

LEMMA SenderFound ==
  ASSUME NEW t \in Activities, NEW found, t.wallet = NoWallet => t.id \in found, NEW u, u = withSender(t, found)
  PROVE  u \in Activities /\ u.id = t.id /\ u.at = t.at /\ u.wallet # NoWallet
<1>1. NoWallet # Sender
  BY DEF NoWallet, Sender
<1>2. CASE t.wallet = NoWallet
  <2>1. u = [t EXCEPT !.wallet = Sender]
    BY <1>2 DEF withSender
  <2>2. QED
    BY <1>1, <2>1 DEF Activities
<1>3. CASE t.wallet # NoWallet
  BY <1>3 DEF withSender
<1>4. QED
  BY <1>2, <1>3

LEMMA SendersKnown ==
  ASSUME ChainOK, NEW x, Memory(x, {}), NEW y, y = resolveSenders(x)
  PROVE  /\ Memory(y, {}) /\ Steady(x, y) /\ Named(y.ponsTrades)
         /\ y.seen = x.seen /\ y.pending = x.pending
<1>1. x \in Index /\ x.ponsTrades \in Seq(Activities)
  BY ListTypes DEF Memory
<1>2. PICK list, n : list = x.ponsTrades /\ n = Len(list) /\ DOMAIN list = 1..n /\ n \in Nat
  BY <1>1, LenProperties
<1>3. \A i \in 1..n : list[i] \in Activities /\ list[i] \in Range(list)
  <2>1. \A i \in 1..n : list[i] \in Activities
    BY <1>1, <1>2, ElementOfSeq
  <2>2. QED
    BY <1>2, <2>1 DEF Range
<1>4. PICK found : /\ found = x.senders \cup {t.id : t \in {u \in Range(list) : u.wallet = NoWallet}}
                   /\ found \in SUBSET Nat
  <2>1. PICK found : found = x.senders \cup {t.id : t \in {u \in Range(list) : u.wallet = NoWallet}}
    OBVIOUS
  <2>2. x.senders \in SUBSET Nat
    BY <1>1 DEF Index
  <2>3. \A t \in Range(list) : t.id \in Nat
    BY <1>1, <1>2, ListTypes
  <2>4. found \in SUBSET Nat
    BY <2>1, <2>2, <2>3
  <2>5. QED
    BY <2>1, <2>4
<1>5. PICK new : new = [i \in 1..n |-> withSender(list[i], found)]
  OBVIOUS
<1>6. \A i \in 1..n : /\ new[i] \in Activities /\ new[i].id = list[i].id /\ new[i].at = list[i].at
                      /\ new[i].wallet # NoWallet
  <2>1. SUFFICES ASSUME NEW i \in 1..n
                 PROVE  /\ new[i] \in Activities /\ new[i].id = list[i].id /\ new[i].at = list[i].at
                        /\ new[i].wallet # NoWallet
    OBVIOUS
  <2>2. PICK t \in Activities : t = list[i] /\ t \in Range(list)
    BY <1>3
  <2>3. t.wallet = NoWallet => t.id \in found
    BY <1>4, <2>2
  <2>4. new[i] = withSender(t, found)
    BY <1>5, <2>2
  <2>5. QED
    BY <2>2, <2>3, <2>4, SenderFound
<1>7. new \in Seq(Activities) /\ DOMAIN new = 1..n
  <2>1. new \in [1..n -> Activities]
    BY <1>5, <1>6
  <2>2. DOMAIN new = 1..n /\ n \in Nat
    BY <1>2, <1>5
  <2>3. QED
    BY <2>1, <2>2, SeqDef
<1>8. y = [x EXCEPT !.senders = found, !.ponsTrades = new]
  BY <1>2, <1>4, <1>5 DEF resolveSenders
<1>9. /\ y \in Index /\ y.ponsTrades = new
      /\ y.usdgPools = x.usdgPools /\ y.ponsPools = x.ponsPools /\ y.curves = x.curves
      /\ y.notCurves = x.notCurves /\ y.pending = x.pending /\ y.dexTrades = x.dexTrades
      /\ y.minuteVolume = x.minuteVolume /\ y.keepTradesFrom = x.keepTradesFrom /\ y.seen = x.seen
      /\ y.lastBlock = x.lastBlock /\ y.covered = x.covered /\ y.anchors = x.anchors
  BY <1>1, <1>4, <1>7, <1>8 DEF Index
<1>10. ReadBy(y) = ReadBy(x)
  BY <1>9 DEF ReadBy
<1>11. \A u \in Range(new) : u.wallet # NoWallet /\ \E t \in Range(list) : u.id = t.id /\ u.at = t.at
  BY <1>3, <1>6, <1>7 DEF Range
<1>12. IdsOf(new) = IdsOf(list)
  <2>1. \A u \in Range(new) : \E t \in Range(list) : u.id = t.id
    BY <1>11
  <2>2. \A t \in Range(list) : \E u \in Range(new) : u.id = t.id
    BY <1>2, <1>6, <1>7 DEF Range
  <2>3. QED
    BY <2>1, <2>2 DEF IdsOf
<1>13. OncePerEvent(new) /\ InTimeOrder(new)
  <2>1. OncePerEvent(list) /\ InTimeOrder(list)
    BY <1>2 DEF Memory, PonsBook
  <2>2. QED
    BY <1>2, <1>6, <1>7, <2>1 DEF OncePerEvent, InTimeOrder
<1>14. PonsBook(y)
  <2>1. ASSUME NEW u \in Range(new)
        PROVE  PonsTradeOn(u.id) /\ Placed(y, u) /\ (u.wallet = NoWallet => u.id > y.lastBlock)
    <3>1. PICK t \in Range(list) : u.id = t.id /\ u.at = t.at
      BY <1>11, <2>1
    <3>2. PonsTradeOn(t.id) /\ Placed(x, t)
      BY <1>2, <3>1 DEF Memory, PonsBook
    <3>3. QED
      BY <1>10, <1>11, <2>1, <3>1, <3>2 DEF Placed
  <2>2. QED
    BY <1>9, <1>13, <2>1 DEF PonsBook
<1>15. Sources(y) /\ DexBook(y) /\ Waiting(y) /\ Known(y) /\ DexKept(y) /\ Books(y)
  BY <1>9, <1>10 DEF Memory, Sources, DexBook, Waiting, Placed, Known, DexKept, Books
<1>16. PonsKept(y, {})
  BY <1>2, <1>9, <1>10, <1>12 DEF Memory, PonsKept
<1>17. Memory(y, {})
  BY <1>9, <1>14, <1>15, <1>16 DEF Memory
<1>18. QED
  BY <1>9, <1>11, <1>17 DEF Steady, Named

\* A block that was read is of the chain.
LEMMA InChain ==
  ASSUME ChainOK, NEW x, NEW waits, Memory(x, waits), NEW b \in ReadBy(x)
  PROVE  b \in Blocks
<1>1. PICK n \in Nat : n = Len(chain) /\ Blocks = 1..n
  BY ChainType
<1>2. x.lastBlock \in Nat /\ x.lastBlock <= n
  BY <1>1 DEF Memory, Index
<1>3. 1..x.lastBlock \subseteq 1..n
  BY <1>2
<1>4. QED
  BY <1>1, <1>3 DEF ReadBy, Memory

LEMMA MinutesNat ==
  ASSUME NEW m \in Minutes
  PROVE  m \in Nat
<1>1. MaxTime \in Nat /\ MINUTE \in Nat \ {0}
  BY MarketAssumption
<1>2. MaxTime \div MINUTE \in Nat
  BY <1>1, Halves
<1>3. QED
  BY <1>2 DEF Minutes

\* What has to be so for everything up to `to` to count as read.
Closable(x, to) ==
  /\ to \in Blocks /\ x.lastBlock <= to /\ x.covered <= Times[to]
  /\ x.pending = <<>> /\ Named(x.ponsTrades)
  /\ \A b \in (x.lastBlock + 1)..to : b \notin x.seen =>
       /\ \A kind \in PoolKinds : \A p : ~Emits(b, kind, p)
       /\ DexTradeOn(b) => Floor(b) <= x.keepTradesFrom
       /\ PonsTradeOn(b) => Floor(b) <= AgoFrom(Times[to], PONS_RETENTION)

LEMMA AgoInOrder ==
  ASSUME NEW s \in Nat, NEW t \in Nat, NEW d \in Nat, NEW e \in Nat, s <= t, e <= d
  PROVE  AgoFrom(s, d) \in Nat /\ AgoFrom(s, d) <= AgoFrom(t, e) /\ AgoFrom(t, e) \in Nat
BY DEF AgoFrom

LEMMA AgoNat ==
  ASSUME NEW t \in Nat, NEW d \in Nat
  PROVE  AgoFrom(t, d) \in Nat
BY DEF AgoFrom

\* y is x with everything up to `to` read.
UpTo(x, y, to) == y = [x EXCEPT !.lastBlock = to, !.covered = Times[to]]

LEMMA RangeClosed ==
  ASSUME ChainOK, NEW x, Memory(x, {}), NEW to, Closable(x, to), NEW y, UpTo(x, y, to)
  PROVE  /\ Memory(y, {}) /\ y.lastBlock = to /\ y.covered = Times[to] /\ y.pending = <<>>
         /\ y.seen = x.seen /\ y.keepTradesFrom = x.keepTradesFrom
<1>1. x \in Index /\ to \in Nat /\ Times[to] \in Nat
  BY ChainType, FloorBounds DEF Memory, Closable
<1>2. PICK time : time = Times[to] /\ time \in Nat
  BY <1>1
<1>3. y = [x EXCEPT !.lastBlock = to, !.covered = time]
  BY <1>2 DEF UpTo
<1>4. /\ y \in Index /\ y.lastBlock = to /\ y.covered = time /\ y.ponsTrades = x.ponsTrades
      /\ y.usdgPools = x.usdgPools /\ y.ponsPools = x.ponsPools /\ y.curves = x.curves
      /\ y.notCurves = x.notCurves /\ y.pending = x.pending /\ y.dexTrades = x.dexTrades
      /\ y.minuteVolume = x.minuteVolume /\ y.keepTradesFrom = x.keepTradesFrom /\ y.seen = x.seen
      /\ y.anchors = x.anchors
  BY <1>1, <1>2, <1>3 DEF Index
<1>5. PICK last : last = x.lastBlock /\ last \in Nat /\ last <= to
  BY <1>1 DEF Index, Closable
<1>6. \A b \in ReadBy(y) : b \in ReadBy(x) \/ (b \in (last + 1)..to /\ b \notin x.seen)
  <2>1. \A b \in 1..to : b \in 1..last \/ b \in (last + 1)..to
    BY <1>1, <1>5
  <2>2. QED
    BY <1>4, <1>5, <2>1 DEF ReadBy
<1>7. ReadBy(x) \subseteq ReadBy(y)
  <2>1. 1..last \subseteq 1..to
    BY <1>1, <1>5
  <2>2. QED
    BY <1>4, <1>5, <2>1 DEF ReadBy
<1>8. \A b \in ReadBy(y) : b \in ReadBy(x) \/
        /\ b \notin x.seen
        /\ \A kind \in PoolKinds : \A p : ~Emits(b, kind, p)
        /\ DexTradeOn(b) => Floor(b) <= x.keepTradesFrom
        /\ PonsTradeOn(b) => Floor(b) <= AgoFrom(time, PONS_RETENTION)
  BY <1>2, <1>5, <1>6 DEF Closable
<1>9. Sources(y) /\ Books(y) /\ Waiting(y)
  <2>1. Range(y.pending) = {} /\ OncePerEvent(y.pending)
    BY <1>4, NoneListed DEF Closable
  <2>2. QED
    BY <1>4, <2>1 DEF Memory, Sources, Books, Waiting
<1>10. DexBook(y)
  BY <1>4, <1>7 DEF Memory, DexBook, Placed
<1>11. PonsBook(y)
  BY <1>4, <1>7 DEF Memory, PonsBook, Placed, Closable, Named
<1>12. Known(y)
  <2>1. SUFFICES ASSUME NEW b \in ReadBy(y), emittedBy(chain[b].log)
                 PROVE  /\ chain[b].log.kind = "INITIALIZE" => chain[b].log.place \in y.usdgPools
                        /\ chain[b].log.kind = "REGISTER" => chain[b].log.place \in y.ponsPools
                        /\ chain[b].log.kind = "LAUNCH" /\ b \in y.seen => chain[b].log.place \in y.curves
    BY DEF Known
  <2>2. CASE b \in ReadBy(x)
    BY <1>4, <2>1, <2>2 DEF Memory, Known
  <2>3. CASE b \notin ReadBy(x)
    <3>1. b \notin x.seen /\ \A kind \in PoolKinds : \A p : ~Emits(b, kind, p)
      BY <1>8, <2>1, <2>3
    <3>2. QED
      BY <1>4, <2>1, <3>1 DEF Emits, PoolKinds
  <2>4. QED
    BY <2>2, <2>3
<1>13. DexKept(y)
  <2>1. SUFFICES ASSUME NEW b \in ReadBy(y), DexTradeOn(b), Floor(b) > y.keepTradesFrom
                 PROVE  b \in IdsOf(y.dexTrades)
    BY DEF DexKept
  <2>2. b \in Blocks /\ Floor(b) \in Nat /\ x.keepTradesFrom \in Nat
    <3>1. b \in Blocks
      <4>1. PICK n \in Nat : Blocks = 1..n
        BY ChainType
      <4>2. 1..to \subseteq 1..n
        BY <1>1, <4>1 DEF Closable
      <4>3. QED
        BY <1>4, <2>1, <4>1, <4>2 DEF ReadBy, Memory
    <3>2. QED
      BY <1>1, <3>1, FloorBounds DEF Index
  <2>3. b \in ReadBy(x)
    BY <1>4, <1>8, <2>1, <2>2
  <2>4. QED
    BY <1>4, <2>1, <2>3 DEF Memory, DexKept
<1>14. PonsKept(y, {})
  <2>1. SUFFICES ASSUME NEW b \in ReadBy(y), PonsTradeOn(b), Floor(b) > AgoFrom(y.covered, PONS_RETENTION)
                 PROVE  b \in IdsOf(y.ponsTrades)
    BY DEF PonsKept
  <2>2. PICK old, new : /\ old = AgoFrom(x.covered, PONS_RETENTION) /\ old \in Nat
                        /\ new = AgoFrom(time, PONS_RETENTION) /\ new \in Nat /\ old <= new
    <3>1. x.covered \in Nat /\ x.covered <= time /\ PONS_RETENTION \in Nat /\ PONS_RETENTION <= PONS_RETENTION
      BY <1>1, <1>2, MarketAssumption DEF Index, Closable
    <3>2. PICK s, d : s = x.covered /\ d = PONS_RETENTION
      OBVIOUS
    <3>3. s \in Nat /\ s <= time /\ d \in Nat /\ d <= d /\ time \in Nat
      BY <1>2, <3>1, <3>2
    <3>4. AgoFrom(s, d) \in Nat /\ AgoFrom(s, d) <= AgoFrom(time, d) /\ AgoFrom(time, d) \in Nat
      BY ONLY <3>3, AgoInOrder
    <3>5. QED
      BY <3>2, <3>4
  <2>3. b \in Blocks /\ Floor(b) \in Nat
    <3>1. b \in Blocks
      <4>1. PICK n \in Nat : Blocks = 1..n
        BY ChainType
      <4>2. 1..to \subseteq 1..n
        BY <1>1, <4>1 DEF Closable
      <4>3. QED
        BY <1>4, <2>1, <4>1, <4>2 DEF ReadBy, Memory
    <3>2. QED
      BY <3>1, FloorBounds
  <2>4. b \in ReadBy(x)
    BY <1>4, <1>8, <2>1, <2>2, <2>3
  <2>5. b \in IdsOf(x.ponsTrades) \cup {}
    BY <1>4, <2>1, <2>2, <2>3, <2>4 DEF Memory, PonsKept
  <2>6. QED
    BY <1>4, <2>5
<1>15. to <= Len(chain)
  <2>1. PICK n \in Nat : n = Len(chain) /\ Blocks = 1..n
    BY ChainType
  <2>2. QED
    BY <2>1 DEF Closable
<1>16. Memory(y, {})
  BY <1>4, <1>9, <1>10, <1>11, <1>12, <1>13, <1>14, <1>15 DEF Memory
<1>17. QED
  BY <1>2, <1>4, <1>16 DEF Closable

-----------------------------------------------------------------------------
(***************************************************************************)
(* What a prune leaves.                                                    *)
(***************************************************************************)

\* The volume of a minute kept is that of the trades kept.
LEMMA SameWorth ==
  ASSUME NEW old, NEW cutoff \in Nat, NEW new, \A t \in Range(old) : t.at \in Nat,
         Range(new) = {t \in Range(old) : t.at >= cutoff}, NEW m \in Nat, m * MINUTE >= cutoff
  PROVE  VolumeHeld(new, m) = VolumeHeld(old, m)
<1>1. MINUTE \in Nat \ {0}
  BY MarketAssumption
<1>2. \A t \in Range(old) : t.at \div MINUTE = m => t.at >= cutoff
  <2>1. SUFFICES ASSUME NEW t \in Range(old), t.at \div MINUTE = m PROVE t.at >= cutoff
    OBVIOUS
  <2>2. PICK at \in Nat : at = t.at
    OBVIOUS
  <2>3. at = MINUTE * (at \div MINUTE) + (at % MINUTE) /\ at % MINUTE \in 0..(MINUTE - 1)
    BY <1>1, Halves
  <2>4. PICK r, q : r = at % MINUTE /\ q = at \div MINUTE
    OBVIOUS
  <2>5. q = m /\ r \in Nat /\ at = MINUTE * m + r
    BY <1>1, <2>1, <2>2, <2>3, <2>4
  <2>6. m * MINUTE = MINUTE * m /\ MINUTE * m \in Nat
    BY <1>1
  <2>7. QED
    BY <2>2, <2>5, <2>6
<1>3. \A c : (\E t \in Range(new) : t.id = c /\ t.at \div MINUTE = m) <=>
             (\E t \in Range(old) : t.id = c /\ t.at \div MINUTE = m)
  BY <1>2
<1>4. WorthOf(new, m) = WorthOf(old, m)
  BY <1>3 DEF WorthOf
<1>5. QED
  BY <1>4, VolumeIs

\* The fields of a memory that was pruned.
Cut(x, y, trades, pons, oldest) ==
  /\ y.keepTradesFrom = trades
  /\ y.minuteVolume = [m \in Minutes |-> IF m < oldest THEN 0 ELSE x.minuteVolume[m]]
  /\ y.dexTrades = dropBefore(x.dexTrades, trades)
  /\ y.ponsTrades = dropBefore(x.ponsTrades, pons)
  /\ y.anchors \subseteq x.anchors /\ y.seen \in {x.seen, {}} /\ y.notCurves \subseteq x.notCurves
  /\ y.usdgPools = x.usdgPools /\ y.ponsPools = x.ponsPools /\ y.curves = x.curves
  /\ y.pending = x.pending
  /\ y.lastBlock = x.lastBlock /\ y.covered = x.covered

LEMMA PruneIs ==
  ASSUME NEW x \in Index, InTimeOrder(x.dexTrades), InTimeOrder(x.ponsTrades), NEW y, y = prune(x),
         NEW trades \in Nat, trades = AgoFrom(x.covered, TRADE_RETENTION),
         NEW pons \in Nat, pons = AgoFrom(x.covered, PONS_RETENTION),
         NEW oldest \in Nat, oldest = AgoFrom(x.covered, VOLUME_RETENTION) \div MINUTE
  PROVE  y \in Index /\ Cut(x, y, trades, pons, oldest)
<1>1. /\ x.dexTrades \in Seq(Swaps) /\ x.ponsTrades \in Seq(Activities)
      /\ x.minuteVolume \in [Minutes -> Nat] /\ x.anchors \in SUBSET Nat /\ x.seen \in SUBSET Nat
  BY ListTypes DEF Index
<1>2. PICK dex : dex = dropBefore(x.dexTrades, trades) /\ dex \in Seq(Swaps)
  BY <1>1, SwapDates, DropKeeps
<1>3. PICK acts : acts = dropBefore(x.ponsTrades, pons) /\ acts \in Seq(Activities)
  BY <1>1, SwapDates, DropKeeps
<1>4. PICK volume : /\ volume = [m \in Minutes |-> IF m < oldest THEN 0 ELSE x.minuteVolume[m]]
                    /\ volume \in [Minutes -> Nat]
  <2>1. \A m \in Minutes : (IF m < oldest THEN 0 ELSE x.minuteVolume[m]) \in Nat
    BY <1>1
  <2>2. PICK volume : volume = [m \in Minutes |-> IF m < oldest THEN 0 ELSE x.minuteVolume[m]]
    OBVIOUS
  <2>3. volume \in [Minutes -> Nat]
    BY <2>1, <2>2
  <2>4. QED
    BY <2>2, <2>3
<1>5. PICK anchors : /\ anchors = forgetBefore(Times, x.anchors, AgoFrom(x.covered,
                                    Greatest({VOLUME_RETENTION, TRADE_RETENTION, PONS_RETENTION})))
                     /\ anchors \subseteq x.anchors
  BY DEF forgetBefore
<1>6. PICK seen : seen = (IF Cardinality(x.seen) > SEEN_CAP THEN {} ELSE x.seen) /\ seen \in {x.seen, {}}
  OBVIOUS
<1>a. PICK senders, none :
        /\ senders = (IF Cardinality(x.senders) > SENDERS_CAP THEN {} ELSE x.senders)
        /\ none = (IF Cardinality(x.notCurves) > NOT_CURVES_CAP THEN {} ELSE x.notCurves)
        /\ senders \in SUBSET Nat /\ none \subseteq x.notCurves /\ none \in SUBSET STRING
  <2>1. x.senders \in SUBSET Nat /\ x.notCurves \in SUBSET STRING
    BY DEF Index
  <2>2. PICK senders, none :
          /\ senders = (IF Cardinality(x.senders) > SENDERS_CAP THEN {} ELSE x.senders)
          /\ none = (IF Cardinality(x.notCurves) > NOT_CURVES_CAP THEN {} ELSE x.notCurves)
    OBVIOUS
  <2>3. senders \in SUBSET Nat
    BY <2>1, <2>2
  <2>4. none \subseteq x.notCurves /\ none \in SUBSET STRING
    BY <2>1, <2>2
  <2>5. QED
    BY <2>2, <2>3, <2>4
<1>7. y = [x EXCEPT !.keepTradesFrom = trades, !.minuteVolume = volume, !.dexTrades = dex,
                    !.ponsTrades = acts, !.anchors = anchors, !.seen = seen,
                    !.senders = senders, !.notCurves = none]
  BY <1>2, <1>3, <1>4, <1>5, <1>6, <1>a DEF prune
<1>8. anchors \in SUBSET Nat /\ seen \in SUBSET Nat
  BY <1>1, <1>5, <1>6
<1>9. /\ y \in Index /\ y.keepTradesFrom = trades /\ y.minuteVolume = volume /\ y.dexTrades = dex
      /\ y.ponsTrades = acts /\ y.anchors = anchors /\ y.seen = seen
      /\ y.usdgPools = x.usdgPools /\ y.ponsPools = x.ponsPools /\ y.curves = x.curves
      /\ y.notCurves = none /\ y.pending = x.pending
      /\ y.lastBlock = x.lastBlock /\ y.covered = x.covered
  <2>1. y \in Index
    <3>1. /\ trades \in Nat /\ volume \in [Minutes -> Nat] /\ dex \in Seq(Swaps)
          /\ acts \in Seq(Activities) /\ anchors \in SUBSET Nat /\ seen \in SUBSET Nat
          /\ senders \in SUBSET Nat /\ none \in SUBSET STRING
      BY <1>2, <1>3, <1>4, <1>8, <1>a
    <3>2. QED
      BY <1>7, <3>1 DEF Index
  <2>2. /\ y.keepTradesFrom = trades /\ y.minuteVolume = volume /\ y.dexTrades = dex
        /\ y.ponsTrades = acts /\ y.anchors = anchors /\ y.seen = seen
    BY <1>7 DEF Index
  <2>3. /\ y.usdgPools = x.usdgPools /\ y.ponsPools = x.ponsPools /\ y.curves = x.curves
        /\ y.notCurves = none /\ y.pending = x.pending
        /\ y.lastBlock = x.lastBlock /\ y.covered = x.covered
    BY <1>7 DEF Index
  <2>4. QED
    BY <2>1, <2>2, <2>3
<1>10. QED
  BY <1>2, <1>3, <1>4, <1>5, <1>6, <1>a, <1>9 DEF Cut

LEMMA PruneKeeps ==
  ASSUME ChainOK, NEW x, Memory(x, {}), \A b \in x.seen : b <= x.lastBlock,
         x.keepTradesFrom <= AgoFrom(x.covered, TRADE_RETENTION), NEW y, y = prune(x)
  PROVE  /\ Memory(y, {}) /\ y.lastBlock = x.lastBlock /\ y.covered = x.covered /\ y.pending = x.pending
         /\ y.keepTradesFrom = AgoFrom(x.covered, TRADE_RETENTION) /\ y.seen \subseteq x.seen
<1>1. x \in Index /\ x.covered \in Nat /\ x.keepTradesFrom \in Nat /\ x.lastBlock \in Nat
  BY DEF Memory, Index
<1>2. PICK trades \in Nat : trades = AgoFrom(x.covered, TRADE_RETENTION)
  BY <1>1, MarketAssumption, AgoNat
<1>3. PICK pons \in Nat : pons = AgoFrom(x.covered, PONS_RETENTION)
  BY <1>1, MarketAssumption, AgoNat
<1>4. PICK first \in Nat : first = AgoFrom(x.covered, VOLUME_RETENTION) /\ first <= trades
  <2>1. TRADE_RETENTION \in Nat /\ VOLUME_RETENTION \in Nat /\ TRADE_RETENTION <= VOLUME_RETENTION
    BY MarketAssumption
  <2>2. x.covered <= x.covered
    BY <1>1
  <2>3. QED
    BY <1>1, <1>2, <2>1, <2>2, AgoInOrder
<1>5. MINUTE \in Nat \ {0}
  BY MarketAssumption
<1>6. PICK oldest \in Nat : oldest = first \div MINUTE
  BY <1>5, Halves
<1>7. /\ InTimeOrder(x.dexTrades) /\ InTimeOrder(x.ponsTrades)
      /\ OncePerEvent(x.dexTrades) /\ OncePerEvent(x.ponsTrades)
  BY DEF Memory, DexBook, PonsBook
<1>8. y \in Index /\ Cut(x, y, trades, pons, oldest)
  BY <1>1, <1>2, <1>3, <1>4, <1>6, <1>7, PruneIs
<1>9. /\ Range(y.dexTrades) = {t \in Range(x.dexTrades) : t.at >= trades}
      /\ InTimeOrder(y.dexTrades) /\ OncePerEvent(y.dexTrades)
  <2>1. x.dexTrades \in Seq(Swaps) /\ y.dexTrades = dropBefore(x.dexTrades, trades)
    BY <1>1, <1>8, ListTypes DEF Cut
  <2>2. QED
    BY <1>7, <2>1, SwapDates, DropKeeps
<1>10. /\ Range(y.ponsTrades) = {t \in Range(x.ponsTrades) : t.at >= pons}
       /\ InTimeOrder(y.ponsTrades) /\ OncePerEvent(y.ponsTrades)
  <2>1. x.ponsTrades \in Seq(Activities) /\ y.ponsTrades = dropBefore(x.ponsTrades, pons)
    BY <1>1, <1>8, ListTypes DEF Cut
  <2>2. PICK old, new : old = x.ponsTrades /\ new = y.ponsTrades
    OBVIOUS
  <2>3. /\ old \in Seq(Activities) /\ InTimeOrder(old) /\ OncePerEvent(old)
        /\ new = dropBefore(old, pons) /\ \A t \in Activities : t.at \in Nat
    BY <1>7, <2>1, <2>2, SwapDates
  <2>4. QED
    BY <2>2, <2>3, DropKeeps
<1>11. ReadBy(y) = ReadBy(x)
  <2>1. x.seen \subseteq 1..x.lastBlock
    <3>1. PICK n \in Nat : Blocks = 1..n
      BY ChainType
    <3>2. \A b \in x.seen : b \in 1..n /\ b <= x.lastBlock
      BY <3>1 DEF Memory
    <3>3. QED
      BY <1>1, <3>1, <3>2
  <2>2. QED
    BY <1>8, <2>1 DEF Cut, ReadBy
<1>12. Sources(y) /\ Waiting(y)
  BY <1>8, <1>11 DEF Memory, Cut, Sources, Waiting, Placed
<1>13. Known(y)
  BY <1>8, <1>11 DEF Memory, Cut, Known
<1>14. DexBook(y)
  BY <1>9, <1>11 DEF Memory, DexBook, Placed
<1>15. PonsBook(y)
  BY <1>8, <1>10, <1>11 DEF Memory, Cut, PonsBook, Placed
<1>16. DexKept(y)
  <2>1. SUFFICES ASSUME NEW b \in ReadBy(x), DexTradeOn(b), Floor(b) > trades
                 PROVE  b \in IdsOf(y.dexTrades)
    BY <1>8, <1>11 DEF DexKept, Cut
  <2>2. b \in Blocks
    BY <2>1, InChain
  <2>3. Floor(b) \in Nat
    BY <2>2, FloorBounds
  <2>4. Floor(b) > x.keepTradesFrom
    BY <1>1, <1>2, <2>1, <2>3
  <2>5. PICK t \in Range(x.dexTrades) : t.id = b
    BY <2>1, <2>4 DEF Memory, DexKept, IdsOf
  <2>6. Floor(b) <= t.at /\ t.at \in Nat
    BY <1>1, <2>5, ListTypes DEF Memory, DexBook, Placed
  <2>7. t \in Range(y.dexTrades)
    BY <1>9, <2>1, <2>3, <2>5, <2>6
  <2>8. QED
    BY <2>5, <2>7 DEF IdsOf
<1>17. PonsKept(y, {})
  <2>1. SUFFICES ASSUME NEW b \in ReadBy(x), PonsTradeOn(b), Floor(b) > pons
                 PROVE  b \in IdsOf(y.ponsTrades)
    BY <1>3, <1>8, <1>11 DEF PonsKept, Cut
  <2>2. b \in Blocks
    BY <2>1, InChain
  <2>3. Floor(b) \in Nat
    BY <2>2, FloorBounds
  <2>4. b \in IdsOf(x.ponsTrades) \cup {}
    BY <1>3, <2>1 DEF Memory, PonsKept
  <2>5. PICK t \in Range(x.ponsTrades) : t.id = b
    BY <2>4 DEF IdsOf
  <2>6. Floor(b) <= t.at /\ t.at \in Nat
    BY <1>1, <2>5, ListTypes DEF Memory, PonsBook, Placed
  <2>7. t \in Range(y.ponsTrades)
    BY <1>10, <2>1, <2>3, <2>5, <2>6
  <2>8. QED
    BY <2>5, <2>7 DEF IdsOf
<1>18. Books(y)
  <2>1. SUFFICES ASSUME NEW m \in Minutes, m * MINUTE >= trades
                 PROVE  y.minuteVolume[m] = VolumeHeld(y.dexTrades, m)
    BY <1>8 DEF Books, Cut
  <2>2. m \in Nat
    BY MinutesNat
  <2>3. PICK begin \in Nat : begin = m * MINUTE /\ begin >= trades
    BY <1>5, <2>1, <2>2
  <2>4. begin >= x.keepTradesFrom
    BY <1>1, <1>2, <2>3
  <2>5. x.minuteVolume[m] = VolumeHeld(x.dexTrades, m)
    BY <2>3, <2>4 DEF Memory, Books
  <2>6. oldest <= m
    <3>1. MINUTE * (m + 1) = begin + MINUTE
      BY <1>5, <2>2, <2>3
    <3>2. first < MINUTE * (m + 1)
      BY <1>4, <1>5, <2>3, <3>1
    <3>3. QED
      BY <1>5, <1>6, <2>2, <3>2, DivideUpTo
  <2>7. y.minuteVolume[m] = x.minuteVolume[m]
    BY <1>8, <2>2, <2>6 DEF Cut
  <2>8. VolumeHeld(y.dexTrades, m) = VolumeHeld(x.dexTrades, m)
    <3>1. \A t \in Range(x.dexTrades) : t.at \in Nat
      BY <1>1, ListTypes
    <3>2. QED
      BY <1>9, <2>1, <2>2, <3>1, SameWorth
  <2>9. QED
    BY <2>5, <2>7, <2>8
<1>19. IdsOf(y.ponsTrades) \cap {} = {}
  OBVIOUS
<1>20. y.seen \subseteq x.seen /\ y.seen \subseteq Blocks /\ y.anchors \subseteq Blocks /\ y.lastBlock <= Len(chain)
  BY <1>8 DEF Cut, Memory
<1>21. Memory(y, {})
  BY <1>8, <1>12, <1>13, <1>14, <1>15, <1>16, <1>17, <1>18, <1>19, <1>20 DEF Memory
<1>22. QED
  BY <1>2, <1>8, <1>20, <1>21 DEF Cut

-----------------------------------------------------------------------------
(***************************************************************************)
(* A memory of nothing, and a memory of a chain that grew.                 *)
(***************************************************************************)

LEMMA ZeroSum ==
  ASSUME NEW d, IsFiniteSet(d), NEW f \in [d -> Nat], \A x \in d : f[x] = 0
  PROVE  SumFunction(f) = 0
<1>1. PICK pick : pick = [s \in SUBSET d |-> CHOOSE x \in s : TRUE]
  OBVIOUS
<1>2. \A s \in SUBSET d : s # {} => pick[s] \in s
  BY <1>1
<1>3. PICK g : Sums(d, f, pick, g)
  BY <1>1, SumUnfolds
<1> DEFINE K == {p \in (SUBSET d) \X {0} : TRUE}
<1>4. <<{}, g[{}]>> \in K
  BY <1>3 DEF Sums
<1>5. ASSUME NEW s \in SUBSET d, s # {}, <<s \ {pick[s]}, g[s \ {pick[s]}]>> \in K PROVE <<s, g[s]>> \in K
  <2>1. g[s \ {pick[s]}] = 0 /\ pick[s] \in d
    BY <1>2, <1>5
  <2>2. f[pick[s]] = 0
    BY <2>1
  <2>3. g[s] = f[pick[s]] + g[s \ {pick[s]}]
    BY <1>3, <1>5 DEF Sums
  <2>4. g[s] = 0
    BY <2>1, <2>2, <2>3
  <2>5. QED
    BY <2>4
<1>6. <<d, g[d]>> \in K
  <2> HIDE DEF K
  <2>1. QED
    BY <1>2, <1>4, <1>5, FoldInduct
<1>7. QED
  BY <1>3, <1>6 DEF Sums

LEMMA NoVolume ==
  ASSUME ChainOK, NEW trades, trades = <<>>, NEW m
  PROVE  VolumeHeld(trades, m) = 0
<1>1. Range(trades) = {}
  BY NoneListed
<1>2. PICK f : f = WorthOf(trades, m)
  OBVIOUS
<1>3. f \in [1..MaxBlocks -> Nat] /\ \A c \in 1..MaxBlocks : f[c] = 0
  <2>1. f \in [1..MaxBlocks -> Nat]
    BY <1>1, <1>2, WorthType
  <2>2. QED
    BY <1>1, <1>2, <2>1 DEF WorthOf
<1>4. IsFiniteSet(1..MaxBlocks)
  <2>1. MaxBlocks \in Nat
    BY MarketAssumption
  <2>2. QED
    BY <2>1, FS_Interval
<1>5. SumFunction(f) = 0
  BY <1>3, <1>4, ZeroSum
<1>6. QED
  BY <1>2, <1>5, VolumeIs

\* A memory of nothing, but for where trades start to be kept.
Blank(x, k) ==
  /\ x.usdgPools = {} /\ x.ponsPools = {} /\ x.curves = {} /\ x.notCurves = {} /\ x.pending = <<>>
  /\ x.dexTrades = <<>> /\ x.minuteVolume = [m \in Minutes |-> 0] /\ x.keepTradesFrom = k
  /\ x.ponsTrades = <<>> /\ x.seen = {} /\ x.lastBlock = 0 /\ x.covered = 0

LEMMA FreshBlank ==
  Fresh \in Index /\ Blank(Fresh, 0) /\ Fresh.anchors = {}
<1>1. PICK empty, volume : empty = <<>> /\ volume = [m \in Minutes |-> 0]
  OBVIOUS
<1>2. empty \in Seq(Swaps) /\ empty \in Seq(Activities) /\ volume \in [Minutes -> Nat]
  BY <1>1, NoneListed
<1>3. Fresh = [usdgPools |-> {}, ponsPools |-> {}, curves |-> {}, notCurves |-> {},
               pending |-> empty, dexTrades |-> empty, minuteVolume |-> volume,
               keepTradesFrom |-> 0, ponsTrades |-> empty, seen |-> {}, senders |-> {},
               lastBlock |-> 0, covered |-> 0, anchors |-> {}, fineFromBlock |-> 1]
  BY <1>1 DEF Fresh
<1>4. QED
  BY <1>1, <1>2, <1>3 DEF Index, Blank

LEMMA BlankMemory ==
  ASSUME ChainOK, NEW x \in Index, NEW k \in Nat, Blank(x, k), x.anchors \subseteq Blocks
  PROVE  Memory(x, {}) /\ IdsOf(x.pending) = {}
<1>1. /\ Range(x.pending) = {} /\ Range(x.dexTrades) = {} /\ Range(x.ponsTrades) = {}
      /\ IdsOf(x.pending) = {} /\ OncePerEvent(x.pending)
      /\ OncePerEvent(x.dexTrades) /\ InTimeOrder(x.dexTrades)
      /\ OncePerEvent(x.ponsTrades) /\ InTimeOrder(x.ponsTrades)
  BY NoneListed DEF Blank
<1>2. ReadBy(x) = {}
  BY DEF Blank, ReadBy
<1>3. Sources(x) /\ DexBook(x) /\ PonsBook(x) /\ Waiting(x) /\ Known(x) /\ DexKept(x) /\ PonsKept(x, {})
  BY <1>1, <1>2 DEF Blank, Sources, DexBook, PonsBook, Waiting, Known, DexKept, PonsKept
<1>4. Books(x)
  BY NoVolume DEF Blank, Books
<1>5. 0 <= Len(chain)
  BY ChainType
<1>6. QED
  BY <1>1, <1>3, <1>4, <1>5 DEF Blank, Memory

\* What the memory was read from is still what the chain says.
Carried ==
  /\ ChainOK /\ ChainOK' /\ Blocks \subseteq Blocks' /\ Len(chain) <= Len(chain')
  /\ \A b \in Blocks : /\ chain'[b] = chain[b] /\ Floor(b)' = Floor(b)
                       /\ Times'[b] = Times[b]
                       /\ DexTradeOn(b)' <=> DexTradeOn(b)
                       /\ PonsTradeOn(b)' <=> PonsTradeOn(b)
  /\ \A kind, p : Created(kind, p) => Created(kind, p)'

LEMMA VolumeCarried ==
  ASSUME Carried, NEW trades, \A t \in Range(trades) : t.id \in Blocks, NEW m
  PROVE  VolumeHeld(trades, m)' = VolumeHeld(trades, m)
<1>1. \A c \in 1..MaxBlocks :
        (IF /\ \E t \in Range(trades) : t.id = c /\ t.at \div MINUTE = m
            /\ chain'[c].log.quote >= MIN_TRADE_QUOTE
         THEN chain'[c].log.quote ELSE 0)
        = (IF /\ \E t \in Range(trades) : t.id = c /\ t.at \div MINUTE = m
              /\ chain[c].log.quote >= MIN_TRADE_QUOTE
           THEN chain[c].log.quote ELSE 0)
  <2>1. SUFFICES ASSUME NEW c \in 1..MaxBlocks, \E t \in Range(trades) : t.id = c
                 PROVE  chain'[c] = chain[c]
    OBVIOUS
  <2>2. c \in Blocks
    BY <2>1
  <2>3. QED
    BY <2>2 DEF Carried
<1>2. WorthOf(trades, m)' = WorthOf(trades, m)
  BY <1>1 DEF WorthOf
<1>3. VolumeHeld(trades, m)' = SumFunction(WorthOf(trades, m)')
  BY DEF VolumeHeld, WorthOf
<1>4. QED
  BY <1>2, <1>3, VolumeIs

LEMMA MemoryCarried ==
  ASSUME Carried, NEW x, NEW waits, Memory(x, waits)
  PROVE  Memory(x, waits)'
<1>1. ChainOK /\ x \in Index /\ x.seen \subseteq Blocks
  BY DEF Carried, Memory
<1>2. \A b \in ReadBy(x) : b \in Blocks
  BY <1>1, InChain
<1>3. ReadBy(x)' = ReadBy(x)
  BY DEF ReadBy
<1>4. Index' = Index
  BY DEF Index, Minutes
<1>5. Sources(x)'
  BY DEF Memory, Sources, Carried, Launchable, emittedBy
<1>6. \A t : Placed(x, t) => Placed(x, t)' /\ t.id \in Blocks
  BY <1>3 DEF Placed, Carried
<1>7. DexBook(x)'
  BY <1>6 DEF Memory, DexBook, Carried, OncePerEvent, InTimeOrder
<1>8. PonsBook(x)'
  BY <1>6 DEF Memory, PonsBook, Carried, OncePerEvent, InTimeOrder
<1>9. Waiting(x)'
  BY <1>6 DEF Memory, Waiting, Carried, OncePerEvent
<1>10. Known(x)'
  BY <1>2, <1>3 DEF Memory, Known, Carried, emittedBy
<1>11. DexKept(x)'
  BY <1>2, <1>3 DEF Memory, DexKept, Carried, IdsOf
<1>12. PonsKept(x, waits)'
  BY <1>2, <1>3 DEF Memory, PonsKept, Carried, IdsOf, AgoFrom
<1>13. Books(x)'
  <2>1. \A t \in Range(x.dexTrades) : t.id \in Blocks
    BY <1>6 DEF Memory, DexBook
  <2>2. \A m \in Minutes : VolumeHeld(x.dexTrades, m)' = VolumeHeld(x.dexTrades, m)
    BY <2>1, VolumeCarried
  <2>3. QED
    BY <2>2 DEF Memory, Books, Minutes
<1>14. (IdsOf(x.ponsTrades) \cap waits)' = {}
  BY DEF Memory, IdsOf
<1>15. x.seen \subseteq Blocks' /\ x.anchors \subseteq Blocks' /\ x.lastBlock <= Len(chain')
  <2>1. x.lastBlock \in Nat /\ Len(chain) \in Nat /\ Len(chain') \in Nat
    BY <1>1, ChainType DEF Index, Carried, ChainOK
  <2>2. QED
    BY <2>1 DEF Carried, Memory
<1>16. QED
  BY <1>1, <1>4, <1>5, <1>7, <1>8, <1>9, <1>10, <1>11, <1>12, <1>13, <1>14, <1>15 DEF Memory

\* The chain with one more block.
Grown(n, e) ==
  /\ n \in Nat \ {0} /\ n = Len(chain) /\ Blocks = 1..n /\ Len(chain') = n + 1 /\ Blocks' = 1..(n + 1)
  /\ \A b \in 1..n : chain'[b] = chain[b] /\ b \in 1..(n + 1)
  /\ chain'[n + 1] = e

LEMMA OneBlockMore ==
  ASSUME ChainOK, Mine
  PROVE  \E n, e : /\ Grown(n, e) /\ n + 1 <= MaxBlocks /\ Possible(e.log)
                   /\ e \in [at : 0..MaxTime, log : Logs \cup {Nothing}] /\ chain[n].at <= e.at
                   /\ chain' \in Seq([at : 0..MaxTime, log : Logs \cup {Nothing}])
<1>1. PICK n : /\ n = Len(chain) /\ n \in Nat \ {0} /\ Blocks = 1..n
               /\ \A b \in Blocks : chain[b].at \in 0..MaxTime
  BY ChainType
<1>2. PICK step \in 0..1, log \in Logs \cup {Nothing} :
        /\ chain[n].at + step <= MaxTime /\ Possible(log) /\ n < MaxBlocks
        /\ chain' = Append(chain, [at |-> chain[n].at + step, log |-> log])
  BY <1>1 DEF Mine
<1>3. PICK at : at = chain[n].at + step
  OBVIOUS
<1>4. chain[n].at \in Nat /\ at \in 0..MaxTime /\ chain[n].at <= at
  <2>1. n \in Blocks
    BY <1>1
  <2>2. chain[n].at \in 0..MaxTime
    BY <1>1, <2>1
  <2>3. PICK a : a = chain[n].at /\ a \in Nat /\ at = a + step /\ at <= MaxTime
    BY <1>2, <1>3, <2>2, MarketAssumption
  <2>4. at \in Nat /\ a <= at /\ MaxTime \in Nat
    BY <2>3, MarketAssumption
  <2>5. QED
    BY <2>3, <2>4
<1>5. PICK e : e = [at |-> at, log |-> log]
  OBVIOUS
<1>6. e \in [at : 0..MaxTime, log : Logs \cup {Nothing}] /\ e.at = at /\ e.log = log
  BY <1>4, <1>5
<1>7. chain' = Append(chain, e)
  BY <1>2, <1>3, <1>5
<1>8. chain \in Seq([at : 0..MaxTime, log : Logs \cup {Nothing}])
  BY DEF ChainOK
<1>9. /\ chain' \in Seq([at : 0..MaxTime, log : Logs \cup {Nothing}]) /\ Len(chain') = n + 1
      /\ \A b \in 1..n : chain'[b] = chain[b]
      /\ chain'[n + 1] = e
  BY <1>1, <1>6, <1>7, <1>8, AppendProperties
<1>10. Blocks' = 1..(n + 1)
  BY <1>9, LenProperties DEF Blocks
<1>11. \A b \in 1..n : b \in 1..(n + 1)
  BY <1>1
<1>12. Grown(n, e)
  BY <1>1, <1>9, <1>10, <1>11 DEF Grown
<1>13. n + 1 <= MaxBlocks
  BY <1>1, <1>2, MarketAssumption
<1>14. QED
  BY <1>2, <1>4, <1>6, <1>9, <1>12, <1>13

LEMMA CreatedLater ==
  ASSUME NEW n, NEW e, Grown(n, e), NEW kind, NEW p
  PROVE  Created(kind, p)' <=> Created(kind, p) \/ (e.log.kind = kind /\ e.log.place = p /\ emittedBy(e.log))
<1>1. \A b \in Blocks' : b \in 1..n \/ b = n + 1
  BY DEF Grown
<1>2. n + 1 \in Blocks'
  BY DEF Grown
<1>3. ASSUME Created(kind, p)'
      PROVE  Created(kind, p) \/ (e.log.kind = kind /\ e.log.place = p /\ emittedBy(e.log))
  <2>1. PICK b \in Blocks' : chain'[b].log.kind = kind /\ chain'[b].log.place = p /\ emittedBy(chain'[b].log)
    BY <1>3 DEF Created, emittedBy
  <2>2. CASE b \in 1..n
    BY <2>1, <2>2 DEF Grown, Created
  <2>3. CASE b = n + 1
    BY <2>1, <2>3 DEF Grown
  <2>4. QED
    BY <1>1, <2>1, <2>2, <2>3
<1>4. ASSUME Created(kind, p) PROVE Created(kind, p)'
  <2>1. PICK b \in Blocks : chain[b].log.kind = kind /\ chain[b].log.place = p /\ emittedBy(chain[b].log)
    BY <1>4 DEF Created
  <2>2. b \in Blocks' /\ chain'[b] = chain[b]
    BY <2>1 DEF Grown
  <2>3. QED
    BY <2>1, <2>2 DEF Created, emittedBy
<1>5. ASSUME e.log.kind = kind, e.log.place = p, emittedBy(e.log) PROVE Created(kind, p)'
  <2>1. chain'[n + 1] = e
    BY DEF Grown
  <2>2. QED
    BY <1>2, <1>5, <2>1 DEF Created, emittedBy
<1>6. QED
  BY <1>3, <1>4, <1>5

LEMMA EmitsLater ==
  ASSUME NEW n, NEW e, Grown(n, e), NEW c \in 1..n, NEW kind, NEW p
  PROVE  Emits(c, kind, p)' <=> Emits(c, kind, p)
BY DEF Grown, Emits, emittedBy

\* A trusted contract emits a log of a place.
Fires(log, kind, place) == log.kind = kind /\ emittedBy(log) /\ log.place = place

LEMMA ChainGrows ==
  ASSUME ChainOK, Mine
  PROVE  ChainOK' /\ \E n, e : Grown(n, e) /\ e.log \in Logs \cup {Nothing}
<1>1. PICK n, e : /\ Grown(n, e) /\ n + 1 <= MaxBlocks /\ Possible(e.log)
                  /\ e \in [at : 0..MaxTime, log : Logs \cup {Nothing}] /\ chain[n].at <= e.at
                  /\ chain' \in Seq([at : 0..MaxTime, log : Logs \cup {Nothing}])
  BY OneBlockMore
<1>2. /\ n \in Nat \ {0} /\ Blocks = 1..n /\ Blocks' = 1..(n + 1) /\ Len(chain') = n + 1
      /\ \A b \in 1..n : chain'[b] = chain[b]
      /\ chain'[n + 1] = e
  BY <1>1 DEF Grown
<1>3. \A b \in Blocks' : b \in 1..n \/ b = n + 1
  BY <1>2
<1>4. \A b \in 1..n : chain[b].at \in 0..MaxTime /\ chain[b].at <= e.at
  <2>1. SUFFICES ASSUME NEW b \in 1..n PROVE chain[b].at \in 0..MaxTime /\ chain[b].at <= e.at
    OBVIOUS
  <2>2. n \in Blocks /\ b \in Blocks /\ b <= n
    BY <1>2
  <2>3. chain[b].at \in 0..MaxTime /\ chain[n].at \in 0..MaxTime /\ chain[b].at <= chain[n].at
    BY <2>2, ChainType DEF ChainOK
  <2>4. e.at \in 0..MaxTime
    BY <1>1
  <2>5. QED
    BY <1>1, <2>3, <2>4
<1>5. ASSUME NEW i \in Blocks', NEW j \in Blocks', i <= j PROVE chain'[i].at <= chain'[j].at
  <2>1. CASE j \in 1..n
    <3>1. i \in 1..n
      BY <1>2, <1>5, <2>1
    <3>2. QED
      BY <1>2, <1>5, <2>1, <3>1 DEF ChainOK
  <2>2. CASE j = n + 1 /\ i \in 1..n
    BY <1>2, <1>4, <2>2
  <2>3. CASE j = n + 1 /\ i = n + 1
    <3>1. e.at \in 0..MaxTime
      BY <1>1
    <3>2. QED
      BY <1>2, <2>3, <3>1, MarketAssumption
  <2>4. QED
    BY <1>3, <2>1, <2>2, <2>3
<1>6. ASSUME NEW c \in 1..n, NEW kind, NEW p, Emits(c, kind, p) PROVE Fires(chain'[c].log, kind, p)
  BY <1>2, <1>6 DEF Emits, Fires
<1>7. ASSUME NEW b \in Blocks', chain'[b].log.kind = "SWAP", emittedBy(chain'[b].log)
      PROVE  \E c \in 1..(b - 1) : \E kind \in PoolKinds : Fires(chain'[c].log, kind, chain'[b].log.place)
  <2>1. CASE b \in 1..n
    <3>1. chain[b].log.kind = "SWAP" /\ emittedBy(chain[b].log) /\ b \in Blocks
      BY <1>2, <1>7, <2>1
    <3>2. PICK c \in 1..(b - 1), kind \in PoolKinds : Emits(c, kind, chain[b].log.place)
      BY <3>1 DEF ChainOK
    <3>3. c \in 1..n
      BY <1>2, <2>1
    <3>4. Fires(chain'[c].log, kind, chain[b].log.place)
      BY <1>6, <3>2, <3>3
    <3>5. QED
      BY <1>2, <2>1, <3>2, <3>4
  <2>2. CASE b = n + 1
    <3>1. PICK p : p = e.log.place
      OBVIOUS
    <3>2. e.log.kind = "SWAP" /\ e.log.emitter = "poolManager"
      BY <1>2, <1>7, <2>2 DEF emittedBy
    <3>3. Created("INITIALIZE", p) \/ Created("REGISTER", p)
      BY <1>1, <3>1, <3>2 DEF Possible
    <3>4. PICK c \in Blocks, kind \in PoolKinds : Emits(c, kind, p)
      BY <3>3 DEF Created, Emits, PoolKinds
    <3>5. c \in 1..(b - 1) /\ c \in 1..n
      BY <1>2, <2>2
    <3>6. Fires(chain'[c].log, kind, p)
      BY <1>6, <3>4, <3>5
    <3>7. chain'[b].log.place = p
      BY <1>2, <2>2, <3>1
    <3>8. QED
      BY <3>4, <3>5, <3>6, <3>7
  <2>3. QED
    BY <1>3, <2>1, <2>2
<1>8. ASSUME NEW b \in Blocks', chain'[b].log.kind = "CURVE_TRADE", chain'[b].log.place \in Launchable
      PROVE  \E c \in 1..(b - 1) : Fires(chain'[c].log, "LAUNCH", chain'[b].log.place)
  <2>1. CASE b \in 1..n
    <3>1. chain[b].log.kind = "CURVE_TRADE" /\ chain[b].log.place \in Launchable /\ b \in Blocks
      BY <1>2, <1>8, <2>1
    <3>2. PICK c \in 1..(b - 1) : Emits(c, "LAUNCH", chain[b].log.place)
      BY <3>1 DEF ChainOK
    <3>3. c \in 1..n
      BY <1>2, <2>1
    <3>4. Fires(chain'[c].log, "LAUNCH", chain[b].log.place)
      BY <1>6, <3>2, <3>3
    <3>5. QED
      BY <1>2, <2>1, <3>2, <3>4
  <2>2. CASE b = n + 1
    <3>1. PICK p : p = e.log.place
      OBVIOUS
    <3>2. e.log.kind = "CURVE_TRADE" /\ p \in Launchable /\ chain'[b].log.place = p
      BY <1>2, <1>8, <2>2, <3>1
    <3>3. e.log \in Logs
      BY <1>1, <3>2, NothingSilent
    <3>4. PICK k \in Logs : k.kind = "LAUNCH" /\ emittedBy(k) /\ k.place = p
      BY <3>2 DEF Launchable
    <3>5. e.log.emitter = "curve"
      BY <3>1, <3>2, <3>3, <3>4, LogsAssumption
    <3>6. Created("LAUNCH", p)
      BY <1>1, <3>1, <3>2, <3>5 DEF Possible
    <3>7. PICK c \in Blocks : Emits(c, "LAUNCH", p)
      BY <3>6 DEF Created, Emits
    <3>8. c \in 1..(b - 1) /\ c \in 1..n
      BY <1>2, <2>2
    <3>9. Fires(chain'[c].log, "LAUNCH", p)
      BY <1>6, <3>7, <3>8
    <3>10. QED
      BY <3>2, <3>8, <3>9
  <2>3. QED
    BY <1>3, <2>1, <2>2
<1>9. Len(chain') \in 1..MaxBlocks
  BY <1>1, <1>2, MarketAssumption
<1>10. ChainOK'
  <2>1. \A b \in Blocks' : chain'[b].log.kind = "SWAP" /\ emittedBy(chain'[b].log) =>
          \E c \in 1..(b - 1) : \E kind \in PoolKinds : Fires(chain'[c].log, kind, chain'[b].log.place)
    BY <1>7
  <2>2. \A b \in Blocks' : chain'[b].log.kind = "CURVE_TRADE" /\ chain'[b].log.place \in Launchable =>
          \E c \in 1..(b - 1) : Fires(chain'[c].log, "LAUNCH", chain'[b].log.place)
    BY <1>8
  <2>3. \A i, j \in Blocks' : i <= j => chain'[i].at <= chain'[j].at
    BY <1>5
  <2>4. chain' \in Seq([at : 0..MaxTime, log : Logs \cup {Nothing}])
    BY <1>1
  <2>5. QED
    BY <1>9, <2>1, <2>2, <2>3, <2>4 DEF ChainOK, Launchable, PoolKinds, Emits, Fires, emittedBy, Nothing
<1>11. e.log \in Logs \cup {Nothing}
  BY <1>1
<1>12. QED
  BY <1>1, <1>10, <1>11

LEMMA MineCarries ==
  ASSUME ChainOK, Mine
  PROVE  Carried
<1>1. PICK n, e : Grown(n, e) /\ e.log \in Logs \cup {Nothing}
  BY ChainGrows
<1>2. /\ n \in Nat \ {0} /\ Blocks = 1..n /\ Blocks' = 1..(n + 1) /\ Len(chain') = n + 1 /\ n = Len(chain)
      /\ \A b \in 1..n : chain'[b] = chain[b]
      /\ chain'[n + 1] = e
  BY <1>1 DEF Grown
<1>3. \A kind, p : Created(kind, p) => Created(kind, p)'
  BY <1>1, CreatedLater
<1>4. ASSUME NEW b \in Blocks PROVE Times'[b] = Times[b]
  BY <1>2, <1>4 DEF Times, Blocks
<1>5. ASSUME NEW b \in Blocks PROVE Floor(b)' = Floor(b)
  <2>1. PICK f : f = IF b > COARSE_ANCHOR_BLOCKS THEN b - COARSE_ANCHOR_BLOCKS ELSE 1
    OBVIOUS
  <2>2. f \in Blocks
    <3>1. b \in 1..n /\ COARSE_ANCHOR_BLOCKS \in Nat \ {0}
      BY <1>2, MarketAssumption
    <3>2. f \in 1..n
      BY <1>2, <2>1, <3>1
    <3>3. QED
      BY <1>2, <3>2
  <2>3. Times'[f] = Times[f]
    BY <1>4, <2>2
  <2>4. QED
    BY <2>1, <2>3 DEF Floor
<1>6. ASSUME NEW b \in Blocks
      PROVE  (DexTradeOn(b)' <=> DexTradeOn(b)) /\ (PonsTradeOn(b)' <=> PonsTradeOn(b))
  <2>1. PICK log, p : log = chain[b].log /\ log = chain'[b].log /\ p = log.place
    BY <1>2, <1>6
  <2>2. /\ DexTradeOn(b) <=> log.kind = "SWAP" /\ emittedBy(log) /\ Created("INITIALIZE", p) /\ log.token > 0
        /\ PonsTradeOn(b) <=> \/ log.kind = "SWAP" /\ emittedBy(log) /\ Created("REGISTER", p)
                              \/ log.kind = "CURVE_TRADE" /\ emittedBy(log) /\ Created("LAUNCH", p)
    BY <2>1 DEF DexTradeOn, PonsTradeOn, Genuine
  <2>3. /\ DexTradeOn(b)' <=> log.kind = "SWAP" /\ emittedBy(log) /\ Created("INITIALIZE", p)' /\ log.token > 0
        /\ PonsTradeOn(b)' <=> \/ log.kind = "SWAP" /\ emittedBy(log) /\ Created("REGISTER", p)'
                               \/ log.kind = "CURVE_TRADE" /\ emittedBy(log) /\ Created("LAUNCH", p)'
    BY <2>1 DEF DexTradeOn, PonsTradeOn, Genuine, Created, emittedBy
  <2>4. ASSUME log.kind = "SWAP", emittedBy(log)
        PROVE  /\ Created("INITIALIZE", p)' => Created("INITIALIZE", p)
               /\ Created("REGISTER", p)' => Created("REGISTER", p)
    <3>1. PICK c \in 1..(b - 1), kind \in PoolKinds : Emits(c, kind, p)
      BY <1>6, <2>1, <2>4 DEF ChainOK
    <3>2. c \in Blocks
      BY <1>2, <1>6
    <3>3. Created(kind, p) /\ chain[c].log \in Logs /\ emittedBy(chain[c].log)
          /\ chain[c].log.place = p /\ chain[c].log.kind = kind
      BY <3>1, <3>2, EmittedLog DEF Emits, Created
    <3>4. ASSUME e.log.place = p, emittedBy(e.log), e.log.kind \in PoolKinds
          PROVE  Created(e.log.kind, p)
      <4>1. e.log \in Logs
        BY <1>1, <3>4, NothingSilent
      <4>2. e.log.kind = kind
        BY <3>3, <3>4, <4>1, LogsAssumption DEF PoolKinds
      <4>3. QED
        BY <3>3, <4>2
    <3>5. QED
      BY <1>1, <3>4, CreatedLater DEF PoolKinds
  <2>5. ASSUME log.kind = "CURVE_TRADE", emittedBy(log), Created("LAUNCH", p)' PROVE Created("LAUNCH", p)
    <3>1. SUFFICES ASSUME e.log.kind = "LAUNCH", e.log.place = p, emittedBy(e.log)
                   PROVE  Created("LAUNCH", p)
      BY <1>1, <2>5, CreatedLater
    <3>2. e.log \in Logs
      BY <1>1, <3>1, NothingSilent
    <3>3. p \in Launchable
      BY <3>1, <3>2 DEF Launchable
    <3>4. PICK c \in 1..(b - 1) : Emits(c, "LAUNCH", p)
      BY <1>6, <2>1, <2>5, <3>3 DEF ChainOK
    <3>5. c \in Blocks
      BY <1>2, <1>6
    <3>6. QED
      BY <3>4, <3>5 DEF Emits, Created
  <2>6. QED
    BY <1>3, <2>2, <2>3, <2>4, <2>5
<1>7. Blocks \subseteq Blocks' /\ Len(chain) <= Len(chain')
  BY <1>2
<1>8. ChainOK'
  BY ChainGrows
<1>9. QED
  BY <1>2, <1>3, <1>4, <1>5, <1>6, <1>7, <1>8 DEF Carried

LEMMA StillCarries ==
  ASSUME ChainOK, chain' = chain
  PROVE  Carried
<1>1. ChainOK'
  BY DEF ChainOK, Blocks, Emits, emittedBy, Launchable, PoolKinds
<1>2. Blocks' = Blocks /\ Times' = Times
  BY DEF Blocks, Times
<1>3. \A b : Floor(b)' = Floor(b)
  BY <1>2 DEF Floor
<1>4. \A kind, p : Created(kind, p)' <=> Created(kind, p)
  BY <1>2 DEF Created, emittedBy
<1>5. \A b : (DexTradeOn(b)' <=> DexTradeOn(b)) /\ (PonsTradeOn(b)' <=> PonsTradeOn(b))
  BY <1>4 DEF DexTradeOn, PonsTradeOn, Genuine, emittedBy
<1>6. Len(chain) <= Len(chain')
  BY ChainType
<1>7. QED
  BY <1>1, <1>2, <1>3, <1>4, <1>5, <1>6 DEF Carried

-----------------------------------------------------------------------------
(***************************************************************************)
(* What a start reads.                                                     *)
(***************************************************************************)

LEMMA ScanDates ==
  ASSUME ChainOK, NEW x \in Index, x.anchors \subseteq Blocks, NEW blocks \in SUBSET Blocks,
         NEW dated, dated = scanTrades(x, blocks)
  PROVE  /\ dated.anchors \in SUBSET Blocks
         /\ \A b \in blocks : dated.at[b] \in 0..MaxTime /\ Floor(b) <= dated.at[b]
<1>1. PICK n : n = Len(chain) /\ n \in Nat \ {0} /\ Blocks = 1..n /\ Clock(n, Times)
  BY ChainType
<1>2. PICK spacing : spacing = [b \in blocks |-> IF b >= x.fineFromBlock THEN FINE_ANCHOR_BLOCKS
                                                                         ELSE COARSE_ANCHOR_BLOCKS]
  OBVIOUS
<1>3. \A b \in blocks : spacing[b] \in Nat \ {0} /\ spacing[b] <= COARSE_ANCHOR_BLOCKS
  BY <1>2, MarketAssumption
<1>4. dated = timesOf(Times, x.anchors, blocks, spacing)
  BY <1>2 DEF scanTrades
<1>5. x.anchors \in SUBSET (1..n) /\ blocks \in SUBSET (1..n)
  BY <1>1
<1>6. dated.anchors \in SUBSET (1..n) /\ Bounded(n, Times, blocks, dated)
  BY <1>1, <1>3, <1>4, <1>5, TimesBounded
<1>7. ASSUME NEW b \in blocks PROVE dated.at[b] \in 0..MaxTime /\ Floor(b) <= dated.at[b]
  <2>1. dated.at[b] \in Nat /\ FloorAt(Times, b) <= dated.at[b] /\ dated.at[b] <= Times[n]
    BY <1>6 DEF Bounded
  <2>2. Floor(b) = FloorAt(Times, b) /\ Floor(b) \in Nat
    BY FloorBounds
  <2>3. n \in Blocks
    BY <1>1
  <2>4. Times[n] <= MaxTime /\ Times[n] \in Nat /\ MaxTime \in Nat
    BY <2>3, FloorBounds
  <2>5. QED
    BY <2>1, <2>2, <2>4
<1>8. QED
  BY <1>1, <1>6, <1>7

\* A memory with other anchors is as true.
LEMMA AnchorsSet ==
  ASSUME NEW x, NEW waits, Memory(x, waits), NEW anchors, anchors \subseteq Blocks, anchors \subseteq Nat,
         NEW y, y = [x EXCEPT !.anchors = anchors]
  PROVE  /\ Memory(y, waits) /\ y.anchors = anchors /\ y.seen = x.seen /\ y.pending = x.pending
         /\ y.lastBlock = x.lastBlock /\ y.covered = x.covered /\ y.keepTradesFrom = x.keepTradesFrom
         /\ y.usdgPools = x.usdgPools /\ y.ponsPools = x.ponsPools
<1>1. x \in Index
  BY DEF Memory
<1>2. /\ y \in Index /\ y.anchors = anchors
      /\ y.usdgPools = x.usdgPools /\ y.ponsPools = x.ponsPools /\ y.curves = x.curves
      /\ y.notCurves = x.notCurves /\ y.pending = x.pending /\ y.dexTrades = x.dexTrades
      /\ y.minuteVolume = x.minuteVolume /\ y.keepTradesFrom = x.keepTradesFrom
      /\ y.ponsTrades = x.ponsTrades /\ y.seen = x.seen
      /\ y.lastBlock = x.lastBlock /\ y.covered = x.covered
  BY <1>1 DEF Index
<1>3. ReadBy(y) = ReadBy(x)
  BY <1>2 DEF ReadBy
<1>4. QED
  BY <1>2, <1>3 DEF Memory, Sources, DexBook, PonsBook, Waiting, Placed, Known, DexKept, PonsKept, Books

\* A block found by searching back is the first, or of the instant searched for or before it.
LEMMA SearchedBack ==
  ASSUME ChainOK, NEW n, n = Len(chain), NEW ago \in Nat, NEW b, b = searchBack(n, ago)
  PROVE  b \in Blocks /\ (b = 1 \/ Times[b] <= Times[n] - ago)
<1>1. n \in Nat \ {0} /\ Blocks = 1..n /\ Clock(n, Times) /\ n \in Blocks
  BY ChainType
<1>2. Times[n] \in Nat
  BY <1>1, FloorBounds
<1>3. PICK target \in Int : target = Times[n] - ago
  BY <1>2
<1>4. BLOCK_SEARCH_TOLERANCE \in Nat
  BY MarketAssumption
<1>5. b = blockAtOrBefore(Times, n, target, BLOCK_SEARCH_TOLERANCE)
  BY <1>3 DEF searchBack
<1>6. b \in 1..n /\ (b = 1 \/ Times[b] <= target)
  BY <1>1, <1>3, <1>4, <1>5, SearchEnds DEF Found
<1>7. QED
  BY <1>1, <1>3, <1>6

\* What is behind a block searched back for is older than was asked.
LEMMA BehindSearch ==
  ASSUME ChainOK, NEW n, n = Len(chain), NEW ago \in Nat, NEW from, from = searchBack(n, ago),
         NEW b \in Blocks, b < from, NEW d \in Nat, d <= ago
  PROVE  Floor(b) <= AgoFrom(Times[n], d)
<1>1. n \in Nat \ {0} /\ Blocks = 1..n /\ n \in Blocks
  BY ChainType
<1>2. from \in Blocks /\ (from = 1 \/ Times[from] <= Times[n] - ago)
  BY SearchedBack
<1>3. from # 1
  BY <1>1, <1>2
<1>4. Times[b] <= Times[from]
  <2>1. b <= from
    BY <1>1, <1>2
  <2>2. chain[b].at <= chain[from].at
    BY <1>2, <2>1 DEF ChainOK
  <2>3. QED
    BY <1>2, <2>2, ChainType
<1>5. Floor(b) \in Nat /\ Times[b] \in Nat /\ Times[from] \in Nat /\ Times[n] \in Nat /\ Floor(b) <= Times[b]
  BY <1>1, <1>2, FloorBounds
<1>6. PICK f, t, now : f = Floor(b) /\ t = Times[from] /\ now = Times[n]
  OBVIOUS
<1>7. f \in Nat /\ now \in Nat /\ t \in Nat /\ f <= t /\ t <= now - ago
  BY <1>2, <1>3, <1>4, <1>5, <1>6
<1>8. f <= AgoFrom(now, d)
  BY <1>7 DEF AgoFrom
<1>9. QED
  BY <1>6, <1>8

\* The memory once the pools of all of history are known.
Discovered(x, n) ==
  /\ Memory(x, IdsOf(x.pending)) /\ x.pending = <<>> /\ x.lastBlock = 0 /\ x.covered = 0
  /\ x.keepTradesFrom = AgoFrom(Times[n], TRADE_RETENTION)
  /\ \A b \in Blocks : \A kind \in PoolKinds : \A p : Emits(b, kind, p) => b \in x.seen

LEMMA DiscoveredIs ==
  ASSUME ChainOK, NEW n, n = Len(chain), NEW x, x = discovered(n)
  PROVE  Discovered(x, n)
<1>1. n \in Nat \ {0} /\ Blocks = 1..n /\ n \in Blocks /\ 1 \in Blocks
  BY ChainType
<1>2. PICK k \in Nat : k = AgoFrom(Times[n], TRADE_RETENTION)
  BY <1>1, FloorBounds, MarketAssumption, AgoNat
<1>3. PICK f \in Nat : f = Least({tradesFrom(n), ponsFrom(n)})
  <2>1. TRADE_RETENTION \in Nat /\ PONS_RETENTION \in Nat
    BY MarketAssumption
  <2>2. tradesFrom(n) \in Blocks /\ ponsFrom(n) \in Blocks
    BY <2>1, SearchedBack DEF tradesFrom, ponsFrom
  <2>3. {tradesFrom(n), ponsFrom(n)} \in SUBSET Nat
    BY <1>1, <2>2
  <2>4. Least({tradesFrom(n), ponsFrom(n)}) \in {tradesFrom(n), ponsFrom(n)}
    BY <2>3, LeastOf
  <2>5. QED
    BY <2>3, <2>4
<1>4. PICK a : a = {1, n} /\ a \subseteq Blocks /\ a \in SUBSET Nat
  <2>1. {1, n} \subseteq Blocks /\ {1, n} \in SUBSET Nat
    BY <1>1
  <2>2. QED
    BY <2>1
<1>5. PICK pools : pools = scan(1, n, PoolKinds)
  OBVIOUS
<1>6. PICK z : z = [Fresh EXCEPT !.keepTradesFrom = k, !.anchors = a, !.fineFromBlock = f]
  OBVIOUS
<1>7. x = apply(z, pools, Undated(pools))
  BY <1>2, <1>3, <1>4, <1>5, <1>6 DEF discovered
<1>8. z \in Index /\ Blank(z, k) /\ z.anchors = a
  BY <1>2, <1>3, <1>4, <1>6, FreshBlank DEF Index, Blank
<1>9. Memory(z, IdsOf(z.pending))
  BY <1>4, <1>8, BlankMemory
<1>10. pools \in SUBSET Blocks /\ \A b \in pools : chain[b].log.kind \in PoolKinds
  BY <1>5 DEF scan
<1>11. \A b \in pools : Ready(z, b, Undated(pools)[b])
  <2>1. SUFFICES ASSUME NEW b \in pools PROVE Ready(z, b, Undated(pools)[b])
    OBVIOUS
  <2>2. Undated(pools)[b] = 0 /\ 0 \in 0..MaxTime
    BY MarketAssumption DEF Undated
  <2>3. QED
    BY <1>10, <2>2 DEF Ready, TradeKinds, PoolKinds
<1>12. Memory(x, IdsOf(x.pending)) /\ More(z, x, pools)
  BY <1>7, <1>9, <1>10, <1>11, ApplyKeeps
<1>13. x.pending = <<>>
  <2>1. \A b \in pools : chain[b].log.kind # "CURVE_TRADE"
    BY <1>10 DEF PoolKinds
  <2>2. QED
    BY <1>8, <1>12, <2>1 DEF More, Blank
<1>14. ASSUME NEW b \in Blocks, NEW kind \in PoolKinds, NEW p, Emits(b, kind, p) PROVE b \in x.seen
  <2>1. b \in pools
    BY <1>1, <1>5, <1>14 DEF Emits, scan
  <2>2. QED
    BY <1>12, <1>14, <2>1 DEF More, Emits
<1>15. QED
  BY <1>2, <1>8, <1>12, <1>13, <1>14 DEF More, Unmoved, Blank, Discovered

\* What readTrades reads, before anything about curves and senders is asked.
TradesRead(x, n, from, pons, wanted, dated, anchored, read) ==
  /\ from = volumeFrom(n) /\ pons = Greatest({ponsFrom(n), from})
  /\ wanted = {b \in scan(1, n, {"SWAP"}) : \/ chain[b].log.place \in x.usdgPools /\ b >= from
                                            \/ chain[b].log.place \in x.ponsPools /\ b >= pons}
              \cup scan(pons, n, {"CURVE_TRADE"})
  /\ dated = scanTrades(x, wanted)
  /\ anchored = [x EXCEPT !.anchors = dated.anchors]
  /\ read = apply(anchored, wanted, dated.at)

LEMMA ReadTradesIs ==
  ASSUME NEW x, NEW n
  PROVE  \E from, pons, wanted, dated, anchored, read :
           /\ TradesRead(x, n, from, pons, wanted, dated, anchored, read)
           /\ readTrades(x, n) = resolveSenders(resolveCurves(read, n))
BY DEF readTrades, TradesRead

LEMMA TradesReadKeeps ==
  ASSUME ChainOK, NEW n, n = Len(chain), NEW x, Discovered(x, n),
         NEW from, NEW pons, NEW wanted, NEW dated, NEW anchored, NEW read,
         TradesRead(x, n, from, pons, wanted, dated, anchored, read)
  PROVE  /\ Memory(read, IdsOf(read.pending)) /\ read.seen = x.seen \cup {b \in wanted : emittedBy(chain[b].log)}
         /\ read.lastBlock = 0 /\ read.covered = 0 /\ read.keepTradesFrom = x.keepTradesFrom
<1>1. n \in Nat \ {0} /\ Blocks = 1..n
  BY ChainType
<1>2. x \in Index /\ x.anchors \subseteq Blocks /\ Memory(x, IdsOf(x.pending))
  BY DEF Discovered, Memory
<1>3. wanted \in SUBSET Blocks
  BY DEF TradesRead, scan
<1>4. /\ dated.anchors \in SUBSET Blocks
      /\ \A b \in wanted : dated.at[b] \in 0..MaxTime /\ Floor(b) <= dated.at[b]
  <2>1. dated = scanTrades(x, wanted)
    BY DEF TradesRead
  <2>2. QED
    BY ONLY ChainOK, <1>2, <1>3, <2>1, ScanDates
<1>5. PICK anchors : anchors = dated.anchors /\ anchors \subseteq Blocks /\ anchors \subseteq Nat
  BY <1>1, <1>4
<1>6. anchored = [x EXCEPT !.anchors = anchors]
  BY <1>5 DEF TradesRead
<1>7. /\ Memory(anchored, IdsOf(x.pending)) /\ anchored.seen = x.seen /\ anchored.pending = x.pending
      /\ anchored.lastBlock = 0 /\ anchored.covered = 0 /\ anchored.keepTradesFrom = x.keepTradesFrom
  <2>1. PICK waits : waits = IdsOf(x.pending)
    OBVIOUS
  <2>2. Memory(x, waits)
    BY <1>2, <2>1
  <2>3. /\ Memory(anchored, waits) /\ anchored.seen = x.seen /\ anchored.pending = x.pending
        /\ anchored.lastBlock = x.lastBlock /\ anchored.covered = x.covered
        /\ anchored.keepTradesFrom = x.keepTradesFrom
    BY ONLY <1>5, <1>6, <2>2, AnchorsSet
  <2>4. QED
    BY <2>1, <2>3 DEF Discovered
<1>8. \A b \in wanted : Ready(anchored, b, dated.at[b])
  <2>1. SUFFICES ASSUME NEW b \in wanted PROVE Ready(anchored, b, dated.at[b])
    OBVIOUS
  <2>2. b \in 1..n /\ b > 0 /\ dated.at[b] \in 0..MaxTime /\ Floor(b) <= dated.at[b]
    BY <1>1, <1>3, <1>4, <2>1
  <2>3. \A c \in 1..(b - 1) : c \in Blocks
    BY <1>1, <2>2
  <2>4. \A c \in 1..(b - 1) : \A kind \in PoolKinds : \A p : Emits(c, kind, p) => c \in ReadBy(anchored)
    BY <1>7, <2>3 DEF Discovered, ReadBy
  <2>5. QED
    BY <1>7, <2>2, <2>4 DEF Ready
<1>9. Memory(anchored, IdsOf(anchored.pending)) /\ read = apply(anchored, wanted, dated.at)
  BY <1>7 DEF TradesRead
<1>10. PICK at : at = dated.at
  OBVIOUS
<1>11. Memory(read, IdsOf(read.pending)) /\ More(anchored, read, wanted)
  <2>1. \A b \in wanted : Ready(anchored, b, at[b])
    BY <1>8, <1>10
  <2>2. read = apply(anchored, wanted, at)
    BY <1>9, <1>10
  <2>3. QED
    BY <1>3, <1>9, <2>1, <2>2, ApplyKeeps
<1>12. QED
  BY <1>7, <1>11 DEF More, Unmoved

\* Every trade that was not read is older than what is kept.
LEMMA UnreadIsOld ==
  ASSUME ChainOK, NEW n, n = Len(chain), NEW x, Discovered(x, n),
         NEW from, NEW pons, NEW wanted, NEW dated, NEW anchored, NEW read,
         TradesRead(x, n, from, pons, wanted, dated, anchored, read), NEW b \in Blocks, b \notin read.seen
  PROVE  /\ \A kind \in PoolKinds : \A p : ~Emits(b, kind, p)
         /\ DexTradeOn(b) => Floor(b) <= x.keepTradesFrom
         /\ PonsTradeOn(b) => Floor(b) <= AgoFrom(Times[n], PONS_RETENTION)
<1>1. n \in Nat \ {0} /\ Blocks = 1..n
  BY ChainType
<1>2. read.seen = x.seen \cup {c \in wanted : emittedBy(chain[c].log)}
  BY TradesReadKeeps
<1>3. b \notin x.seen /\ (emittedBy(chain[b].log) => b \notin wanted)
  BY <1>2
<1>4. PICK most \in Nat : /\ most = Greatest({VOLUME_RETENTION, TRADE_RETENTION})
                          /\ VOLUME_RETENTION <= most /\ TRADE_RETENTION <= most /\ PONS_RETENTION <= most
  <2>1. VOLUME_RETENTION \in Nat /\ TRADE_RETENTION \in Nat /\ PONS_RETENTION \in Nat /\ PONS_RETENTION <= VOLUME_RETENTION
    BY MarketAssumption
  <2>2. PICK top \in Nat : {VOLUME_RETENTION, TRADE_RETENTION} \in SUBSET (0..top)
    <3>1. VOLUME_RETENTION + TRADE_RETENTION \in Nat
      BY <2>1
    <3>2. {VOLUME_RETENTION, TRADE_RETENTION} \in SUBSET (0..(VOLUME_RETENTION + TRADE_RETENTION))
      BY <2>1
    <3>3. QED
      BY <3>1, <3>2
  <2>3. PICK s : s = {VOLUME_RETENTION, TRADE_RETENTION} /\ s \in SUBSET (0..top) /\ s # {}
    BY <2>2
  <2>4. Greatest(s) \in s /\ \A y \in s : y <= Greatest(s)
    BY <2>3, GreatestOf
  <2>5. PICK g : g = Greatest(s)
    OBVIOUS
  <2>6. g \in Nat /\ VOLUME_RETENTION <= g /\ TRADE_RETENTION <= g
    BY <2>1, <2>3, <2>4, <2>5
  <2>7. QED
    BY <2>1, <2>3, <2>5, <2>6
<1>5. from = searchBack(n, most) /\ from \in Blocks
  BY <1>4, SearchedBack DEF TradesRead, volumeFrom
<1>6. PICK q : q = searchBack(n, PONS_RETENTION) /\ q \in Blocks /\ q = ponsFrom(n)
  BY SearchedBack, MarketAssumption DEF ponsFrom
<1>7. pons \in {q, from} /\ q <= pons /\ from <= pons /\ pons \in Blocks
  <2>1. PICK s : s = {q, from} /\ s # {}
    OBVIOUS
  <2>2. s \in SUBSET (0..n)
    BY <1>1, <1>5, <1>6, <2>1
  <2>3. Greatest(s) \in s /\ \A y \in s : y <= Greatest(s)
    BY <1>1, <2>1, <2>2, GreatestOf
  <2>4. pons = Greatest(s)
    BY <1>6, <2>1 DEF TradesRead
  <2>5. QED
    BY <1>5, <1>6, <2>1, <2>3, <2>4
<1>8. /\ \A c \in 1..n : \A kind \in PoolKinds : \A p : Emits(c, kind, p) => c \in x.seen
      /\ Known(x)
  BY <1>1 DEF Discovered, Memory
<1>9. \A c \in 1..(b - 1) : c \in 1..n
  BY <1>1
<1>10. DexTradeOn(b) => Floor(b) <= x.keepTradesFrom
  <2>1. SUFFICES ASSUME DexTradeOn(b) PROVE Floor(b) <= x.keepTradesFrom
    OBVIOUS
  <2>2. chain[b].log.kind = "SWAP" /\ emittedBy(chain[b].log)
    BY <2>1 DEF DexTradeOn, Genuine
  <2>3. PICK c \in 1..(b - 1) : Emits(c, "INITIALIZE", chain[b].log.place)
    BY <2>1, TradeAfter
  <2>4. c \in x.seen
    BY <1>8, <1>9, <2>3 DEF PoolKinds
  <2>5. chain[b].log.place \in x.usdgPools
    BY <1>8, <2>3, <2>4 DEF Known, ReadBy, Emits
  <2>6. ~(b >= from)
    BY <1>1, <1>3, <2>2, <2>5 DEF TradesRead, scan
  <2>7. b < from
    BY <1>1, <1>5, <2>6
  <2>8. Floor(b) <= AgoFrom(Times[n], TRADE_RETENTION)
    BY <1>4, <1>5, <2>7, BehindSearch, MarketAssumption
  <2>9. QED
    BY <2>8 DEF Discovered
<1>11. PonsTradeOn(b) => Floor(b) <= AgoFrom(Times[n], PONS_RETENTION)
  <2>1. SUFFICES ASSUME PonsTradeOn(b) PROVE Floor(b) <= AgoFrom(Times[n], PONS_RETENTION)
    OBVIOUS
  <2>2. emittedBy(chain[b].log) /\ chain[b].log.kind \in {"SWAP", "CURVE_TRADE"}
    BY <2>1 DEF PonsTradeOn, Genuine
  <2>3. ~(b >= pons)
    <3>1. CASE chain[b].log.kind = "SWAP"
      <4>1. PICK c \in 1..(b - 1) : Emits(c, "REGISTER", chain[b].log.place)
        BY <2>1, <3>1, TradeAfter
      <4>2. c \in x.seen
        BY <1>8, <1>9, <4>1 DEF PoolKinds
      <4>3. chain[b].log.place \in x.ponsPools
        BY <1>8, <4>1, <4>2 DEF Known, ReadBy, Emits
      <4>4. QED
        BY <1>1, <1>3, <2>2, <3>1, <4>3 DEF TradesRead, scan
    <3>2. CASE chain[b].log.kind = "CURVE_TRADE"
      <4>1. ASSUME b >= pons PROVE b \in scan(pons, n, {"CURVE_TRADE"})
        <5>1. b \in pons..n
          BY <1>1, <1>7, <4>1
        <5>2. QED
          BY <3>2, <5>1 DEF scan
      <4>2. QED
        BY <1>3, <2>2, <4>1 DEF TradesRead
    <3>3. QED
      BY <2>2, <3>1, <3>2
  <2>4. b < pons
    BY <1>1, <1>7, <2>3
  <2>5. PONS_RETENTION \in Nat /\ PONS_RETENTION <= PONS_RETENTION
    BY MarketAssumption
  <2>6. CASE pons = q
    BY <1>6, <2>4, <2>5, <2>6, BehindSearch
  <2>7. CASE pons = from
    BY <1>4, <1>5, <2>4, <2>5, <2>7, BehindSearch
  <2>8. QED
    BY <1>7, <2>6, <2>7
<1>12. \A kind \in PoolKinds : \A p : ~Emits(b, kind, p)
  BY <1>1, <1>3, <1>8
<1>13. QED
  BY <1>10, <1>11, <1>12

Started(n, x, y) ==
  x = readTrades(discovered(n), n) /\ y = prune([x EXCEPT !.lastBlock = n, !.covered = Times[n]])

LEMMA StartedIs ==
  ASSUME ChainOK, NEW n, n = Len(chain), NEW x, NEW y, Started(n, x, y)
  PROVE  /\ Memory(y, {}) /\ y.lastBlock = n /\ y.covered = Times[n] /\ y.pending = <<>>
         /\ y.keepTradesFrom = AgoFrom(y.covered, TRADE_RETENTION) /\ \A b \in y.seen : b <= n
<1>1. n \in Nat \ {0} /\ Blocks = 1..n /\ n \in Blocks
  BY ChainType
<1>2. PICK z : z = discovered(n)
  OBVIOUS
<1>3. Discovered(z, n)
  BY <1>2, DiscoveredIs
<1>4. PICK from, pons, wanted, dated, anchored, read :
        /\ TradesRead(z, n, from, pons, wanted, dated, anchored, read)
        /\ x = resolveSenders(resolveCurves(read, n))
  BY <1>2, ReadTradesIs DEF Started
<1>5. /\ Memory(read, IdsOf(read.pending)) /\ read.lastBlock = 0 /\ read.covered = 0
      /\ read.keepTradesFrom = z.keepTradesFrom
  BY <1>3, <1>4, TradesReadKeeps
<1>6. \A b \in IdsOf(read.pending) : b <= n
  <2>1. \A b \in IdsOf(read.pending) : b \in Blocks
    BY <1>5, WaitersSeen DEF Memory
  <2>2. QED
    BY <1>1, <2>1
<1>7. PICK w : w = resolveCurves(read, n)
  OBVIOUS
<1>8. Resolved(read, w, n)
  BY <1>1, <1>5, <1>6, <1>7, ResolveKeeps
<1>9. x = resolveSenders(w) /\ Memory(w, {})
  BY <1>4, <1>7, <1>8 DEF Resolved
<1>10. Memory(x, {}) /\ Steady(w, x) /\ Named(x.ponsTrades) /\ x.seen = w.seen /\ x.pending = w.pending
  BY <1>9, SendersKnown
<1>11. /\ x.lastBlock = 0 /\ x.covered = 0 /\ x.keepTradesFrom = z.keepTradesFrom /\ x.pending = <<>>
       /\ read.seen \subseteq x.seen
  BY <1>5, <1>8, <1>10 DEF Resolved, Steady
<1>12. Closable(x, n)
  <2>1. Times[n] \in Nat /\ x.lastBlock <= n /\ x.covered <= Times[n]
    BY <1>1, <1>11, FloorBounds
  <2>2. ASSUME NEW b \in (x.lastBlock + 1)..n, b \notin x.seen
        PROVE  /\ \A kind \in PoolKinds : \A p : ~Emits(b, kind, p)
               /\ DexTradeOn(b) => Floor(b) <= x.keepTradesFrom
               /\ PonsTradeOn(b) => Floor(b) <= AgoFrom(Times[n], PONS_RETENTION)
    <3>1. b \in Blocks /\ b \notin read.seen
      BY <1>1, <1>11, <2>2
    <3>2. QED
      BY <1>3, <1>4, <1>11, <3>1, UnreadIsOld
  <2>3. QED
    BY <1>1, <1>10, <1>11, <2>1, <2>2 DEF Closable
<1>13. PICK v : v = [x EXCEPT !.lastBlock = n, !.covered = Times[n]]
  OBVIOUS
<1>14. /\ Memory(v, {}) /\ v.lastBlock = n /\ v.covered = Times[n] /\ v.pending = <<>>
       /\ v.seen = x.seen /\ v.keepTradesFrom = x.keepTradesFrom
  <2>1. UpTo(x, v, n)
    BY <1>13 DEF UpTo
  <2>2. QED
    BY <1>10, <1>12, <2>1, RangeClosed
<1>15. \A b \in v.seen : b <= v.lastBlock
  BY <1>1, <1>14 DEF Memory
<1>16. v.keepTradesFrom <= AgoFrom(v.covered, TRADE_RETENTION)
  <2>1. v.keepTradesFrom = AgoFrom(v.covered, TRADE_RETENTION)
    BY <1>3, <1>11, <1>14 DEF Discovered
  <2>2. v.keepTradesFrom \in Nat
    BY <1>14 DEF Memory, Index
  <2>3. QED
    BY <2>1, <2>2
<1>17. y = prune(v)
  BY <1>13 DEF Started
<1>18. QED
  BY <1>14, <1>15, <1>16, <1>17, PruneKeeps

-----------------------------------------------------------------------------
(***************************************************************************)
(* The inductive invariant of the indexer.                                 *)
(***************************************************************************)

\* What was read, and from where trades are kept, go by the last block's own instant.
Instants(x) ==
  /\ x.lastBlock = 0 => x = Fresh
  /\ x.lastBlock # 0 => x.covered = Times[x.lastBlock]
  /\ x.keepTradesFrom <= AgoFrom(x.covered, TRADE_RETENTION)

\* Every log of the range under way that could be of interest has been recorded.
Through(x, to) ==
  \A b \in (x.lastBlock + 1)..to :
    chain[b].log.kind \in PoolKinds \cup TradeKinds /\ emittedBy(chain[b].log) => b \in x.seen

\* What a poll has read belongs to its range, also what one that failed has left.
PollOK(x, p) ==
  /\ p \in [pc : {"idle", "idleRefresh", "logs", "curves", "senders", "refresh"}, head : Nat, to : Nat]
  /\ p.pc # "idle" => x.lastBlock # 0
  /\ \A b \in x.seen : b <= x.lastBlock + MAX_BLOCKS_PER_POLL
  /\ p.pc \in {"logs", "curves", "senders"} =>
       /\ p.to \in Blocks /\ x.lastBlock < p.to /\ p.to <= x.lastBlock + MAX_BLOCKS_PER_POLL
       /\ \A b \in x.seen : b <= p.to
  /\ p.pc \in {"curves", "senders"} => Through(x, p.to)
  /\ p.pc \in {"senders", "refresh"} => x.pending = <<>>
  /\ p.pc = "refresh" => \A b \in x.seen : b <= x.lastBlock

Sound(x, p) == Memory(x, IdsOf(x.pending)) /\ Instants(x) /\ PollOK(x, p)

IndexInv == ChainOK /\ Sound(ix, poll)

LEMMA SoundCarried ==
  ASSUME Carried, NEW x, NEW p, Sound(x, p)
  PROVE  Sound(x, p)'
<1>1. /\ ChainOK /\ Blocks \subseteq Blocks'
      /\ \A b \in Blocks : chain'[b] = chain[b] /\ Times'[b] = Times[b]
  BY DEF Carried
<1>2. PICK waits : waits = IdsOf(x.pending) /\ Memory(x, waits) /\ Instants(x) /\ PollOK(x, p)
  BY DEF Sound
<1>3. PICK n : n \in Nat /\ n = Len(chain) /\ Blocks = 1..n
  BY <1>1, ChainType
<1>4. x.lastBlock \in Nat /\ x.lastBlock <= n
  BY <1>2, <1>3 DEF Memory, Index
<1>5. Memory(x, waits)'
  BY <1>2, MemoryCarried
<1>6. Instants(x)'
  <2>1. x.lastBlock # 0 => x.lastBlock \in Blocks
    BY <1>3, <1>4
  <2>2. Fresh' = Fresh
    BY DEF Fresh, Minutes
  <2>3. QED
    BY <1>1, <1>2, <2>1, <2>2 DEF Instants, AgoFrom
<1>7. p.to \in Blocks => Through(x, p.to)' = Through(x, p.to)
  <2>1. SUFFICES ASSUME p.to \in Blocks PROVE \A b \in (x.lastBlock + 1)..p.to : chain'[b] = chain[b]
    BY DEF Through, PoolKinds, TradeKinds, emittedBy
  <2>2. \A b \in (x.lastBlock + 1)..p.to : b \in Blocks
    BY <1>3, <1>4, <2>1
  <2>3. QED
    BY <1>1, <2>2
<1>8. PollOK(x, p)'
  BY <1>1, <1>2, <1>7 DEF PollOK
<1>9. IdsOf(x.pending)' = waits
  BY <1>2 DEF IdsOf
<1>10. QED
  BY <1>5, <1>6, <1>8, <1>9 DEF Sound

\* A step that leaves a sound memory and poll of the chain it leaves keeps the invariant.
LEMMA StepKeeps ==
  ASSUME Carried, Sound(ix', poll')
  PROVE  IndexInv'
<1>1. PICK x, p : x = ix' /\ p = poll'
  OBVIOUS
<1>2. Sound(x, p)'
  BY <1>1, SoundCarried
<1>3. Sound(ix, poll)'
  BY <1>1, <1>2 DEF Sound, Memory, Instants, PollOK
<1>4. QED
  BY <1>3 DEF IndexInv, Carried

\* The first block, and a process that has read nothing.
LEMMA FirstBlock ==
  ASSUME MarketInit
  PROVE  ChainOK /\ poll = Idle /\ ix = Fresh
<1>1. PICK log \in Logs \cup {Nothing} :
        /\ log.kind \in {"INITIALIZE", "LAUNCH", "NONE"}
        /\ chain = <<[at |-> 1, log |-> log]>>
  BY NothingSilent DEF MarketInit
<1>2. PICK e : e = [at |-> 1, log |-> log]
  OBVIOUS
<1>3. 1 \in 0..MaxTime /\ 1 \in 1..MaxBlocks
  BY MarketAssumption
<1>4. e \in [at : 0..MaxTime, log : Logs \cup {Nothing}] /\ e.log = log /\ e.at = 1
  BY <1>2, <1>3
<1>5. chain = <<e>>
  BY <1>1, <1>2
<1>6. chain \in Seq([at : 0..MaxTime, log : Logs \cup {Nothing}]) /\ Len(chain) = 1 /\ chain[1] = e /\ Blocks = 1..1
  BY <1>4, <1>5 DEF Blocks
<1>7. \A b \in Blocks : b = 1 /\ chain[b].log = log /\ chain[b].at = 1
  <2>1. \A b \in 1..1 : b = 1
    OBVIOUS
  <2>2. QED
    BY <1>4, <1>6, <2>1
<1>8. ChainOK
  BY <1>1, <1>3, <1>6, <1>7 DEF ChainOK
<1>9. QED
  BY <1>8 DEF MarketInit

LEMMA IdleSound ==
  ASSUME ChainOK
  PROVE  Sound(Fresh, Idle)
<1>1. PICK x, p : x = Fresh /\ p = Idle
  OBVIOUS
<1>2. x \in Index /\ Blank(x, 0) /\ x.anchors = {}
  BY <1>1, FreshBlank
<1>3. Memory(x, IdsOf(x.pending))
  BY <1>2, BlankMemory
<1>4. p \in [pc : {"idle", "idleRefresh", "logs", "curves", "senders", "refresh"}, head : Nat, to : Nat] /\ p.pc = "idle"
  BY <1>1 DEF Idle
<1>5. PollOK(x, p)
  BY <1>2, <1>4 DEF PollOK, Blank
<1>6. Instants(x)
  <2>1. AgoFrom(0, TRADE_RETENTION) = 0
    BY MarketAssumption DEF AgoFrom
  <2>2. QED
    BY <1>1, <1>2, <2>1 DEF Instants, Blank
<1>7. QED
  BY <1>1, <1>3, <1>5, <1>6 DEF Sound

LEMMA MarketBegins ==
  ASSUME MarketInit
  PROVE  IndexInv
BY FirstBlock, IdleSound DEF IndexInv

LEMMA MineKeeps ==
  ASSUME IndexInv, Mine
  PROVE  IndexInv'
<1>1. Carried
  BY MineCarries DEF IndexInv
<1>2. ix' = ix /\ poll' = poll
  BY DEF Mine
<1>3. QED
  BY <1>1, <1>2, StepKeeps DEF IndexInv

LEMMA RestartKeeps ==
  ASSUME IndexInv, Restart
  PROVE  IndexInv'
<1>1. ChainOK /\ chain' = chain /\ ix' = Fresh /\ poll' = Idle
  BY DEF IndexInv, Restart
<1>2. Carried
  BY <1>1, StillCarries
<1>3. QED
  BY <1>1, <1>2, IdleSound, StepKeeps

LEMMA IndexStartKeeps ==
  ASSUME IndexInv, start
  PROVE  IndexInv'
<1>1. ChainOK /\ chain' = chain /\ poll' = Idle
  BY DEF IndexInv, start
<1>2. PICK n : n = Len(chain) /\ n \in Nat \ {0} /\ Blocks = 1..n /\ n \in Blocks
  BY <1>1, ChainType
<1>3. PICK x, y, p : Started(n, x, y) /\ y = ix' /\ p = poll'
  BY <1>2 DEF start, Started
<1>4. /\ Memory(y, {}) /\ y.lastBlock = n /\ y.covered = Times[n] /\ y.pending = <<>>
      /\ y.keepTradesFrom = AgoFrom(y.covered, TRADE_RETENTION) /\ \A b \in y.seen : b <= n
  BY <1>1, <1>2, <1>3, StartedIs
<1>5. y.keepTradesFrom \in Nat /\ y.seen \subseteq Blocks
  BY <1>4 DEF Memory, Index
<1>6. Instants(y)
  BY <1>2, <1>4, <1>5 DEF Instants
<1>7. p \in [pc : {"idle", "idleRefresh", "logs", "curves", "senders", "refresh"}, head : Nat, to : Nat] /\ p.pc = "idle"
  BY <1>1, <1>3 DEF Idle
<1>8. \A b \in y.seen : b <= y.lastBlock + MAX_BLOCKS_PER_POLL
  BY <1>2, <1>4, <1>5, MarketAssumption
<1>9. PollOK(y, p)
  BY <1>2, <1>4, <1>7, <1>8 DEF PollOK
<1>10. Memory(y, IdsOf(y.pending))
  BY <1>4, NoneListed
<1>11. Carried
  BY <1>1, StillCarries
<1>12. Sound(ix', poll')
  BY <1>3, <1>6, <1>9, <1>10 DEF Sound
<1>13. QED
  BY <1>11, <1>12, StepKeeps

\* The head of an endpoint that is not behind the chain.
LEMMA PollHeadKeeps ==
  ASSUME IndexInv, HEAD_LAG = 0, PollHead
  PROVE  IndexInv'
<1>1. ChainOK /\ chain' = chain /\ ix' = ix /\ Sound(ix, poll)
  BY DEF IndexInv, PollHead
<1>2. PICK n : n = Len(chain) /\ n \in Nat \ {0} /\ Blocks = 1..n /\ n \in Blocks
  BY <1>1, ChainType
<1>3. PICK x, p, q : x = ix /\ p = poll /\ q = poll'
  OBVIOUS
<1>4. Sound(x, p) /\ x.lastBlock # 0 /\ p.pc = "idle"
  BY <1>1, <1>3 DEF PollHead
<1>5. PICK head \in Blocks :
        /\ head >= n - 0
        /\ IF head <= x.lastBlock
           THEN q = [p EXCEPT !.pc = "idleRefresh"]
           ELSE q = [pc |-> "logs", head |-> head,
                     to |-> IF head - x.lastBlock > MAX_BLOCKS_PER_POLL
                            THEN x.lastBlock + MAX_BLOCKS_PER_POLL ELSE head]
  BY <1>2, <1>3 DEF PollHead
<1>6. head = n
  BY <1>2, <1>5
<1>7. /\ x.lastBlock \in Nat /\ x.seen \subseteq Blocks /\ MAX_BLOCKS_PER_POLL \in Nat \ {0}
      /\ \A b \in x.seen : b <= x.lastBlock + MAX_BLOCKS_PER_POLL
  BY <1>4, MarketAssumption DEF Sound, Memory, Index, PollOK
<1>8. PollOK(x, q)
  <2>1. CASE head <= x.lastBlock
    <3>1. q = [p EXCEPT !.pc = "idleRefresh"]
      BY <1>5, <2>1
    <3>2. /\ q \in [pc : {"idle", "idleRefresh", "logs", "curves", "senders", "refresh"}, head : Nat, to : Nat]
          /\ q.pc = "idleRefresh"
      BY <1>4, <3>1 DEF Sound, PollOK
    <3>3. QED
      BY <1>4, <1>7, <3>2 DEF PollOK
  <2>2. CASE ~(head <= x.lastBlock)
    <3>1. PICK to : to = IF head - x.lastBlock > MAX_BLOCKS_PER_POLL
                         THEN x.lastBlock + MAX_BLOCKS_PER_POLL ELSE head
      OBVIOUS
    <3>2. q = [pc |-> "logs", head |-> head, to |-> to]
      BY <1>5, <2>2, <3>1
    <3>3. to \in 1..n /\ x.lastBlock < to /\ to <= x.lastBlock + MAX_BLOCKS_PER_POLL
      BY <1>2, <1>6, <1>7, <2>2, <3>1
    <3>4. \A b \in x.seen : b <= to
      <4>1. SUFFICES ASSUME NEW b \in x.seen PROVE b <= to
        OBVIOUS
      <4>2. b \in 1..n /\ b <= x.lastBlock + MAX_BLOCKS_PER_POLL
        BY <1>2, <1>7
      <4>3. QED
        BY <1>2, <1>6, <1>7, <3>1, <4>2
    <3>5. q.pc = "logs" /\ q.to = to
          /\ q \in [pc : {"idle", "idleRefresh", "logs", "curves", "senders", "refresh"}, head : Nat, to : Nat]
      BY <1>2, <1>6, <3>2, <3>3
    <3>6. QED
      BY <1>2, <1>4, <1>7, <3>3, <3>4, <3>5 DEF PollOK
  <2>3. QED
    BY <2>1, <2>2
<1>9. Carried
  BY <1>1, StillCarries
<1>10. Sound(ix', poll')
  BY <1>1, <1>3, <1>4, <1>8 DEF Sound
<1>11. QED
  BY <1>9, <1>10, StepKeeps

\* What PollLogs reads and dates.
LogsRead(x, to, anchored, read, creates, dated, z, pools, y) ==
  /\ anchored = [x EXCEPT !.anchors = @ \cup {to}]
  /\ read = scan(x.lastBlock + 1, to, PoolKinds \cup TradeKinds)
  /\ creates = {b \in read : chain[b].log.kind \in PoolKinds}
  /\ dated = scanTrades(anchored, read)
  /\ z = [anchored EXCEPT !.anchors = dated.anchors]
  /\ pools = apply(z, creates, dated.at)
  /\ y = apply(pools, read \ creates, dated.at)

LEMMA LogsReadIs ==
  ASSUME PollLogs
  PROVE  \E anchored, read, creates, dated, z, pools :
           LogsRead(ix, poll.to, anchored, read, creates, dated, z, pools, ix')
BY DEF PollLogs, LogsRead

LEMMA LogsReadKeeps ==
  ASSUME ChainOK, NEW x, Memory(x, IdsOf(x.pending)), NEW to \in Blocks,
         NEW anchored, NEW read, NEW creates, NEW dated, NEW z, NEW pools,
         NEW y, LogsRead(x, to, anchored, read, creates, dated, z, pools, y)
  PROVE  /\ Memory(y, IdsOf(y.pending)) /\ y.seen = x.seen \cup {b \in read : emittedBy(chain[b].log)}
         /\ y.lastBlock = x.lastBlock /\ y.covered = x.covered /\ y.keepTradesFrom = x.keepTradesFrom
<1>1. PICK n : n = Len(chain) /\ n \in Nat \ {0} /\ Blocks = 1..n
  BY ChainType
<1>2. x \in Index /\ x.anchors \subseteq Blocks /\ x.lastBlock \in Nat
  BY DEF Memory, Index
<1>3. PICK waits : waits = IdsOf(x.pending) /\ Memory(x, waits)
  OBVIOUS
<1>4. /\ Memory(anchored, waits) /\ anchored.anchors \subseteq Blocks /\ anchored.seen = x.seen
      /\ anchored.pending = x.pending /\ anchored.lastBlock = x.lastBlock
      /\ anchored.covered = x.covered /\ anchored.keepTradesFrom = x.keepTradesFrom
  <2>1. PICK a : a = x.anchors \cup {to} /\ a \subseteq Blocks /\ a \subseteq Nat
    <3>1. x.anchors \cup {to} \subseteq Blocks /\ Blocks \subseteq Nat
      BY <1>1, <1>2
    <3>2. QED
      BY <3>1
  <2>2. anchored = [x EXCEPT !.anchors = a]
    BY <2>1 DEF LogsRead
  <2>3. /\ Memory(anchored, waits) /\ anchored.anchors = a /\ anchored.seen = x.seen
        /\ anchored.pending = x.pending /\ anchored.lastBlock = x.lastBlock
        /\ anchored.covered = x.covered /\ anchored.keepTradesFrom = x.keepTradesFrom
    BY ONLY <1>3, <2>1, <2>2, AnchorsSet
  <2>4. QED
    BY <2>1, <2>3
<1>5. anchored \in Index
  BY <1>4 DEF Memory
<1>6. read \in SUBSET Blocks /\ \A b \in read : b > x.lastBlock /\ chain[b].log.kind \in PoolKinds \cup TradeKinds
  <2>1. read = scan(x.lastBlock + 1, to, PoolKinds \cup TradeKinds)
    BY DEF LogsRead
  <2>2. \A b \in read : b \in Blocks /\ b \in (x.lastBlock + 1)..to /\ chain[b].log.kind \in PoolKinds \cup TradeKinds
    BY <2>1 DEF scan
  <2>3. \A b \in (x.lastBlock + 1)..to : b > x.lastBlock
    BY <1>1, <1>2
  <2>4. QED
    BY <2>2, <2>3
<1>7. PICK at : at = dated.at
  OBVIOUS
<1>8. dated.anchors \in SUBSET Blocks /\ \A b \in read : at[b] \in 0..MaxTime /\ Floor(b) <= at[b]
  <2>1. dated = scanTrades(anchored, read)
    BY DEF LogsRead
  <2>2. QED
    BY ONLY ChainOK, <1>4, <1>5, <1>6, <1>7, <2>1, ScanDates
<1>9. /\ Memory(z, waits) /\ z.seen = x.seen /\ z.pending = x.pending /\ z.lastBlock = x.lastBlock
      /\ z.covered = x.covered /\ z.keepTradesFrom = x.keepTradesFrom
  <2>1. PICK a : a = dated.anchors /\ a \subseteq Blocks /\ a \subseteq Nat
    BY <1>1, <1>8
  <2>2. z = [anchored EXCEPT !.anchors = a]
    BY <2>1 DEF LogsRead
  <2>3. /\ Memory(z, waits) /\ z.seen = anchored.seen /\ z.pending = anchored.pending
        /\ z.lastBlock = anchored.lastBlock /\ z.covered = anchored.covered
        /\ z.keepTradesFrom = anchored.keepTradesFrom
    BY ONLY <1>4, <2>1, <2>2, AnchorsSet
  <2>4. QED
    BY <1>4, <2>3
<1>10. /\ creates \in SUBSET Blocks /\ creates \subseteq read
       /\ \A b \in read : b \in creates <=> chain[b].log.kind \in PoolKinds
  BY <1>6 DEF LogsRead
<1>11. \A b \in creates : Ready(z, b, at[b])
  <2>1. SUFFICES ASSUME NEW b \in creates PROVE Ready(z, b, at[b])
    OBVIOUS
  <2>2. at[b] \in 0..MaxTime /\ chain[b].log.kind \in PoolKinds
    BY <1>8, <1>10
  <2>3. QED
    BY <2>2 DEF Ready, PoolKinds, TradeKinds
<1>12. Memory(pools, IdsOf(pools.pending)) /\ More(z, pools, creates)
  <2>1. pools = apply(z, creates, at) /\ Memory(z, IdsOf(z.pending))
    BY <1>3, <1>7, <1>9 DEF LogsRead
  <2>2. QED
    BY ONLY ChainOK, <1>10, <1>11, <2>1, ApplyKeeps
<1>13. PICK rest : rest = read \ creates /\ rest \in SUBSET Blocks
  BY <1>6
<1>14. \A b \in rest : Ready(pools, b, at[b])
  <2>1. SUFFICES ASSUME NEW b \in rest PROVE Ready(pools, b, at[b])
    OBVIOUS
  <2>2. /\ b \in read /\ at[b] \in 0..MaxTime /\ Floor(b) <= at[b] /\ b > x.lastBlock
        /\ b \in 1..n /\ b \in (x.lastBlock + 1)..to
    <3>1. b \in read
      BY <1>13, <2>1
    <3>2. b \in (x.lastBlock + 1)..to
      BY <3>1 DEF LogsRead, scan
    <3>3. QED
      BY <1>1, <1>6, <1>8, <3>1, <3>2
  <2>3. ASSUME NEW c \in 1..(b - 1), NEW kind \in PoolKinds, NEW p, Emits(c, kind, p)
        PROVE  c \in ReadBy(pools)
    <3>1. CASE c <= x.lastBlock
      <4>1. c \in 1..x.lastBlock
        BY <1>2, <2>2, <2>3, <3>1
      <4>2. pools.lastBlock = x.lastBlock
        BY <1>9, <1>12 DEF More, Unmoved
      <4>3. QED
        BY <4>1, <4>2 DEF ReadBy
    <3>2. CASE ~(c <= x.lastBlock)
      <4>1. c \in Blocks /\ c \in (x.lastBlock + 1)..to
        BY <1>1, <1>2, <2>2, <2>3, <3>2
      <4>2. chain[c].log.kind \in PoolKinds /\ emittedBy(chain[c].log)
        BY <2>3 DEF Emits
      <4>3. c \in creates
        BY <4>1, <4>2 DEF LogsRead, scan
      <4>4. QED
        BY <1>12, <4>2, <4>3 DEF More, ReadBy
    <3>3. QED
      BY <3>1, <3>2
  <2>4. pools.lastBlock = x.lastBlock
    BY <1>9, <1>12 DEF More, Unmoved
  <2>5. QED
    BY <2>2, <2>3, <2>4 DEF Ready
<1>15. Memory(y, IdsOf(y.pending)) /\ More(pools, y, rest)
  <2>1. y = apply(pools, rest, at)
    BY <1>7, <1>13 DEF LogsRead
  <2>2. QED
    BY ONLY ChainOK, <1>12, <1>13, <1>14, <2>1, ApplyKeeps
<1>16. y.seen = x.seen \cup {b \in read : emittedBy(chain[b].log)}
  <2>1. pools.seen = x.seen \cup {b \in creates : emittedBy(chain[b].log)}
    BY <1>9, <1>12 DEF More
  <2>2. y.seen = pools.seen \cup {b \in rest : emittedBy(chain[b].log)}
    BY <1>15 DEF More
  <2>3. QED
    BY <1>10, <1>13, <2>1, <2>2
<1>17. QED
  BY <1>9, <1>12, <1>15, <1>16 DEF More, Unmoved

LEMMA PollLogsKeeps ==
  ASSUME IndexInv, PollLogs
  PROVE  IndexInv'
<1>1. ChainOK /\ chain' = chain /\ poll' = [poll EXCEPT !.pc = "curves"] /\ poll.pc = "logs" /\ Sound(ix, poll)
  BY DEF IndexInv, PollLogs
<1>2. PICK x, p, y, q : x = ix /\ p = poll /\ y = ix' /\ q = poll'
  OBVIOUS
<1>3. /\ Memory(x, IdsOf(x.pending)) /\ Instants(x) /\ PollOK(x, p) /\ p.pc = "logs"
      /\ q = [p EXCEPT !.pc = "curves"]
  BY <1>1, <1>2 DEF Sound
<1>4. PICK to : to = p.to
  OBVIOUS
<1>5. /\ to \in Blocks /\ x.lastBlock < to /\ to <= x.lastBlock + MAX_BLOCKS_PER_POLL /\ x.lastBlock # 0
      /\ (\A b \in x.seen : b <= to) /\ \A b \in x.seen : b <= x.lastBlock + MAX_BLOCKS_PER_POLL
  BY <1>3, <1>4 DEF PollOK
<1>6. PICK anchored, read, creates, dated, z, pools :
        LogsRead(x, to, anchored, read, creates, dated, z, pools, y)
  BY <1>2, <1>4, LogsReadIs
<1>7. /\ Memory(y, IdsOf(y.pending)) /\ y.seen = x.seen \cup {b \in read : emittedBy(chain[b].log)}
      /\ y.lastBlock = x.lastBlock /\ y.covered = x.covered /\ y.keepTradesFrom = x.keepTradesFrom
  BY <1>1, <1>3, <1>5, <1>6, LogsReadKeeps
<1>8. PICK n : n \in Nat /\ Blocks = 1..n /\ x.lastBlock \in Nat /\ to \in Nat /\ MAX_BLOCKS_PER_POLL \in Nat
  <2>1. PICK n : n \in Nat /\ Blocks = 1..n
    BY <1>1, ChainType
  <2>2. x.lastBlock \in Nat
    BY <1>3 DEF Memory, Index
  <2>3. to \in Nat
    BY <1>5, <2>1
  <2>4. QED
    BY <2>1, <2>2, <2>3, MarketAssumption
<1>9. \A b \in read : b \in (x.lastBlock + 1)..to
  BY <1>6 DEF LogsRead, scan
<1>10. \A b \in y.seen : b <= to /\ b <= y.lastBlock + MAX_BLOCKS_PER_POLL
  <2>1. \A b \in (x.lastBlock + 1)..to : b <= to /\ b <= x.lastBlock + MAX_BLOCKS_PER_POLL
    BY <1>5, <1>8
  <2>2. QED
    BY <1>5, <1>7, <1>9, <2>1
<1>11. Through(y, to)
  <2>1. \A b \in (x.lastBlock + 1)..to : b \in Blocks
    BY <1>5, <1>8
  <2>2. ASSUME NEW b \in (x.lastBlock + 1)..to, chain[b].log.kind \in PoolKinds \cup TradeKinds,
               emittedBy(chain[b].log)
        PROVE  b \in y.seen
    <3>1. b \in read
      BY <1>6, <2>1, <2>2 DEF LogsRead, scan
    <3>2. QED
      BY <1>7, <2>2, <3>1
  <2>3. QED
    BY <1>7, <2>2 DEF Through
<1>12. /\ q \in [pc : {"idle", "idleRefresh", "logs", "curves", "senders", "refresh"}, head : Nat, to : Nat]
       /\ q.pc = "curves" /\ q.to = to
  BY <1>3, <1>4 DEF PollOK
<1>13. PollOK(y, q)
  BY <1>5, <1>7, <1>10, <1>11, <1>12 DEF PollOK
<1>14. Instants(y)
  BY <1>3, <1>5, <1>7 DEF Instants
<1>15. Sound(ix', poll')
  BY <1>2, <1>7, <1>13, <1>14 DEF Sound
<1>16. QED
  BY <1>1, <1>15, StillCarries, StepKeeps

LEMMA PollCurvesKeeps ==
  ASSUME IndexInv, PollCurves
  PROVE  IndexInv'
<1>1. /\ ChainOK /\ chain' = chain /\ poll' = [poll EXCEPT !.pc = "senders"] /\ poll.pc = "curves"
      /\ Sound(ix, poll) /\ ix' = resolveCurves(ix, poll.to)
  BY DEF IndexInv, PollCurves
<1>2. PICK x, p, y, q : x = ix /\ p = poll /\ y = ix' /\ q = poll'
  OBVIOUS
<1>3. PICK to : to = p.to
  OBVIOUS
<1>4. /\ Memory(x, IdsOf(x.pending)) /\ Instants(x) /\ PollOK(x, p) /\ p.pc = "curves"
      /\ q = [p EXCEPT !.pc = "senders"] /\ y = resolveCurves(x, to)
  BY <1>1, <1>2, <1>3 DEF Sound
<1>5. /\ to \in Blocks /\ x.lastBlock < to /\ to <= x.lastBlock + MAX_BLOCKS_PER_POLL /\ x.lastBlock # 0
      /\ (\A b \in x.seen : b <= to) /\ Through(x, to)
  BY <1>3, <1>4 DEF PollOK
<1>6. PICK n : n \in Nat /\ Blocks = 1..n /\ x.lastBlock \in Nat /\ to \in Nat /\ MAX_BLOCKS_PER_POLL \in Nat
  <2>1. PICK n : n \in Nat /\ Blocks = 1..n
    BY <1>1, ChainType
  <2>2. x.lastBlock \in Nat
    BY <1>4 DEF Memory, Index
  <2>3. to \in Nat
    BY <1>5, <2>1
  <2>4. QED
    BY <2>1, <2>2, <2>3, MarketAssumption
<1>7. \A b \in IdsOf(x.pending) : b <= to
  BY <1>1, <1>4, <1>5, WaitersSeen DEF Memory
<1>8. Resolved(x, y, to)
  BY <1>1, <1>4, <1>6, <1>7, ResolveKeeps
<1>9. /\ Memory(y, {}) /\ y.pending = <<>> /\ x.seen \subseteq y.seen /\ y.lastBlock = x.lastBlock
      /\ y.covered = x.covered /\ y.keepTradesFrom = x.keepTradesFrom
      /\ \A b \in y.seen : b <= to
  BY <1>5, <1>8 DEF Resolved, Steady
<1>10. \A b \in y.seen : b <= y.lastBlock + MAX_BLOCKS_PER_POLL
  <2>1. SUFFICES ASSUME NEW b \in y.seen PROVE b <= y.lastBlock + MAX_BLOCKS_PER_POLL
    OBVIOUS
  <2>2. b \in Nat /\ b <= to
    BY <1>6, <1>9, <2>1 DEF Memory
  <2>3. QED
    BY <1>5, <1>6, <1>9, <2>2
<1>11. Through(y, to)
  BY <1>5, <1>9 DEF Through
<1>12. /\ q \in [pc : {"idle", "idleRefresh", "logs", "curves", "senders", "refresh"}, head : Nat, to : Nat]
       /\ q.pc = "senders" /\ q.to = to
  BY <1>3, <1>4 DEF PollOK
<1>13. PollOK(y, q)
  BY <1>5, <1>9, <1>10, <1>11, <1>12 DEF PollOK
<1>14. Instants(y)
  BY <1>4, <1>5, <1>9 DEF Instants
<1>15. Memory(y, IdsOf(y.pending))
  BY <1>9, NoneListed
<1>16. Sound(ix', poll')
  BY <1>2, <1>13, <1>14, <1>15 DEF Sound
<1>17. QED
  BY <1>1, <1>16, StillCarries, StepKeeps

\* The range is closed: every trader is asked for, and the range is what is covered.
LEMMA PollSendersKeeps ==
  ASSUME IndexInv, PollSenders
  PROVE  IndexInv'
<1>1. /\ ChainOK /\ chain' = chain /\ poll' = [poll EXCEPT !.pc = "refresh"] /\ poll.pc = "senders"
      /\ Sound(ix, poll) /\ ix' = [resolveSenders(ix) EXCEPT !.lastBlock = poll.to, !.covered = Times[poll.to]]
  BY DEF IndexInv, PollSenders
<1>2. PICK x, p, y, q : x = ix /\ p = poll /\ y = ix' /\ q = poll'
  OBVIOUS
<1>3. PICK to, w : to = p.to /\ w = resolveSenders(x)
  OBVIOUS
<1>4. /\ Memory(x, IdsOf(x.pending)) /\ Instants(x) /\ PollOK(x, p) /\ p.pc = "senders"
      /\ q = [p EXCEPT !.pc = "refresh"] /\ UpTo(w, y, to)
  BY <1>1, <1>2, <1>3 DEF Sound, UpTo
<1>5. /\ to \in Blocks /\ x.lastBlock < to /\ to <= x.lastBlock + MAX_BLOCKS_PER_POLL /\ x.lastBlock # 0
      /\ (\A b \in x.seen : b <= to) /\ Through(x, to) /\ x.pending = <<>>
  BY <1>3, <1>4 DEF PollOK
<1>6. PICK n : n \in Nat /\ Blocks = 1..n /\ x.lastBlock \in 1..n /\ to \in 1..n
  <2>1. PICK n : n \in Nat /\ Blocks = 1..n /\ n = Len(chain)
    BY <1>1, ChainType
  <2>2. x.lastBlock \in Nat /\ x.lastBlock <= n
    BY <1>4, <2>1 DEF Memory, Index
  <2>3. QED
    BY <1>5, <2>1, <2>2
<1>7. Memory(x, {})
  BY <1>4, <1>5, NoneListed
<1>8. /\ Memory(w, {}) /\ Steady(x, w) /\ Named(w.ponsTrades) /\ w.seen = x.seen /\ w.pending = <<>>
  BY <1>1, <1>3, <1>5, <1>7, SendersKnown
<1>9. w.lastBlock = x.lastBlock /\ w.covered = x.covered /\ w.keepTradesFrom = x.keepTradesFrom
  BY <1>8 DEF Steady
<1>10. x.covered = Times[x.lastBlock] /\ x.keepTradesFrom <= AgoFrom(x.covered, TRADE_RETENTION)
  BY <1>4, <1>5 DEF Instants
<1>11. Times[x.lastBlock] \in Nat /\ Times[to] \in Nat /\ Times[x.lastBlock] <= Times[to]
  <2>1. PICK m : m = Len(chain) /\ Clock(m, Times) /\ Blocks = 1..m
    BY <1>1, ChainType
  <2>2. x.lastBlock \in 1..m /\ to \in 1..m /\ x.lastBlock <= to
    BY <1>5, <1>6, <2>1
  <2>3. QED
    BY <2>1, <2>2 DEF Clock
<1>12. Closable(w, to)
  <2>1. w.lastBlock <= to /\ w.covered <= Times[to]
    BY <1>5, <1>6, <1>9, <1>10, <1>11
  <2>2. ASSUME NEW b \in (w.lastBlock + 1)..to, b \notin w.seen
        PROVE  /\ \A kind \in PoolKinds : \A r : ~Emits(b, kind, r)
               /\ DexTradeOn(b) => Floor(b) <= w.keepTradesFrom
               /\ PonsTradeOn(b) => Floor(b) <= AgoFrom(Times[to], PONS_RETENTION)
    <3>1. ~(chain[b].log.kind \in PoolKinds \cup TradeKinds /\ emittedBy(chain[b].log))
      BY <1>5, <1>8, <1>9, <2>2 DEF Through
    <3>2. QED
      BY <3>1 DEF Emits, DexTradeOn, PonsTradeOn, Genuine, TradeKinds
  <2>3. QED
    BY <1>5, <1>8, <2>1, <2>2 DEF Closable
<1>13. /\ Memory(y, {}) /\ y.lastBlock = to /\ y.covered = Times[to] /\ y.pending = <<>>
       /\ y.seen = x.seen /\ y.keepTradesFrom = x.keepTradesFrom
  <2>1. /\ Memory(y, {}) /\ y.lastBlock = to /\ y.covered = Times[to] /\ y.pending = <<>>
        /\ y.seen = w.seen /\ y.keepTradesFrom = w.keepTradesFrom
    BY ONLY <1>1, <1>4, <1>8, <1>12, RangeClosed
  <2>2. QED
    BY <1>8, <1>9, <2>1
<1>14. Memory(y, IdsOf(y.pending))
  BY <1>13, NoneListed
<1>15. Instants(y)
  <2>1. /\ AgoFrom(x.covered, TRADE_RETENTION) \in Nat /\ AgoFrom(Times[to], TRADE_RETENTION) \in Nat
        /\ AgoFrom(x.covered, TRADE_RETENTION) <= AgoFrom(Times[to], TRADE_RETENTION)
    <3>1. PICK s, t, d \in Nat : s = x.covered /\ t = Times[to] /\ d = TRADE_RETENTION /\ s <= t
      BY <1>10, <1>11, MarketAssumption
    <3>2. d <= d
      OBVIOUS
    <3>3. AgoFrom(s, d) \in Nat /\ AgoFrom(s, d) <= AgoFrom(t, d) /\ AgoFrom(t, d) \in Nat
      BY <3>1, <3>2, AgoInOrder
    <3>4. QED
      BY <3>1, <3>3
  <2>2. x.keepTradesFrom \in Nat
    BY <1>7 DEF Memory, Index
  <2>3. y.keepTradesFrom <= AgoFrom(y.covered, TRADE_RETENTION)
    BY <1>10, <1>13, <2>1, <2>2
  <2>4. y.lastBlock # 0
    BY <1>6, <1>13
  <2>5. QED
    BY <1>13, <2>3, <2>4 DEF Instants
<1>16. \A b \in y.seen : b <= y.lastBlock /\ b <= y.lastBlock + MAX_BLOCKS_PER_POLL
  <2>1. SUFFICES ASSUME NEW b \in y.seen PROVE b <= y.lastBlock /\ b <= y.lastBlock + MAX_BLOCKS_PER_POLL
    OBVIOUS
  <2>2. b \in Nat /\ b <= to /\ MAX_BLOCKS_PER_POLL \in Nat
    <3>1. b \in x.seen /\ x.seen \subseteq Blocks
      BY <1>7, <1>13, <2>1 DEF Memory
    <3>2. b \in Nat /\ b <= to
      BY <1>5, <1>6, <3>1
    <3>3. QED
      BY <3>2, MarketAssumption
  <2>3. QED
    BY <1>6, <1>13, <2>2
<1>17. /\ q \in [pc : {"idle", "idleRefresh", "logs", "curves", "senders", "refresh"}, head : Nat, to : Nat]
       /\ q.pc = "refresh"
  BY <1>4 DEF PollOK
<1>18. PollOK(y, q)
  BY <1>6, <1>13, <1>16, <1>17 DEF PollOK
<1>19. Sound(ix', poll')
  BY <1>2, <1>14, <1>15, <1>18 DEF Sound
<1>20. QED
  BY <1>1, <1>19, StillCarries, StepKeeps

LEMMA PollRefreshKeeps ==
  ASSUME IndexInv, PollRefresh
  PROVE  IndexInv'
<1>1. /\ ChainOK /\ chain' = chain /\ poll' = [poll EXCEPT !.pc = "idle"]
      /\ poll.pc \in {"refresh", "idleRefresh"} /\ Sound(ix, poll)
      /\ ix' = IF poll.pc = "refresh" THEN prune(ix) ELSE ix
  BY DEF IndexInv, PollRefresh
<1>2. PICK x, p, y, q : x = ix /\ p = poll /\ y = ix' /\ q = poll'
  OBVIOUS
<1>3. /\ Memory(x, IdsOf(x.pending)) /\ Instants(x) /\ PollOK(x, p) /\ p.pc \in {"refresh", "idleRefresh"}
      /\ q = [p EXCEPT !.pc = "idle"] /\ (p.pc = "refresh" => y = prune(x)) /\ (p.pc # "refresh" => y = x)
  BY <1>1, <1>2 DEF Sound
<1>4. x.lastBlock # 0 /\ \A b \in x.seen : b <= x.lastBlock + MAX_BLOCKS_PER_POLL
  BY <1>3 DEF PollOK
<1>5. /\ q \in [pc : {"idle", "idleRefresh", "logs", "curves", "senders", "refresh"}, head : Nat, to : Nat]
      /\ q.pc = "idle"
  BY <1>3 DEF PollOK
<1>6. Sound(y, q)
  <2>1. CASE p.pc = "refresh"
    <3>1. x.pending = <<>> /\ \A b \in x.seen : b <= x.lastBlock
      BY <1>3, <2>1 DEF PollOK
    <3>2. Memory(x, {})
      BY <1>3, <3>1, NoneListed
    <3>3. x.keepTradesFrom <= AgoFrom(x.covered, TRADE_RETENTION) /\ x.covered = Times[x.lastBlock]
      BY <1>3, <1>4 DEF Instants
    <3>4. y = prune(x)
      BY <1>3, <2>1
    <3>5. /\ Memory(y, {}) /\ y.lastBlock = x.lastBlock /\ y.covered = x.covered /\ y.pending = x.pending
          /\ y.keepTradesFrom = AgoFrom(x.covered, TRADE_RETENTION) /\ y.seen \subseteq x.seen
      BY <1>1, <3>1, <3>2, <3>3, <3>4, PruneKeeps
    <3>6. Memory(y, IdsOf(y.pending))
      BY <3>1, <3>5, NoneListed
    <3>7. y.keepTradesFrom \in Nat
      BY <3>5 DEF Memory, Index
    <3>8. Instants(y)
      BY <1>4, <3>3, <3>5, <3>7 DEF Instants
    <3>9. PollOK(y, q)
      BY <1>4, <1>5, <3>5 DEF PollOK
    <3>10. QED
      BY <3>6, <3>8, <3>9 DEF Sound
  <2>2. CASE p.pc # "refresh"
    <3>1. PollOK(x, q)
      BY <1>4, <1>5 DEF PollOK
    <3>2. QED
      BY <1>3, <2>2, <3>1 DEF Sound
  <2>3. QED
    BY <2>1, <2>2
<1>7. Sound(ix', poll')
  BY <1>2, <1>6
<1>8. QED
  BY <1>1, <1>7, StillCarries, StepKeeps

\* What a poll that failed leaves behind.
Left(x, y, p) ==
  \/ y = x
  \/ /\ p.pc = "logs"
     /\ \E anchored \in SUBSET ((x.lastBlock + 1)..p.to) :
          y = [x EXCEPT !.anchors = @ \cup {p.to} \cup anchored]
  \/ /\ p.pc = "curves"
     /\ \E places \in SUBSET {chain[t.id].log.place : t \in Range(x.pending)} :
          LET launches == launchesOf(places, p.to)
          IN  y = apply(x, launches, Undated(launches))
  \/ /\ p.pc = "senders"
     /\ \E found \in SUBSET {t.id : t \in Range(x.ponsTrades)} :
          y = [x EXCEPT !.senders = @ \cup found]

\* Knowing more of the traders changes nothing else.
LEMMA SendersSet ==
  ASSUME NEW x, NEW waits, Memory(x, waits), NEW senders, senders \in SUBSET Nat,
         NEW y, y = [x EXCEPT !.senders = senders]
  PROVE  /\ Memory(y, waits) /\ y.seen = x.seen /\ y.pending = x.pending
         /\ y.lastBlock = x.lastBlock /\ y.covered = x.covered /\ y.keepTradesFrom = x.keepTradesFrom
<1>1. x \in Index
  BY DEF Memory
<1>2. /\ y \in Index /\ y.anchors = x.anchors
      /\ y.usdgPools = x.usdgPools /\ y.ponsPools = x.ponsPools /\ y.curves = x.curves
      /\ y.notCurves = x.notCurves /\ y.pending = x.pending /\ y.dexTrades = x.dexTrades
      /\ y.minuteVolume = x.minuteVolume /\ y.keepTradesFrom = x.keepTradesFrom
      /\ y.ponsTrades = x.ponsTrades /\ y.seen = x.seen
      /\ y.lastBlock = x.lastBlock /\ y.covered = x.covered
  BY <1>1 DEF Index
<1>3. ReadBy(y) = ReadBy(x)
  BY <1>2 DEF ReadBy
<1>4. QED
  BY <1>2, <1>3 DEF Memory, Sources, DexBook, PonsBook, Waiting, Placed, Known, DexKept, PonsKept, Books

\* Whatever a failed poll leaves is as true of the chain as what it began with.
LEMMA LeftIsSound ==
  ASSUME ChainOK, NEW x, NEW y, NEW p, Memory(x, IdsOf(x.pending)), PollOK(x, p), Left(x, y, p)
  PROVE  /\ Memory(y, IdsOf(y.pending)) /\ \A b \in y.seen : b <= x.lastBlock + MAX_BLOCKS_PER_POLL
         /\ y.lastBlock = x.lastBlock /\ y.covered = x.covered /\ y.keepTradesFrom = x.keepTradesFrom
<1>1. PICK to, waits : to = p.to /\ waits = IdsOf(x.pending)
  OBVIOUS
<1>2. PICK n : n \in Nat /\ Blocks = 1..n
  BY ChainType
<1>3. x.lastBlock \in Nat /\ x.seen \in SUBSET Nat /\ x.senders \in SUBSET Nat /\ MAX_BLOCKS_PER_POLL \in Nat
  BY MarketAssumption DEF Memory, Index
<1>4. /\ \A b \in x.seen : b <= x.lastBlock + MAX_BLOCKS_PER_POLL
      /\ p.pc \in {"logs", "curves"} => to \in Blocks /\ to <= x.lastBlock + MAX_BLOCKS_PER_POLL
  BY <1>1 DEF PollOK
<1>5. CASE y = x
  BY <1>4, <1>5
<1>6. CASE /\ p.pc = "logs"
           /\ \E anchored \in SUBSET ((x.lastBlock + 1)..p.to) :
                y = [x EXCEPT !.anchors = @ \cup {p.to} \cup anchored]
  <2>1. PICK anchored \in SUBSET ((x.lastBlock + 1)..to) : y = [x EXCEPT !.anchors = @ \cup {to} \cup anchored]
    BY <1>1, <1>6
  <2>2. PICK a : a = x.anchors \cup {to} \cup anchored
    OBVIOUS
  <2>3. (x.lastBlock + 1)..to \subseteq Blocks
    BY <1>2, <1>3, <1>4, <1>6
  <2>4. a \subseteq Blocks
    BY <1>4, <1>6, <2>1, <2>2, <2>3 DEF Memory
  <2>5. a \subseteq Nat
    BY <1>2, <2>4
  <2>6. y = [x EXCEPT !.anchors = a]
    BY <2>1, <2>2
  <2>7. Memory(x, waits)
    BY <1>1
  <2>8. /\ Memory(y, waits) /\ y.seen = x.seen /\ y.pending = x.pending
        /\ y.lastBlock = x.lastBlock /\ y.covered = x.covered /\ y.keepTradesFrom = x.keepTradesFrom
    BY ONLY <2>4, <2>5, <2>6, <2>7, AnchorsSet
  <2>9. QED
    BY <1>1, <1>4, <2>8
<1>7. CASE /\ p.pc = "curves"
           /\ \E places \in SUBSET {chain[t.id].log.place : t \in Range(x.pending)} :
                LET launches == launchesOf(places, p.to)
                IN  y = apply(x, launches, Undated(launches))
  <2>1. PICK places, launches : launches = launchesOf(places, to) /\ y = apply(x, launches, Undated(launches))
    BY <1>1, <1>7
  <2>2. to \in Nat
    BY <1>2, <1>4, <1>7
  <2>3. /\ Memory(y, IdsOf(y.pending)) /\ More(x, y, launches) /\ y.pending = x.pending
        /\ launches \in SUBSET Blocks /\ \A b \in launches : b <= to
    BY <2>1, <2>2, LaunchesRecorded
  <2>4. \A b \in y.seen : b \in x.seen \/ b \in launches
    BY <2>3 DEF More
  <2>5. ASSUME NEW b \in y.seen PROVE b <= x.lastBlock + MAX_BLOCKS_PER_POLL
    <3>1. CASE b \in x.seen
      BY <1>4, <3>1
    <3>2. CASE b \in launches
      <4>1. b \in Nat /\ b <= to
        BY <1>2, <2>3, <3>2
      <4>2. QED
        BY <1>3, <1>4, <1>7, <2>2, <4>1
    <3>3. QED
      BY <2>4, <3>1, <3>2
  <2>6. QED
    BY <2>3, <2>5 DEF More, Unmoved
<1>8. CASE /\ p.pc = "senders"
           /\ \E found \in SUBSET {t.id : t \in Range(x.ponsTrades)} :
                y = [x EXCEPT !.senders = @ \cup found]
  <2>1. PICK found \in SUBSET {t.id : t \in Range(x.ponsTrades)} : y = [x EXCEPT !.senders = @ \cup found]
    BY <1>8
  <2>2. \A t \in Range(x.ponsTrades) : t.id \in Nat
    BY ListTypes, SwapDates DEF Memory
  <2>3. PICK senders : senders = x.senders \cup found /\ senders \in SUBSET Nat
    <3>1. found \subseteq Nat
      BY <2>1, <2>2
    <3>2. QED
      BY <1>3, <3>1
  <2>4. y = [x EXCEPT !.senders = senders]
    BY <2>1, <2>3
  <2>5. Memory(x, waits)
    BY <1>1
  <2>6. /\ Memory(y, waits) /\ y.seen = x.seen /\ y.pending = x.pending
        /\ y.lastBlock = x.lastBlock /\ y.covered = x.covered /\ y.keepTradesFrom = x.keepTradesFrom
    BY ONLY <2>3, <2>4, <2>5, SendersSet
  <2>7. QED
    BY <1>1, <1>4, <2>6
<1>9. QED
  BY <1>5, <1>6, <1>7, <1>8 DEF Left

\* A poll that throws leaves a sound memory.
LEMMA PollFailsKeeps ==
  ASSUME IndexInv, PollFails
  PROVE  IndexInv'
<1>1. /\ ChainOK /\ chain' = chain /\ poll' = [poll EXCEPT !.pc = "idle"] /\ poll.pc # "idle" /\ Sound(ix, poll)
      /\ Left(ix, ix', poll)
  BY DEF IndexInv, PollFails, Left
<1>2. PICK x, p, y, q : x = ix /\ p = poll /\ y = ix' /\ q = poll'
  OBVIOUS
<1>3. /\ Memory(x, IdsOf(x.pending)) /\ Instants(x) /\ PollOK(x, p) /\ q = [p EXCEPT !.pc = "idle"]
      /\ p.pc # "idle" /\ Left(x, y, p)
  BY <1>1, <1>2 DEF Sound
<1>4. /\ x.lastBlock # 0 /\ \A b \in x.seen : b <= x.lastBlock + MAX_BLOCKS_PER_POLL
  BY <1>3 DEF PollOK
<1>5. /\ q \in [pc : {"idle", "idleRefresh", "logs", "curves", "senders", "refresh"}, head : Nat, to : Nat]
      /\ q.pc = "idle"
  BY <1>3 DEF PollOK
<1>6. /\ Memory(y, IdsOf(y.pending)) /\ \A b \in y.seen : b <= x.lastBlock + MAX_BLOCKS_PER_POLL
      /\ y.lastBlock = x.lastBlock /\ y.covered = x.covered /\ y.keepTradesFrom = x.keepTradesFrom
  BY <1>1, <1>3, LeftIsSound
<1>7. Instants(y)
  BY <1>3, <1>4, <1>6 DEF Instants
<1>8. PollOK(y, q)
  BY <1>4, <1>5, <1>6 DEF PollOK
<1>9. Sound(ix', poll')
  BY <1>2, <1>6, <1>7, <1>8 DEF Sound
<1>10. QED
  BY <1>1, <1>9, StillCarries, StepKeeps

\* What a sound memory shows.
LEMMA SoundShows ==
  ASSUME IndexInv
  PROVE  CoveredIsRead
<1>1. PICK x, waits : x = ix /\ waits = IdsOf(x.pending)
  OBVIOUS
<1>2. ChainOK /\ Memory(x, waits) /\ Instants(x)
  BY <1>1 DEF IndexInv, Sound
<1>3. PICK n : n \in Nat /\ Blocks = 1..n /\ x.lastBlock \in Nat /\ x.covered \in Nat /\ x.keepTradesFrom \in Nat
  <2>1. PICK n : n \in Nat /\ Blocks = 1..n
    BY <1>2, ChainType
  <2>2. QED
    BY <1>2, <2>1 DEF Memory, Index
<1>4. /\ OncePerEvent(x.dexTrades) /\ InTimeOrder(x.dexTrades)
      /\ OncePerEvent(x.ponsTrades) /\ InTimeOrder(x.ponsTrades)
  BY <1>2 DEF Memory, DexBook, PonsBook
<1>5. \A t \in Range(x.dexTrades) : t.id \in Blocks /\ DexTradeOn(t.id)
  BY <1>2 DEF Memory, DexBook, Placed
<1>6. \A t \in Range(x.ponsTrades) : t.id \in Blocks /\ PonsTradeOn(t.id) /\ (t.wallet = NoWallet => t.id > x.lastBlock)
  BY <1>2 DEF Memory, PonsBook, Placed
<1>7. \A t \in Range(x.pending) : t.id > x.lastBlock
  BY <1>2 DEF Memory, Waiting
<1>8. ASSUME NEW b \in Blocks, b <= x.lastBlock, Floor(b) > AgoFrom(x.covered, TRADE_RETENTION), DexTradeOn(b)
      PROVE  \E t \in Range(x.dexTrades) : t.id = b
  <2>1. b \in ReadBy(x)
    BY <1>3, <1>8 DEF ReadBy
  <2>2. x.keepTradesFrom <= AgoFrom(x.covered, TRADE_RETENTION) /\ AgoFrom(x.covered, TRADE_RETENTION) \in Nat
    BY <1>2, <1>3, MarketAssumption, AgoNat DEF Instants
  <2>3. Floor(b) \in Nat
    BY <1>2, <1>8, FloorBounds
  <2>4. Floor(b) > x.keepTradesFrom
    BY <1>3, <1>8, <2>2, <2>3
  <2>5. b \in IdsOf(x.dexTrades)
    BY <1>2, <1>8, <2>1, <2>4 DEF Memory, DexKept
  <2>6. QED
    BY <2>5 DEF IdsOf
<1>9. ASSUME NEW b \in Blocks, b <= x.lastBlock, Floor(b) > AgoFrom(x.covered, PONS_RETENTION), PonsTradeOn(b)
      PROVE  \E t \in Range(x.ponsTrades) : t.id = b /\ t.wallet # NoWallet
  <2>1. b \in ReadBy(x)
    BY <1>3, <1>9 DEF ReadBy
  <2>2. b \in IdsOf(x.ponsTrades) \cup waits
    BY <1>2, <1>9, <2>1 DEF Memory, PonsKept
  <2>3. ~(b > x.lastBlock)
    BY <1>3, <1>9
  <2>4. b \notin waits
    BY <1>1, <1>7, <2>3 DEF IdsOf
  <2>5. PICK t \in Range(x.ponsTrades) : t.id = b
    BY <2>2, <2>4 DEF IdsOf
  <2>6. QED
    BY <1>6, <2>3, <2>5
<1>10. \A m \in Minutes : m * MINUTE >= x.keepTradesFrom => x.minuteVolume[m] = VolumeHeld(x.dexTrades, m)
  BY <1>2 DEF Memory, Books
<1>11. QED
  BY <1>1, <1>4, <1>5, <1>6, <1>8, <1>9, <1>10 DEF CoveredIsRead, Owed

(***************************************************************************)
(* What the market covers it has read: every trade of the last block's     *)
(* past is held once, in time order, until it is pruned, and the volume    *)
(* agrees with it - whichever polls failed, and however often `seen` was   *)
(* cleared - as long as no poll's endpoint is behind the last one's        *)
(* (HEAD_LAG = 0).                                                         *)
(***************************************************************************)
THEOREM MarketCoversWhatItRead ==
  ASSUME HEAD_LAG = 0
  PROVE  MarketInit /\ [][MarketNext]_marketVars => []CoveredIsRead
<1>1. MarketInit => IndexInv
  BY MarketBegins
<1>2. IndexInv /\ [MarketNext]_marketVars => IndexInv'
  <2>1. SUFFICES ASSUME IndexInv, [MarketNext]_marketVars PROVE IndexInv'
    OBVIOUS
  <2>2. CASE Mine
    BY <2>1, <2>2, MineKeeps
  <2>3. CASE Restart
    BY <2>1, <2>3, RestartKeeps
  <2>4. CASE start
    BY <2>1, <2>4, IndexStartKeeps
  <2>5. CASE PollHead
    BY <2>1, <2>5, PollHeadKeeps
  <2>6. CASE PollLogs
    BY <2>1, <2>6, PollLogsKeeps
  <2>7. CASE PollCurves
    BY <2>1, <2>7, PollCurvesKeeps
  <2>8. CASE PollSenders
    BY <2>1, <2>8, PollSendersKeeps
  <2>9. CASE PollRefresh
    BY <2>1, <2>9, PollRefreshKeeps
  <2>10. CASE PollFails
    BY <2>1, <2>10, PollFailsKeeps
  <2>11. CASE UNCHANGED marketVars
    <3>1. /\ ChainOK /\ Sound(ix, poll) /\ chain' = chain /\ ix' = ix /\ poll' = poll
      BY <2>1, <2>11 DEF IndexInv, marketVars
    <3>2. Sound(ix', poll')
      BY <3>1
    <3>3. QED
      BY <3>1, <3>2, StillCarries, StepKeeps
  <2>12. QED
    BY <2>1, <2>2, <2>3, <2>4, <2>5, <2>6, <2>7, <2>8, <2>9, <2>10, <2>11 DEF MarketNext, follow
<1>3. IndexInv => CoveredIsRead
  BY SoundShows
<1>4. QED
  BY <1>1, <1>2, <1>3, PTL

=============================================================================
