------------------------- MODULE ConsulClientProofs -------------------------
(***************************************************************************)
(* Proofs about the Consul client, for any templates and documents of any  *)
(* depth, over any fields and values: DeepMergeYAML keeps every setting    *)
(* but those of the base that a value of the override replaces, and what   *)
(* Fetch returns are merges of documents that the keys have had during the *)
(* call, however others write to them.                                     *)
(*                                                                         *)
(* First the recursive functions of the model are shown to satisfy their   *)
(* equations: MapsOf and Walk by induction on numbers, DeepMergeMaps by    *)
(* induction on the depth of maps.  Then a path is walked through both     *)
(* maps and their merge at once (MergeIsMerge).  The invariant of a Fetch  *)
(* is that what it has read it still may have read (Fetching, BaseIsRead). *)
(***************************************************************************)
EXTENDS ConsulClient, WellFoundedInduction, TLAPS

\* Induction on the natural numbers, for a set instead of a formula: otherwise the
\* smallest number outside of it would have a predecessor in it.
LEMMA Induction ==
  ASSUME NEW S, 0 \in S, \A n \in Nat : n \in S => n + 1 \in S
  PROVE  Nat \subseteq S
<1> DEFINE R == {ij \in Nat \X Nat : ij[1] < ij[2]}
<1>1. IsWellFoundedOn(R, Nat)
  BY NatLessThanWellFounded DEF OpToRel
<1>2. \A i, j \in Nat : <<i, j>> \in R <=> i < j
  OBVIOUS
<1> HIDE DEF R
<1>3. SUFFICES ASSUME Nat \ S # {} PROVE FALSE
  OBVIOUS
<1>4. PICK n \in Nat \ S : \A m \in Nat \ S : <<m, n>> \notin R
  BY <1>1, <1>3, WFMin
<1>5. n # 0 /\ n - 1 \in Nat /\ n - 1 < n
  OBVIOUS
<1>6. n - 1 \in S
  BY <1>2, <1>4, <1>5
<1> QED
  BY <1>4, <1>5, <1>6

----------------------------------------------------------------------------
(* Parsed maps. *)

\* What the fields of a map with at most d levels of maps have.
NodesOf(d) ==
  {Leaf(v) : v \in Scalars} \cup (IF d = 0 THEN {} ELSE {Doc(m) : m \in MapsOf[d - 1]})

\* MapsOf is defined.
LEMMA MapsOfIs ==
  \A d \in 0..MaxDepth : MapsOf[d] = UNION {[S -> NodesOf(d)] : S \in SUBSET Fields}
<1> USE ConsulAssumption
<1> DEFINE Body(f, d) ==
             LET nodes == {Leaf(v) : v \in Scalars} \cup
                          (IF d = 0 THEN {} ELSE {Doc(m) : m \in f[d - 1]})
             IN  UNION {[S -> nodes] : S \in SUBSET Fields}
           Eq(f, n) == \A d \in 0..n : f[d] = Body(f, d)
           S == {n \in Nat : \E f : Eq(f, n)}
<1>1. 0 \in S
  <2>1. Eq([d \in 0..0 |-> Body(<<>>, 0)], 0)
    OBVIOUS
  <2> QED
    BY <2>1
<1>2. ASSUME NEW n \in Nat, n \in S
      PROVE  n + 1 \in S
  <2>1. PICK f : Eq(f, n)
    BY <1>2
  <2> DEFINE g == [d \in 0..(n + 1) |-> IF d = n + 1 THEN Body(f, n + 1) ELSE f[d]]
  <2>2. \A d \in 0..n : g[d] = f[d]
    OBVIOUS
  <2>3. ASSUME NEW d \in 0..(n + 1)
        PROVE  Body(g, d) = Body(f, d)
    <3>1. d = 0 \/ d - 1 \in 0..n
      OBVIOUS
    <3>2. d = 0 \/ g[d - 1] = f[d - 1]
      BY <2>2, <3>1
    <3> QED
      BY <3>2
  <2>4. Eq(g, n + 1)
    <3> HIDE DEF Body
    <3> QED
      BY <2>1, <2>3
  <2> HIDE DEF Eq, g
  <2> QED
    BY <2>4
<1>3. MaxDepth \in S
  <2>1. \A n \in Nat : n \in S => n + 1 \in S
    BY <1>2
  <2> HIDE DEF S
  <2> QED
    BY <1>1, <2>1, Induction
<1>4. PICK f : Eq(f, MaxDepth)
  BY <1>3
<1> DEFINE g == [d \in 0..MaxDepth |-> f[d]]
<1>5. ASSUME NEW d \in 0..MaxDepth
      PROVE  Body(g, d) = Body(f, d)
  <2>1. d = 0 \/ d - 1 \in 0..MaxDepth
    OBVIOUS
  <2>2. d = 0 \/ g[d - 1] = f[d - 1]
    BY <2>1
  <2> QED
    BY <2>2
<1>6. g = [d \in 0..MaxDepth |-> Body(g, d)]
  <2> HIDE DEF Body
  <2> QED
    BY <1>4, <1>5
<1>7. MapsOf = CHOOSE h : h = [d \in 0..MaxDepth |-> Body(h, d)]
  BY DEF MapsOf
<1>8. MapsOf = [d \in 0..MaxDepth |-> Body(MapsOf, d)]
  <2> HIDE DEF Body, g
  <2> QED
    BY <1>6, <1>7
<1> QED
  <2>1. \A d \in 0..MaxDepth : MapsOf[d] = Body(MapsOf, d)
    <3> HIDE DEF Body
    <3> QED
      BY <1>8
  <2> QED
    BY <2>1 DEF NodesOf

\* What a map is.
LEMMA MapsOfMember ==
  ASSUME NEW d \in 0..MaxDepth, NEW m
  PROVE  m \in MapsOf[d] <=> /\ m = [k \in DOMAIN m |-> m[k]]
                            /\ DOMAIN m \subseteq Fields
                            /\ \A k \in DOMAIN m : m[k] \in NodesOf(d)
<1>1. MapsOf[d] = UNION {[S -> NodesOf(d)] : S \in SUBSET Fields}
  BY MapsOfIs
<1> QED
  BY <1>1

\* A map that is nested less deeply is also one that may be nested more deeply.
LEMMA MapsOfGrow ==
  ASSUME NEW n \in Nat, n + 1 <= MaxDepth
  PROVE  MapsOf[n] \subseteq MapsOf[n + 1]
<1> USE ConsulAssumption
<1> DEFINE S == {i \in Nat : i + 1 <= MaxDepth => MapsOf[i] \subseteq MapsOf[i + 1]}
<1>0. ASSUME NEW i \in Nat, i + 1 <= MaxDepth, NodesOf(i) \subseteq NodesOf(i + 1)
      PROVE  MapsOf[i] \subseteq MapsOf[i + 1]
  <2>1. i \in 0..MaxDepth /\ i + 1 \in 0..MaxDepth
    BY <1>0
  <2> QED
    BY <1>0, <2>1, MapsOfMember
<1>1. 0 \in S
  <2>1. NodesOf(0) \subseteq NodesOf(0 + 1)
    BY DEF NodesOf
  <2> QED
    BY <1>0, <2>1
<1>2. ASSUME NEW i \in Nat, i \in S
      PROVE  i + 1 \in S
  <2> SUFFICES ASSUME (i + 1) + 1 <= MaxDepth
               PROVE  MapsOf[i + 1] \subseteq MapsOf[(i + 1) + 1]
    OBVIOUS
  <2>1. MapsOf[i] \subseteq MapsOf[i + 1]
    BY <1>2
  <2>2. NodesOf(i + 1) \subseteq NodesOf((i + 1) + 1)
    BY <2>1 DEF NodesOf
  <2> QED
    BY <1>0, <2>2
<1>3. n \in S
  <2>1. \A i \in Nat : i \in S => i + 1 \in S
    BY <1>2
  <2> HIDE DEF S
  <2> QED
    BY <1>1, <2>1, Induction
<1> QED
  BY <1>3

\* What is in a map is a leaf or a map again, one of the same kind if its keys are strings.
LEMMA ParsedMapsClosed ==
  ASSUME NEW m \in ParsedMaps, NEW k \in DOMAIN m
  PROVE  \/ m[k].kind = "leaf"
         \/ m[k] = Doc(m[k].map) /\ (IsStringMap(m[k]) => m[k].map \in ParsedMaps)
<1> USE ConsulAssumption
<1>1. m[k] \in NodesOf(MaxDepth)
  BY MapsOfMember DEF ParsedMaps
<1>2. ASSUME NEW v \in Scalars, m[k] = Leaf(v)
      PROVE  m[k].kind = "leaf"
  BY <1>2 DEF Leaf
<1>3. ASSUME MaxDepth # 0, NEW n \in MapsOf[MaxDepth - 1], m[k] = Doc(n)
      PROVE  m[k] = Doc(m[k].map) /\ (IsStringMap(m[k]) => m[k].map \in ParsedMaps)
  <2>1. m[k].map = n
    BY <1>3 DEF Doc
  <2>2. PICK i \in Nat : MaxDepth = i + 1 /\ MaxDepth - 1 = i
    <3>1. MaxDepth - 1 \in Nat /\ MaxDepth = (MaxDepth - 1) + 1
      BY <1>3
    <3> QED
      BY <3>1
  <2>3. MapsOf[i] \subseteq MapsOf[MaxDepth]
    BY <2>2, MapsOfGrow
  <2> QED
    BY <1>3, <2>1, <2>2, <2>3 DEF IsStringMap, ParsedMaps
<1> QED
  BY <1>1, <1>2, <1>3 DEF NodesOf

----------------------------------------------------------------------------
(* The merge and the walk: their equations. *)

\* One map of a merge, if f merges those that meet in it.
MergeOne(f, base, override) ==
  [k \in DOMAIN base \cup DOMAIN override |->
     IF MapsMeet(base, override, k) THEN Doc(f[<<base[k].map, override[k].map>>])
     ELSE IF k \in DOMAIN override THEN override[k]
     ELSE base[k]]

\* DeepMergeMaps is defined: a merge of the maps of some depth extends to those one level
\* deeper.
LEMMA DeepMergeMapsIs ==
  \A b, o \in ParsedMaps : DeepMergeMaps[<<b, o>>] = MergeOne(DeepMergeMaps, b, o)
<1> USE ConsulAssumption
<1> DEFINE StringMaps(n) == {m \in MapsOf[n] : DOMAIN m \subseteq Strings}
           Eq(f, M) == f = [bo \in M \X M |-> MergeOne(f, bo[1], bo[2])]
           S == {n \in Nat : n <= MaxDepth => \E f : Eq(f, StringMaps(n))}
<1>0. ASSUME NEW f, NEW g, NEW b, NEW o,
             \A k : MapsMeet(b, o, k) => f[<<b[k].map, o[k].map>>] = g[<<b[k].map, o[k].map>>]
      PROVE  MergeOne(f, b, o) = MergeOne(g, b, o)
  BY <1>0 DEF MergeOne
<1>1. 0 \in S
  <2> DEFINE M == StringMaps(0)
             f == [bo \in M \X M |-> MergeOne(<<>>, bo[1], bo[2])]
  <2>1. ASSUME NEW b \in M, NEW o \in M
        PROVE  MergeOne(<<>>, b, o) = MergeOne(f, b, o)
    <3>1. \A k : ~MapsMeet(b, o, k)
      <4>1. \A k \in DOMAIN b : b[k] \in NodesOf(0)
        BY <2>1, MapsOfMember
      <4> QED
        BY <4>1 DEF NodesOf, MapsMeet, IsStringMap, IsMap, Leaf
    <3> HIDE DEF f
    <3> QED
      BY <1>0, <3>1
  <2>2. f = [bo \in M \X M |-> MergeOne(f, bo[1], bo[2])]
    <3> HIDE DEF M
    <3> QED
      BY <2>1
  <2> QED
    <3> HIDE DEF f
    <3> QED
      BY <2>2
<1>2. ASSUME NEW n \in Nat, n \in S
      PROVE  n + 1 \in S
  <2> SUFFICES ASSUME n + 1 <= MaxDepth
               PROVE  \E f : Eq(f, StringMaps(n + 1))
    <3> HIDE DEF Eq, StringMaps
    <3> QED
      OBVIOUS
  <2> DEFINE M == StringMaps(n)
             N == StringMaps(n + 1)
  <2>1. PICK f : Eq(f, M)
    <3> HIDE DEF Eq, StringMaps
    <3> QED
      BY <1>2
  <2> DEFINE g == [bo \in N \X N |-> MergeOne(f, bo[1], bo[2])]
  <2>2. M \subseteq N
    BY MapsOfGrow
  <2>3. \A b, o \in M : g[<<b, o>>] = f[<<b, o>>]
    <3> HIDE DEF M, N
    <3> QED
      BY <2>1, <2>2
  <2>4. ASSUME NEW b \in N, NEW o \in N
        PROVE  MergeOne(f, b, o) = MergeOne(g, b, o)
    <3>1. ASSUME NEW k, MapsMeet(b, o, k)
          PROVE  b[k].map \in M /\ o[k].map \in M
      <4>1. b[k] \in NodesOf(n + 1) /\ o[k] \in NodesOf(n + 1)
        BY <2>4, <3>1, MapsOfMember DEF MapsMeet
      <4>2. IsStringMap(b[k]) /\ IsStringMap(o[k])
        BY <3>1 DEF MapsMeet
      <4>3. b[k] \in {Doc(m) : m \in MapsOf[n]} /\ o[k] \in {Doc(m) : m \in MapsOf[n]}
        BY <4>1, <4>2 DEF NodesOf, IsStringMap, IsMap, Leaf
      <4> QED
        BY <4>2, <4>3 DEF Doc, IsStringMap
    <3> HIDE DEF g, M, N
    <3> QED
      BY <1>0, <2>3, <3>1
  <2>5. Eq(g, N)
    <3> HIDE DEF N
    <3> QED
      BY <2>4
  <2> HIDE DEF g, Eq
  <2> QED
    BY <2>5
<1>3. MaxDepth \in S
  <2>1. \A n \in Nat : n \in S => n + 1 \in S
    BY <1>2
  <2> HIDE DEF S
  <2> QED
    BY <1>1, <2>1, Induction
<1>4. PICK f : Eq(f, ParsedMaps)
  <2>1. StringMaps(MaxDepth) = ParsedMaps
    BY DEF ParsedMaps
  <2> HIDE DEF Eq, StringMaps
  <2> QED
    BY <1>3, <2>1
<1>5. DeepMergeMaps = CHOOSE h : Eq(h, ParsedMaps)
  BY DEF DeepMergeMaps, MergeOne
<1>6. Eq(DeepMergeMaps, ParsedMaps)
  <2> HIDE DEF Eq
  <2> QED
    BY <1>4, <1>5
<1> QED
  BY <1>6

\* One step of a walk.
StepTo(t, k) == IF IsMap(t) /\ k \in DOMAIN t.map THEN t.map[k] ELSE Nothing

\* A walk is defined.
LEMMA WalkIs ==
  ASSUME NEW m, NEW p
  PROVE  /\ Walk(m, p)[0] = Doc(m)
         /\ \A i \in 1..(MaxDepth + 1) : Walk(m, p)[i] = StepTo(Walk(m, p)[i - 1], p[i])
<1> USE ConsulAssumption
<1> DEFINE Body(f, i) == IF i = 0 THEN Doc(m) ELSE StepTo(f[i - 1], p[i])
           Eq(f, n) == \A i \in 0..n : f[i] = Body(f, i)
           S == {n \in Nat : \E f : Eq(f, n)}
<1>1. 0 \in S
  <2>1. Eq([i \in 0..0 |-> Doc(m)], 0)
    OBVIOUS
  <2> QED
    BY <2>1
<1>2. ASSUME NEW n \in Nat, n \in S
      PROVE  n + 1 \in S
  <2>1. PICK f : Eq(f, n)
    BY <1>2
  <2> DEFINE g == [i \in 0..(n + 1) |-> IF i = n + 1 THEN Body(f, n + 1) ELSE f[i]]
  <2>2. \A i \in 0..n : g[i] = f[i]
    OBVIOUS
  <2>3. ASSUME NEW i \in 0..(n + 1)
        PROVE  Body(g, i) = Body(f, i)
    <3>1. i = 0 \/ i - 1 \in 0..n
      OBVIOUS
    <3>2. i = 0 \/ g[i - 1] = f[i - 1]
      BY <2>2, <3>1
    <3> QED
      BY <3>2
  <2>4. Eq(g, n + 1)
    <3> HIDE DEF Body
    <3> QED
      BY <2>1, <2>3
  <2> HIDE DEF Eq, g
  <2> QED
    BY <2>4
<1>3. MaxDepth + 1 \in S
  <2>1. \A n \in Nat : n \in S => n + 1 \in S
    BY <1>2
  <2> HIDE DEF S
  <2> QED
    BY <1>1, <2>1, Induction
<1>4. PICK f : Eq(f, MaxDepth + 1)
  BY <1>3
<1> DEFINE g == [i \in 0..(MaxDepth + 1) |-> f[i]]
<1>5. ASSUME NEW i \in 0..(MaxDepth + 1)
      PROVE  Body(g, i) = Body(f, i)
  <2>1. i = 0 \/ i - 1 \in 0..(MaxDepth + 1)
    OBVIOUS
  <2>2. i = 0 \/ g[i - 1] = f[i - 1]
    BY <2>1
  <2> QED
    BY <2>2
<1>6. g = [i \in 0..(MaxDepth + 1) |-> Body(g, i)]
  <2> HIDE DEF Body
  <2> QED
    BY <1>4, <1>5
<1>7. Walk(m, p) = CHOOSE h : h = [i \in 0..(MaxDepth + 1) |-> Body(h, i)]
  BY DEF Walk, StepTo
<1>8. Walk(m, p) = [i \in 0..(MaxDepth + 1) |-> Body(Walk(m, p), i)]
  <2> HIDE DEF Body, g
  <2> QED
    BY <1>6, <1>7
<1>9. \A i \in 0..(MaxDepth + 1) : Walk(m, p)[i] = Body(Walk(m, p), i)
  <2> HIDE DEF Body
  <2> QED
    BY <1>8
<1> QED
  BY <1>9

----------------------------------------------------------------------------
(* What the merge of two maps is. *)

\* DeepMergeMaps merges: along a path both maps go on and the merge is their merge, until
\* the override has nothing more (Ours, the base's) or what it has replaces what the base
\* has (Theirs).
LEMMA MergeIsMerge ==
  ASSUME NEW b \in ParsedMaps, NEW o \in ParsedMaps
  PROVE  IsMerge(DeepMergeMaps[<<b, o>>], b, o)
<1> USE ConsulAssumption
<1> SUFFICES ASSUME NEW p \in Paths, NEW i \in 1..(MaxDepth + 1)
             PROVE  Outline(Walk(DeepMergeMaps[<<b, o>>], p)[i]) =
                      IF Walk(o, p)[i] # Nothing THEN Outline(Walk(o, p)[i])
                      ELSE IF \E j \in 1..(i - 1) : Replaces(o, b, p, j) THEN Nothing
                      ELSE Outline(Walk(b, p)[i])
  BY DEF IsMerge
<1>1. PICK M, B, O : /\ M = Walk(DeepMergeMaps[<<b, o>>], p)
                     /\ B = Walk(b, p) /\ O = Walk(o, p)
  OBVIOUS
<1> DEFINE Replaced(j) == O[j] # Nothing /\ ~(IsStringMap(O[j]) /\ IsStringMap(B[j]))
           Both(n)    == /\ \A j \in 1..n : ~Replaced(j)
                         /\ B[n] = Doc(B[n].map) /\ B[n].map \in ParsedMaps
                         /\ O[n] = Doc(O[n].map) /\ O[n].map \in ParsedMaps
                         /\ M[n] = Doc(DeepMergeMaps[<<B[n].map, O[n].map>>])
           Ours(n)    == /\ \A j \in 1..n : ~Replaced(j)
                         /\ O[n] = Nothing /\ M[n] = B[n]
           Theirs(n)  == (\E j \in 1..n : Replaced(j)) /\ M[n] = O[n]
           S == {n \in Nat : n <= MaxDepth + 1 => Both(n) \/ Ours(n) \/ Theirs(n)}
<1>2. Nothing.kind = "nothing" /\ \A m : Doc(m).kind = "map" /\ Doc(m).map = m
  BY DEF Nothing, Doc
<1>3. 0 \in S
  <2>1. Both(0)
    BY <1>1, <1>2, WalkIs
  <2> QED
    BY <2>1
<1>4. ASSUME NEW n \in Nat, n \in S
      PROVE  n + 1 \in S
  <2> SUFFICES ASSUME n + 1 <= MaxDepth + 1
               PROVE  Both(n + 1) \/ Ours(n + 1) \/ Theirs(n + 1)
    OBVIOUS
  <2>1. PICK k : k = p[n + 1]
    OBVIOUS
  <2>2. /\ M[n + 1] = StepTo(M[n], k)
        /\ B[n + 1] = StepTo(B[n], k)
        /\ O[n + 1] = StepTo(O[n], k)
    <3>1. n + 1 \in 1..(MaxDepth + 1) /\ (n + 1) - 1 = n
      OBVIOUS
    <3> QED
      BY <1>1, <2>1, <3>1, WalkIs
  <2>3. /\ StepTo(Nothing, k) = Nothing
        /\ \A m : StepTo(Doc(m), k) = IF k \in DOMAIN m THEN m[k] ELSE Nothing
    BY <1>2 DEF StepTo, IsMap
  <2>4. /\ n + 1 \in 1..(n + 1)
        /\ \A j \in 1..n : j \in 1..(n + 1)
        /\ \A j \in 1..(n + 1) : j \in 1..n \/ j = n + 1
    OBVIOUS
  <2>5. CASE Both(n)
    <3>1. PICK c \in ParsedMaps, d \in ParsedMaps :
             /\ B[n] = Doc(c) /\ O[n] = Doc(d) /\ M[n] = Doc(DeepMergeMaps[<<c, d>>])
      BY <2>5
    <3>2. /\ O[n + 1] = IF k \in DOMAIN d THEN d[k] ELSE Nothing
          /\ B[n + 1] = IF k \in DOMAIN c THEN c[k] ELSE Nothing
          /\ M[n + 1] = IF k \in DOMAIN DeepMergeMaps[<<c, d>>] THEN DeepMergeMaps[<<c, d>>][k]
                       ELSE Nothing
      BY <2>2, <2>3, <3>1
    <3>3. DeepMergeMaps[<<c, d>>] = MergeOne(DeepMergeMaps, c, d)
      BY <3>1, DeepMergeMapsIs
    <3>4. M[n + 1] = IF MapsMeet(c, d, k) THEN Doc(DeepMergeMaps[<<c[k].map, d[k].map>>])
                   ELSE IF k \in DOMAIN d THEN d[k]
                   ELSE IF k \in DOMAIN c THEN c[k]
                   ELSE Nothing
      BY <3>2, <3>3 DEF MergeOne, MapsMeet
    <3>5. CASE MapsMeet(c, d, k)
      <4>1. /\ k \in DOMAIN c /\ k \in DOMAIN d /\ IsStringMap(c[k]) /\ IsStringMap(d[k])
            /\ c[k].kind = "map" /\ d[k].kind = "map"
        BY <3>5 DEF MapsMeet, IsStringMap, IsMap
      <4>2. /\ c[k] = Doc(c[k].map) /\ c[k].map \in ParsedMaps
            /\ d[k] = Doc(d[k].map) /\ d[k].map \in ParsedMaps
        BY <4>1, ParsedMapsClosed
      <4>3. B[n + 1] = c[k] /\ O[n + 1] = d[k]
        BY <3>2, <4>1
      <4>4. ~Replaced(n + 1)
        BY <4>1, <4>3
      <4>5. \A j \in 1..(n + 1) : ~Replaced(j)
        <5> HIDE DEF Replaced
        <5> QED
          BY <2>4, <2>5, <4>4
      <4>6. Both(n + 1)
        <5> HIDE DEF Replaced
        <5> QED
          BY <3>4, <3>5, <4>2, <4>3, <4>5
      <4> QED
        BY <4>6
    <3>6. CASE ~MapsMeet(c, d, k) /\ k \in DOMAIN d
      <4>1. M[n + 1] = d[k] /\ O[n + 1] = d[k]
        BY <3>2, <3>4, <3>6
      <4>2. d[k].kind = "leaf" \/ d[k].kind = "map"
        BY <1>2, <3>6, ParsedMapsClosed
      <4>3. ~(IsStringMap(O[n + 1]) /\ IsStringMap(B[n + 1]))
        BY <1>2, <3>2, <3>6, <4>1 DEF MapsMeet, IsStringMap, IsMap
      <4>4. O[n + 1] # Nothing
        BY <1>2, <4>1, <4>2
      <4>5. Replaced(n + 1)
        BY <4>3, <4>4
      <4> QED
        <5> HIDE DEF Replaced
        <5> QED
          BY <2>4, <4>1, <4>5
    <3>7. CASE ~MapsMeet(c, d, k) /\ k \notin DOMAIN d
      <4>1. O[n + 1] = Nothing /\ M[n + 1] = B[n + 1]
        BY <3>2, <3>4, <3>7
      <4>2. \A j \in 1..n : ~Replaced(j)
        BY <2>5
      <4>3. ~Replaced(n + 1)
        BY <4>1
      <4> QED
        <5> HIDE DEF Replaced
        <5> QED
          BY <2>4, <4>1, <4>2, <4>3
    <3> QED
      BY <3>5, <3>6, <3>7
  <2>6. CASE Ours(n)
    <3>1. O[n + 1] = Nothing /\ M[n + 1] = B[n + 1]
      BY <2>2, <2>3, <2>6
    <3>2. \A j \in 1..n : ~Replaced(j)
      BY <2>6
    <3>3. ~Replaced(n + 1)
      BY <3>1
    <3> QED
      <4> HIDE DEF Replaced
      <4> QED
        BY <2>4, <3>1, <3>2, <3>3
  <2>7. CASE Theirs(n)
    <3>1. M[n + 1] = O[n + 1]
      BY <2>2, <2>7
    <3>2. \E j \in 1..(n + 1) : Replaced(j)
      <4> HIDE DEF Replaced
      <4> QED
        BY <2>4, <2>7
    <3> QED
      BY <3>1, <3>2
  <2> QED
    BY <1>4, <2>5, <2>6, <2>7
<1>5. i \in S
  <2>1. \A n \in Nat : n \in S => n + 1 \in S
    BY <1>4
  <2>2. Nat \subseteq S
    <3> HIDE DEF S
    <3> QED
      BY <1>3, <2>1, Induction
  <2> QED
    BY <2>2
<1>6. /\ \A j \in 1..(i - 1) : j \in 1..i
      /\ \A j \in 1..i : j \in 1..(i - 1) \/ j = i
  OBVIOUS
<1>7. Both(i) \/ Ours(i) \/ Theirs(i)
  BY <1>5
<1>8. Outline(M[i]) = IF O[i] # Nothing THEN Outline(O[i])
                      ELSE IF \E j \in 1..(i - 1) : Replaced(j) THEN Nothing
                      ELSE Outline(B[i])
  <2>1. CASE Both(i)
    <3>1. O[i].kind = "map" /\ M[i].kind = "map"
      BY <1>2, <2>1
    <3>2. Outline(O[i]) = Doc(NoMap) /\ Outline(M[i]) = Doc(NoMap) /\ O[i] # Nothing
      BY <1>2, <3>1 DEF Outline, IsMap
    <3> QED
      BY <3>2
  <2>2. CASE Ours(i)
    <3>1. \A j \in 1..(i - 1) : ~Replaced(j)
      <4> HIDE DEF Replaced
      <4> QED
        BY <1>6, <2>2
    <3> QED
      <4> HIDE DEF Replaced
      <4> QED
        BY <2>2, <3>1
  <2>3. CASE Theirs(i)
    <3>1. O[i] = Nothing => ~Replaced(i)
      OBVIOUS
    <3>2. O[i] = Nothing => \E j \in 1..(i - 1) : Replaced(j)
      <4> HIDE DEF Replaced
      <4> QED
        BY <1>6, <2>3, <3>1
    <3>3. Outline(Nothing) = Nothing
      BY <1>2 DEF Outline, IsMap
    <3> QED
      <4> HIDE DEF Replaced
      <4> QED
        BY <2>3, <3>2, <3>3
  <2> QED
    BY <1>7, <2>1, <2>2, <2>3
<1>9. \A j : Replaces(o, b, p, j) <=> Replaced(j)
  BY <1>1 DEF Replaces
<1> QED
  <2> HIDE DEF Replaced
  <2> QED
    BY <1>1, <1>8, <1>9

\* No path leads anywhere in the map of nothing ...
LEMMA NothingInNoMap ==
  ASSUME NEW p, NEW i \in 1..(MaxDepth + 1)
  PROVE  Walk(NoMap, p)[i] = Nothing
<1> USE ConsulAssumption
<1> DEFINE S == {n \in Nat : n + 1 <= MaxDepth + 1 => Walk(NoMap, p)[n + 1] = Nothing}
<1>1. \A k : StepTo(Doc(NoMap), k) = Nothing /\ StepTo(Nothing, k) = Nothing
  BY DEF StepTo, Doc, NoMap, Nothing, IsMap
<1>2. 0 \in S
  <2>1. 1 \in 1..(MaxDepth + 1) /\ 1 - 1 = 0 /\ 0 + 1 = 1
    OBVIOUS
  <2> QED
    BY <1>1, <2>1, WalkIs
<1>3. ASSUME NEW n \in Nat, n \in S
      PROVE  n + 1 \in S
  <2> SUFFICES ASSUME (n + 1) + 1 <= MaxDepth + 1
               PROVE  Walk(NoMap, p)[(n + 1) + 1] = Nothing
    OBVIOUS
  <2>1. (n + 1) + 1 \in 1..(MaxDepth + 1) /\ ((n + 1) + 1) - 1 = n + 1
    OBVIOUS
  <2>2. Walk(NoMap, p)[n + 1] = Nothing
    BY <1>3
  <2> QED
    BY <1>1, <2>1, <2>2, WalkIs
<1>4. Nat \subseteq S
  <2>1. \A n \in Nat : n \in S => n + 1 \in S
    BY <1>3
  <2> HIDE DEF S
  <2> QED
    BY <1>2, <2>1, Induction
<1>5. PICK n \in Nat : i = n + 1 /\ n + 1 <= MaxDepth + 1
  <2>1. i - 1 \in Nat /\ i = (i - 1) + 1 /\ (i - 1) + 1 <= MaxDepth + 1
    OBVIOUS
  <2> QED
    BY <2>1
<1> QED
  BY <1>4, <1>5

\* ... so that a map is its own merge with nothing.
LEMMA NothingToMerge ==
  ASSUME NEW b
  PROVE  IsMerge(b, b, NoMap)
<1> USE ConsulAssumption
<1> SUFFICES ASSUME NEW p \in Paths, NEW i \in 1..(MaxDepth + 1)
             PROVE  /\ Walk(NoMap, p)[i] = Nothing
                    /\ \A j \in 1..(i - 1) : ~Replaces(NoMap, b, p, j)
  BY DEF IsMerge
<1>1. \A j \in 1..(i - 1) : j \in 1..(MaxDepth + 1)
  OBVIOUS
<1> QED
  BY <1>1, NothingInNoMap DEF Replaces

----------------------------------------------------------------------------
(* The invariant. *)

ConsulTypes ==
  /\ kv \in [KvKeys -> Documents]
  /\ past \in [KvKeys -> SUBSET Documents]
  /\ request \in Seq(Templates)

\* cfg is the merge of documents that the keys of t have had, as seen says, with a profile
\* or without.
Real(seen, prof, t, cfg) ==
  \E b \in seen[<<t, "base">>] \ {Invalid} :
  \E o \in IF prof THEN seen[<<t, "profile">>] \ {Invalid} ELSE {Absent} :
    IsMerge(cfg, Settings(b), Settings(o))

\* What is in the keys is remembered, and what was put into the result is real.
Fetching ==
  fPc \in {"base", "profile"} =>
    /\ next \in 1..Len(request) /\ ~failed
    /\ \A k \in KvKeys : kv[k] \in past[k]
    /\ DOMAIN result = {request[i] : i \in 1..(next - 1)}
    /\ \A t \in DOMAIN result : Real(past, profile, t, result[t])

\* The base document is one of this template's.
BaseIsRead ==
  fPc = "profile" =>
    profile /\ \E b \in past[<<Template, "base">>] \ {Invalid} : baseCfg = Settings(b)

Idle == fPc \in {"idle", "merged"} => result = NoMap /\ ~failed

ConsulInv ==
  ConsulTypes /\ Fetching /\ BaseIsRead /\ Idle /\ FetchedConfigIsReal /\ MergeKeepsSettings

\* What a document says is a parsed map.
LEMMA SettingsAreMaps ==
  ASSUME NEW doc \in Documents
  PROVE  /\ Settings(doc) \in ParsedMaps
         /\ doc # Invalid => BaseOf(doc) = Settings(doc)
         /\ doc # Invalid /\ doc # Absent => doc.map = Settings(doc)
<1> USE ConsulAssumption
<1>1. NoMap \in ParsedMaps
  <2>1. DOMAIN NoMap = {} /\ NoMap = [k \in DOMAIN NoMap |-> NoMap[k]]
    BY DEF NoMap
  <2>2. MaxDepth \in 0..MaxDepth
    OBVIOUS
  <2>3. \A k \in DOMAIN NoMap : NoMap[k] \in NodesOf(MaxDepth)
    BY <2>1
  <2>4. DOMAIN NoMap \subseteq Fields
    BY <2>1
  <2>5. NoMap \in MapsOf[MaxDepth]
    BY ONLY <2>1, <2>2, <2>3, <2>4, MapsOfMember
  <2>6. DOMAIN NoMap \subseteq Strings
    BY <2>1
  <2> QED
    BY <2>5, <2>6 DEF ParsedMaps
<1>2. CASE doc \in {Absent, Invalid}
  BY <1>1, <1>2 DEF Settings, BaseOf, IsMap, Absent, Invalid
<1>3. ASSUME NEW m \in ParsedMaps, doc = Doc(m)
      PROVE  Settings(doc) = m /\ doc.map = m /\ doc # Absent
  BY <1>3 DEF Settings, IsMap, Doc, Absent
<1> QED
  BY <1>2, <1>3 DEF BaseOf, Parsed

\* What has been real stays so when another document is remembered.
LEMMA RealStays ==
  ASSUME NEW t \in Templates, NEW cfg, NEW prof, NEW seen, NEW more, Real(seen, prof, t, cfg),
         \A k \in KvKeys : seen[k] \subseteq more[k]
  PROVE  Real(more, prof, t, cfg)
<1>1. <<t, "base">> \in KvKeys /\ <<t, "profile">> \in KvKeys
  BY DEF KvKeys
<1> QED
  BY <1>1 DEF Real

\* The empty map: Fetch's result before and after.
LEMMA NoResult == DOMAIN NoMap = {}
BY DEF NoMap

\* A real configuration is put into the result.
LEMMA PutKeeps ==
  ASSUME ConsulInv, fPc \in {"base", "profile"}, NEW cfg, Real(past, profile, Template, cfg), Put(cfg),
         UNCHANGED <<kv, profile, request, failed, past, merged>>
  PROVE  ConsulInv'
<1>1. /\ next \in 1..Len(request) /\ ~failed /\ request \in Seq(Templates)
      /\ \A k \in KvKeys : kv[k] \in past[k]
      /\ DOMAIN result = {request[i] : i \in 1..(next - 1)}
      /\ \A t \in DOMAIN result : Real(past, profile, t, result[t])
  BY DEF ConsulInv, Fetching, ConsulTypes
<1>2. DOMAIN result' = {request[i] : i \in 1..next}
  <2>1. DOMAIN result' = DOMAIN result \cup {request[next]}
    BY DEF Put, Template
  <2>2. \A i : i \in 1..next <=> i \in 1..(next - 1) \/ i = next
    BY <1>1
  <2> QED
    BY <1>1, <2>1, <2>2
<1>3. \A t \in DOMAIN result' : Real(past', profile', t, result'[t])
  <2>1. \A t \in DOMAIN result' : Real(past, profile, t, result'[t])
    BY <1>1 DEF Put
  <2> QED
    BY <2>1
<1>4. ConsulTypes'
  BY DEF ConsulInv, ConsulTypes
<1>5. CASE next = Len(request)
  <2>1. fPc' = "returned"
    BY <1>5 DEF Put
  <2>2. DOMAIN result' = {request'[i] : i \in DOMAIN request'}
    <3>1. DOMAIN request = 1..next
      BY <1>1, <1>5
    <3> QED
      BY <1>2, <3>1
  <2>3. FetchedConfigIsReal'
    BY <1>1, <1>3, <2>2 DEF FetchedConfigIsReal, Real
  <2> QED
    BY <1>4, <2>1, <2>3 DEF ConsulInv, Fetching, BaseIsRead, Idle, MergeKeepsSettings
<1>6. CASE next # Len(request)
  <2>1. fPc' = "base" /\ next' = next + 1
    BY <1>6 DEF Put
  <2>2. next' \in 1..Len(request') /\ (next' - 1) = next
    BY <1>1, <1>6, <2>1
  <2>3. Fetching'
    BY <1>1, <1>2, <1>3, <2>2 DEF Fetching
  <2> QED
    BY <1>4, <2>1, <2>3 DEF ConsulInv, BaseIsRead, Idle, FetchedConfigIsReal, MergeKeepsSettings
<1> QED
  BY <1>5, <1>6

\* The base document is read: it is the result, or waits for the profile's.
LEMMA FetchBaseKeeps ==
  ASSUME ConsulInv, FetchBase
  PROVE  ConsulInv'
<1>1. PICK doc \in Documents :
        /\ Fetched(<<Template, "base">>, doc)
        /\ baseCfg' = BaseOf(doc)
        /\ IF profile THEN fPc' = "profile" /\ UNCHANGED <<result, next>> ELSE Put(baseCfg')
  BY DEF FetchBase
<1>2. fPc = "base" /\ UNCHANGED <<kv, profile, request, failed, past, merged>>
  BY DEF FetchBase
<1>3. Template \in Templates /\ <<Template, "base">> \in KvKeys
  BY <1>2 DEF ConsulInv, ConsulTypes, Fetching, Template, KvKeys
<1>4. doc \in past[<<Template, "base">>] \ {Invalid} /\ baseCfg' = Settings(doc)
  BY <1>1, <1>2, <1>3, SettingsAreMaps DEF ConsulInv, Fetching, Fetched
<1>5. CASE profile
  <2>1. fPc' = "profile" /\ UNCHANGED <<result, next>>
    BY <1>1, <1>5
  <2>2. ConsulTypes' /\ Fetching'
    BY <1>2, <2>1 DEF ConsulInv, ConsulTypes, Fetching, Real
  <2>3. BaseIsRead'
    BY <1>2, <1>4, <1>5, <2>1 DEF BaseIsRead, Template
  <2> QED
    BY <2>1, <2>2, <2>3 DEF ConsulInv, Idle, FetchedConfigIsReal, MergeKeepsSettings
<1>6. CASE ~profile
  <2>1. IsMerge(baseCfg', Settings(doc), Settings(Absent))
    BY <1>4, NothingToMerge DEF Settings, IsMap, Absent
  <2>2. Real(past, profile, Template, baseCfg')
    BY <1>4, <1>6, <2>1 DEF Real
  <2> QED
    BY <1>1, <1>2, <1>6, <2>2, PutKeeps
<1> QED
  BY <1>5, <1>6

\* The profile's document is read and merged over the base.
LEMMA FetchProfileKeeps ==
  ASSUME ConsulInv, FetchProfile
  PROVE  ConsulInv'
<1>1. PICK doc \in Documents :
        /\ Fetched(<<Template, "profile">>, doc)
        /\ Put(IF doc = Absent THEN baseCfg ELSE DeepMergeMaps[<<baseCfg, doc.map>>])
  BY DEF FetchProfile
<1>2. fPc = "profile" /\ profile /\ UNCHANGED <<kv, profile, request, failed, past, merged>>
  BY DEF FetchProfile, ConsulInv, BaseIsRead
<1>3. Template \in Templates /\ <<Template, "base">> \in KvKeys /\ <<Template, "profile">> \in KvKeys
  BY <1>2 DEF ConsulInv, ConsulTypes, Fetching, Template, KvKeys
<1>4. PICK b \in past[<<Template, "base">>] \ {Invalid} : baseCfg = Settings(b)
  BY <1>2 DEF ConsulInv, BaseIsRead
<1>5. b \in Documents
  BY <1>3, <1>4 DEF ConsulInv, ConsulTypes
<1>6. doc \in past[<<Template, "profile">>] \ {Invalid}
  BY <1>1, <1>2, <1>3 DEF ConsulInv, Fetching, Fetched
<1>7. ASSUME NEW cfg, IsMerge(cfg, Settings(b), Settings(doc)), Put(cfg)
      PROVE  ConsulInv'
  <2>1. Real(past, profile, Template, cfg)
    BY <1>2, <1>4, <1>6, <1>7 DEF Real
  <2> QED
    BY <1>2, <1>7, <2>1, PutKeeps
<1>8. CASE doc = Absent
  <2>1. IsMerge(baseCfg, Settings(b), Settings(doc))
    BY <1>4, <1>8, NothingToMerge DEF Settings, IsMap, Absent
  <2> QED
    BY <1>1, <1>7, <1>8, <2>1
<1>9. CASE doc # Absent
  <2>1. /\ doc.map = Settings(doc) /\ Settings(doc) \in ParsedMaps
        /\ Settings(b) \in ParsedMaps
    BY <1>5, <1>6, <1>9, SettingsAreMaps
  <2>2. IsMerge(DeepMergeMaps[<<baseCfg, doc.map>>], Settings(b), Settings(doc))
    BY <1>4, <2>1, MergeIsMerge
  <2> QED
    BY <1>1, <1>7, <1>9, <2>2
<1> QED
  BY <1>8, <1>9

\* DeepMergeYAML merges what parses.
LEMMA MergeYAMLKeeps ==
  ASSUME ConsulInv, MergeYAML
  PROVE  ConsulInv'
<1>1. PICK b \in Parsed, o \in Parsed : merged' = <<b, o, DeepMergeYAML(b, o)>>
  BY ConsulAssumption DEF MergeYAML
<1>2. merged'[1] = b /\ merged'[2] = o /\ merged'[3] = DeepMergeYAML(b, o)
  BY <1>1
<1>3. \A m : Doc(m) # Invalid /\ Doc(m).map = m
  BY DEF Doc, Invalid
<1>4. MergeKeepsSettings'
  <2>1. CASE Invalid \in {b, o}
    BY <1>2, <2>1 DEF MergeKeepsSettings, DeepMergeYAML
  <2>2. CASE Invalid \notin {b, o}
    <3>1. b.map \in ParsedMaps /\ o.map \in ParsedMaps
      BY <1>3, <2>2 DEF Parsed
    <3>2. merged'[3].map = DeepMergeMaps[<<b.map, o.map>>]
      BY <1>2, <1>3, <2>2 DEF DeepMergeYAML
    <3>3. IsMerge(merged'[3].map, merged'[1].map, merged'[2].map)
      BY <1>2, <3>1, <3>2, MergeIsMerge
    <3> QED
      BY <1>2, <2>2, <3>3 DEF MergeKeepsSettings
  <2> QED
    BY <2>1, <2>2
<1> QED
  BY <1>4 DEF MergeYAML, ConsulInv, ConsulTypes, Fetching, BaseIsRead, Idle, FetchedConfigIsReal

\* Every step keeps the invariant.
LEMMA ConsulStep ==
  ASSUME ConsulInv, [ConsulNext]_consulVars
  PROVE  ConsulInv'
<1> USE ConsulAssumption
<1>1. CASE NewClient
  BY <1>1 DEF NewClient, callVars, ConsulInv, ConsulTypes, Fetching, BaseIsRead, Idle,
              FetchedConfigIsReal, MergeKeepsSettings, Real, Template
<1>2. CASE CallFetch
  <2>1. /\ request' \in Seq(Templates) /\ past' = [k \in KvKeys |-> {kv[k]}]
        /\ next' = 1 /\ fPc' = (IF request' = <<>> THEN "returned" ELSE "base")
        /\ result' = NoMap /\ ~failed'
        /\ UNCHANGED <<kv, profile, merged>>
    BY <1>2 DEF CallFetch, ConsulInv, Idle
  <2>2. ConsulTypes'
    BY <2>1 DEF ConsulInv, ConsulTypes
  <2>3. DOMAIN result' = {}
    BY <2>1, NoResult
  <2>4. CASE request' = <<>>
    <3>1. DOMAIN request' = {} /\ fPc' = "returned"
      BY <2>1, <2>4
    <3> QED
      BY <2>1, <2>2, <2>3, <3>1 DEF ConsulInv, Fetching, BaseIsRead, Idle, FetchedConfigIsReal,
                                    MergeKeepsSettings
  <2>5. CASE request' # <<>>
    <3>1. fPc' = "base" /\ next' \in 1..Len(request')
      BY <2>1, <2>5
    <3>2. Fetching'
      BY <2>1, <2>3, <3>1 DEF Fetching
    <3> QED
      BY <2>2, <3>1, <3>2 DEF ConsulInv, BaseIsRead, Idle, FetchedConfigIsReal, MergeKeepsSettings
  <2> QED
    BY <2>4, <2>5
<1>3. CASE FetchBase
  BY <1>3, FetchBaseKeeps
<1>4. CASE FetchProfile
  BY <1>4, FetchProfileKeeps
<1>5. CASE FetchFails
  BY <1>5 DEF FetchFails, ConsulInv, ConsulTypes, Fetching, BaseIsRead, Idle,
              FetchedConfigIsReal, MergeKeepsSettings
<1>6. CASE EndCall
  <2>1. request' \in Seq(Templates)
    BY <1>6 DEF EndCall
  <2> QED
    BY <1>6, <2>1 DEF EndCall, ConsulInv, ConsulTypes, Fetching, BaseIsRead, Idle,
                      FetchedConfigIsReal, MergeKeepsSettings
<1>7. CASE MergeYAML
  BY <1>7, MergeYAMLKeeps
<1>8. CASE Write
  <2>1. PICK k \in KvKeys, doc \in Documents :
          /\ kv' = [kv EXCEPT ![k] = doc]
          /\ past' = IF fPc = "idle" THEN past ELSE [past EXCEPT ![k] = @ \cup {doc}]
    BY <1>8 DEF Write
  <2>2. fPc \in {"idle", "base", "profile"}
        /\ UNCHANGED <<profile, fPc, request, next, baseCfg, result, failed, merged>>
    BY <1>8 DEF Write
  <2>3. ConsulTypes'
    BY <2>1, <2>2 DEF ConsulInv, ConsulTypes
  <2>4. \A q \in KvKeys : past[q] \subseteq past'[q]
    BY <2>1 DEF ConsulInv, ConsulTypes
  <2>5. CASE fPc = "idle"
    BY <2>2, <2>3, <2>5 DEF ConsulInv, Fetching, BaseIsRead, Idle, FetchedConfigIsReal,
                            MergeKeepsSettings
  <2>6. CASE fPc \in {"base", "profile"}
    <3>1. /\ next \in 1..Len(request) /\ request \in Seq(Templates)
          /\ DOMAIN result = {request[i] : i \in 1..(next - 1)}
      BY <2>6 DEF ConsulInv, ConsulTypes, Fetching
    <3>2. DOMAIN result \subseteq Templates /\ Template \in Templates
      BY <3>1 DEF Template
    <3>3. \A t \in DOMAIN result' : Real(past', profile', t, result'[t])
      <4>1. \A t \in DOMAIN result : Real(past', profile, t, result[t])
        BY <2>2, <2>4, <2>6, <3>2, RealStays DEF ConsulInv, Fetching
      <4> QED
        BY <2>2, <4>1
    <3>4. \A q \in KvKeys : kv'[q] \in past'[q]
      BY <2>1, <2>6 DEF ConsulInv, ConsulTypes, Fetching
    <3>5. Fetching'
      BY <2>2, <2>6, <3>1, <3>3, <3>4 DEF ConsulInv, Fetching
    <3>6. BaseIsRead'
      <4>1. <<Template, "base">> \in KvKeys
        BY <3>2 DEF KvKeys
      <4> QED
        BY <2>2, <2>4, <4>1 DEF ConsulInv, BaseIsRead, Template
    <3> QED
      BY <2>2, <2>3, <2>6, <3>5, <3>6 DEF ConsulInv, Idle, FetchedConfigIsReal, MergeKeepsSettings
  <2> QED
    BY <2>2, <2>5, <2>6
<1>9. CASE UNCHANGED consulVars
  BY <1>9 DEF consulVars, callVars, ConsulInv, ConsulTypes, Fetching, BaseIsRead, Idle,
              FetchedConfigIsReal, MergeKeepsSettings, Real, Template
<1> QED
  BY <1>1, <1>2, <1>3, <1>4, <1>5, <1>6, <1>7, <1>8, <1>9 DEF ConsulNext

\* Before the first call.
LEMMA InitConsulInv ==
  ASSUME ConsulInit
  PROVE  ConsulInv
<1> USE ConsulAssumption DEF ConsulInit
<1>1. ConsulTypes
  BY DEF ConsulTypes
<1> QED
  BY <1>1 DEF ConsulInv, Fetching, BaseIsRead, Idle, FetchedConfigIsReal, MergeKeepsSettings

----------------------------------------------------------------------------
(* The theorems. *)

\* What Fetch has put into its result, and what it is about to, comes from documents the
\* keys have had during the call.
THEOREM ConsulInvariance == ConsulSpec => []ConsulInv
<1>1. ConsulInv /\ [ConsulNext]_consulVars => ConsulInv'
  BY ConsulStep
<1>2. ConsulInit => ConsulInv
  BY InitConsulInv
<1> QED
  BY <1>1, <1>2, PTL DEF ConsulSpec

\* DeepMergeYAML (merge.go:29-39) keeps every setting of the override, and of the base all
\* but those in a node that a node of the override replaces because they are not two
\* maps with string keys only, however deep the documents are: its recursion and the
\* definition path by path agree.
THEOREM SettingsAreKept == ConsulSpec => []MergeKeepsSettings
<1>1. ConsulInv => MergeKeepsSettings
  BY DEF ConsulInv
<1> QED
  BY <1>1, ConsulInvariance, PTL

\* Fetch (client.go:117-151) returns all or nothing, and for every template the merge of
\* documents that its keys have had during the call, whoever writes to them meanwhile.
THEOREM ConfigsAreReal == ConsulSpec => []FetchedConfigIsReal
<1>1. ConsulInv => FetchedConfigIsReal
  BY DEF ConsulInv
<1> QED
  BY <1>1, ConsulInvariance, PTL
=============================================================================
