------------------------- MODULE FaceGalleryProofs --------------------------
(***************************************************************************)
(* Proofs about FaceGallery for every value of its constants.              *)
(***************************************************************************)
EXTENDS FaceGallery, FiniteSetTheorems, TLAPS

(* Unless it names its prover, a leaf is tried with SMT, with Zenon, and   *)
(* with SMT again for longer.                                              *)
USE SMTT(30), ZenonT(30), SMTT(60)

-----------------------------------------------------------------------------
(* Numbers *)

(* A nonempty set of natural numbers has a least element. *)
LEMMA Least ==
  ASSUME NEW T, T \subseteq Nat, T # {}
  PROVE  \E x \in T : \A y \in T : x <= y
<1>1. PICK x \in T : \A y \in T : ~(<<y, x>> \in OpToRel(<, Nat))
  BY NatLessThanWellFounded, WFMin, Zenon
<1>2. \A y \in T : ~(y < x)
  BY <1>1, Zenon DEF OpToRel
<1>. QED
  BY <1>2

(* Division rounds down. *)
LEMMA DivBounds ==
  ASSUME NEW s \in Int, NEW d \in Nat, d > 0
  PROVE  /\ s \div d \in Int
         /\ d * (s \div d) <= s
         /\ s < d * (s \div d) + d
  OBVIOUS

(* Of two different multiples of d, the smaller is smaller by d at least. *)
LEMMA Multiples ==
  ASSUME NEW d \in Nat, NEW a \in Int, NEW b \in Int, a < b
  PROVE  d * a + d <= d * b
  OBVIOUS

(* round moves a similarity by half a unit at most. *)
LEMMA RoundBounds ==
  ASSUME NEW s \in Int
  PROVE  /\ Round(s) \in Int
         /\ Round(s) <= s + Unit \div 2
         /\ s + Unit \div 2 < Round(s) + Unit
         /\ 2 * (Unit \div 2) <= Unit /\ Unit \div 2 \in Nat
<1>1. Unit \in Nat /\ Unit > 0
  BY GalleryConstants
<1>2. Unit \div 2 \in Nat /\ 2 * (Unit \div 2) <= Unit
  BY <1>1
<1>. DEFINE q == (s + Unit \div 2) \div Unit
<1>3. q \in Int /\ Unit * q <= s + Unit \div 2 /\ s + Unit \div 2 < Unit * q + Unit
  BY <1>1, <1>2, DivBounds
<1>4. Unit * q \in Int
  BY <1>1, <1>3
<1>. QED
  BY <1>2, <1>3, <1>4 DEF Round

(* Who is shown as no closer is closer by less than a unit. *)
LEMMA RoundOrder ==
  ASSUME NEW s \in Int, NEW t \in Int, Round(s) <= Round(t)
  PROVE  s < t + Unit
<1>1. /\ Round(s) \in Int /\ s + Unit \div 2 < Round(s) + Unit
      /\ Round(t) \in Int /\ Round(t) <= t + Unit \div 2
      /\ Unit \div 2 \in Nat
  BY RoundBounds
<1>. QED
  BY <1>1, GalleryConstants

(* round keeps the order. *)
LEMMA RoundMonotone ==
  ASSUME NEW s \in Int, NEW t \in Int, s <= t
  PROVE  Round(s) <= Round(t)
<1>1. Unit \in Nat /\ Unit > 0 /\ Unit \div 2 \in Nat
  BY GalleryConstants
<1>. DEFINE a == (s + Unit \div 2) \div Unit
            b == (t + Unit \div 2) \div Unit
<1>2. a \in Int /\ Unit * a <= s + Unit \div 2
  BY <1>1, DivBounds
<1>3. b \in Int /\ t + Unit \div 2 < Unit * b + Unit
  BY <1>1, DivBounds
<1>4. Unit * a \in Int /\ Unit * b \in Int
  BY <1>1, <1>2, <1>3
<1>5. CASE b < a
  <2>1. Unit * b + Unit <= Unit * a
    BY <1>1, <1>2, <1>3, <1>5, Multiples
  <2>. QED
    BY <1>1, <1>2, <1>3, <1>4, <2>1
<1>6. CASE a = b
  BY <1>4, <1>6 DEF Round
<1>7. CASE a < b
  <2>1. Unit * a + Unit <= Unit * b
    BY <1>1, <1>2, <1>3, <1>7, Multiples
  <2>. QED
    BY <1>1, <1>4, <2>1 DEF Round
<1>. QED
  BY <1>2, <1>3, <1>5, <1>6, <1>7

(* A similarity of Shown is shown as it is, and reaches the threshold. *)
LEMMA ShownReaches ==
  ASSUME NEW s \in Int, s >= Shown
  PROVE  /\ Shown \in Int /\ s >= Threshold
         /\ Round(s) >= Threshold
<1>1. Unit \in Nat /\ Unit > 0 /\ Threshold \in Nat /\ Unit \div 2 \in Nat
  BY GalleryConstants
<1>. DEFINE p == (Threshold + Unit - 1) \div Unit
            q == (s + Unit \div 2) \div Unit
<1>2. p \in Int /\ Threshold + Unit - 1 < Unit * p + Unit
  BY <1>1, DivBounds
<1>3. Unit * p \in Int
  BY <1>1, <1>2
<1>4. Shown \in Int /\ Shown >= Threshold
  BY <1>1, <1>2, <1>3 DEF Shown
<1>5. q \in Int /\ s + Unit \div 2 < Unit * q + Unit
  BY <1>1, DivBounds
<1>6. Unit * q \in Int
  BY <1>1, <1>5
<1>7. ~(q < p)
  <2>1. SUFFICES ASSUME q < p PROVE FALSE
    OBVIOUS
  <2>2. Unit * q + Unit <= Unit * p
    BY <1>1, <1>2, <1>5, <2>1, Multiples
  <2>. QED
    BY <1>1, <1>3, <1>5, <1>6, <2>2 DEF Shown
<1>8. Unit * p <= Unit * q
  <2>1. CASE p = q
    BY <1>3, <2>1
  <2>2. CASE p < q
    <3>1. Unit * p + Unit <= Unit * q
      BY <1>1, <1>2, <1>5, <2>2, Multiples
    <3>. QED
      BY <1>1, <1>3, <1>6, <3>1
  <2>. QED
    BY <1>2, <1>5, <1>7, <2>1, <2>2
<1>. QED
  BY <1>1, <1>2, <1>3, <1>4, <1>6, <1>8 DEF Shown, Round

(* Similarities are integers, and no face is closer than the face itself. *)
LEMMA SimilarityType ==
  ASSUME NEW f \in Faces, NEW g \in Faces
  PROVE  Similarity(f, g) \in Int /\ Similarity(f, g) <= Identical
  BY GalleryConstants DEF Similarity

-----------------------------------------------------------------------------
(* Galleries and lists of matches *)

(* Enrolled users have a face. *)
LEMMA EnrolledFaces ==
  ASSUME NEW g \in [Users -> Content], NEW u \in Enrolled(g)
  PROVE  u \in Users /\ g[u] \in Faces
  BY DEF Content, Enrolled

(* Storing one face keeps a gallery finite. *)
LEMMA StoreFinite ==
  ASSUME NEW g \in [Users -> Content], IsFiniteSet(Enrolled(g)),
         NEW u \in Users, NEW f \in Content
  PROVE  /\ [g EXCEPT ![u] = f] \in [Users -> Content]
         /\ IsFiniteSet(Enrolled([g EXCEPT ![u] = f]))
<1>1. Enrolled([g EXCEPT ![u] = f]) \subseteq Enrolled(g) \cup {u}
  BY DEF Enrolled
<1>2. IsFiniteSet(Enrolled(g) \cup {u})
  BY FS_AddElement
<1>. QED
  BY <1>1, <1>2, FS_Subset, Zenon

(* A list cut to k holds everybody or k users. *)
LEMMA BestCut ==
  ASSUME NEW S, IsFiniteSet(S), NEW k \in Nat, NEW f, NEW g, NEW M \in Best(S, k, f, g)
  PROVE  /\ M \subseteq S
         /\ M # S => Cardinality(M) = k
         /\ Cardinality(S) <= k => M = S
         /\ k > 0 /\ S # {} => M # {}
         /\ \A m \in M, u \in S \ M :
              Round(Similarity(f, g[u])) <= Round(Similarity(f, g[m]))
<1>1. /\ M \subseteq S
      /\ Cardinality(M) = IF Cardinality(S) < k THEN Cardinality(S) ELSE k
      /\ \A m \in M, u \in S \ M :
           Round(Similarity(f, g[u])) <= Round(Similarity(f, g[m]))
  BY DEF Best
<1>2. Cardinality(S) \in Nat /\ Cardinality(M) \in Nat
  BY <1>1, FS_CardinalityType, FS_Subset
<1>3. Cardinality(M) = Cardinality(S) => M = S
  BY <1>1, FS_Subset
<1>4. S # {} => Cardinality(S) # 0
  BY FS_EmptySet
<1>5. M = {} => Cardinality(M) = 0
  BY FS_EmptySet
<1>. QED
  BY <1>1, <1>2, <1>3, <1>4, <1>5

(* A search finds who reaches the threshold, and drops only those that are
   not closer than any match by a unit. *)
LEMMA SearchRight ==
  ASSUME NEW g \in [Users -> Content], IsFiniteSet(Enrolled(g)),
         NEW f \in Faces, NEW k \in Nat, NEW t \in Int,
         NEW M \in SearchMatches(f, g, k, t)
  PROVE  /\ \A m \in M : m \in Enrolled(g) /\ Similarity(f, g[m]) >= t
         /\ \A u \in Enrolled(g) \ M : Similarity(f, g[u]) >= t =>
              /\ Cardinality(M) = k
              /\ \A m \in M : Similarity(f, g[u]) < Similarity(f, g[m]) + Unit
         /\ t = Threshold /\ k >= Cardinality(Enrolled(g)) =>
              M = {u \in Enrolled(g) : Verified(f, g[u])}
<1>. DEFINE S == Near(f, g, t)
<1>1. S \subseteq Enrolled(g) /\ IsFiniteSet(S) /\ Cardinality(S) <= Cardinality(Enrolled(g))
  <2>1. S \in SUBSET Enrolled(g)
    BY DEF Near
  <2>. QED
    BY <2>1, FS_Subset
<1>2. M \in Best(S, k, f, g)
  BY DEF SearchMatches
<1>3. /\ M \subseteq S
      /\ M # S => Cardinality(M) = k
      /\ Cardinality(S) <= k => M = S
      /\ \A m \in M, u \in S \ M :
           Round(Similarity(f, g[u])) <= Round(Similarity(f, g[m]))
  BY <1>1, <1>2, BestCut
<1>4. \A m \in M : m \in Enrolled(g) /\ Similarity(f, g[m]) >= t
  BY <1>3 DEF Near
<1>5. ASSUME NEW u \in Enrolled(g) \ M, Similarity(f, g[u]) >= t
      PROVE  /\ Cardinality(M) = k
             /\ \A m \in M : Similarity(f, g[u]) < Similarity(f, g[m]) + Unit
  <2>1. u \in S \ M
    BY <1>5 DEF Near
  <2>2. ASSUME NEW m \in M
        PROVE  Similarity(f, g[u]) < Similarity(f, g[m]) + Unit
    <3>1. g[u] \in Faces /\ g[m] \in Faces
      BY <1>4, EnrolledFaces
    <3>2. Similarity(f, g[u]) \in Int /\ Similarity(f, g[m]) \in Int
      BY <3>1, SimilarityType
    <3>. QED
      BY <1>3, <2>1, <3>2, RoundOrder
  <2>. QED
    BY <1>3, <2>1, <2>2
<1>6. ASSUME t = Threshold, k >= Cardinality(Enrolled(g))
      PROVE  M = {u \in Enrolled(g) : Verified(f, g[u])}
  <2>1. Cardinality(S) \in Nat /\ Cardinality(Enrolled(g)) \in Nat
    BY <1>1, FS_CardinalityType
  <2>2. M = S
    BY <1>1, <1>3, <1>6, <2>1
  <2>. QED
    BY <1>6, <2>2 DEF Near, Verified
<1>. QED
  BY <1>4, <1>5, <1>6

(* A nonempty list of matches has a head: nobody is shown as closer. *)
LEMMA HeadExists ==
  ASSUME NEW g \in [Users -> Content], NEW f \in Faces,
         NEW M \in SUBSET Enrolled(g), M # {}
  PROVE  \E m \in M : \A n \in M :
           Round(Similarity(f, g[n])) <= Round(Similarity(f, g[m]))
<1>. DEFINE R(m) == Round(Similarity(f, g[m]))
            D == {Round(Identical) - R(m) : m \in M}
<1>1. ASSUME NEW m \in M
      PROVE  R(m) \in Int /\ Round(Identical) \in Int /\ R(m) <= Round(Identical)
  <2>1. g[m] \in Faces
    BY EnrolledFaces
  <2>2. Similarity(f, g[m]) \in Int /\ Similarity(f, g[m]) <= Identical
    BY <2>1, SimilarityType
  <2>3. Identical \in Int
    BY GalleryConstants
  <2>. QED
    BY <2>2, <2>3, RoundBounds, RoundMonotone
<1>2. D \subseteq Nat /\ D # {}
  <2>. HIDE DEF R
  <2>. QED
    BY <1>1
<1>3. PICK x \in D : \A y \in D : x <= y
  <2>. HIDE DEF D
  <2>. QED
    BY <1>2, Least, Zenon
<1>4. PICK m \in M : x = Round(Identical) - R(m)
  BY <1>3
<1>5. ASSUME NEW n \in M
      PROVE  R(n) <= R(m)
  <2>. HIDE DEF R
  <2>1. x <= Round(Identical) - R(n)
    BY <1>3
  <2>. QED
    BY <1>1, <1>4, <2>1
<1>. QED
  BY <1>4, <1>5

(* /identify names a best match up to rounding, and somebody if anybody
   reaches the threshold by what is shown. *)
LEMMA IdentifyRight ==
  ASSUME NEW g \in [Users -> Content], IsFiniteSet(Enrolled(g)),
         NEW f \in Faces, NEW k \in Nat, k > 0,
         NEW near, near = {u \in Enrolled(g) : 10 * Similarity(f, g[u]) >= 8 * Threshold},
         NEW M \in Best(near, k, f, g), NEW b \in BestMatch(M, f, g)
  PROVE  /\ b # Nothing =>
              /\ 2 * Similarity(f, g[b]) + Unit >= 2 * Threshold
              /\ \A u \in Enrolled(g) : Similarity(f, g[u]) < Similarity(f, g[b]) + Unit
         /\ (\E u \in Enrolled(g) : Similarity(f, g[u]) >= Shown) => b # Nothing
<1>. DEFINE S(u) == Similarity(f, g[u])
<1>1. near \in SUBSET Enrolled(g)
  OBVIOUS
<1>2. IsFiniteSet(near)
  BY <1>1, FS_Subset
<1>3. /\ M \subseteq near
      /\ near # {} => M # {}
      /\ \A m \in M, u \in near \ M : Round(S(u)) <= Round(S(m))
  BY <1>2, BestCut
<1>4. ASSUME NEW u \in Enrolled(g)
      PROVE  S(u) \in Int /\ Round(S(u)) \in Int
  BY EnrolledFaces, SimilarityType, RoundBounds
<1>5. Unit \in Nat /\ Unit > 0 /\ Threshold \in Nat
  BY GalleryConstants
<1>6. ASSUME b # Nothing
      PROVE  /\ 2 * S(b) + Unit >= 2 * Threshold
             /\ \A u \in Enrolled(g) : S(u) < S(b) + Unit
  <2>1. /\ b \in M /\ Round(S(b)) >= Threshold
        /\ \A n \in M : Round(S(n)) <= Round(S(b))
    BY <1>6 DEF BestMatch
  <2>2. b \in near /\ b \in Enrolled(g) /\ 10 * S(b) >= 8 * Threshold
    BY <1>3, <2>1
  <2>3. S(b) \in Int /\ Round(S(b)) \in Int
    BY <1>4, <2>2
  <2>4. 2 * S(b) + Unit >= 2 * Threshold
    <3>1. /\ Round(S(b)) <= S(b) + Unit \div 2
          /\ 2 * (Unit \div 2) <= Unit /\ Unit \div 2 \in Nat
      BY <2>3, RoundBounds
    <3>. HIDE DEF S
    <3>. QED
      BY <1>5, <2>1, <2>3, <3>1
  <2>5. ASSUME NEW u \in Enrolled(g)
        PROVE  S(u) < S(b) + Unit
    <3>1. S(u) \in Int
      BY <1>4
    <3>2. CASE u \in M
      BY <2>1, <2>3, <3>1, <3>2, RoundOrder
    <3>3. CASE u \in near \ M
      BY <1>3, <2>1, <2>3, <3>1, <3>3, RoundOrder
    <3>4. CASE u \notin near
      <4>1. ~(10 * S(u) >= 8 * Threshold)
        BY <3>4
      <4>. HIDE DEF S
      <4>. QED
        BY <1>5, <2>2, <2>3, <3>1, <4>1
    <3>. QED
      BY <3>2, <3>3, <3>4
  <2>. QED
    BY <2>4, <2>5
<1>7. ASSUME NEW u \in Enrolled(g), S(u) >= Shown
      PROVE  b # Nothing
  <2>1. S(u) >= Threshold /\ Round(S(u)) >= Threshold /\ S(u) \in Int
    BY <1>4, <1>7, ShownReaches
  <2>2. u \in near
    <3>1. 10 * S(u) >= 8 * Threshold
      <4>. HIDE DEF S
      <4>. QED
        BY <1>5, <2>1
    <3>. QED
      BY <3>1
  <2>3. PICK m \in M : \A n \in M : Round(S(n)) <= Round(S(m))
    BY <1>1, <1>3, <2>2, HeadExists
  <2>4. Round(S(u)) <= Round(S(m))
    BY <1>3, <2>2, <2>3
  <2>5. Round(S(m)) >= Threshold
    BY <1>1, <1>3, <1>4, <1>5, <2>1, <2>4
  <2>6. b \in M
    BY <2>3, <2>5 DEF BestMatch
  <2>. QED
    BY <1>1, <1>3, <2>6, EnrolledFaces, GalleryConstants
<1>. QED
  BY <1>6, <1>7

-----------------------------------------------------------------------------
(* The gallery *)

(* The part of GalleryInv that is about the gallery, not about the answer. *)
StoreInv ==
  /\ TypeOK
  /\ IsFiniteSet(Enrolled(redis)) /\ IsFiniteSet(Enrolled(dict))
  /\ client = "none" /\ UseRedis => known = {}
  /\ \A e \in late : e.face # NoFace => e.face \in possible[e.user]
  /\ GalleryConsistent

(* get_redis decides on a store that exists, and does not change its mind. *)
LEMMA GetRedisFacts ==
  ASSUME StoreInv
  PROVE  /\ GetRedis \in {"none", "connected", "unavailable"}
         /\ GetRedis = "connected" => UseRedis
         /\ UseRedis => GetRedis # "none"
         /\ known # {} => GetRedis = client
  BY GalleryConstants DEF StoreInv, TypeOK, GetRedis

(* What a lookup reads is a finite gallery. *)
LEMMA ViewFacts ==
  ASSUME StoreInv, NEW c
  PROVE  View(c) \in [Users -> Content] /\ IsFiniteSet(Enrolled(View(c)))
  BY DEF StoreInv, TypeOK, View

(* A request that stores nothing keeps StoreInv, whether or not it was the
   first to ask for Redis. *)
LEMMA ReadKeeps ==
  ASSUME StoreInv, client' \in {client, GetRedis},
         UNCHANGED <<gallery, late, skip, possible, known>>,
         up' \in BOOLEAN, ops' \in Nat, faults' \in Nat
  PROVE  StoreInv'
<1>1. TypeOK'
  BY GetRedisFacts DEF StoreInv, TypeOK, gallery
<1>2. client' = "none" /\ UseRedis => known' = {}
  BY GetRedisFacts DEF StoreInv
<1>3. GalleryConsistent'
  <2>1. known # {} => client' = client
    BY GetRedisFacts
  <2>. QED
    BY <2>1 DEF StoreInv, GalleryConsistent, View, gallery
<1>. QED
  BY <1>1, <1>2, <1>3 DEF StoreInv, Enrolled, gallery

(* Storing a face in the chosen gallery changes it for that user only. *)
LEMMA StoreEffect ==
  ASSUME StoreInv, NEW u \in Users, NEW f \in Content, Store(GetRedis, u, f),
         client' = GetRedis
  PROVE  /\ redis' \in [Users -> Content] /\ dict' \in [Users -> Content]
         /\ IsFiniteSet(Enrolled(redis')) /\ IsFiniteSet(Enrolled(dict'))
         /\ View(client)' = [View(GetRedis) EXCEPT ![u] = f]
<1>1. /\ redis \in [Users -> Content] /\ IsFiniteSet(Enrolled(redis))
      /\ dict \in [Users -> Content] /\ IsFiniteSet(Enrolled(dict))
  BY DEF StoreInv, TypeOK
<1>2. /\ [redis EXCEPT ![u] = f] \in [Users -> Content]
      /\ IsFiniteSet(Enrolled([redis EXCEPT ![u] = f]))
      /\ [dict EXCEPT ![u] = f] \in [Users -> Content]
      /\ IsFiniteSet(Enrolled([dict EXCEPT ![u] = f]))
  BY <1>1, StoreFinite, Zenon
<1>. QED
  BY <1>1, <1>2, Zenon DEF Store, View

(* An enrolment or a deletion that is answered. *)
LEMMA WriteKeeps ==
  ASSUME StoreInv, NEW u \in Users, NEW f \in Content,
         Store(GetRedis, u, f), Learn(u, {f} \cup LateFaces(u)), client' = GetRedis,
         UNCHANGED <<up, late, skip, faults>>, ops' \in Nat
  PROVE  StoreInv'
<1>1. /\ redis' \in [Users -> Content] /\ dict' \in [Users -> Content]
      /\ IsFiniteSet(Enrolled(redis')) /\ IsFiniteSet(Enrolled(dict'))
      /\ View(client)' = [View(GetRedis) EXCEPT ![u] = f]
  BY StoreEffect
<1>2. /\ possible \in [Users -> SUBSET Content] /\ late \subseteq Enrolment
      /\ possible' = [possible EXCEPT ![u] = {f} \cup LateFaces(u)]
      /\ known' = known \cup {u}
  BY DEF StoreInv, TypeOK, Learn
<1>3. LateFaces(u) \subseteq Content
  BY <1>2 DEF LateFaces, Enrolment, Content
<1>4. TypeOK'
  BY <1>1, <1>2, <1>3, GetRedisFacts DEF StoreInv, TypeOK
<1>5. client' = "none" /\ UseRedis => known' = {}
  BY GetRedisFacts
<1>6. ASSUME NEW e \in late', e.face # NoFace
      PROVE  e.face \in possible'[e.user]
  <2>1. e \in late /\ e.user \in Users /\ e.face \in possible[e.user]
    BY <1>2, <1>6 DEF StoreInv, Enrolment
  <2>2. e.user = u => e.face \in LateFaces(u)
    BY <1>6, <2>1 DEF LateFaces
  <2>. QED
    BY <1>2, <2>1, <2>2
<1>7. GalleryConsistent'
  <2>1. SUFFICES ASSUME NEW v \in known'
                 PROVE  View(client)'[v] \in possible'[v]
    BY DEF GalleryConsistent
  <2>2. v \in Users
    BY <1>2, <2>1 DEF StoreInv, TypeOK
  <2>3. CASE v = u
    BY <1>1, <1>2, <2>3, ViewFacts
  <2>4. CASE v # u
    <3>1. v \in known /\ GetRedis = client
      BY <1>2, <2>1, <2>4, GetRedisFacts
    <3>2. View(client)[v] \in possible[v]
      BY <3>1 DEF StoreInv, GalleryConsistent
    <3>. QED
      BY <1>1, <1>2, <2>2, <2>4, <3>1, <3>2, ViewFacts
  <2>. QED
    BY <2>3, <2>4
<1>. QED
  BY <1>1, <1>4, <1>5, <1>6, <1>7 DEF StoreInv, Enrolled

(* A timed-out enrolment is possible from now on. *)
LEMMA TimeoutKeeps ==
  ASSUME StoreInv, NEW u \in Users, NEW f \in Faces \cup {NoFace}, EnrollTimeout(u, f)
  PROVE  StoreInv'
<1>. USE DEF EnrollTimeout
<1>1. /\ possible \in [Users -> SUBSET Content] /\ late \subseteq Enrolment
      /\ possible' = [possible EXCEPT ![u] = @ \cup ({f} \ {NoFace})]
      /\ late' = late \cup {[user |-> u, face |-> f]}
  BY DEF StoreInv, TypeOK
<1>2. possible' \in [Users -> SUBSET Content] /\ \A v \in Users : possible[v] \subseteq possible'[v]
  BY <1>1 DEF Content
<1>3. TypeOK'
  BY <1>1, <1>2 DEF StoreInv, TypeOK, gallery, Enrolment
<1>4. ASSUME NEW e \in late', e.face # NoFace
      PROVE  e.face \in possible'[e.user]
  <2>1. CASE e \in late
    BY <1>1, <1>2, <1>4, <2>1 DEF StoreInv, Enrolment
  <2>2. CASE e = [user |-> u, face |-> f]
    BY <1>1, <1>4, <2>2
  <2>. QED
    BY <1>1, <2>1, <2>2
<1>5. GalleryConsistent'
  <2>1. known' = known /\ View(client)' = View(client) /\ known \subseteq Users
    BY DEF gallery, View, StoreInv, TypeOK
  <2>. QED
    BY <1>2, <2>1 DEF StoreInv, GalleryConsistent
<1>. QED
  BY <1>3, <1>4, <1>5 DEF StoreInv, Enrolled, gallery

(* A late enrolment stores what is possible. *)
LEMMA LateKeeps ==
  ASSUME StoreInv, NEW e \in late, EnrollLate(e)
  PROVE  StoreInv'
<1>1. /\ late \subseteq Enrolment /\ late' = late \ {e}
      /\ UNCHANGED <<up, skip, possible, known, ops, faults>>
  BY DEF EnrollLate, StoreInv, TypeOK
<1>2. e.user \in Users /\ e.face \in Faces \cup {NoFace}
  BY <1>1 DEF Enrolment
<1>3. CASE e.face # NoFace /\ Answers(GetRedis)
  <2>1. client' = GetRedis /\ Store(GetRedis, e.user, e.face)
    BY <1>3 DEF EnrollLate
  <2>2. e.face \in Content
    BY <1>2, <1>3 DEF Content
  <2>3. /\ redis' \in [Users -> Content] /\ dict' \in [Users -> Content]
        /\ IsFiniteSet(Enrolled(redis')) /\ IsFiniteSet(Enrolled(dict'))
        /\ View(client)' = [View(GetRedis) EXCEPT ![e.user] = e.face]
    BY <1>2, <2>1, <2>2, StoreEffect
  <2>4. TypeOK'
    BY <1>1, <2>1, <2>3, GetRedisFacts DEF StoreInv, TypeOK
  <2>5. client' = "none" /\ UseRedis => known' = {}
    BY <2>1, GetRedisFacts
  <2>6. GalleryConsistent'
    <3>1. SUFFICES ASSUME NEW v \in known
                   PROVE  View(client)'[v] \in possible[v]
      BY <1>1 DEF GalleryConsistent
    <3>2. v \in Users /\ GetRedis = client /\ View(client)[v] \in possible[v]
      BY <3>1, GetRedisFacts DEF StoreInv, TypeOK, GalleryConsistent
    <3>3. e.face \in possible[e.user]
      BY <1>3 DEF StoreInv
    <3>. QED
      BY <1>2, <2>3, <3>2, <3>3, ViewFacts
  <2>. QED
    BY <1>1, <2>3, <2>4, <2>5, <2>6 DEF StoreInv, Enrolled
<1>4. CASE ~(e.face # NoFace /\ Answers(GetRedis))
  <2>1. client' \in {client, GetRedis} /\ UNCHANGED gallery
    BY <1>4 DEF EnrollLate
  <2>2. TypeOK'
    BY <1>1, <2>1, GetRedisFacts DEF StoreInv, TypeOK, gallery
  <2>3. client' = "none" /\ UseRedis => known' = {}
    BY <1>1, <2>1, GetRedisFacts DEF StoreInv
  <2>4. GalleryConsistent'
    <3>1. known # {} => client' = client
      BY <2>1, GetRedisFacts
    <3>. QED
      BY <1>1, <2>1, <3>1 DEF StoreInv, GalleryConsistent, View, gallery
  <2>. QED
    BY <1>1, <2>1, <2>2, <2>3, <2>4 DEF StoreInv, Enrolled, gallery
<1>. QED
  BY <1>3, <1>4

-----------------------------------------------------------------------------
(* The answers *)

(* The part of GalleryInv that is about the last answer. *)
AnswerInv == EnrollTruthful /\ LookupsSound

(* Other answers than those of /enroll, /search and /identify do not matter. *)
LEMMA OtherAnswers ==
  ASSUME answer'.op \notin {"enroll", "search", "identify"}
  PROVE  AnswerInv'
  BY DEF AnswerInv, EnrollTruthful, LookupsSound, SearchSound, IdentifySound, DecisionsAgree

(* What Enroll says is in the gallery now. *)
LEMMA EnrollAnswers ==
  ASSUME StoreInv, NEW u \in Users, NEW f \in Faces \cup {NoFace}, EnrollFace(u, f)
  PROVE  AnswerInv'
<1>1. answer'.op = "enroll"
  BY DEF EnrollFace
<1>2. LookupsSound'
  BY <1>1 DEF LookupsSound, SearchSound, IdentifySound, DecisionsAgree
<1>3. SUFFICES ASSUME ~skip', ~answer'.result.err
               PROVE  answer'.result.value.success <=>
                        answer'.face # NoFace /\ answer'.from[answer'.user] = answer'.face
  BY <1>1, <1>2 DEF AnswerInv, EnrollTruthful
<1>4. ~skip
  BY <1>3 DEF EnrollFace
<1>5. CASE f = NoFace
  <2>1. /\ answer'.face = NoFace
        /\ answer'.result = Enroll(skip, u, [user |-> u, success |-> FALSE])
    BY <1>4, <1>5 DEF EnrollFace
  <2>. QED
    BY <1>3, <1>4, <2>1 DEF Enroll, Do, Ok, Failed
<1>6. CASE f # NoFace /\ ~Answers(GetRedis)
  <2>1. answer'.result = Enroll(skip, u, Refused)
    BY <1>4, <1>6 DEF EnrollFace
  <2>. QED
    BY <1>3, <1>4, <2>1 DEF Enroll, Do, Ok, Failed
<1>7. CASE f # NoFace /\ Answers(GetRedis)
  <2>1. /\ answer'.face = f /\ answer'.user = u
        /\ answer'.result = Enroll(skip, u, [user |-> u, success |-> TRUE])
        /\ answer'.from = [View(GetRedis) EXCEPT ![u] = f]
    BY <1>4, <1>7 DEF EnrollFace
  <2>2. answer'.from[u] = f
    BY <2>1, ViewFacts
  <2>. QED
    BY <1>3, <1>4, <1>7, <2>1, <2>2 DEF Enroll, Do, Ok, Failed
<1>. QED
  BY <1>5, <1>6, <1>7

(* Searches are sound. *)
LEMMA SearchAnswers ==
  ASSUME StoreInv, NEW f \in Faces, NEW k \in TopK, NEW t \in Asked, SearchFace(f, k, t)
  PROVE  AnswerInv'
<1>. DEFINE g == View(GetRedis)
            threshold == SearchThreshold(t, Threshold)
<1>1. PICK M \in SearchMatches(f, g, k, threshold) :
        answer' = [op |-> "search", face |-> f, k |-> k, threshold |-> threshold,
                   result |-> Search(skip, IF Answers(GetRedis) THEN [matches |-> M]
                                           ELSE Refused),
                   from |-> g]
  BY DEF SearchFace
<1>2. /\ answer'.op = "search" /\ answer'.face = f /\ answer'.k = k
      /\ answer'.threshold = threshold /\ answer'.from = g
      /\ answer'.result = Search(skip, IF Answers(GetRedis) THEN [matches |-> M] ELSE Refused)
  BY <1>1
<1>3. EnrollTruthful' /\ IdentifySound'
  BY <1>2 DEF EnrollTruthful, IdentifySound
<1>4. skip' = skip
  BY DEF SearchFace
<1>5. ASSUME ~skip', ~answer'.result.err
      PROVE  answer'.result.value.matches = M
  BY <1>2, <1>4, <1>5 DEF Search, Do, Ok, Failed
<1>6. k \in Nat /\ threshold \in Int /\ g \in [Users -> Content] /\ IsFiniteSet(Enrolled(g))
  BY GalleryConstants, ViewFacts DEF SearchThreshold
<1>7. /\ \A m \in M : m \in Enrolled(g) /\ Similarity(f, g[m]) >= threshold
      /\ \A u \in Enrolled(g) \ M : Similarity(f, g[u]) >= threshold =>
           /\ Cardinality(M) = k
           /\ \A m \in M : Similarity(f, g[u]) < Similarity(f, g[m]) + Unit
      /\ threshold = Threshold /\ k >= Cardinality(Enrolled(g)) =>
           M = {u \in Enrolled(g) : Verified(f, g[u])}
  <2>. HIDE DEF g, threshold
  <2>. QED
    BY <1>6, SearchRight
<1>. HIDE DEF g, threshold
<1>8. SearchSound'
  BY <1>2, <1>5, <1>7 DEF SearchSound
<1>9. DecisionsAgree'
  BY <1>2, <1>5, <1>7 DEF DecisionsAgree
<1>. QED
  BY <1>3, <1>8, <1>9 DEF AnswerInv, LookupsSound

(* Identifications are sound. *)
LEMMA IdentifyAnswers ==
  ASSUME StoreInv, NEW f \in Faces, NEW k \in TopK, Identify(f, k)
  PROVE  AnswerInv'
<1>. DEFINE g == View(GetRedis)
            near == {u \in Enrolled(g) : 10 * Similarity(f, g[u]) >= 8 * Threshold}
<1>1. PICK M \in Best(near, k, f, g) : \E b \in BestMatch(M, f, g) :
        answer' = IF Answers(GetRedis)
                  THEN [op |-> "identify", face |-> f, best |-> b, from |-> g]
                  ELSE NoAnswer
  BY DEF Identify
<1>2. PICK b \in BestMatch(M, f, g) :
        answer' = IF Answers(GetRedis)
                  THEN [op |-> "identify", face |-> f, best |-> b, from |-> g]
                  ELSE NoAnswer
  BY <1>1
<1>3. CASE ~Answers(GetRedis)
  <2>1. answer'.op = "none"
    BY <1>2, <1>3 DEF NoAnswer
  <2>. QED
    BY <2>1, OtherAnswers
<1>4. CASE Answers(GetRedis)
  <2>1. /\ answer'.op = "identify" /\ answer'.face = f
        /\ answer'.best = b /\ answer'.from = g
    BY <1>2, <1>4
  <2>2. k \in Nat /\ k > 0 /\ g \in [Users -> Content] /\ IsFiniteSet(Enrolled(g))
    BY GalleryConstants, ViewFacts
  <2>. HIDE DEF g
  <2>3. /\ b # Nothing =>
             /\ 2 * Similarity(f, g[b]) + Unit >= 2 * Threshold
             /\ \A u \in Enrolled(g) : Similarity(f, g[u]) < Similarity(f, g[b]) + Unit
        /\ (\E u \in Enrolled(g) : Similarity(f, g[u]) >= Shown) => b # Nothing
    BY <2>2, IdentifyRight
  <2>4. IdentifySound'
    BY <2>1, <2>3 DEF IdentifySound
  <2>. QED
    BY <2>1, <2>4 DEF AnswerInv, LookupsSound, EnrollTruthful, SearchSound, DecisionsAgree
<1>. QED
  BY <1>3, <1>4

-----------------------------------------------------------------------------
(* Invariance *)

(* GalleryInv is its part about the gallery and its part about the answer. *)
LEMMA GalleryInvParts == GalleryInv <=> StoreInv /\ AnswerInv
  BY DEF GalleryInv, StoreInv, AnswerInv

(* The service starts with an empty gallery. *)
LEMMA InitInv == Init => GalleryInv
<1>. SUFFICES ASSUME Init PROVE GalleryInv
  OBVIOUS
<1>1. TypeOK
  BY GalleryConstants DEF Init, TypeOK, Empty, Content
<1>2. Enrolled(redis) = {} /\ Enrolled(dict) = {}
  BY DEF Init, Empty, Enrolled
<1>3. IsFiniteSet(Enrolled(redis)) /\ IsFiniteSet(Enrolled(dict))
  BY <1>2, FS_EmptySet
<1>4. EnrollTruthful /\ LookupsSound
  BY DEF Init, NoAnswer, EnrollTruthful, LookupsSound, SearchSound, IdentifySound,
         DecisionsAgree
<1>. QED
  BY <1>1, <1>3, <1>4 DEF GalleryInv, GalleryConsistent, Init

(* Every step keeps GalleryInv. *)
LEMMA StepInv == GalleryInv /\ [Next]_vars => GalleryInv'
<1>. SUFFICES ASSUME StoreInv, AnswerInv, [Next]_vars
              PROVE  StoreInv' /\ AnswerInv'
  BY GalleryInvParts DEF GalleryInv, StoreInv, AnswerInv
<1>0. up \in BOOLEAN /\ ops \in Nat /\ faults \in Nat /\ MaxOps \in Nat /\ MaxFaults \in Nat
  BY GalleryConstants DEF StoreInv, TypeOK
<1>a. UNCHANGED <<answer, skip>> => AnswerInv'
  BY DEF AnswerInv, EnrollTruthful, LookupsSound, SearchSound, IdentifySound, DecisionsAgree
<1>1. ASSUME NEW u \in Users, NEW f \in Faces \cup {NoFace}, EnrollFace(u, f)
      PROVE  StoreInv' /\ AnswerInv'
  <2>1. CASE skip \/ f = NoFace \/ ~Answers(GetRedis)
    <3>1. /\ client' \in {client, GetRedis} /\ ops' = ops + 1
          /\ UNCHANGED <<gallery, late, skip, possible, known, up, faults>>
      BY <1>1, <2>1 DEF EnrollFace
    <3>2. StoreInv'
      BY <1>0, <3>1, ReadKeeps
    <3>. QED
      BY <1>1, <3>2, EnrollAnswers
  <2>2. CASE ~(skip \/ f = NoFace \/ ~Answers(GetRedis))
    <3>1. /\ Store(GetRedis, u, f) /\ Learn(u, {f} \cup LateFaces(u))
          /\ client' = GetRedis /\ UNCHANGED <<up, late, skip, faults>> /\ ops' = ops + 1
      BY <1>1, <2>2 DEF EnrollFace
    <3>2. f \in Content
      BY <1>1, <2>2 DEF Content
    <3>3. StoreInv'
      BY <1>0, <3>1, <3>2, WriteKeeps
    <3>. QED
      BY <1>1, <3>3, EnrollAnswers
  <2>. QED
    BY <2>1, <2>2
<1>2. ASSUME NEW u \in Users, NEW f \in Faces \cup {NoFace}, EnrollTimeout(u, f)
      PROVE  StoreInv' /\ AnswerInv'
  <2>1. /\ ~skip /\ answer'.op = "enroll" /\ answer'.result = Enroll(skip, u, Unreachable)
    BY <1>2 DEF EnrollTimeout
  <2>2. answer'.result.err
    BY <2>1 DEF Enroll, Do, Failed
  <2>3. AnswerInv'
    BY <2>1, <2>2, Zenon DEF AnswerInv, EnrollTruthful, LookupsSound, SearchSound, IdentifySound,
                      DecisionsAgree
  <2>. QED
    BY <1>2, <2>3, TimeoutKeeps
<1>3. ASSUME NEW e \in late, EnrollLate(e)
      PROVE  StoreInv' /\ AnswerInv'
  <2>1. UNCHANGED <<answer, skip>>
    BY <1>3 DEF EnrollLate
  <2>. QED
    BY <1>3, <1>a, <2>1, LateKeeps
<1>4. ASSUME NEW u \in Users, Unenroll(u)
      PROVE  StoreInv' /\ AnswerInv'
  <2>1. /\ client' = GetRedis /\ ops' = ops + 1 /\ answer' = NoAnswer
        /\ UNCHANGED <<up, late, skip, faults>>
    BY <1>4 DEF Unenroll
  <2>2. AnswerInv'
    BY <2>1, OtherAnswers DEF NoAnswer
  <2>3. CASE Answers(GetRedis)
    <3>1. Store(GetRedis, u, Nothing) /\ Learn(u, {Nothing} \cup LateFaces(u))
      BY <1>4, <2>3 DEF Unenroll
    <3>2. StoreInv'
      BY <1>0, <2>1, <3>1, WriteKeeps DEF Content
    <3>. QED
      BY <2>2, <3>2
  <2>4. CASE ~Answers(GetRedis)
    <3>1. UNCHANGED <<gallery, possible, known>>
      BY <1>4, <2>4 DEF Unenroll
    <3>2. StoreInv'
      BY <1>0, <2>1, <3>1, ReadKeeps
    <3>. QED
      BY <2>2, <3>2
  <2>. QED
    BY <2>3, <2>4
<1>5. ASSUME NEW f \in Faces, NEW k \in TopK, NEW t \in Asked, SearchFace(f, k, t)
      PROVE  StoreInv' /\ AnswerInv'
  <2>1. /\ client' \in {client, GetRedis}
        /\ UNCHANGED <<gallery, up, late, skip, possible, known, ops, faults>>
    BY <1>5 DEF SearchFace
  <2>. QED
    BY <1>0, <1>5, <2>1, ReadKeeps, SearchAnswers
<1>6. ASSUME NEW f \in Faces, NEW k \in TopK, Identify(f, k)
      PROVE  StoreInv' /\ AnswerInv'
  <2>1. /\ client' \in {client, GetRedis}
        /\ UNCHANGED <<gallery, up, late, skip, possible, known, ops, faults>>
    BY <1>6 DEF Identify
  <2>. QED
    BY <1>0, <1>6, <2>1, ReadKeeps, IdentifyAnswers
<1>7. ASSUME NEW u \in Users, NEW f \in Faces, VerifyFace(u, f)
      PROVE  StoreInv' /\ AnswerInv'
  <2>1. /\ client' \in {client, GetRedis}
        /\ UNCHANGED <<gallery, up, late, skip, possible, known, ops, faults>>
    BY <1>7 DEF VerifyFace
  <2>2. answer'.op \notin {"enroll", "search", "identify"}
    BY <1>7 DEF VerifyFace
  <2>. QED
    BY <1>0, <2>1, <2>2, ReadKeeps, OtherAnswers
<1>8. ASSUME NEW f \in Faces, NEW g \in Faces, CompareFaces(f, g)
      PROVE  StoreInv' /\ AnswerInv'
  <2>1. /\ client' \in {client, GetRedis}
        /\ UNCHANGED <<gallery, up, late, skip, possible, known, ops, faults>>
    BY <1>8 DEF CompareFaces
  <2>2. answer'.op \notin {"enroll", "search", "identify"}
    BY <1>8 DEF CompareFaces
  <2>. QED
    BY <1>0, <2>1, <2>2, ReadKeeps, OtherAnswers
<1>9. ASSUME NEW f, NEW url, EmbedFace(f, url)
      PROVE  StoreInv' /\ AnswerInv'
  <2>1. /\ client' \in {client, GetRedis}
        /\ UNCHANGED <<gallery, up, late, skip, possible, known, ops, faults>>
    BY <1>9 DEF EmbedFace
  <2>2. answer'.op \notin {"enroll", "search", "identify"}
    BY <1>9 DEF EmbedFace
  <2>. QED
    BY <1>0, <2>1, <2>2, ReadKeeps, OtherAnswers
<1>10. ASSUME NEW f, NEW live, CheckLiveness(f, live)
       PROVE  StoreInv' /\ AnswerInv'
  <2>1. /\ client' \in {client, GetRedis}
        /\ UNCHANGED <<gallery, up, late, skip, possible, known, ops, faults>>
    BY <1>10 DEF CheckLiveness
  <2>2. answer'.op \notin {"enroll", "search", "identify"}
    BY <1>10 DEF CheckLiveness
  <2>. QED
    BY <1>0, <2>1, <2>2, ReadKeeps, OtherAnswers
<1>11. ASSUME CheckHealth
       PROVE  StoreInv' /\ AnswerInv'
  <2>1. /\ client' \in {client, GetRedis}
        /\ UNCHANGED <<gallery, up, late, skip, possible, known, ops, faults>>
    BY <1>11 DEF CheckHealth
  <2>2. answer'.op \notin {"enroll", "search", "identify"}
    BY <1>11 DEF CheckHealth
  <2>. QED
    BY <1>0, <2>1, <2>2, ReadKeeps, OtherAnswers
<1>12. ASSUME Restart
      PROVE  StoreInv' /\ AnswerInv'
  <2>1. Enrolled(dict') = {}
    BY <1>12 DEF Restart, Empty, Enrolled
  <2>2. IsFiniteSet(Enrolled(dict'))
    BY <2>1, FS_EmptySet
  <2>3. StoreInv'
    BY <1>0, <1>12, <2>2 DEF Restart, StoreInv, TypeOK, Empty, Content, GalleryConsistent, Enrolled
  <2>. QED
    BY <1>12, <2>3, OtherAnswers DEF Restart, NoAnswer
<1>13. ASSUME RedisChanges
      PROVE  StoreInv' /\ AnswerInv'
  <2>1. StoreInv'
    BY <1>0, <1>13, ReadKeeps DEF RedisChanges
  <2>. QED
    BY <1>13, <1>a, <2>1 DEF RedisChanges
<1>14. ASSUME UNCHANGED vars
       PROVE  StoreInv' /\ AnswerInv'
  <2>1. /\ client' \in {client, GetRedis} /\ UNCHANGED answer
        /\ UNCHANGED <<gallery, up, late, skip, possible, known, ops, faults>>
    BY <1>14 DEF vars, gallery
  <2>. QED
    BY <1>0, <1>a, <2>1, ReadKeeps
<1>. QED
  BY <1>1, <1>2, <1>3, <1>4, <1>5, <1>6, <1>7, <1>8, <1>9, <1>10, <1>11, <1>12, <1>13,
     <1>14 DEF Next

(* GalleryInv holds through outages of Redis, restarts and timeouts. *)
THEOREM GalleryInvariance == Spec => []GalleryInv
  BY InitInv, StepInv, PTL DEF Spec

(* As long as the service runs, the gallery holds for each user what was
   enrolled last or will be by a request that timed out. *)
THEOREM GalleryAlwaysConsistent == Spec => []GalleryConsistent
<1>1. GalleryInv => GalleryConsistent
  BY DEF GalleryInv
<1>. QED
  BY <1>1, GalleryInvariance, PTL

(* An Enroll that returns no error says whether the face is enrolled. *)
THEOREM EnrolmentsTruthful == Spec => []EnrollTruthful
<1>1. GalleryInv => EnrollTruthful
  BY DEF GalleryInv
<1>. QED
  BY <1>1, GalleryInvariance, PTL

(* Searches and identifications are right up to rounding, for any faces,
   threshold and rounding unit, and agree with /verify. *)
THEOREM LookupsAlwaysSound == Spec => []LookupsSound
<1>1. GalleryInv => LookupsSound
  BY DEF GalleryInv
<1>. QED
  BY <1>1, GalleryInvariance, PTL
=============================================================================
