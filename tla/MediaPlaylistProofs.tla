------------------------ MODULE MediaPlaylistProofs ------------------------
(***************************************************************************)
(* The window as a document and the playlists rendered of it, for any      *)
(* tracks, windows and sizes.                                              *)
(*                                                                         *)
(* First the algorithm of WindowDocument: sorting, grouping and cutting    *)
(* commits gives a valid document of what is visible by the pipeline's     *)
(* rules, with the bounds that the cursor is compared by.  It says nothing *)
(* of steps: WInv, of CoordinatorProofs, provides commits of which no two  *)
(* are at one position, and the rest is arithmetic.                        *)
(*                                                                         *)
(* Then what players see.  Rendering reads the cursor and the profile and  *)
(* nothing else, so that a playlist is as stable as those are: the window  *)
(* never loses a track or an init object, and what it loses at the front   *)
(* and gains at the edge is what the playlist does.                        *)
(***************************************************************************)
EXTENDS MediaPlaylist, CoordinatorProofs, SequenceTheorems

----------------------------------------------------------------------------
(***************************************************************************)
(* Sorting.                                                                *)
(***************************************************************************)

\* The place of each member of S in the order of keys.
Place(S, key) == [x \in S |-> Cardinality({y \in S : key[y] < key[x]})]

\* Counting the lower keys gives every member a place of its own.
LEMMA Places ==
  ASSUME NEW S, IsFiniteSet(S), NEW key \in [S -> Int],
         \A x, y \in S : key[x] = key[y] => x = y
  PROVE  LET place == Place(S, key)
             n == Cardinality(S)
         IN  /\ n \in Nat
             /\ place \in [S -> 0 .. n - 1]
             /\ \A x, y \in S : key[x] < key[y] => place[x] < place[y]
             /\ \A i \in 0 .. n - 1 : \E x \in S : place[x] = i
<1> DEFINE Lower(x) == {y \in S : key[y] < key[x]}
           place == Place(S, key)
           n == Cardinality(S)
<1>1. n \in Nat
  BY FS_CardinalityType
<1>0. place = [x \in S |-> Cardinality(Lower(x))]
  BY DEF Place
<1> HIDE DEF place
<1>2. ASSUME NEW x \in S
      PROVE  IsFiniteSet(Lower(x)) /\ place[x] \in 0 .. n - 1
  <2>1. Lower(x) \in SUBSET S /\ x \notin Lower(x)
    OBVIOUS
  <2> HIDE DEF Lower
  <2>2. /\ IsFiniteSet(Lower(x)) /\ Cardinality(Lower(x)) <= n
        /\ Cardinality(Lower(x)) # n
    BY <2>1, FS_Subset
  <2>3. Cardinality(Lower(x)) \in Nat
    BY <2>2, FS_CardinalityType
  <2> QED
    BY <1>0, <1>1, <2>2, <2>3
<1>3. ASSUME NEW x \in S, NEW y \in S, key[x] < key[y]
      PROVE  place[x] < place[y]
  <2>1. Lower(x) \in SUBSET Lower(y) /\ x \in Lower(y) /\ x \notin Lower(x)
    BY <1>3
  <2> HIDE DEF Lower
  <2>2. /\ Cardinality(Lower(x)) <= Cardinality(Lower(y))
        /\ Cardinality(Lower(x)) # Cardinality(Lower(y))
    BY <1>2, <2>1, FS_Subset
  <2>3. Cardinality(Lower(x)) \in Nat /\ Cardinality(Lower(y)) \in Nat
    BY <1>2, FS_CardinalityType
  <2> QED
    BY <1>0, <2>2, <2>3
<1> HIDE DEF Lower
<1>4. place \in Injection(S, 0 .. n - 1)
  <2>1. place \in [S -> 0 .. n - 1]
    BY <1>0, <1>2
  <2>2. ASSUME NEW x \in S, NEW y \in S, place[x] = place[y]
        PROVE  x = y
    <3>1. key[x] \in Int /\ key[y] \in Int /\ place[x] \in Int
      BY <2>1
    <3>2. ~(key[x] < key[y]) /\ ~(key[y] < key[x])
      BY <1>3, <2>2, <3>1
    <3> QED
      BY <3>1, <3>2
  <2> QED
    BY <2>1, <2>2 DEF Injection, IsInjective
<1>5. IsFiniteSet(0 .. n - 1) /\ Cardinality(0 .. n - 1) = n
  BY <1>1, FS_Interval
<1>6. place \in Surjection(S, 0 .. n - 1)
  BY <1>4, <1>5, FS_Injection
<1> QED
  BY <1>1, <1>3, <1>4, <1>6 DEF Injection, Surjection, place

\* So a finite set with distinct keys can be put in their order.
LEMMA Sorting ==
  ASSUME NEW S, IsFiniteSet(S), NEW key \in [S -> Int],
         \A x, y \in S : key[x] = key[y] => x = y
  PROVE  LET sorted == SortedBy(S, key)
         IN  /\ sorted \in Seq(S) /\ Len(sorted) = Cardinality(S)
             /\ \A x \in S : \E i \in 1 .. Len(sorted) : sorted[i] = x
             /\ \A i, j \in 1 .. Len(sorted) :
                  i < j => key[sorted[i]] < key[sorted[j]]
<1> DEFINE place == Place(S, key)
           n == Cardinality(S)
           sorted == SortedBy(S, key)
<1>1. /\ n \in Nat /\ place \in [S -> 0 .. n - 1]
      /\ \A x, y \in S : key[x] < key[y] => place[x] < place[y]
      /\ \A i \in 0 .. n - 1 : \E x \in S : place[x] = i
  BY Places
<1>2. sorted = [i \in 1 .. n |-> CHOOSE x \in S :
                  Cardinality({y \in S : key[y] < key[x]}) = i - 1]
  BY DEF SortedBy
<1>3. \A x \in S : place[x] = Cardinality({y \in S : key[y] < key[x]})
  BY DEF Place
<1> HIDE DEF place, n, sorted
<1>4. \A i \in 1 .. n : sorted[i] \in S /\ place[sorted[i]] = i - 1
  <2> TAKE i \in 1 .. n
  <2>1. \E x \in S : Cardinality({y \in S : key[y] < key[x]}) = i - 1
    <3>1. i - 1 \in 0 .. n - 1
      BY <1>1
    <3> QED
      BY <1>1, <1>3, <3>1
  <2> DEFINE it == CHOOSE x \in S :
                    Cardinality({y \in S : key[y] < key[x]}) = i - 1
  <2>2. it \in S /\ Cardinality({y \in S : key[y] < key[it]}) = i - 1
    BY <2>1
  <2>3. sorted[i] = it
    BY <1>2
  <2> HIDE DEF it
  <2> QED
    BY <1>3, <2>2, <2>3
<1>5. sorted \in Seq(S) /\ Len(sorted) = n
  <2>1. sorted \in [1 .. n -> S]
    BY <1>2, <1>4
  <2>2. sorted \in Seq(S)
    BY <1>1, <2>1, SeqDef
  <2> QED
    BY <1>1, <2>1, <2>2, LenProperties
<1>6. ASSUME NEW x \in S, NEW y \in S, place[x] = place[y] PROVE x = y
  <2>1. key[x] \in Int /\ key[y] \in Int /\ place[x] \in Int
    BY <1>1
  <2>2. ~(key[x] < key[y]) /\ ~(key[y] < key[x])
    BY <1>1, <1>6, <2>1
  <2> QED
    BY <2>1, <2>2
<1>7. ASSUME NEW x \in S PROVE \E i \in 1 .. n : sorted[i] = x
  <2>1. place[x] + 1 \in 1 .. n /\ (place[x] + 1) - 1 = place[x]
    BY <1>1
  <2> QED
    BY <1>4, <1>6, <2>1
<1>8. ASSUME NEW i \in 1 .. n, NEW j \in 1 .. n, i < j
      PROVE  key[sorted[i]] < key[sorted[j]]
  <2>1. /\ sorted[i] \in S /\ sorted[j] \in S
        /\ place[sorted[i]] = i - 1 /\ place[sorted[j]] = j - 1
    BY <1>4
  <2>2. key[sorted[i]] \in Int /\ key[sorted[j]] \in Int
    BY <2>1
  <2>3. sorted[i] # sorted[j] /\ ~(key[sorted[j]] < key[sorted[i]])
    BY <1>1, <1>8, <2>1
  <2>4. key[sorted[i]] # key[sorted[j]]
    BY <2>1, <2>3
  <2> QED
    BY <2>2, <2>3, <2>4
<1> QED
  BY <1>5, <1>7, <1>8 DEF n, sorted

----------------------------------------------------------------------------
(***************************************************************************)
(* Segments.                                                               *)
(***************************************************************************)

\* The prefix of the sorted parts holds those whose lower parts are all there.
LEMMA PrefixIsContiguous ==
  ASSUME NEW P, IsFiniteSet(P), \A c \in P : c.at.part \in Nat,
         \A c, d \in P : c.at.part = d.at.part => c = d
  PROVE  /\ VisibleParts(P) \in Seq(P)
         /\ \A i \in 1 .. Len(VisibleParts(P)) : VisibleParts(P)[i].at.part = i - 1
         /\ \A c \in P :
              (\E i \in 1 .. Len(VisibleParts(P)) : VisibleParts(P)[i] = c) <=>
                \A p \in 0 .. c.at.part - 1 : \E d \in P : d.at.part = p
<1> DEFINE key == [c \in P |-> c.at.part]
           s == SortedBy(P, key)
           gapless == {k \in 0 .. Len(s) : \A i \in 1 .. k : s[i].at.part = i - 1}
           m == Max(gapless)
           prefix == SubSeq(s, 1, m)
<1>0. VisibleParts(P) = prefix
  BY DEF VisibleParts, ContiguousPartsPrefix
<1>1. /\ key \in [P -> Int] /\ \A c, d \in P : key[c] = key[d] => c = d
      /\ \A c \in P : key[c] = c.at.part
  OBVIOUS
<1> HIDE DEF key
<1>2. /\ s \in Seq(P)
      /\ \A x \in P : \E i \in 1 .. Len(s) : s[i] = x
      /\ \A i, j \in 1 .. Len(s) : i < j => key[s[i]] < key[s[j]]
  BY <1>1, Sorting
<1> HIDE DEF s
<1>3. /\ Len(s) \in Nat /\ \A i \in 1 .. Len(s) : s[i] \in P
      /\ \A i \in 1 .. Len(s) : s[i].at.part \in Nat
      /\ \A i, j \in 1 .. Len(s) : i < j => s[i].at.part < s[j].at.part
  BY <1>1, <1>2, LenProperties, ElementOfSeq
<1>4. /\ m \in 0 .. Len(s) /\ \A i \in 1 .. m : s[i].at.part = i - 1
      /\ m < Len(s) => s[m + 1].at.part # m
  <2>1. gapless \in SUBSET Int /\ 0 \in gapless
    BY <1>3
  <2>2. IsFiniteSet(gapless)
    <3>1. IsFiniteSet(0 .. Len(s)) /\ gapless \in SUBSET (0 .. Len(s))
      BY <1>3, FS_Interval
    <3> HIDE DEF gapless
    <3> QED
      BY <3>1, FS_Subset
  <2>3. m \in gapless /\ \A k \in gapless : m >= k
    <3> HIDE DEF gapless
    <3>1. PICK n \in gapless : \A k \in gapless : k <= n
      BY <2>1, <2>2, GreatestExists
    <3>2. \A k \in gapless : n >= k
      BY <2>1, <3>1
    <3> QED
      BY <3>2 DEF Max
  <2> HIDE DEF m
  <2>4. ASSUME m < Len(s), s[m + 1].at.part = m PROVE FALSE
    <3>1. m + 1 \in 0 .. Len(s)
      BY <1>3, <2>3, <2>4
    <3>2. \A i \in 1 .. m + 1 : s[i].at.part = i - 1
      <4> TAKE i \in 1 .. m + 1
      <4>1. CASE i = m + 1
        BY <2>3, <2>4, <4>1
      <4>2. CASE i \in 1 .. m
        BY <2>3, <4>2
      <4> QED
        BY <2>3, <4>1, <4>2
    <3>3. m + 1 \in gapless
      BY <3>1, <3>2
    <3> QED
      BY <2>3, <3>3
  <2> QED
    BY <2>3, <2>4
<1> HIDE DEF m, gapless
<1>5. /\ prefix \in Seq(P) /\ Len(prefix) = m
      /\ \A i \in 1 .. m : prefix[i] = s[i]
  <2>1. \A i \in 1 .. m : s[i] \in P
    BY <1>3, <1>4
  <2> QED
    BY <1>4, <2>1, SubSeqProperties
<1> HIDE DEF prefix
<1>6. ASSUME NEW i \in 1 .. m, NEW p \in 0 .. s[i].at.part - 1
      PROVE  \E d \in P : d.at.part = p
  <2>1. s[i].at.part = i - 1 /\ p + 1 \in 1 .. m
    BY <1>4
  <2>2. s[p + 1].at.part = (p + 1) - 1 /\ s[p + 1] \in P
    BY <1>3, <1>4, <2>1
  <2> QED
    BY <2>2
<1>7. ASSUME NEW c \in P, \A p \in 0 .. c.at.part - 1 : \E d \in P : d.at.part = p
      PROVE  \E i \in 1 .. m : s[i] = c
  <2>1. PICK i \in 1 .. Len(s) : s[i] = c
    BY <1>2
  <2>2. CASE i <= m
    BY <1>4, <2>1, <2>2
  <2>3. CASE i > m
    <3>1. m + 1 \in 1 .. Len(s) /\ m < Len(s)
      BY <1>3, <1>4, <2>3
    <3>2. s[m + 1].at.part > m
      <4>1. CASE m = 0
        BY <1>3, <1>4, <3>1, <4>1
      <4>2. CASE m # 0
        <5>1. m \in 1 .. m /\ m \in 1 .. Len(s)
          BY <1>3, <1>4, <4>2
        <5>2. s[m].at.part = m - 1 /\ s[m].at.part < s[m + 1].at.part
          BY <1>3, <1>4, <3>1, <5>1
        <5> QED
          BY <1>3, <1>4, <3>1, <5>2
      <4> QED
        BY <4>1, <4>2
    <3>3. s[m + 1].at.part <= c.at.part
      <4>1. CASE i = m + 1
        BY <1>3, <2>1, <4>1
      <4>2. CASE i # m + 1
        BY <1>3, <1>4, <2>1, <2>3, <3>1, <4>2
      <4> QED
        BY <4>1, <4>2
    <3>4. m \in 0 .. c.at.part - 1
      BY <1>3, <1>4, <3>1, <3>2, <3>3
    <3>5. PICK d \in P : d.at.part = m
      BY <1>7, <3>4
    <3>6. PICK j \in 1 .. Len(s) : s[j] = d
      BY <1>2
    <3>7. CASE j <= m
      <4>1. s[j].at.part = j - 1
        BY <1>4, <3>7
      <4> QED
        BY <1>4, <3>5, <3>6, <3>7, <4>1
    <3>8. CASE j = m + 1
      BY <3>2, <3>5, <3>6, <3>8, <1>4
    <3>9. CASE j > m + 1
      <4>1. s[m + 1].at.part < s[j].at.part
        BY <1>3, <3>1, <3>9
      <4> QED
        BY <1>3, <1>4, <3>1, <3>2, <3>5, <3>6, <4>1
    <3> QED
      BY <1>4, <3>7, <3>8, <3>9
  <2> QED
    BY <1>4, <2>2, <2>3
<1>8. ASSUME NEW c \in P
      PROVE  (\E i \in 1 .. Len(prefix) : prefix[i] = c) <=>
               \A p \in 0 .. c.at.part - 1 : \E d \in P : d.at.part = p
  <2>1. (\E i \in 1 .. Len(prefix) : prefix[i] = c)
          <=> \E i \in 1 .. m : s[i] = c
    BY <1>5
  <2>2. ASSUME NEW i \in 1 .. m, s[i] = c
        PROVE  \A p \in 0 .. c.at.part - 1 : \E d \in P : d.at.part = p
    <3>1. \A p \in 0 .. s[i].at.part - 1 : \E d \in P : d.at.part = p
      BY <1>6
    <3> QED
      BY <2>2, <3>1
  <2> QED
    BY <1>7, <2>1, <2>2
<1>9. \A i \in 1 .. Len(prefix) : prefix[i].at.part = i - 1
  BY <1>4, <1>5
<1> QED
  BY <1>0, <1>5, <1>8, <1>9

\* The commits of one track, no two of them at one position.
OneTrack(C, t) ==
  /\ C \subseteq Commits
  /\ IsFiniteSet(C)
  /\ \A c \in C : c.at.track = t
  /\ \A c, d \in C : c.at.seq = d.at.seq /\ c.at.part = d.at.part => c = d

\* A segment that is built refers to just what shows at its position.
LEMMA SegmentShows ==
  ASSUME NEW C, NEW t, OneTrack(C, t), NEW n
  PROVE  /\ CommittedSegment(C, n).seq = n
         /\ Cardinality(CommittedSegment(C, n).full) <= 1
         /\ \A c \in CommittedSegment(C, n).full : c.at.part = NoPart
         /\ CommittedSegment(C, n).parts \in Seq(C)
         /\ \A i \in 1 .. Len(CommittedSegment(C, n).parts) :
              CommittedSegment(C, n).parts[i].at.part = i - 1
         /\ CommittedSegment(C, n).full \cup ToSet(CommittedSegment(C, n).parts)
              = {c \in Contiguous(C) : c.at.seq = n}
         /\ HasObjects(CommittedSegment(C, n)) <=> n \in SeqsOf(Contiguous(C))
<1> DEFINE here  == {c \in C : c.at.seq = n}
           parts == {c \in here : c.at.part # NoPart}
           full  == here \ parts
           front == VisibleParts(parts)
           shown == {c \in Contiguous(C) : c.at.seq = n}
<1>1. CommittedSegment(C, n) = [seq |-> n, full |-> full, parts |-> front]
  BY DEF CommittedSegment
<1>2. /\ \A c \in C : c \in Commits /\ c.at.track = t
      /\ \A c, d \in C : c.at.seq = d.at.seq /\ c.at.part = d.at.part => c = d
      /\ IsFiniteSet(C)
  BY DEF OneTrack
<1>3. \A c \in C : /\ c.at.part \in Int
                   /\ c.at.part # NoPart => c.at.part \in Nat
                   /\ c.at.part = NoPart => c.at.part = -1
  BY <1>2, PartOrder DEF NoPart
<1>4. /\ parts \in SUBSET C /\ IsFiniteSet(parts)
      /\ \A c \in parts : c.at.part \in Nat
      /\ \A c, d \in parts : c.at.part = d.at.part => c = d
  <2>1. parts \in SUBSET C
    OBVIOUS
  <2>2. IsFiniteSet(parts)
    BY <1>2, <2>1, FS_Subset
  <2> QED
    BY <1>2, <1>3, <2>1, <2>2
<1>5. Cardinality(full) <= 1
  <2>1. \A c, d \in full : c = d
    BY <1>2
  <2> HIDE DEF full
  <2>2. full = {} \/ \E c : full = {c}
    BY <2>1
  <2>3. Cardinality({}) = 0
    BY FS_EmptySet
  <2>4. \A c : Cardinality({c}) = 1
    BY FS_Singleton
  <2>5. Cardinality(full) = 0 \/ Cardinality(full) = 1
    BY <2>2, <2>3, <2>4, Zenon
  <2> QED
    BY <2>5
<1>6. \A c \in here : c.at.part # NoPart =>
        (c \in Contiguous(C) <=>
           \A p \in 0 .. c.at.part - 1 : \E d \in parts : d.at.part = p)
  <2> SUFFICES ASSUME NEW c \in here, c.at.part # NoPart
               PROVE  c \in Contiguous(C) <=>
                        \A p \in 0 .. c.at.part - 1 :
                          \E d \in parts : d.at.part = p
    OBVIOUS
  <2>1. \A p \in 0 .. c.at.part - 1 : p # NoPart
    BY <1>3 DEF NoPart
  <2>2. c \in Contiguous(C) <=>
          \A p \in 0 .. c.at.part - 1 :
            \E d \in C : /\ d.at.track = c.at.track
                         /\ d.at.seq = c.at.seq
                         /\ d.at.part = p
    BY DEF Contiguous
  <2>3. c.at.track = t /\ c.at.seq = n
    BY <1>2
  <2>4. \A p \in 0 .. c.at.part - 1 :
          (\E d \in C : /\ d.at.track = c.at.track
                       /\ d.at.seq = c.at.seq
                       /\ d.at.part = p)
            <=> \E d \in parts : d.at.part = p
    BY <1>2, <2>1, <2>3
  <2> HIDE DEF parts
  <2> QED
    BY <2>2, <2>4, Zenon
<1>7. /\ front \in Seq(parts)
      /\ \A i \in 1 .. Len(front) : front[i].at.part = i - 1
      /\ \A c \in parts :
           (\E i \in 1 .. Len(front) : front[i] = c) <=>
             \A p \in 0 .. c.at.part - 1 : \E d \in parts : d.at.part = p
  <2> HIDE DEF parts
  <2> QED
    BY <1>4, PrefixIsContiguous
<1>8. /\ ToSet(front) \subseteq parts
      /\ \A c \in parts : c \in ToSet(front) <=> c \in Contiguous(C)
  <2> HIDE DEF front
  <2>1. ToSet(front) = {front[i] : i \in 1 .. Len(front)}
    BY <1>7, LenProperties DEF ToSet
  <2>2. \A i \in 1 .. Len(front) : front[i] \in parts
    BY <1>7, ElementOfSeq
  <2>3. \A c \in parts : c \in here /\ c.at.part # NoPart
    OBVIOUS
  <2> HIDE DEF parts, here
  <2> QED
    BY <1>6, <1>7, <2>1, <2>2, <2>3
<1>9. \A c \in full : c.at.part = NoPart /\ c \in Contiguous(C)
  <2>1. \A c \in full : c \in C /\ c.at.part = NoPart /\ 0 .. c.at.part - 1 = {}
    BY <1>3
  <2> QED
    BY <2>1 DEF Contiguous
<1>10. full \cup ToSet(front) = shown
  <2>1. shown \subseteq full \cup parts /\ Contiguous(C) \subseteq C
    BY DEF Contiguous
  <2>2. full \subseteq here /\ parts \subseteq here
    OBVIOUS
  <2>3. \A c \in here : c \in Contiguous(C) => c \in shown
    OBVIOUS
  <2>4. \A c \in shown : c \in Contiguous(C)
    OBVIOUS
  <2> HIDE DEF front, full, parts, here, shown
  <2> QED
    BY <1>8, <1>9, <2>1, <2>2, <2>3, <2>4
<1>11. (full # {} \/ front # <<>>) <=> n \in SeqsOf(Contiguous(C))
  <2>1. n \in SeqsOf(Contiguous(C)) <=> shown # {}
    BY DEF SeqsOf
  <2> HIDE DEF shown, full, parts, here
  <2>2. front # <<>> <=> ToSet(front) # {}
    <3> HIDE DEF front
    <3>1. front # <<>> <=> 1 \in 1 .. Len(front)
      BY <1>7, EmptySeq, LenProperties
    <3>2. ToSet(front) = {front[i] : i \in 1 .. Len(front)}
      BY <1>7, LenProperties DEF ToSet
    <3>3. Len(front) \in Nat
      BY <1>7, LenProperties
    <3> QED
      BY <3>1, <3>2, <3>3
  <2> HIDE DEF front
  <2> QED
    BY <1>10, <2>1, <2>2
<1>12. front \in Seq(C)
  <2>1. \A i \in 1 .. Len(front) : front[i] \in C
    <3> HIDE DEF front
    <3>1. \A i \in 1 .. Len(front) : front[i] \in parts
      BY <1>7, ElementOfSeq
    <3> QED
      BY <1>4, <3>1
  <2>2. front \in [1 .. Len(front) -> C] /\ Len(front) \in Nat
    <3> HIDE DEF front
    <3>1. Len(front) \in Nat /\ front = [i \in 1 .. Len(front) |-> front[i]]
      BY <1>7, LenProperties
    <3> QED
      BY <2>1, <3>1
  <2> HIDE DEF front
  <2> QED
    BY <2>2, SeqDef
<1> HIDE DEF full, front, shown, parts, here
<1> QED
  BY <1>1, <1>5, <1>7, <1>9, <1>10, <1>11, <1>12 DEF HasObjects, shown

\* The segments that can be built of commits, and the sequence numbers that
\* show beyond a given one.
Built(C) == {CommittedSegment(C, n) : n \in Nat}

Beyond(C, n) == {m \in SeqsOf(Contiguous(C)) : m > n}

\* The segments that show something, one each, in order.
Lists(segments, C) ==
  /\ segments \in Seq(Built(C))
  /\ \A i \in 1 .. Len(segments) :
       /\ segments[i].seq \in SeqsOf(Contiguous(C))
       /\ segments[i] = CommittedSegment(C, segments[i].seq)
  /\ \A n \in SeqsOf(Contiguous(C)) :
       \E i \in 1 .. Len(segments) : segments[i].seq = n
  /\ \A i, j \in 1 .. Len(segments) :
       i < j => segments[i].seq < segments[j].seq

\* The window of the commits of one track.
Limited(C, max) == LimitedSegments(FinalizedSegments(C), max)

LEMMA SegmentsInOrder ==
  ASSUME NEW C, NEW t, OneTrack(C, t)
  PROVE  Lists(FinalizedSegments(C), C)
<1> DEFINE built == {CommittedSegment(C, n) : n \in SeqsOf(C)}
           visible == {x \in built : HasObjects(x)}
           key == [x \in visible |-> x.seq]
           segments == SortedBy(visible, key)
<1>1. FinalizedSegments(C) = segments
  BY DEF FinalizedSegments
<1>2. SeqsOf(C) \subseteq Nat /\ IsFiniteSet(SeqsOf(C))
      /\ SeqsOf(Contiguous(C)) \subseteq SeqsOf(C)
  <2>1. \A c \in C : c.at.seq \in Nat
    BY SequenceNumbers DEF OneTrack
  <2>2. IsFiniteSet(SeqsOf(C))
    BY FiniteImages DEF OneTrack
  <2> QED
    BY <2>1, <2>2 DEF SeqsOf, Contiguous
<1>3. IsFiniteSet(visible)
  <2> DEFINE f == [n \in SeqsOf(C) |-> CommittedSegment(C, n)]
  <2>1. f \in Surjection(SeqsOf(C), built)
    BY DEF Surjection
  <2> HIDE DEF f
  <2>2. IsFiniteSet(built)
    BY <1>2, <2>1, FS_Surjection
  <2>3. visible \in SUBSET built
    OBVIOUS
  <2> HIDE DEF built, visible
  <2> QED
    BY <2>2, <2>3, FS_Subset
<1>4. ASSUME NEW x \in visible
      PROVE  /\ x.seq \in SeqsOf(Contiguous(C)) /\ x.seq \in Nat
             /\ x = CommittedSegment(C, x.seq)
             /\ x \in Built(C)
  <2>1. PICK n \in SeqsOf(C) : x = CommittedSegment(C, n) /\ HasObjects(x)
    OBVIOUS
  <2>2. x.seq = n /\ n \in SeqsOf(Contiguous(C))
    BY <2>1, SegmentShows
  <2>3. n \in Nat
    BY <1>2
  <2> QED
    BY <2>1, <2>2, <2>3 DEF Built
<1>5. ASSUME NEW n \in SeqsOf(Contiguous(C))
      PROVE  CommittedSegment(C, n) \in visible /\ CommittedSegment(C, n).seq = n
  <2>1. n \in SeqsOf(C)
    BY <1>2
  <2>2. HasObjects(CommittedSegment(C, n)) /\ CommittedSegment(C, n).seq = n
    BY SegmentShows
  <2> QED
    BY <2>1, <2>2
<1> HIDE DEF visible, built
<1>6. /\ key \in [visible -> Int]
      /\ \A x, y \in visible : key[x] = key[y] => x = y
      /\ \A x \in visible : key[x] = x.seq
  <2>1. \A x \in visible : x.seq \in Int
    BY <1>4
  <2> QED
    BY <1>4, <2>1
<1> HIDE DEF key
<1>7. /\ segments \in Seq(visible)
      /\ \A x \in visible : \E i \in 1 .. Len(segments) : segments[i] = x
      /\ \A i, j \in 1 .. Len(segments) :
           i < j => key[segments[i]] < key[segments[j]]
  BY <1>3, <1>6, Sorting
<1> HIDE DEF segments
<1>8. Len(segments) \in Nat /\ \A i \in 1 .. Len(segments) : segments[i] \in visible
  BY <1>7, LenProperties, ElementOfSeq
<1>9. segments \in Seq(Built(C))
  <2>1. segments = [i \in 1 .. Len(segments) |-> segments[i]]
    BY <1>7, LenProperties
  <2>2. segments \in [1 .. Len(segments) -> Built(C)]
    BY <1>4, <1>8, <2>1
  <2> QED
    BY <1>8, <2>2, SeqDef
<1>10. /\ \A i \in 1 .. Len(segments) :
            /\ segments[i].seq \in SeqsOf(Contiguous(C))
            /\ segments[i] = CommittedSegment(C, segments[i].seq)
       /\ \A i, j \in 1 .. Len(segments) :
            i < j => segments[i].seq < segments[j].seq
  BY <1>4, <1>6, <1>7, <1>8
<1>11. \A n \in SeqsOf(Contiguous(C)) :
         \E i \in 1 .. Len(segments) : segments[i].seq = n
  BY <1>5, <1>7
<1> QED
  BY <1>1, <1>9, <1>10, <1>11 DEF Lists

\* How many segments lie beyond the one at place i.
LEMMA SegmentsBeyond ==
  ASSUME NEW C, NEW t, OneTrack(C, t),
         NEW i \in 1 .. Len(FinalizedSegments(C))
  PROVE  Cardinality(Beyond(C, FinalizedSegments(C)[i].seq))
           = Len(FinalizedSegments(C)) - i
<1> DEFINE segments == FinalizedSegments(C)
           beyond == Beyond(C, segments[i].seq)
           f == [j \in i + 1 .. Len(segments) |-> segments[j].seq]
<1>1. /\ segments \in Seq(Built(C))
      /\ \A j \in 1 .. Len(segments) :
           segments[j].seq \in SeqsOf(Contiguous(C))
      /\ \A n \in SeqsOf(Contiguous(C)) :
           \E j \in 1 .. Len(segments) : segments[j].seq = n
      /\ \A j, k \in 1 .. Len(segments) :
           j < k => segments[j].seq < segments[k].seq
  BY SegmentsInOrder DEF Lists
<1>2. SeqsOf(Contiguous(C)) \subseteq Nat
  BY SequenceNumbers DEF OneTrack, SeqsOf, Contiguous
<1>3. i \in 1 .. Len(segments)
  OBVIOUS
<1> HIDE DEF segments
<1>4. Len(segments) \in Nat
  BY <1>1, LenProperties
<1>5. ASSUME NEW j \in 1 .. Len(segments)
      PROVE  segments[j].seq > segments[i].seq <=> j > i
  <2>1. segments[j].seq \in Nat /\ segments[i].seq \in Nat
    BY <1>1, <1>2, <1>3
  <2>2. CASE j > i
    BY <1>1, <1>3, <2>1, <2>2
  <2>3. CASE j < i
    BY <1>1, <1>3, <2>1, <2>3
  <2>4. CASE j = i
    BY <1>3, <2>1, <2>4
  <2> QED
    BY <1>3, <2>2, <2>3, <2>4
<1>6. \A j \in i + 1 .. Len(segments) : j \in 1 .. Len(segments) /\ j > i
  BY <1>3, <1>4
<1>0. beyond = {m \in SeqsOf(Contiguous(C)) : m > segments[i].seq}
  BY DEF Beyond
<1> HIDE DEF beyond
<1>7. f \in Bijection(i + 1 .. Len(segments), beyond)
  <2>1. f \in [i + 1 .. Len(segments) -> beyond]
    BY <1>0, <1>1, <1>5, <1>6
  <2>2. ASSUME NEW j \in i + 1 .. Len(segments),
               NEW k \in i + 1 .. Len(segments), f[j] = f[k]
        PROVE  j = k
    <3>1. /\ j \in 1 .. Len(segments) /\ k \in 1 .. Len(segments)
          /\ segments[j].seq = segments[k].seq
      BY <1>6, <2>2
    <3>2. segments[j].seq \in Nat
      BY <1>1, <1>2, <3>1
    <3> QED
      BY <1>1, <3>1, <3>2
  <2>3. \A m \in beyond : \E j \in i + 1 .. Len(segments) : f[j] = m
    <3> TAKE m \in beyond
    <3>1. PICK j \in 1 .. Len(segments) : segments[j].seq = m
      BY <1>0, <1>1
    <3>2. j \in i + 1 .. Len(segments)
      BY <1>0, <1>3, <1>4, <1>5, <3>1
    <3> QED
      BY <3>1, <3>2
  <2> HIDE DEF f
  <2>4. f \in Surjection(i + 1 .. Len(segments), beyond)
    BY <2>1, <2>3 DEF Surjection
  <2>5. f \in Injection(i + 1 .. Len(segments), beyond)
    BY <2>1, <2>2 DEF Injection, IsInjective
  <2> QED
    BY <2>4, <2>5 DEF Bijection
<1> HIDE DEF f
<1>8. /\ IsFiniteSet(i + 1 .. Len(segments))
      /\ Cardinality(i + 1 .. Len(segments)) = Len(segments) - i
  <2>1. i + 1 \in Int /\ Len(segments) \in Int /\ i <= Len(segments)
    BY <1>3, <1>4
  <2>2. /\ IsFiniteSet(i + 1 .. Len(segments))
        /\ Cardinality(i + 1 .. Len(segments))
             = IF i + 1 > Len(segments) THEN 0 ELSE Len(segments) - (i + 1) + 1
    BY <2>1, FS_Interval
  <2> QED
    BY <1>3, <1>4, <2>1, <2>2
<1>9. Cardinality(beyond) = Cardinality(i + 1 .. Len(segments))
  BY <1>7, <1>8, FS_Bijection DEF ExistsBijection
<1> QED
  BY <1>8, <1>9 DEF segments, beyond

\* The window of a track: of the segments that show something the newest.
LEMMA LimitedTrack ==
  ASSUME NEW C, NEW t, OneTrack(C, t), NEW max \in Nat \ {0}
  PROVE  /\ Limited(C, max) \in Seq(Built(C))
         /\ \A i \in 1 .. Len(Limited(C, max)) :
              /\ Limited(C, max)[i].seq \in SeqsOf(Contiguous(C))
              /\ Limited(C, max)[i] = CommittedSegment(C, Limited(C, max)[i].seq)
         /\ \A i, j \in 1 .. Len(Limited(C, max)) :
              i < j => Limited(C, max)[i].seq < Limited(C, max)[j].seq
         /\ \A n \in SeqsOf(Contiguous(C)) :
              (\E i \in 1 .. Len(Limited(C, max)) : Limited(C, max)[i].seq = n) <=>
                Cardinality(Beyond(C, n)) < max
         /\ Len(Limited(C, max)) > 0 <=> Contiguous(C) # {}
<1> DEFINE window == Limited(C, max)
           segments == FinalizedSegments(C)
           k == Max({1, Len(segments) - max + 1})
<1>1. /\ segments \in Seq(Built(C))
      /\ \A i \in 1 .. Len(segments) :
           /\ segments[i].seq \in SeqsOf(Contiguous(C))
           /\ segments[i] = CommittedSegment(C, segments[i].seq)
      /\ \A n \in SeqsOf(Contiguous(C)) :
           \E j \in 1 .. Len(segments) : segments[j].seq = n
      /\ \A i, j \in 1 .. Len(segments) :
           i < j => segments[i].seq < segments[j].seq
  BY SegmentsInOrder DEF Lists
<1>2. \A i \in 1 .. Len(segments) :
        Cardinality(Beyond(C, segments[i].seq))
          = Len(segments) - i
  BY SegmentsBeyond
<1>3. window = SubSeq(segments, k, Len(segments))
  BY DEF Limited, LimitedSegments
<1> HIDE DEF segments, window
<1>4. Len(segments) \in Nat /\ \A i \in 1 .. Len(segments) : segments[i] \in Built(C)
  BY <1>1, LenProperties, ElementOfSeq
<1>5. /\ k \in Nat \ {0} /\ k >= Len(segments) - max + 1
      /\ k = 1 \/ k = Len(segments) - max + 1
  <2> DEFINE two == {1, Len(segments) - max + 1}
  <2>1. \E n \in two : \A m \in two : n >= m
    BY <1>4
  <2>2. k \in two /\ \A m \in two : k >= m
    <3>1. k = Max(two)
      OBVIOUS
    <3> HIDE DEF two, k
    <3> QED
      BY <2>1, <3>1 DEF Max
  <2> HIDE DEF k
  <2> QED
    BY <1>4, <2>2
<1> HIDE DEF k
<1>6. k <= Len(segments) + 1
  BY <1>4, <1>5
<1>7. /\ window \in Seq(Built(C)) /\ Len(window) = Len(segments) - k + 1
      /\ \A i \in 1 .. Len(window) : window[i] = segments[k + i - 1]
  <2>1. \A i \in k .. Len(segments) : segments[i] \in Built(C)
    BY <1>4, <1>5
  <2>2. /\ SubSeq(segments, k, Len(segments)) \in Seq(Built(C))
        /\ Len(SubSeq(segments, k, Len(segments)))
             = IF k <= Len(segments) THEN Len(segments) - k + 1 ELSE 0
        /\ \A i \in 1 .. Len(segments) - k + 1 :
             SubSeq(segments, k, Len(segments))[i] = segments[k + i - 1]
    BY <1>4, <1>5, <2>1, SubSeqProperties
  <2>3. Len(window) = Len(segments) - k + 1
    BY <1>3, <1>4, <1>5, <1>6, <2>2
  <2> QED
    BY <1>3, <2>2, <2>3
<1>8. \A i \in 1 .. Len(window) : k + i - 1 \in 1 .. Len(segments)
  BY <1>4, <1>5, <1>7
<1>9. /\ \A i \in 1 .. Len(window) :
           /\ window[i].seq \in SeqsOf(Contiguous(C))
           /\ window[i] = CommittedSegment(C, window[i].seq)
  BY <1>1, <1>7, <1>8
<1>10. \A i, j \in 1 .. Len(window) :
         i < j => window[i].seq < window[j].seq
  <2> SUFFICES ASSUME NEW i \in 1 .. Len(window), NEW j \in 1 .. Len(window),
                      i < j
               PROVE  window[i].seq < window[j].seq
    OBVIOUS
  <2>1. k + i - 1 < k + j - 1
    BY <1>5
  <2> QED
    BY <1>1, <1>7, <1>8, <2>1
<1>11. ASSUME NEW n \in SeqsOf(Contiguous(C))
       PROVE  (\E i \in 1 .. Len(window) : window[i].seq = n) <=>
                Cardinality(Beyond(C, n)) < max
  <2>1. PICK j \in 1 .. Len(segments) : segments[j].seq = n
    BY <1>1
  <2>2. Cardinality(Beyond(C, n)) = Len(segments) - j
    BY <1>2, <2>1
  <2>3. Len(segments) - j < max <=> j >= k
    BY <1>4, <1>5
  <2>4. ASSUME j >= k PROVE \E i \in 1 .. Len(window) : window[i].seq = n
    <3>1. j - k + 1 \in 1 .. Len(window) /\ k + (j - k + 1) - 1 = j
      BY <1>4, <1>5, <1>7, <2>4
    <3> QED
      BY <1>7, <2>1, <3>1
  <2>5. ASSUME NEW i \in 1 .. Len(window), window[i].seq = n PROVE j >= k
    <3>1. segments[k + i - 1].seq = segments[j].seq /\ n \in Int
      BY <1>7, <2>1, <2>5, SequenceNumbers DEF OneTrack, SeqsOf, Contiguous
    <3>2. k + i - 1 = j
      <4> DEFINE l == k + i - 1
      <4>1. l \in 1 .. Len(segments)
        BY <1>8, <2>5
      <4>2. segments[l].seq = n /\ segments[j].seq = n /\ n \in Int
        BY <2>1, <3>1
      <4> HIDE DEF l
      <4>3. ~(n < n)
        BY <4>2
      <4>4. ~(l < j) /\ ~(j < l)
        BY <1>1, <2>1, <4>1, <4>2, <4>3
      <4>5. l = j
        BY <1>4, <2>1, <4>1, <4>4
      <4> QED
        BY <4>5 DEF l
    <3> QED
      BY <1>5, <3>2
  <2> QED
    BY <2>2, <2>3, <2>4, <2>5
<1>12. Len(window) > 0 <=> Contiguous(C) # {}
  <2>1. SeqsOf(Contiguous(C)) # {} <=> Contiguous(C) # {}
    BY DEF SeqsOf
  <2>2. Len(window) > 0 <=> Len(segments) > 0
    BY <1>4, <1>5, <1>7
  <2>3. Len(segments) > 0 <=> SeqsOf(Contiguous(C)) # {}
    <3>1. ASSUME Len(segments) > 0 PROVE SeqsOf(Contiguous(C)) # {}
      <4>1. 1 \in 1 .. Len(segments)
        BY <1>4, <3>1
      <4> QED
        BY <1>1, <4>1
    <3> QED
      BY <1>1, <1>4, <3>1
  <2> QED
    BY <2>1, <2>2, <2>3
<1> QED
  BY <1>7, <1>9, <1>10, <1>11, <1>12 DEF window

\* Commits, no two of them at one position.
OneOfEach(C) ==
  /\ C \subseteq Commits
  /\ IsFiniteSet(C)
  /\ \A c, d \in C :
       /\ c.at.track = d.at.track
       /\ c.at.seq = d.at.seq
       /\ c.at.part = d.at.part
       => c = d

\* Each track shows what it would show by itself.
LEMMA TracksApart ==
  ASSUME NEW C, OneOfEach(C), NEW t
  PROVE  /\ OneTrack(OnTrack(C, t), t)
         /\ Contiguous(OnTrack(C, t)) = OnTrack(Contiguous(C), t)
<1>1. OnTrack(C, t) \in SUBSET C /\ \A c \in OnTrack(C, t) : c.at.track = t
  BY DEF OnTrack
<1>2. IsFiniteSet(OnTrack(C, t))
  BY <1>1, FS_Subset DEF OneOfEach
<1>3. OneTrack(OnTrack(C, t), t)
  BY <1>1, <1>2 DEF OneOfEach, OneTrack
<1>4. Contiguous(OnTrack(C, t)) = OnTrack(Contiguous(C), t)
  BY DEF Contiguous, OnTrack
<1> QED
  BY <1>3, <1>4

\* The segments of a track's window hold what is visible of the track.
LEMMA TrackWindowShows ==
  ASSUME NEW C, OneOfEach(C), NEW t, NEW max \in Nat \ {0}
  PROVE  ObjectsOf(TrackWindow(C, t, max)) = OnTrack(VisibleMedia(C, max), t)
<1> DEFINE D == OnTrack(C, t)
           window == TrackWindow(C, t, max)
           seen == SeqsOf(Contiguous(D))
<1>1. OneTrack(D, t) /\ Contiguous(D) = OnTrack(Contiguous(C), t)
  BY TracksApart
<1>2. window = Limited(D, max)
  BY DEF TrackWindow, Limited
<1> HIDE DEF D, window
<1>3. /\ window \in Seq(Built(D))
      /\ \A i \in 1 .. Len(window) :
           /\ window[i].seq \in seen
           /\ window[i] = CommittedSegment(D, window[i].seq)
      /\ \A n \in seen :
           (\E i \in 1 .. Len(window) : window[i].seq = n) <=>
             Cardinality(Beyond(D, n)) < max
  BY <1>1, <1>2, LimitedTrack
<1>4. \A i \in 1 .. Len(window) :
        window[i].full \cup ToSet(window[i].parts)
          = {c \in Contiguous(D) : c.at.seq = window[i].seq}
  BY <1>1, <1>3, SegmentShows
<1>5. ObjectsOf(window) =
        UNION {window[i].full \cup ToSet(window[i].parts) :
                 i \in 1 .. Len(window)}
  BY <1>3, LenProperties DEF ObjectsOf, ToSet
<1>6. ObjectsOf(window) =
        {c \in Contiguous(D) :
           \E i \in 1 .. Len(window) : window[i].seq = c.at.seq}
  BY <1>4, <1>5
<1>7. ASSUME NEW c \in Contiguous(D)
      PROVE  (\E i \in 1 .. Len(window) : window[i].seq = c.at.seq) <=>
               c \in VisibleMedia(C, max)
  <2>1. c.at.seq \in seen
    BY DEF SeqsOf
  <2>2. c \in Contiguous(C) /\ c.at.track = t
    BY <1>1 DEF OnTrack
  <2>3. Beyond(D, c.at.seq) = Newer(C, c.at.track, c.at.seq)
    BY <1>1, <2>2 DEF Newer, Beyond
  <2>4. c \in VisibleMedia(C, max)
          <=> Cardinality(Newer(C, c.at.track, c.at.seq)) < max
    BY <2>2, VisibleByNewer
  <2> HIDE DEF seen
  <2> QED
    BY <1>3, <2>1, <2>3, <2>4
<1>8. VisibleMedia(C, max) \subseteq Contiguous(C)
  BY VisibleByNewer
<1>9. OnTrack(VisibleMedia(C, max), t)
        = {c \in Contiguous(D) : c \in VisibleMedia(C, max)}
  BY <1>1, <1>8 DEF OnTrack
<1> QED
  BY <1>6, <1>7, <1>9 DEF window

\* A track is left out of the window when nothing of it is visible.
LEMMA TracksInWindow ==
  ASSUME NEW C, OneOfEach(C)
  PROVE  TracksIn(C) = {t \in Tracks : OnTrack(Contiguous(C), t) # {}}
<1> SUFFICES ASSUME NEW t \in Tracks
             PROVE  FinalizedSegments(OnTrack(C, t)) # <<>> <=>
                      OnTrack(Contiguous(C), t) # {}
  BY DEF TracksIn
<1> DEFINE D == OnTrack(C, t)
           segments == FinalizedSegments(D)
<1>1. OneTrack(D, t) /\ Contiguous(D) = OnTrack(Contiguous(C), t)
  BY TracksApart
<1> HIDE DEF D
<1>2. /\ segments \in Seq(Built(D))
      /\ \A i \in 1 .. Len(segments) :
           segments[i].seq \in SeqsOf(Contiguous(D))
      /\ \A n \in SeqsOf(Contiguous(D)) :
           \E i \in 1 .. Len(segments) : segments[i].seq = n
  BY <1>1, SegmentsInOrder DEF Lists
<1> HIDE DEF segments
<1>3. segments # <<>> <=> 1 \in 1 .. Len(segments)
  BY <1>2, EmptySeq, LenProperties
<1>4. Contiguous(D) # {} <=> SeqsOf(Contiguous(D)) # {}
  BY DEF SeqsOf
<1>5. 1 \in 1 .. Len(segments) <=> 1 .. Len(segments) # {}
  BY <1>2, LenProperties
<1>6. segments # <<>> <=> Contiguous(D) # {}
  BY <1>2, <1>3, <1>4, <1>5
<1> QED
  BY <1>1, <1>6 DEF D, segments

\* So the window's objects are those that are visible by the pipeline's rules.
LEMMA WindowHoldsVisible ==
  ASSUME NEW C, OneOfEach(C), NEW max \in Nat \ {0}
  PROVE  UNION {ObjectsOf(Window(C, max)[t]) : t \in DOMAIN Window(C, max)}
           = VisibleMedia(C, max)
<1>1. /\ DOMAIN Window(C, max) = TracksIn(C)
      /\ \A t \in TracksIn(C) : Window(C, max)[t] = TrackWindow(C, t, max)
  BY DEF Window
<1>2. \A t \in TracksIn(C) :
        ObjectsOf(Window(C, max)[t]) = OnTrack(VisibleMedia(C, max), t)
  BY <1>1, TrackWindowShows
<1>3. UNION {ObjectsOf(Window(C, max)[t]) : t \in DOMAIN Window(C, max)}
        = UNION {OnTrack(VisibleMedia(C, max), t) : t \in TracksIn(C)}
  BY <1>1, <1>2
<1>4. ASSUME NEW c \in VisibleMedia(C, max) PROVE c.at.track \in TracksIn(C)
  <2>1. c \in Contiguous(C) /\ c \in Commits
    BY VisibleByNewer DEF OneOfEach, Contiguous
  <2>2. c.at.track \in Tracks
    BY <2>1 DEF Commits, Positions
  <2>3. c \in OnTrack(Contiguous(C), c.at.track)
    BY <2>1 DEF OnTrack
  <2> QED
    BY <2>2, <2>3, TracksInWindow
<1> QED
  BY <1>3, <1>4 DEF OnTrack

\* What is recorded is of each position one: a slot holds its position open.
LEMMA RecordedOneOfEach ==
  ASSUME WInv
  PROVE  OneOfEach(commits)
<1>1. commits \subseteq Commits /\ IsFiniteSet(commits)
  BY DEF WInv, IInv, TypeOK
<1>2. ASSUME NEW c \in commits, NEW d \in commits,
             c.at.track = d.at.track, c.at.seq = d.at.seq, c.at.part = d.at.part
      PROVE  c = d
  <2>1. PICK s \in slots :
          s.state = "committed" /\ s.at.kind # "init" /\ c = CommitOf(s)
    BY DEF WInv, IInv, CommitsMatchSlots
  <2>2. PICK r \in slots :
          r.state = "committed" /\ r.at.kind # "init" /\ d = CommitOf(r)
    BY DEF WInv, IInv, CommitsMatchSlots
  <2>3. s.at \in Positions /\ r.at \in Positions
    BY DEF WInv, IInv, TypeOK, Slots
  <2>4. c.at = s.at /\ d.at = r.at
    BY <2>1, <2>2 DEF CommitOf
  <2>5. NoPart \notin Parts
    BY CoordinatorAssumption DEF CoordinatorAssumption, NoPart
  <2>6. s.at.kind = r.at.kind
    <3>1. \A a \in Positions : a.kind = "part" <=> a.part # NoPart
      BY <2>5 DEF Positions
    <3>2. \A a \in Positions : a.kind \in {"init", "segment", "part"}
      BY CoordinatorAssumption DEF CoordinatorAssumption, Positions
    <3>3. s.at.kind = "part" <=> r.at.kind = "part"
      BY <1>2, <2>3, <2>4, <3>1
    <3> QED
      BY <2>1, <2>2, <2>3, <3>2, <3>3
  <2>7. \A a \in Positions :
          a = [track |-> a.track, kind |-> a.kind,
               seq |-> a.seq, part |-> a.part]
    BY DEF Positions
  <2>8. s.at = r.at
    BY <1>2, <2>3, <2>4, <2>6, <2>7
  <2>9. s = r
    BY <2>1, <2>2, <2>8 DEF WInv, IInv, OpenSlotsUnique, OpenStates
  <2> QED
    BY <2>1, <2>2, <2>9
<1> QED
  BY <1>1, <1>2 DEF OneOfEach

----------------------------------------------------------------------------
(***************************************************************************)
(* The document is valid.                                                  *)
(***************************************************************************)

\* Numbers that rise from each to any later one are in order.
LEMMA RisingNumbers ==
  ASSUME NEW n \in Nat, NEW f \in [1 .. n -> Int],
         \A i, j \in 1 .. n : i < j => f[i] < f[j]
  PROVE  Increasing(f)
<1>1. f \in Seq(Int)
  BY SeqDef
<1>2. Len(f) = n
  <2>1. DOMAIN f = 1 .. Len(f) /\ Len(f) \in Nat /\ DOMAIN f = 1 .. n
    BY <1>1, LenProperties
  <2> QED
    BY <2>1
<1> QED
  BY <1>2 DEF Increasing

LEMMA SegmentsAreValid ==
  ASSUME NEW C, NEW t, OneTrack(C, t), NEW n \in SeqsOf(Contiguous(C))
  PROVE  ValidSegment(CommittedSegment(C, n))
<1> DEFINE x == CommittedSegment(C, n)
           numbers == [i \in DOMAIN x.parts |-> x.parts[i].at.part]
<1>1. /\ Cardinality(x.full) <= 1
      /\ x.parts \in Seq(C)
      /\ \A i \in 1 .. Len(x.parts) : x.parts[i].at.part = i - 1
      /\ HasObjects(x)
  BY SegmentShows
<1> HIDE DEF x
<1>2. Increasing(numbers)
  <2>1. Len(x.parts) \in Nat /\ DOMAIN x.parts = 1 .. Len(x.parts)
    BY <1>1, LenProperties
  <2>2. /\ numbers \in [1 .. Len(x.parts) -> Int]
        /\ \A i, j \in 1 .. Len(x.parts) : i < j => numbers[i] < numbers[j]
    BY <1>1, <2>1
  <2> HIDE DEF numbers
  <2> QED
    BY <2>1, <2>2, RisingNumbers
<1> QED
  BY <1>1, <1>2 DEF ValidSegment, HasObjects, x

\* Whatever is asked for, a window that shows something is a valid document.
LEMMA WindowIsValid ==
  ASSUME NEW C, OneOfEach(C), NEW max \in Nat \ {0}, TracksIn(C) # {}
  PROVE  ValidWindow(Window(C, max))
<1>1. /\ DOMAIN Window(C, max) = TracksIn(C)
      /\ \A t \in TracksIn(C) :
           Window(C, max)[t] = Limited(OnTrack(C, t), max)
  BY DEF Window, TrackWindow, Limited
<1>2. ASSUME NEW t \in TracksIn(C)
      PROVE  ValidTrackWindow(Limited(OnTrack(C, t), max))
  <2> DEFINE D == OnTrack(C, t)
             segments == Limited(D, max)
             numbers == [i \in DOMAIN segments |-> segments[i].seq]
  <2>1. OneTrack(D, t) /\ Contiguous(D) # {}
    BY TracksApart, TracksInWindow
  <2> HIDE DEF D
  <2>2. /\ segments \in Seq(Built(D))
        /\ \A i \in 1 .. Len(segments) :
             /\ segments[i].seq \in SeqsOf(Contiguous(D))
             /\ segments[i] = CommittedSegment(D, segments[i].seq)
        /\ \A i, j \in 1 .. Len(segments) :
             i < j => segments[i].seq < segments[j].seq
        /\ Len(segments) > 0
    BY <2>1, LimitedTrack
  <2>3. SeqsOf(Contiguous(D)) \subseteq Nat
    BY <2>1, SequenceNumbers DEF OneTrack, SeqsOf, Contiguous
  <2> HIDE DEF segments
  <2>4. Len(segments) \in Nat /\ DOMAIN segments = 1 .. Len(segments)
    BY <2>2, LenProperties
  <2>5. \A i \in 1 .. Len(segments) : ValidSegment(segments[i])
    BY <2>1, <2>2, SegmentsAreValid
  <2>6. Increasing(numbers)
    <3>1. /\ numbers \in [1 .. Len(segments) -> Int]
          /\ \A i, j \in 1 .. Len(segments) : i < j => numbers[i] < numbers[j]
      BY <2>2, <2>3, <2>4
    <3> HIDE DEF numbers
    <3> QED
      BY <2>4, <3>1, RisingNumbers
  <2>7. segments # <<>>
    BY <2>2, EmptySeq
  <2> QED
    BY <2>4, <2>5, <2>6, <2>7 DEF ValidTrackWindow, segments, D
<1> QED
  BY <1>1, <1>2 DEF ValidWindow

LEMMA RecordedWindowsAgree == WInv => WindowsAgree
<1> SUFFICES ASSUME WInv, NEW max \in WindowSizes
             PROVE  /\ UNION {ObjectsOf(Window(commits, max)[t]) :
                                t \in DOMAIN Window(commits, max)}
                         = VisibleMedia(commits, max)
                    /\ Window(commits, max) # <<>> =>
                         ValidWindow(Window(commits, max))
  BY DEF WindowsAgree
<1>1. OneOfEach(commits) /\ max \in Nat \ {0}
  BY RecordedOneOfEach, WindowSizesPositive
<1>2. ASSUME TracksIn(commits) = {} PROVE Window(commits, max) = <<>>
  BY <1>2 DEF Window
<1> QED
  BY <1>1, <1>2, WindowHoldsVisible, WindowIsValid

\* Sorting, grouping and cutting the recorded commits makes the very window
\* that the pipeline's rules speak of, a valid document, for every size that
\* may be asked for.
THEOREM WindowsAlwaysAgree == Spec => []WindowsAgree
BY WindowInvariance, RecordedWindowsAgree, PTL

----------------------------------------------------------------------------
(***************************************************************************)
(* Where the window ends.                                                  *)
(***************************************************************************)

\* Counting from below and from above finds the same greatest number.
LEMMA TheGreatest ==
  ASSUME NEW S \in SUBSET Int, NEW n \in S, \A m \in S : m <= n
  PROVE  Max(S) = n
<1> DEFINE g == Max(S)
<1>1. \A m \in S : n >= m
  OBVIOUS
<1>2. g \in S /\ \A m \in S : g >= m
  BY <1>1 DEF Max
<1> HIDE DEF g
<1>3. g >= n /\ n >= g /\ g \in Int /\ n \in Int
  BY <1>1, <1>2
<1>4. g = n
  BY <1>3
<1> QED
  BY <1>4 DEF g

\* The last segment is the newest one.
LEMMA LastSegment ==
  ASSUME NEW C, NEW t, OneTrack(C, t), NEW segments, Lists(segments, C),
         Contiguous(C) # {}
  PROVE  /\ Last(segments).seq \in SeqsOf(Contiguous(C))
         /\ Last(segments) = CommittedSegment(C, Last(segments).seq)
         /\ \A n \in SeqsOf(Contiguous(C)) : n <= Last(segments).seq
         /\ Last(segments) \in ToSet(segments)
<1>1. /\ segments \in Seq(Built(C))
      /\ \A i \in 1 .. Len(segments) :
           /\ segments[i].seq \in SeqsOf(Contiguous(C))
           /\ segments[i] = CommittedSegment(C, segments[i].seq)
      /\ \A n \in SeqsOf(Contiguous(C)) :
           \E i \in 1 .. Len(segments) : segments[i].seq = n
      /\ \A i, j \in 1 .. Len(segments) :
           i < j => segments[i].seq < segments[j].seq
  BY DEF Lists
<1>2. SeqsOf(Contiguous(C)) \subseteq Nat /\ SeqsOf(Contiguous(C)) # {}
  BY SequenceNumbers DEF OneTrack, SeqsOf, Contiguous
<1>3. Len(segments) \in Nat /\ DOMAIN segments = 1 .. Len(segments)
  BY <1>1, LenProperties
<1> DEFINE z == Len(segments)
<1>4. z \in 1 .. z
  BY <1>1, <1>2, <1>3
<1>5. Last(segments) = segments[z]
  BY DEF Last
<1>6. segments[z] \in ToSet(segments)
  BY <1>3, <1>4 DEF ToSet
<1>7. ASSUME NEW n \in SeqsOf(Contiguous(C)) PROVE n <= segments[z].seq
  <2>1. PICK i \in 1 .. z : segments[i].seq = n
    BY <1>1
  <2>2. segments[z].seq \in Nat /\ n \in Nat
    BY <1>1, <1>2, <1>4
  <2>3. CASE i = z
    BY <2>1, <2>2, <2>3
  <2>4. CASE i < z
    <3>1. segments[i].seq < segments[z].seq
      BY <1>1, <1>4, <2>4
    <3> QED
      BY <2>1, <2>2, <3>1
  <2>5. i \in Int /\ z \in Int /\ i <= z
    BY <1>3, <2>1
  <2> QED
    BY <2>3, <2>4, <2>5
<1> QED
  BY <1>1, <1>4, <1>5, <1>6, <1>7

\* The last part of a segment is the highest that shows in it.
LEMMA LastPartOfSegment ==
  ASSUME NEW C, NEW t, OneTrack(C, t), NEW n, NEW x,
         x = CommittedSegment(C, n)
  PROVE  /\ x.parts = <<>> =>
              \A c \in Contiguous(C) : c.at.seq = n => c.at.part = NoPart
         /\ x.parts # <<>> =>
              /\ \E c \in Contiguous(C) :
                   c.at.seq = n /\ c.at.part = Last(x.parts).at.part
              /\ Last(x.parts).at.part \in Nat
              /\ \A c \in Contiguous(C) :
                   c.at.seq = n => c.at.part <= Last(x.parts).at.part
<1>1. /\ \A c \in x.full : c.at.part = NoPart
      /\ x.parts \in Seq(C)
      /\ \A i \in 1 .. Len(x.parts) : x.parts[i].at.part = i - 1
      /\ x.full \cup ToSet(x.parts) = {c \in Contiguous(C) : c.at.seq = n}
  BY SegmentShows
<1> DEFINE parts == x.parts
           z == Len(parts)
<1>2. z \in Nat /\ ToSet(parts) = {parts[i] : i \in 1 .. z}
  BY <1>1, LenProperties DEF ToSet
<1>3. parts # <<>> <=> z \in 1 .. z
  BY <1>1, <1>2, EmptySeq
<1>4. \A c \in Contiguous(C) : c.at.seq = n =>
        c.at.part = NoPart \/ \E i \in 1 .. z : c.at.part = i - 1
  BY <1>1, <1>2
<1>5. ASSUME parts = <<>>, NEW c \in Contiguous(C), c.at.seq = n
      PROVE  c.at.part = NoPart
  <2>1. 1 .. z = {}
    BY <1>2, <1>3, <1>5
  <2>2. c.at.part = NoPart \/ \E i \in 1 .. z : c.at.part = i - 1
    BY <1>4, <1>5
  <2>3. ~ \E i \in 1 .. z : c.at.part = i - 1
    BY <2>1
  <2> QED
    BY <2>2, <2>3
<1>6. ASSUME parts # <<>>
      PROVE  /\ \E c \in Contiguous(C) :
                  c.at.seq = n /\ c.at.part = Last(parts).at.part
             /\ Last(parts).at.part \in Nat
             /\ \A c \in Contiguous(C) :
                  c.at.seq = n => c.at.part <= Last(parts).at.part
  <2>1. z \in 1 .. z /\ Last(parts) = parts[z] /\ parts[z].at.part = z - 1
    BY <1>1, <1>3, <1>6 DEF Last
  <2>2. parts[z] \in ToSet(parts)
    BY <1>2, <2>1
  <2>3. parts[z] \in {c \in Contiguous(C) : c.at.seq = n}
    BY <1>1, <2>2
  <2>4. z - 1 \in Nat
    BY <1>2, <2>1
  <2>5. ASSUME NEW c \in Contiguous(C), c.at.seq = n PROVE c.at.part <= z - 1
    <3>1. CASE c.at.part = NoPart
      BY <2>4, <3>1 DEF NoPart
    <3>2. CASE \E i \in 1 .. z : c.at.part = i - 1
      BY <1>2, <3>2
    <3> QED
      BY <1>4, <2>5, <3>1, <3>2
  <2> QED
    BY <2>1, <2>3, <2>4, <2>5
<1> QED
  BY <1>5, <1>6

\* What is visible is visible by itself.
LEMMA VisibleStandsAlone ==
  ASSUME NEW C \in SUBSET Commits, NEW max
  PROVE  Contiguous(VisibleMedia(C, max)) = VisibleMedia(C, max)
<1> DEFINE media == VisibleMedia(C, max)
<1>1. media \subseteq Contiguous(C)
      /\ \A c \in Contiguous(C) : c \in media <=>
           Cardinality(Newer(C, c.at.track, c.at.seq)) < max
  BY VisibleByNewer
<1> HIDE DEF media
<1>2. ASSUME NEW c \in media, NEW p \in 0 .. c.at.part - 1
      PROVE  \E d \in media : /\ d.at.track = c.at.track
                              /\ d.at.seq = c.at.seq
                              /\ d.at.part = p
  <2>1. c \in Contiguous(C) /\ c \in Commits
    BY <1>1 DEF Contiguous
  <2>2. PICK d \in C : /\ d.at.track = c.at.track
                       /\ d.at.seq = c.at.seq
                       /\ d.at.part = p
    BY <2>1 DEF Contiguous
  <2>3. \A q \in 0 .. d.at.part - 1 : q \in 0 .. c.at.part - 1
    <3>1. c.at.part \in Int
      BY <2>1, PartOrder
    <3> QED
      BY <2>2, <3>1
  <2>4. \A q \in 0 .. c.at.part - 1 :
          \E e \in C : /\ e.at.track = c.at.track
                       /\ e.at.seq = c.at.seq
                       /\ e.at.part = q
    BY <2>1 DEF Contiguous
  <2>5. d \in Contiguous(C)
    BY <2>2, <2>3, <2>4 DEF Contiguous
  <2>6. d \in media
    BY <1>1, <2>1, <2>2, <2>5
  <2> QED
    BY <2>2, <2>6
<1>3. media \subseteq Contiguous(media)
  BY <1>2 DEF Contiguous
<1>4. Contiguous(media) \subseteq media
  BY DEF Contiguous
<1> QED
  BY <1>3, <1>4 DEF media

\* A window as large as there are sequence numbers cuts nothing off.
LEMMA WholeWindow ==
  ASSUME NEW C, OneOfEach(C), Contiguous(C) = C, C # {},
         NEW max, max = Cardinality(SeqsOf(C))
  PROVE  /\ max \in Nat \ {0}
         /\ DOMAIN Window(C, max) = {t \in Tracks : OnTrack(C, t) # {}}
         /\ \A t \in DOMAIN Window(C, max) :
              Lists(Window(C, max)[t], OnTrack(C, t))
<1>1. IsFiniteSet(SeqsOf(C)) /\ max \in Nat /\ SeqsOf(C) # {}
  BY FiniteImages, FS_CardinalityType DEF OneOfEach, SeqsOf
<1>2. max # 0
  BY <1>1, FS_EmptySet
<1>3. max \in Nat \ {0}
  BY <1>1, <1>2
<1>4. /\ DOMAIN Window(C, max) = TracksIn(C)
      /\ \A t \in TracksIn(C) : Window(C, max)[t] = Limited(OnTrack(C, t), max)
  BY DEF Window, TrackWindow, Limited
<1>5. ASSUME NEW t \in TracksIn(C)
      PROVE  Lists(Limited(OnTrack(C, t), max), OnTrack(C, t))
  <2> DEFINE D == OnTrack(C, t)
  <2>1. OneTrack(D, t) /\ D \subseteq C
    BY TracksApart DEF OnTrack
  <2>2. SeqsOf(Contiguous(D)) \subseteq SeqsOf(C)
    BY <2>1 DEF SeqsOf, Contiguous
  <2> HIDE DEF D
  <2>3. ASSUME NEW n \in SeqsOf(Contiguous(D))
        PROVE  Cardinality(Beyond(D, n)) < max
    <3>1. Beyond(D, n) \in SUBSET SeqsOf(C)
      BY <2>2 DEF Beyond
    <3>2. n \in SeqsOf(C) /\ n \in Nat
      BY <2>2, SequenceNumbers DEF OneOfEach, SeqsOf
    <3>3. n \notin Beyond(D, n)
      BY <3>2 DEF Beyond
    <3>4. /\ IsFiniteSet(Beyond(D, n))
          /\ Cardinality(Beyond(D, n)) <= max
          /\ Cardinality(Beyond(D, n)) # max
      BY <1>1, <3>1, <3>2, <3>3, FS_Subset
    <3>5. Cardinality(Beyond(D, n)) \in Nat
      BY <3>4, FS_CardinalityType
    <3> QED
      BY <1>1, <3>4, <3>5
  <2>4. Lists(Limited(D, max), D)
    BY <1>3, <2>1, <2>3, LimitedTrack DEF Lists
  <2> QED
    BY <2>4 DEF D
<1> QED
  BY <1>3, <1>4, <1>5, TracksInWindow

\* Its sequence numbers are those of the commits.
LEMMA WholeWindowSeqs ==
  ASSUME NEW C, OneOfEach(C), Contiguous(C) = C, C # {},
         NEW max, max = Cardinality(SeqsOf(C))
  PROVE  WindowSeqs(Window(C, max)) = SeqsOf(C)
<1> DEFINE window == Window(C, max)
<1>1. /\ DOMAIN window = {t \in Tracks : OnTrack(C, t) # {}}
      /\ \A t \in DOMAIN window : Lists(window[t], OnTrack(C, t))
  BY WholeWindow
<1> HIDE DEF window
<1>2. \A t : Contiguous(OnTrack(C, t)) = OnTrack(C, t)
  BY TracksApart
<1>3. ASSUME NEW t \in DOMAIN window
      PROVE  /\ ToSet(window[t]) = {window[t][i] : i \in 1 .. Len(window[t])}
             /\ \A i \in 1 .. Len(window[t]) :
                  window[t][i].seq \in SeqsOf(OnTrack(C, t))
             /\ \A n \in SeqsOf(OnTrack(C, t)) :
                  \E i \in 1 .. Len(window[t]) : window[t][i].seq = n
  <2>1. Lists(window[t], OnTrack(C, t))
    BY <1>1
  <2>2. window[t] \in Seq(Built(OnTrack(C, t)))
    BY <2>1 DEF Lists
  <2>3. ToSet(window[t]) = {window[t][i] : i \in 1 .. Len(window[t])}
    BY <2>2, LenProperties DEF ToSet
  <2> QED
    BY <1>2, <2>1, <2>3 DEF Lists
<1>4. ASSUME NEW n \in WindowSeqs(window) PROVE n \in SeqsOf(C)
  <2>1. PICK t \in DOMAIN window : \E x \in ToSet(window[t]) : n = x.seq
    BY DEF WindowSeqs
  <2>2. n \in SeqsOf(OnTrack(C, t))
    BY <1>3, <2>1
  <2> QED
    BY <2>2 DEF SeqsOf, OnTrack
<1>5. ASSUME NEW n \in SeqsOf(C) PROVE n \in WindowSeqs(window)
  <2>1. PICK c \in C : c.at.seq = n
    BY DEF SeqsOf
  <2>2. c.at.track \in Tracks /\ c \in OnTrack(C, c.at.track)
    BY DEF OneOfEach, Commits, Positions, OnTrack
  <2>3. c.at.track \in DOMAIN window /\ n \in SeqsOf(OnTrack(C, c.at.track))
    BY <1>1, <2>1, <2>2 DEF SeqsOf
  <2>4. PICK x \in ToSet(window[c.at.track]) : x.seq = n
    BY <1>3, <2>3
  <2> QED
    BY <2>3, <2>4 DEF WindowSeqs
<1> QED
  BY <1>4, <1>5 DEF window

\* Where the last segments of the tracks end is where the window ends.
LEMMA WholeWindowPart ==
  ASSUME NEW C, OneOfEach(C), Contiguous(C) = C, C # {},
         NEW max, max = Cardinality(SeqsOf(C))
  PROVE  /\ Max(WindowSeqs(Window(C, max))) = LastSeq(C)
         /\ LastVisiblePart(Window(C, max)) = LastPart(C)
<1> DEFINE window == Window(C, max)
           end == LastSeq(C)
           lasts == {Last(window[t]) : t \in DOMAIN window}
           atEdge == {x \in lasts : x.seq = end /\ x.parts # <<>>}
           ends == {Last(x.parts).at.part : x \in atEdge}
<1>1. /\ DOMAIN window = {t \in Tracks : OnTrack(C, t) # {}}
      /\ \A t \in DOMAIN window : Lists(window[t], OnTrack(C, t))
  BY WholeWindow
<1>2. WindowSeqs(window) = SeqsOf(C)
  BY WholeWindowSeqs
<1> HIDE DEF window
<1>3. C \in SUBSET Commits /\ IsFiniteSet(C)
  BY DEF OneOfEach
<1>4. /\ \A c \in C : c.at.seq <= end
      /\ \E c \in C : c.at.seq = end /\ c.at.part = LastPart(C)
      /\ \A c \in C : c.at.seq = end => c.at.part <= LastPart(C)
  BY <1>3, LastPosition
<1>5. \A c \in C : /\ c.at.seq \in Nat
                   /\ c.at.part \in Int /\ c.at.part >= NoPart
                   /\ c.at.track \in Tracks
  BY <1>3, SequenceNumbers, PartOrder DEF Commits, Positions
<1> HIDE DEF end
<1>6. Max(WindowSeqs(window)) = end
  <2>1. SeqsOf(C) \in SUBSET Int /\ end \in SeqsOf(C)
        /\ \A m \in SeqsOf(C) : m <= end
    BY <1>4, <1>5 DEF SeqsOf
  <2> QED
    BY <1>2, <2>1, TheGreatest
<1>7. LastVisiblePart(window) = IF atEdge = {} THEN NoPart ELSE Max(ends)
  BY <1>6 DEF LastVisiblePart
<1>8. ASSUME NEW t \in DOMAIN window
      PROVE  /\ Last(window[t]).seq \in SeqsOf(OnTrack(C, t))
             /\ \A c \in OnTrack(C, t) : c.at.seq <= Last(window[t]).seq
             /\ Last(window[t]).parts = <<>> =>
                  \A c \in OnTrack(C, t) :
                    c.at.seq = Last(window[t]).seq => c.at.part = NoPart
             /\ Last(window[t]).parts # <<>> =>
                  /\ \E c \in OnTrack(C, t) :
                       /\ c.at.seq = Last(window[t]).seq
                       /\ c.at.part = Last(Last(window[t]).parts).at.part
                  /\ Last(Last(window[t]).parts).at.part \in Nat
                  /\ \A c \in OnTrack(C, t) :
                       c.at.seq = Last(window[t]).seq =>
                         c.at.part <= Last(Last(window[t]).parts).at.part
  <2> DEFINE D == OnTrack(C, t)
             x == Last(window[t])
  <2>1. OneTrack(D, t) /\ Contiguous(D) = D /\ D # {} /\ Lists(window[t], D)
    BY <1>1, TracksApart
  <2> HIDE DEF D
  <2>2. /\ x.seq \in SeqsOf(D) /\ x = CommittedSegment(D, x.seq)
        /\ \A n \in SeqsOf(D) : n <= x.seq
    BY <2>1, LastSegment
  <2>3. \A c \in D : c.at.seq <= x.seq
    BY <2>2 DEF SeqsOf
  <2> HIDE DEF x
  <2>4. /\ x.parts = <<>> => \A c \in D : c.at.seq = x.seq => c.at.part = NoPart
        /\ x.parts # <<>> =>
             /\ \E c \in D : c.at.seq = x.seq /\ c.at.part = Last(x.parts).at.part
             /\ Last(x.parts).at.part \in Nat
             /\ \A c \in D : c.at.seq = x.seq => c.at.part <= Last(x.parts).at.part
    BY <2>1, <2>2, LastPartOfSegment
  <2> QED
    BY <2>2, <2>3, <2>4 DEF D, x
<1>9. ASSUME NEW c \in C, c.at.seq = end
      PROVE  /\ c.at.track \in DOMAIN window
             /\ Last(window[c.at.track]).seq = end
             /\ c \in OnTrack(C, c.at.track)
  <2>1. c \in OnTrack(C, c.at.track) /\ c.at.track \in DOMAIN window
    BY <1>1, <1>5 DEF OnTrack
  <2> DEFINE n == Last(window[c.at.track]).seq
  <2>2. n \in SeqsOf(C) /\ c.at.seq <= n
    BY <1>8, <2>1 DEF SeqsOf, OnTrack
  <2>3. n \in Nat /\ n <= end /\ end \in Nat
    BY <1>4, <1>5, <1>9, <2>2 DEF SeqsOf
  <2>4. n = end
    BY <1>9, <2>2, <2>3
  <2> QED
    BY <2>1, <2>4
<1>10. CASE atEdge = {}
  <2>1. PICK c \in C : c.at.seq = end /\ c.at.part = LastPart(C)
    BY <1>4
  <2>2. Last(window[c.at.track]) \in lasts
    BY <1>9, <2>1
  <2>3. Last(window[c.at.track]).parts = <<>>
    BY <1>9, <1>10, <2>1, <2>2
  <2>4. c.at.part = NoPart
    BY <1>8, <1>9, <2>1, <2>3
  <2> QED
    BY <1>6, <1>7, <1>10, <2>1, <2>4 DEF window, end
<1>11. CASE atEdge # {}
  <2>1. ASSUME NEW p \in ends
        PROVE  p \in Nat /\ p <= LastPart(C)
    <3>1. PICK x \in atEdge : p = Last(x.parts).at.part
      OBVIOUS
    <3>2. PICK t \in DOMAIN window : x = Last(window[t])
      OBVIOUS
    <3>3. x.seq = end /\ x.parts # <<>>
      OBVIOUS
    <3>4. p \in Nat /\ \E c \in OnTrack(C, t) : c.at.seq = end /\ c.at.part = p
      BY <1>8, <3>1, <3>2, <3>3
    <3> QED
      BY <1>4, <3>4 DEF OnTrack
  <2>2. ends # {}
    BY <1>11
  <2>3. \E p \in ends : LastPart(C) <= p
    <3>1. PICK c \in C : c.at.seq = end /\ c.at.part = LastPart(C)
      BY <1>4
    <3> DEFINE x == Last(window[c.at.track])
    <3>2. x \in lasts /\ x.seq = end
      BY <1>9, <3>1
    <3>3. CASE x.parts = <<>>
      <4>1. c.at.part = NoPart
        BY <1>8, <1>9, <3>1, <3>3
      <4>2. PICK p \in ends : p \in Nat
        BY <2>1, <2>2
      <4> QED
        BY <3>1, <4>1, <4>2 DEF NoPart
    <3>4. CASE x.parts # <<>>
      <4>1. x \in atEdge
        BY <3>2, <3>4
      <4>2. Last(x.parts).at.part \in ends
        BY <4>1
      <4>3. c.at.part <= Last(x.parts).at.part
        BY <1>8, <1>9, <3>1, <3>4
      <4> QED
        BY <3>1, <4>2, <4>3
    <3> QED
      BY <3>3, <3>4
  <2> HIDE DEF ends
  <2>4. PICK p \in ends : LastPart(C) <= p
    BY <2>3
  <2>5. LastPart(C) \in Int
    BY <1>4, <1>5
  <2>6. p = LastPart(C)
    BY <2>1, <2>4, <2>5
  <2>7. ends \in SUBSET Int
    BY <2>1
  <2>8. Max(ends) = p
    BY <2>1, <2>6, <2>7, TheGreatest
  <2> QED
    BY <1>6, <1>7, <1>11, <2>6, <2>8 DEF window, end
<1> QED
  BY <1>10, <1>11

\* Finitely many integers have a least one.
LEMMA LeastExists ==
  ASSUME NEW S \in SUBSET Int, IsFiniteSet(S), S # {}
  PROVE  Min(S) \in S /\ \A m \in S : Min(S) <= m
<1> DEFINE T == {-n : n \in S}
           f == [n \in S |-> -n]
<1>1. f \in Surjection(S, T)
  BY DEF Surjection
<1>2. T \in SUBSET Int /\ T # {}
  <2>1. \A n \in S : -n \in Int
    OBVIOUS
  <2> QED
    BY <2>1
<1> HIDE DEF f
<1>3. IsFiniteSet(T)
  BY <1>1, FS_Surjection
<1>4. PICK k \in T : \A m \in T : m <= k
  <2> HIDE DEF T
  <2> QED
    BY <1>2, <1>3, GreatestExists
<1>5. PICK n \in S : k = -n
  OBVIOUS
<1>6. \A m \in S : n <= m
  <2> TAKE m \in S
  <2>1. -m <= -n /\ m \in Int /\ n \in Int
    BY <1>4, <1>5
  <2> QED
    BY <2>1
<1> QED
  BY <1>6 DEF Min

\* The cursor's window is valid as a document, and ends where the cursor does.
LEMMA CursorLoads == WInv => StoredCursorLoads
<1> SUFFICES ASSUME WInv, cursor.media # {},
                    NEW max, max = Cardinality(SeqsOf(cursor.media))
             PROVE  LET document == CursorDocument(Window(cursor.media, max))
                    IN  /\ ValidCursor(document)
                        /\ document.last = LastSeq(cursor.media)
                        /\ document.part = LastPart(cursor.media)
  BY DEF StoredCursorLoads
<1> DEFINE C == cursor.media
           window == Window(C, max)
<1>1. OneOfEach(commits) /\ C \subseteq commits
  BY RecordedOneOfEach DEF WInv, IInv, WindowBacked
<1>2. OneOfEach(C)
  <2>1. IsFiniteSet(C)
    BY <1>1, FS_Subset DEF OneOfEach
  <2> QED
    BY <1>1, <2>1 DEF OneOfEach
<1>3. Contiguous(C) = C
  <2>1. PICK m \in WindowSizes : C = VisibleMedia(commits, m)
    BY DEF WInv, CursorCurrent
  <2>2. commits \in SUBSET Commits
    BY <1>1 DEF OneOfEach
  <2> QED
    BY <2>1, <2>2, VisibleStandsAlone
<1>4. C # {} /\ max = Cardinality(SeqsOf(C))
  OBVIOUS
<1> HIDE DEF C
<1>5. /\ max \in Nat \ {0}
      /\ WindowSeqs(window) = SeqsOf(C)
      /\ Max(WindowSeqs(window)) = LastSeq(C)
      /\ LastVisiblePart(window) = LastPart(C)
  BY <1>2, <1>3, <1>4, WholeWindow, WholeWindowSeqs, WholeWindowPart
<1>6. TracksIn(C) # {}
  <2>1. PICK c \in C : c.at.track \in Tracks
    BY <1>2, <1>4 DEF OneOfEach, Commits, Positions
  <2>2. c \in OnTrack(Contiguous(C), c.at.track)
    BY <1>3 DEF OnTrack
  <2> QED
    BY <1>2, <2>1, <2>2, TracksInWindow
<1>7. ValidWindow(window)
  BY <1>2, <1>5, <1>6, WindowIsValid
<1>8. Min(WindowSeqs(window)) <= LastSeq(C)
  <2>1. SeqsOf(C) \in SUBSET Int /\ SeqsOf(C) # {} /\ IsFiniteSet(SeqsOf(C))
    <3>1. C \subseteq Commits /\ IsFiniteSet(C)
      BY <1>2 DEF OneOfEach
    <3>2. IsFiniteSet(SeqsOf(C))
      BY <3>1, FiniteImages
    <3>3. \A c \in C : c.at.seq \in Int
      BY <3>1, SequenceNumbers
    <3> QED
      BY <1>4, <3>2, <3>3 DEF SeqsOf
  <2>2. \E c \in C : c.at.seq = LastSeq(C) /\ c.at.part = LastPart(C)
    <3>1. C \in SUBSET Commits /\ IsFiniteSet(C)
      BY <1>2 DEF OneOfEach
    <3> QED
      BY <1>4, <3>1, LastPosition
  <2>3. LastSeq(C) \in SeqsOf(C)
    BY <2>2 DEF SeqsOf
  <2> QED
    BY <1>5, <2>1, <2>3, LeastExists
<1> HIDE DEF window
<1>9. LET document == CursorDocument(window)
      IN  /\ ValidCursor(document)
          /\ document.last = LastSeq(C)
          /\ document.part = LastPart(C)
  BY <1>5, <1>7, <1>8 DEF CursorDocument, ValidCursor
<1> QED
  BY <1>9 DEF window, C

\* The position that decides whether a cursor is stale is the one that is
\* stored beside its window, and the store accepts every cursor it is given,
\* whatever the tracks, the sizes and the order of the commits.
THEOREM StoredCursorsAlwaysLoad == Spec => []StoredCursorLoads
BY WindowInvariance, CursorLoads, PTL

----------------------------------------------------------------------------
(***************************************************************************)
(* The pipeline below the playlists.                                       *)
(***************************************************************************)

\* Publishing is committing; the profile is no concern of the pipeline.
LEMMA PlaylistStepRunsPipeline == [PlaylistNext]_hlsvars => [Next]_vars
<1> SUFFICES ASSUME [PlaylistNext]_hlsvars PROVE [Next]_vars
  OBVIOUS
<1>1. CASE UNCHANGED hlsvars
  BY <1>1 DEF hlsvars
<1>2. ASSUME NEW s \in slots, NEW max \in WindowSizes, NEW t \in Times,
             NEW tol \in LateTolerances, Publish(s, max, t, tol)
      PROVE  Next
  BY <1>2 DEF Publish, CommitUpload, Next
<1>3. CASE Elsewhere
  BY <1>3 DEF Elsewhere, CommitUpload, Next
<1> QED
  BY <1>1, <1>2, <1>3 DEF PlaylistNext

\* A session whose playlists are rendered is a session of the pipeline.
THEOREM PlaylistRunsPipeline == PlaylistSpec => Spec
<1>1. PlaylistInit => Init
  BY DEF PlaylistInit
<1> QED
  BY <1>1, PlaylistStepRunsPipeline, PTL DEF PlaylistSpec, Spec

LEMMA PlaylistInvariance == PlaylistSpec => []WInv
BY PlaylistRunsPipeline, WindowInvariance, PTL

----------------------------------------------------------------------------
(***************************************************************************)
(* Playlists that are advertised stay.                                     *)
(***************************************************************************)

\* The window never loses a track, nor the init object of one.
LEMMA TracksStay ==
  ASSUME WInv, [Next]_vars, NEW t
  PROVE  /\ OnTrack(cursor.media, t) # {} => OnTrack(cursor'.media, t) # {}
         /\ OnTrack(cursor.inits, t) # {} => OnTrack(cursor'.inits, t) # {}
<1>1. \/ cursor'.media = cursor.media /\ cursor'.inits = cursor.inits
      \/ Live!TrimmedAtFront /\ Live!InitsStay
  BY StepShowsLiveWindow DEF Live!Next, Live!Publish, Live!Close, Live!window
<1>2. ASSUME Live!TrimmedAtFront, NEW c \in cursor.media, c.at.track = t
      PROVE  OnTrack(cursor'.media, t) # {}
  BY <1>2 DEF Live!TrimmedAtFront, Live!Track, OnTrack
<1>3. ASSUME Live!InitsStay
      PROVE  cursor.inits \subseteq cursor'.inits
  BY <1>3 DEF Live!InitsStay
<1> QED
  BY <1>1, <1>2, <1>3 DEF OnTrack

LEMMA StepKeepsAdvertised ==
  WInv /\ [PlaylistNext]_hlsvars =>
    [\A video \in SUBSET Tracks : \A grouped \in SUBSET (Tracks \ video) :
       LET listed == Advertised(video, grouped)
       IN  HasMaster(video) =>
             /\ HasMaster(video)'
             /\ listed \subseteq Advertised(video, grouped)'
             /\ VariantAudio(grouped, grouped) \subseteq
                  VariantAudio(grouped, grouped)'
             /\ \A t \in listed : Renders(t) => Renders(t)']_hlsvars
<1> SUFFICES ASSUME WInv, [PlaylistNext]_hlsvars,
                    NEW video \in SUBSET Tracks,
                    NEW grouped \in SUBSET (Tracks \ video)
             PROVE  /\ HasMaster(video) => HasMaster(video)'
                    /\ Advertised(video, grouped) \subseteq
                         Advertised(video, grouped)'
                    /\ VariantAudio(grouped, grouped) \subseteq
                         VariantAudio(grouped, grouped)'
                    /\ \A t \in Tracks : Renders(t) => Renders(t)'
  BY DEF Advertised, Available
<1>1. [Next]_vars
  BY PlaylistStepRunsPipeline
<1>2. Available \subseteq Available'
  BY <1>1, TracksStay DEF Available
<1>3. \A t \in Tracks : Renders(t) => Renders(t)'
  BY <1>1, TracksStay DEF Renders
<1> QED
  BY <1>2, <1>3 DEF HasMaster, Advertised, VariantAudio

\* A master playlist never goes away, nothing it lists does, and no media
\* playlist that rendered once is refused later, however the tracks are
\* divided into video and audio.
THEOREM AdvertisedAlwaysStay == PlaylistSpec => AdvertisedStay
BY PlaylistInvariance, StepKeepsAdvertised, PTL
   DEF PlaylistSpec, AdvertisedStay

----------------------------------------------------------------------------
(***************************************************************************)
(* Playlists continue.                                                     *)
(***************************************************************************)

\* What the cursor shows of a track stands by itself.
ShownTracks ==
  \A t \in Available :
    /\ OneTrack(OnTrack(cursor.media, t), t)
    /\ Contiguous(OnTrack(cursor.media, t)) = OnTrack(cursor.media, t)

LEMMA CursorShowsTracks == WInv => ShownTracks
<1> SUFFICES ASSUME WInv, NEW t \in Available
             PROVE  /\ OneTrack(OnTrack(cursor.media, t), t)
                    /\ Contiguous(OnTrack(cursor.media, t))
                         = OnTrack(cursor.media, t)
  BY DEF ShownTracks
<1>1. OneOfEach(commits) /\ cursor.media \subseteq commits
  BY RecordedOneOfEach DEF WInv, IInv, WindowBacked
<1>2. OneOfEach(cursor.media)
  <2>1. IsFiniteSet(cursor.media)
    BY <1>1, FS_Subset DEF OneOfEach
  <2> QED
    BY <1>1, <2>1 DEF OneOfEach
<1>3. Contiguous(cursor.media) = cursor.media
  <2>1. PICK m \in WindowSizes : cursor.media = VisibleMedia(commits, m)
    BY DEF WInv, CursorCurrent, Available, OnTrack
  <2>2. commits \in SUBSET Commits
    BY <1>1 DEF OneOfEach
  <2> QED
    BY <2>1, <2>2, VisibleStandsAlone
<1> QED
  BY <1>2, <1>3, TracksApart

LEMMA CursorShowsTracksNext == WInv' => ShownTracks'
BY CursorShowsTracks, PTL

\* The entries of the playlist that is rendered of the objects C of a track.
EntriesOf(C) ==
  [i \in DOMAIN FinalizedSegments(C) |-> Entry(FinalizedSegments(C), i)]

PartsAt(C, n) ==
  {c.at.part : c \in {d \in C : d.at.seq = n /\ d.at.part # NoPart}}

FullAt(C, n) == \E c \in C : c.at.seq = n /\ c.at.part = NoPart

\* What an entry says of the objects at its sequence number.
Tells(e, C) ==
  /\ e.seq \in SeqsOf(C)
  /\ e.full <=> FullAt(C, e.seq)
  /\ ToSet(e.parts) \subseteq PartsAt(C, e.seq)
  /\ ~e.full => ToSet(e.parts) = PartsAt(C, e.seq)

\* The parts that an entry may list are the segment's.
LEMMA PartNumbersOfSegment ==
  ASSUME NEW C, NEW t, OneTrack(C, t), Contiguous(C) = C, NEW n \in SeqsOf(C)
  PROVE  LET x == CommittedSegment(C, n)
         IN  /\ ToSet(PartNumbers(x)) = PartsAt(C, n)
             /\ x.full # {} <=> FullAt(C, n)
<1> DEFINE x == CommittedSegment(C, n)
<1>1. /\ \A c \in x.full : c.at.part = NoPart
      /\ x.parts \in Seq(C)
      /\ \A i \in 1 .. Len(x.parts) : x.parts[i].at.part = i - 1
      /\ x.full \cup ToSet(x.parts) = {c \in C : c.at.seq = n}
  BY SegmentShows
<1> HIDE DEF x
<1>2. /\ Len(x.parts) \in Nat /\ DOMAIN x.parts = 1 .. Len(x.parts)
      /\ ToSet(x.parts) = {x.parts[i] : i \in 1 .. Len(x.parts)}
  BY <1>1, LenProperties DEF ToSet
<1>3. \A c \in ToSet(x.parts) : c.at.part # NoPart
  BY <1>1, <1>2 DEF NoPart
<1>4. ToSet(PartNumbers(x)) = {x.parts[i].at.part : i \in 1 .. Len(x.parts)}
  BY <1>2 DEF PartNumbers, ToSet
<1>5. ToSet(PartNumbers(x)) = PartsAt(C, n)
  <2>1. {d \in C : d.at.seq = n /\ d.at.part # NoPart} = ToSet(x.parts)
    BY <1>1, <1>3
  <2> QED
    BY <1>2, <1>4, <2>1 DEF PartsAt
<1>6. x.full # {} <=> FullAt(C, n)
  BY <1>1, <1>3 DEF FullAt
<1> QED
  BY <1>5, <1>6 DEF x

\* The entries tell of every sequence number of the track, in order.
LEMMA EntriesTell ==
  ASSUME NEW C, NEW t, OneTrack(C, t), Contiguous(C) = C, C # {}
  PROVE  LET entries == EntriesOf(C)
         IN  /\ \A e \in ToSet(entries) : Tells(e, C)
             /\ \A n \in SeqsOf(C) : \E e \in ToSet(entries) : e.seq = n
             /\ \A d, e \in ToSet(entries) : d.seq = e.seq => d = e
             /\ Last(entries) \in ToSet(entries)
             /\ \A n \in SeqsOf(C) : n <= Last(entries).seq
             /\ Head(FinalizedSegments(C)).seq \in SeqsOf(C)
             /\ \A n \in SeqsOf(C) : Head(FinalizedSegments(C)).seq <= n
<1> DEFINE segments == FinalizedSegments(C)
           entries == EntriesOf(C)
           z == Len(segments)
<1>1. /\ segments \in Seq(Built(C))
      /\ \A i \in 1 .. z : /\ segments[i].seq \in SeqsOf(C)
                            /\ segments[i] = CommittedSegment(C, segments[i].seq)
      /\ \A n \in SeqsOf(C) : \E i \in 1 .. z : segments[i].seq = n
      /\ \A i, j \in 1 .. z : i < j => segments[i].seq < segments[j].seq
  BY SegmentsInOrder DEF Lists
<1>2. entries = [i \in DOMAIN segments |-> Entry(segments, i)]
  BY DEF EntriesOf
<1>3. SeqsOf(C) \subseteq Nat /\ SeqsOf(C) # {}
  BY SequenceNumbers DEF OneTrack, SeqsOf
<1> HIDE DEF segments, entries
<1>4. z \in Nat /\ DOMAIN segments = 1 .. z /\ 1 \in 1 .. z /\ z \in 1 .. z
  <2>1. z \in Nat /\ DOMAIN segments = 1 .. z
    BY <1>1, LenProperties
  <2>2. 1 .. z # {}
    BY <1>1, <1>3
  <2> QED
    BY <2>1, <2>2
<1> HIDE DEF z
<1>5. /\ DOMAIN entries = 1 .. z /\ ToSet(entries) = {entries[i] : i \in 1 .. z}
      /\ \A i \in 1 .. z : entries[i] = Entry(segments, i)
  BY <1>2, <1>4 DEF ToSet
<1>6. Len(entries) = z
  <2>1. entries \in [1 .. z -> {Entry(segments, i) : i \in 1 .. z}]
    BY <1>2, <1>4
  <2>2. entries \in Seq({Entry(segments, i) : i \in 1 .. z})
    BY <1>4, <2>1, SeqDef
  <2> QED
    BY <1>4, <1>5, <2>2, LenProperties
<1>7. ASSUME NEW i \in 1 .. z
      PROVE  entries[i].seq = segments[i].seq /\ Tells(entries[i], C)
  <2>1. /\ entries[i].seq = segments[i].seq
        /\ entries[i].full <=> segments[i].full # {}
        /\ entries[i].parts = ListedParts(segments, i)
    <3>1. entries[i] = Entry(segments, i)
      BY <1>5
    <3>2. /\ Entry(segments, i).seq = segments[i].seq
          /\ Entry(segments, i).full <=> segments[i].full # {}
          /\ Entry(segments, i).parts = ListedParts(segments, i)
      BY DEF Entry
    <3> QED
      BY <3>1, <3>2
  <2>2. /\ segments[i].seq \in SeqsOf(C)
        /\ ToSet(PartNumbers(segments[i])) = PartsAt(C, segments[i].seq)
        /\ segments[i].full # {} <=> FullAt(C, segments[i].seq)
    BY <1>1, PartNumbersOfSegment
  <2>3. /\ \/ ListedParts(segments, i) = PartNumbers(segments[i])
           \/ ListedParts(segments, i) = <<>>
        /\ segments[i].full = {} =>
             ListedParts(segments, i) = PartNumbers(segments[i])
    BY DEF ListedParts
  <2>4. ToSet(<<>>) = {}
    BY DEF ToSet
  <2> QED
    BY <2>1, <2>2, <2>3, <2>4 DEF Tells
<1>8. Head(segments) = segments[1] /\ Last(entries) = entries[z]
  <2>1. Head(segments) = segments[1]
    BY <1>1, <1>4
  <2> QED
    BY <1>6, <2>1 DEF Last
<1>9. ASSUME NEW n \in SeqsOf(C)
      PROVE  segments[1].seq <= n /\ n <= segments[z].seq
  <2>1. PICK i \in 1 .. z : segments[i].seq = n
    BY <1>1
  <2>2. \A j \in 1 .. z : segments[j].seq \in Nat
    BY <1>1, <1>3
  <2>3. i = 1 \/ segments[1].seq < segments[i].seq
    <3>1. 1 \in 1 .. z /\ (i = 1 \/ 1 < i)
      BY <1>4
    <3> QED
      BY <1>1, <3>1
  <2>4. i = z \/ segments[i].seq < segments[z].seq
    <3>1. z \in 1 .. z /\ (i = z \/ i < z)
      BY <1>4
    <3> QED
      BY <1>1, <3>1
  <2> QED
    BY <1>4, <2>1, <2>2, <2>3, <2>4
<1>10. ASSUME NEW i \in 1 .. z, NEW j \in 1 .. z,
              segments[i].seq = segments[j].seq
       PROVE  i = j
  <2>1. segments[i].seq \in Nat /\ ~(i < j) /\ ~(j < i)
    BY <1>1, <1>3, <1>10
  <2> QED
    BY <1>4, <2>1
<1>11. \A n \in SeqsOf(C) : \E e \in ToSet(entries) : e.seq = n
  BY <1>1, <1>5, <1>7
<1>12. \A d, e \in ToSet(entries) : d.seq = e.seq => d = e
  BY <1>5, <1>7, <1>10
<1>13. \A e \in ToSet(entries) : Tells(e, C)
  BY <1>5, <1>7
<1>14. /\ Last(entries) \in ToSet(entries)
       /\ \A n \in SeqsOf(C) : n <= Last(entries).seq
  BY <1>4, <1>5, <1>7, <1>8, <1>9
<1>15. /\ Head(segments).seq \in SeqsOf(C)
       /\ \A n \in SeqsOf(C) : Head(segments).seq <= n
  BY <1>1, <1>4, <1>8, <1>9
<1> QED
  BY <1>11, <1>12, <1>13, <1>14, <1>15 DEF segments, entries

\* A track whose objects leave at the front and join at the edge only is
\* rendered to a playlist that continues the last.
LEMMA TrackContinues ==
  ASSUME NEW C, NEW D, NEW t, OneTrack(C, t), OneTrack(D, t), C # {}, D # {},
         Contiguous(C) = C, Contiguous(D) = D,
         \A o \in C \ D : \A p \in D : o.at.seq < p.at.seq,
         \A o \in D \ C : \A p \in C : p.at.seq <= o.at.seq
  PROVE  LET before == ToSet(EntriesOf(C))
             after == ToSet(EntriesOf(D))
             edge == Last(EntriesOf(C))
             first == Head(FinalizedSegments(D)).seq
         IN  /\ Head(FinalizedSegments(C)).seq <= first
             /\ edge \in before
             /\ \A e \in before : e.seq >= first =>
                  \E f \in after :
                    /\ f.seq = e.seq
                    /\ e.full => f.full
                    /\ f.full \/ ToSet(e.parts) \subseteq ToSet(f.parts)
             /\ \A f \in after :
                  \/ f.seq > edge.seq
                  \/ \E e \in before :
                       /\ e.seq = f.seq
                       /\ \/ e = edge
                          \/ /\ f.full => e.full
                             /\ f.full \/ ToSet(f.parts) \subseteq ToSet(e.parts)
<1> DEFINE before == ToSet(EntriesOf(C))
           after == ToSet(EntriesOf(D))
           edge == Last(EntriesOf(C))
           first == Head(FinalizedSegments(D)).seq
           start == Head(FinalizedSegments(C)).seq
<1>1. /\ \A e \in before : Tells(e, C)
      /\ \A n \in SeqsOf(C) : \E e \in before : e.seq = n
      /\ \A d, e \in before : d.seq = e.seq => d = e
      /\ edge \in before
      /\ \A n \in SeqsOf(C) : n <= edge.seq
      /\ start \in SeqsOf(C) /\ \A n \in SeqsOf(C) : start <= n
  BY EntriesTell
<1>2. /\ \A f \in after : Tells(f, D)
      /\ \A n \in SeqsOf(D) : \E f \in after : f.seq = n
      /\ first \in SeqsOf(D) /\ \A n \in SeqsOf(D) : first <= n
  BY EntriesTell
<1> HIDE DEF before, after, edge, first, start
<1>3. /\ SeqsOf(C) \subseteq Nat /\ SeqsOf(D) \subseteq Nat
      /\ \A n \in SeqsOf(C) : \E c \in C : c.at.seq = n
      /\ \A n \in SeqsOf(D) : \E d \in D : d.at.seq = n
      /\ \A c \in C : c.at.seq \in SeqsOf(C)
      /\ \A d \in D : d.at.seq \in SeqsOf(D)
  BY SequenceNumbers DEF OneTrack, SeqsOf
<1>4. start <= first
  <2>1. PICK d \in D : d.at.seq = first
    BY <1>2, <1>3
  <2>2. PICK c \in C : c.at.seq = start
    BY <1>1, <1>3
  <2>3. CASE d \in C
    BY <1>1, <1>3, <2>1, <2>3
  <2>4. CASE d \notin C
    BY <2>1, <2>2, <2>4
  <2> QED
    BY <2>3, <2>4
\* What the track still has a number for, it has kept whole.
<1>5. ASSUME NEW c \in C, NEW n \in SeqsOf(D), n <= c.at.seq
      PROVE  c \in D
  BY <1>3, <1>5
<1>6. ASSUME NEW e \in before, e.seq >= first
      PROVE  \E f \in after :
               /\ f.seq = e.seq
               /\ e.full => f.full
               /\ f.full \/ ToSet(e.parts) \subseteq ToSet(f.parts)
  <2>1. /\ e.seq \in SeqsOf(C)
        /\ e.full <=> FullAt(C, e.seq)
        /\ ToSet(e.parts) \subseteq PartsAt(C, e.seq)
    BY <1>1 DEF Tells
  <2>2. \A c \in C : c.at.seq = e.seq => c \in D
    BY <1>2, <1>3, <1>5, <1>6, <2>1
  <2>3. e.seq \in SeqsOf(D)
    BY <1>3, <2>1, <2>2
  <2>4. PICK f \in after : f.seq = e.seq
    BY <1>2, <2>3
  <2>5. /\ f.full <=> FullAt(D, e.seq)
        /\ ~f.full => ToSet(f.parts) = PartsAt(D, e.seq)
    BY <1>2, <2>4 DEF Tells
  <2>6. FullAt(C, e.seq) => FullAt(D, e.seq)
    BY <2>2 DEF FullAt
  <2>7. PartsAt(C, e.seq) \subseteq PartsAt(D, e.seq)
    BY <2>2 DEF PartsAt
  <2>8. (e.full => f.full) /\ (f.full \/ ToSet(e.parts) \subseteq ToSet(f.parts))
    BY <2>1, <2>5, <2>6, <2>7
  <2> QED
    BY <2>4, <2>8
<1>7. ASSUME NEW f \in after, ~(f.seq > edge.seq)
      PROVE  \E e \in before :
               /\ e.seq = f.seq
               /\ \/ e = edge
                  \/ /\ f.full => e.full
                     /\ f.full \/ ToSet(f.parts) \subseteq ToSet(e.parts)
  <2>1. /\ f.seq \in SeqsOf(D)
        /\ f.full <=> FullAt(D, f.seq)
        /\ ~f.full => ToSet(f.parts) = PartsAt(D, f.seq)
    BY <1>2 DEF Tells
  <2>2. edge.seq \in SeqsOf(C)
    BY <1>1 DEF Tells
  <2>3. CASE \E d \in D \ C : d.at.seq = f.seq
    <3>1. edge.seq <= f.seq
      BY <1>3, <2>2, <2>3
    <3>2. f.seq = edge.seq
      BY <1>3, <1>7, <2>1, <2>2, <3>1
    <3> QED
      BY <1>1, <3>2
  <2>4. CASE \A d \in D : d.at.seq = f.seq => d \in C
    <3>1. f.seq \in SeqsOf(C)
      BY <1>3, <2>1, <2>4
    <3>2. PICK e \in before : e.seq = f.seq
      BY <1>1, <3>1
    <3>3. /\ e.full <=> FullAt(C, f.seq)
          /\ ~e.full => ToSet(e.parts) = PartsAt(C, f.seq)
      BY <1>1, <3>2 DEF Tells
    <3>4. FullAt(C, f.seq) <=> FullAt(D, f.seq)
      <4>1. \A c \in C : c.at.seq = f.seq => c \in D
        BY <1>3, <1>5, <2>1
      <4> QED
        BY <2>4, <4>1 DEF FullAt
    <3>5. PartsAt(D, f.seq) \subseteq PartsAt(C, f.seq)
      BY <2>4 DEF PartsAt
    <3>6. (f.full => e.full) /\ (f.full \/ ToSet(f.parts) \subseteq ToSet(e.parts))
      BY <2>1, <3>3, <3>4, <3>5
    <3> QED
      BY <3>2, <3>6
  <2> QED
    BY <2>3, <2>4
<1> QED
  BY <1>1, <1>4, <1>6, <1>7 DEF before, after, edge, first, start

\* A step of the pipeline trims a track at its front and extends it at its
\* edge, and what is over stays over.
LEMMA StepContinuesTracks ==
  ASSUME WInv, [Next]_vars, NEW t
  PROVE  LET C == OnTrack(cursor.media, t)
             D == OnTrack(cursor'.media, t)
         IN  /\ \A o \in C \ D : \A p \in D : o.at.seq < p.at.seq
             /\ \A o \in D \ C : \A p \in C : p.at.seq <= o.at.seq
             /\ /\ C # {}
                /\ IsEndOfStream(cursor.state)
                => IsEndOfStream(cursor'.state)
<1>1. \/ cursor'.media = cursor.media
      \/ Live!TrimmedAtFront /\ Live!AppendedAtEdge
  BY StepShowsLiveWindow DEF Live!Next, Live!Publish, Live!Close, Live!window
<1>2. cursor'.media \in SUBSET Commits /\ cursor.media \in SUBSET Commits
  BY NextWInv, RecordedOneOfEach
     DEF WInv, IInv, TypeOK, Cursors, WindowBacked
<1>3. \A c \in cursor'.media \cup cursor.media : c.at.seq \in Nat
  BY <1>2, SequenceNumbers
<1>4. ASSUME NEW o \in OnTrack(cursor.media, t) \ OnTrack(cursor'.media, t),
             NEW p \in OnTrack(cursor'.media, t)
      PROVE  o.at.seq < p.at.seq
  BY <1>1 DEF Live!TrimmedAtFront, Live!Track, OnTrack
<1>5. ASSUME NEW o \in OnTrack(cursor'.media, t) \ OnTrack(cursor.media, t),
             NEW p \in OnTrack(cursor.media, t)
      PROVE  p.at.seq <= o.at.seq
  BY <1>1, <1>3 DEF Live!AppendedAtEdge, Live!Track, OnTrack
<1>6. ASSUME OnTrack(cursor.media, t) # {}, IsEndOfStream(cursor.state)
      PROVE  IsEndOfStream(cursor'.state)
  <2>1. cursor.state = session
    BY <1>6 DEF WInv, IInv, CursorStateInStep, OnTrack
  <2>2. cursor'.state = session'
    BY <1>6, TracksStay, NextWInv
       DEF WInv, IInv, CursorStateInStep, OnTrack
  <2>3. session' = session
    BY <1>6, <2>1, StepShowsLiveWindow
       DEF Live!Next, Live!Publish, Live!Close, IsEndOfStream
  <2> QED
    BY <1>6, <2>1, <2>2, <2>3
<1> QED
  BY <1>4, <1>5, <1>6

LEMMA StepContinuesPlaylists ==
  WInv /\ [PlaylistNext]_hlsvars =>
    [cursor' # cursor =>
       \A next \in {cursor'}, t \in Available :
         /\ OnTrack(next.media, t) # {}
         /\ Continues(MediaPlaylist(t), PlaylistOf(next, profile'[t], t))]_hlsvars
<1> SUFFICES ASSUME WInv, [PlaylistNext]_hlsvars, NEW t \in Available
             PROVE  /\ OnTrack(cursor'.media, t) # {}
                    /\ Continues(MediaPlaylist(t),
                                 PlaylistOf(cursor', profile'[t], t))
  OBVIOUS
<1> DEFINE C == OnTrack(cursor.media, t)
           D == OnTrack(cursor'.media, t)
           old == MediaPlaylist(t)
           new == PlaylistOf(cursor', profile'[t], t)
<1>1. [Next]_vars /\ WInv'
  BY PlaylistStepRunsPipeline, NextWInv
<1>2. C # {} /\ D # {} /\ t \in Tracks
  BY <1>1, TracksStay DEF Available
<1>3. ShownTracks /\ ShownTracks'
  BY <1>1, CursorShowsTracks, CursorShowsTracksNext
<1>4. /\ OneTrack(C, t) /\ Contiguous(C) = C
      /\ OneTrack(D, t) /\ Contiguous(D) = D
  BY <1>2, <1>3 DEF ShownTracks, Available
<1>5. /\ old.entries = EntriesOf(C) /\ new.entries = EntriesOf(D)
      /\ old.mediaSequence = Head(FinalizedSegments(C)).seq
      /\ new.mediaSequence = Head(FinalizedSegments(D)).seq
      /\ old.endlist <=> IsEndOfStream(cursor.state)
      /\ new.endlist <=> IsEndOfStream(cursor'.state)
  BY DEF MediaPlaylist, PlaylistOf, Shown, EntriesOf
<1>6. /\ \A o \in C \ D : \A p \in D : o.at.seq < p.at.seq
      /\ \A o \in D \ C : \A p \in C : p.at.seq <= o.at.seq
      /\ old.endlist => new.endlist
  BY <1>1, <1>2, <1>5, StepContinuesTracks
<1> HIDE DEF C, D, old, new
<1>7. /\ old.mediaSequence <= new.mediaSequence
      /\ \A e \in ToSet(old.entries) : e.seq >= new.mediaSequence =>
           \E f \in ToSet(new.entries) :
             /\ f.seq = e.seq
             /\ e.full => f.full
             /\ f.full \/ ToSet(e.parts) \subseteq ToSet(f.parts)
      /\ \A f \in ToSet(new.entries) :
           \/ f.seq > Last(old.entries).seq
           \/ \E e \in ToSet(old.entries) :
                /\ e.seq = f.seq
                /\ \/ e = Last(old.entries)
                   \/ /\ f.full => e.full
                      /\ f.full \/ ToSet(f.parts) \subseteq ToSet(e.parts)
  <2> DEFINE before == ToSet(EntriesOf(C))
             after == ToSet(EntriesOf(D))
             edge == Last(EntriesOf(C))
             start == Head(FinalizedSegments(C)).seq
             first == Head(FinalizedSegments(D)).seq
  <2>1. /\ start <= first
        /\ \A e \in before : e.seq >= first =>
             \E f \in after :
               /\ f.seq = e.seq
               /\ e.full => f.full
               /\ f.full \/ ToSet(e.parts) \subseteq ToSet(f.parts)
        /\ \A f \in after :
             \/ f.seq > edge.seq
             \/ \E e \in before :
                  /\ e.seq = f.seq
                  /\ \/ e = edge
                     \/ /\ f.full => e.full
                        /\ f.full \/ ToSet(f.parts) \subseteq ToSet(e.parts)
    BY <1>2, <1>4, <1>6, TrackContinues
  <2>2. /\ ToSet(old.entries) = before /\ ToSet(new.entries) = after
        /\ Last(old.entries) = edge
        /\ old.mediaSequence = start /\ new.mediaSequence = first
    BY <1>5
  <2> HIDE DEF before, after, edge, start, first
  <2> QED
    BY <2>1, <2>2
<1>8. Continues(old, new)
  BY <1>6, <1>7 DEF Continues
<1> QED
  BY <1>2, <1>8 DEF D, old, new

\* However commits arrive out of order and late, whatever sizes they cut the
\* window to, and whatever is pruned or ended in between, no player that polls
\* a media playlist misses an entry or finds one changed that it has read past.
THEOREM PlaylistsAlwaysGoOn == PlaylistSpec => PlaylistsGoOn
BY PlaylistInvariance, StepContinuesPlaylists, PTL
   DEF PlaylistSpec, PlaylistsGoOn

----------------------------------------------------------------------------
(***************************************************************************)
(* Blocking requests.                                                      *)
(***************************************************************************)

\* The last entry of the playlist answers: it is past what was asked for, or
\* it is the segment itself, which lists all its parts unless it is full.
LEMMA CursorReadyListed == WInv => ReadyMeansListed
<1> SUFFICES ASSUME WInv, NEW t \in Available, NEW n \in Seqs,
                    NEW p \in Parts \cup {NoPart}, ReadyFor(t, n, p)
             PROVE  \E e \in ToSet(MediaPlaylist(t).entries) :
                      \/ e.seq > n
                      \/ e.seq = n /\ (p = NoPart \/ e.full \/ p \in ToSet(e.parts))
  BY DEF ReadyMeansListed
<1> DEFINE C == OnTrack(cursor.media, t)
           segments == FinalizedSegments(C)
           z == Len(segments)
           x == segments[z]
           e == Entry(segments, z)
<1>1. OneTrack(C, t) /\ Contiguous(C) # {}
  BY CursorShowsTracks DEF ShownTracks, Available
<1> HIDE DEF C
<1>2. Lists(segments, C)
  BY <1>1, SegmentsInOrder
<1>3. /\ x.seq \in SeqsOf(Contiguous(C)) /\ x = CommittedSegment(C, x.seq)
      /\ Last(segments) = x
  BY <1>1, <1>2, LastSegment DEF Last
<1>4. z \in Nat /\ DOMAIN segments = 1 .. z /\ z \in 1 .. z
  <2>1. segments \in Seq(Built(C))
    BY <1>2 DEF Lists
  <2>2. z \in Nat /\ DOMAIN segments = 1 .. z
    BY <2>1, LenProperties
  <2>3. 1 .. z # {}
    BY <1>3, <1>2 DEF Lists
  <2> QED
    BY <2>2, <2>3
<1>5. /\ HasObjects(x)
      /\ x.parts \in Seq(C)
      /\ \A i \in 1 .. Len(x.parts) : x.parts[i].at.part = i - 1
  BY <1>1, <1>3, SegmentShows
<1>6. Shown(cursor, t) = segments
  BY DEF Shown, C
<1> HIDE DEF segments, z
<1>7. e \in ToSet(MediaPlaylist(t).entries)
  <2>1. MediaPlaylist(t).entries = [i \in 1 .. z |-> Entry(segments, i)]
    BY <1>4, <1>6 DEF MediaPlaylist, PlaylistOf
  <2> QED
    BY <1>4, <2>1 DEF ToSet
<1>8. /\ e.seq = x.seq
      /\ e.full <=> x.full # {}
      /\ x.full = {} => e.parts = PartNumbers(x)
  BY DEF Entry, ListedParts
<1>9. /\ TrackEdge(t).seq = x.seq
      /\ TrackEdge(t).part = IF x.parts = <<>> THEN NoPart
                             ELSE Last(x.parts).at.part
  BY <1>3, <1>6 DEF TrackEdge, TrackBounds
<1> HIDE DEF e, x
<1>10. CASE n < x.seq
  <2>1. e.seq > n
    <3>1. x.seq \in Int /\ n \in Int
      BY <1>1, <1>3, SequenceNumbers, CoordinatorAssumption
         DEF OneTrack, SeqsOf, Contiguous, CoordinatorAssumption
    <3> QED
      BY <1>8, <1>10, <3>1
  <2> QED
    BY <1>7, <2>1
<1>11. CASE n = x.seq /\ p # NoPart /\ x.full = {}
  <2>1. x.parts # <<>>
    BY <1>5, <1>11 DEF HasObjects
  <2>2. Len(x.parts) \in Nat \ {0} /\ DOMAIN x.parts = 1 .. Len(x.parts)
    BY <1>5, <2>1, EmptySeq, LenProperties
  <2>3. Last(x.parts).at.part = Len(x.parts) - 1
    BY <1>5, <2>2 DEF Last
  <2>4. p \in Nat
    BY <1>11, CoordinatorAssumption DEF CoordinatorAssumption
  <2>5. p <= Len(x.parts) - 1
    <3>1. \/ n < x.seq
          \/ TrackEdge(t).part = NoPart \/ p <= TrackEdge(t).part
      BY <1>9 DEF ReadyFor
    <3>2. n \in Int
      BY CoordinatorAssumption DEF CoordinatorAssumption
    <3>3. TrackEdge(t).part = Len(x.parts) - 1
      BY <1>9, <2>1, <2>3
    <3>4. Len(x.parts) - 1 # NoPart
      BY <2>2 DEF NoPart
    <3> QED
      BY <1>11, <3>1, <3>2, <3>3, <3>4
  <2>6. p + 1 \in 1 .. Len(x.parts) /\ (p + 1) - 1 = p
    BY <2>2, <2>4, <2>5
  <2>7. PartNumbers(x) = [i \in 1 .. Len(x.parts) |-> i - 1]
    BY <1>5, <2>2 DEF PartNumbers
  <2>8. p \in ToSet(e.parts)
    BY <1>8, <1>11, <2>6, <2>7 DEF ToSet
  <2> QED
    BY <1>7, <1>8, <1>11, <2>8
<1>12. n < x.seq \/ n = x.seq
  BY <1>9 DEF ReadyFor
<1> QED
  BY <1>7, <1>8, <1>10, <1>11, <1>12

\* Whoever asked for a position and is not held finds it in the playlist, or
\* finds that the playlist has gone past it.
THEOREM ReadyAlwaysMeansListed == PlaylistSpec => []ReadyMeansListed
BY PlaylistInvariance, CursorReadyListed, PTL

=============================================================================
