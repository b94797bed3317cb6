--------------------------- MODULE PathScope_proofs ---------------------------
(***************************************************************************)
(* Proofs about PathScope, for every path and pattern, every tier limit    *)
(* and every set of links: what canonicalize_path and the segment matcher  *)
(* compute, and that calls stay inside what the capsule grants.            *)
(***************************************************************************)
EXTENDS PathScope, FiniteSetTheorems, SequenceTheorems, WellFoundedInduction, TLAPS

Paths == Seq(Segments)

-----------------------------------------------------------------------------
\* Induction up to a number, over the set of the numbers that have a property.

LEMMA LeastNumber ==
    ASSUME NEW T, T \subseteq Nat, T # {}
    PROVE  \E n \in T : \A k \in T : n <= k
<1>1. \E n \in T : \A k \in T : ~(<<k, n>> \in OpToRel(<, Nat))
  BY NatLessThanWellFounded, WFMin
<1>2. PICK n \in T : \A k \in T : ~(<<k, n>> \in OpToRel(<, Nat))
  BY <1>1
<1>3. \A k \in T : ~(k < n)
  BY <1>2 DEF OpToRel
<1> QED
  BY <1>3

LEMMA UpTo ==
    ASSUME NEW n \in Nat, NEW T, 0 \in T, \A k \in 0..n - 1 : k \in T => k + 1 \in T
    PROVE  \A k \in 0..n : k \in T
<1> DEFINE missing == {k \in 0..n : k \notin T}
<1> SUFFICES ASSUME missing # {} PROVE FALSE
  OBVIOUS
<1>1. missing \subseteq Nat
  OBVIOUS
<1>2. \E m \in missing : \A k \in missing : m <= k
  <2> HIDE DEF missing
  <2> QED
    BY <1>1, LeastNumber
<1>3. PICK m \in missing : \A k \in missing : m <= k
  BY <1>2
<1>4. m - 1 \in 0..n - 1 /\ m - 1 \notin missing
  BY <1>3
<1> QED
  BY <1>3, <1>4

-----------------------------------------------------------------------------
\* canonicalize_path and Path.resolve, a segment at a time.

LEMMA AppendPath ==
    ASSUME NEW place \in Paths, NEW seg \in Segments
    PROVE  /\ Append(place, seg) \in Paths /\ Len(Append(place, seg)) = Len(place) + 1
           /\ Append(place, seg)[Len(place) + 1] = seg
           /\ \A i \in 1..Len(place) : Append(place, seg)[i] = place[i]
<1> DEFINE s == Append(place, seg)
<1>1. s \in Paths
  BY DEF Paths
<1>2. Len(s) = Len(place) + 1
  BY DEF Paths
<1>3. s[Len(place) + 1] = seg
  BY DEF Paths
<1>4. \A i \in 1..Len(place) : s[i] = place[i]
  BY DEF Paths
<1> QED
  BY <1>1, <1>2, <1>3, <1>4

LEMMA FrontPath ==
    ASSUME NEW place \in Paths, place # <<>>
    PROVE  /\ Len(place) \in Nat \ {0} /\ Last(place) = place[Len(place)]
           /\ Front(place) \in Paths /\ Len(Front(place)) = Len(place) - 1
           /\ \A i \in 1..Len(place) - 1 : Front(place)[i] = place[i]
<1> DEFINE s == SubSeq(place, 1, Len(place) - 1)
<1>1. Len(place) \in Nat \ {0}
  BY DEF Paths
<1>2. /\ s \in Seq(Segments)
      /\ Len(s) = IF 1 <= Len(place) - 1 THEN (Len(place) - 1) - 1 + 1 ELSE 0
      /\ \A i \in 1..(Len(place) - 1) - 1 + 1 : s[i] = place[1 + i - 1]
  BY <1>1, SubSeqProperties DEF Paths
<1> HIDE DEF s
<1>3. s \in Paths /\ Len(s) = Len(place) - 1
  <2>1. CASE Len(place) = 1
    BY <1>2, <2>1 DEF Paths
  <2>2. CASE Len(place) # 1
    <3>1. 1 <= Len(place) - 1 /\ (Len(place) - 1) - 1 + 1 = Len(place) - 1
      BY <1>1, <2>2
    <3> QED
      BY <1>2, <3>1 DEF Paths
  <2> QED
    BY <2>1, <2>2
<1>4. \A i \in 1..Len(place) - 1 : s[i] = place[i]
  BY <1>1, <1>2
<1> QED
  BY <1>1, <1>3, <1>4 DEF Front, Last, s

GoodLinks(links) == \A p \in DOMAIN links : IsPlace(links[p])

LEMMA NoLinksAreGood == GoodLinks(NoLinks) /\ DOMAIN NoLinks = {}
  BY DEF GoodLinks, NoLinks

LEMMA LinksAreGood == GoodLinks(Links)
  BY PathScopeAssumption DEF GoodLinks

\* A place stays a place.
LEMMA EnterPlace ==
    ASSUME NEW place, IsPlace(place), NEW seg \in Segments, NEW links, GoodLinks(links)
    PROVE  IsPlace(Enter(place, seg, links)) /\ Enter(place, seg, links) \in Paths
<1>1. place \in Paths
  BY DEF IsPlace, Paths
<1>2. CASE seg \in {"", "."}
  BY <1>1, <1>2 DEF Enter
<1>3. CASE seg \notin {"", "."} /\ seg = ".." /\ place # <<>> /\ Last(place) # ".."
  <2>1. Enter(place, seg, links) = Front(place)
    BY <1>3 DEF Enter
  <2>2. /\ Len(place) \in Nat \ {0} /\ Front(place) \in Paths
        /\ Len(Front(place)) = Len(place) - 1
        /\ \A i \in 1..Len(place) - 1 : Front(place)[i] = place[i]
    BY <1>1, <1>3, FrontPath
  <2>3. DOMAIN Front(place) = 1..Len(place) - 1 /\ DOMAIN place = 1..Len(place)
    BY <1>1, <2>2 DEF Paths
  <2>4. ASSUME NEW i \in DOMAIN Front(place)
        PROVE  /\ Front(place)[i] \notin {"", "."}
               /\ Front(place)[i] = ".." => i = 1 \/ Front(place)[i - 1] = ".."
    <3>1. i \in 1..Len(place) - 1 /\ i \in DOMAIN place
          /\ (i = 1 \/ i - 1 \in 1..Len(place) - 1)
      BY <2>2, <2>3
    <3>2. Front(place)[i] = place[i] /\ (i = 1 \/ Front(place)[i - 1] = place[i - 1])
      BY <2>2, <3>1
    <3> QED
      BY <3>1, <3>2 DEF IsPlace
  <2> QED
    BY <2>1, <2>2, <2>4 DEF IsPlace, Paths
<1>4. CASE seg \notin {"", "."} /\ ~(seg = ".." /\ place # <<>> /\ Last(place) # "..")
  <2> DEFINE next == Append(place, seg)
  <2>1. Enter(place, seg, links) = IF next \in DOMAIN links THEN links[next] ELSE next
    BY <1>4 DEF Enter
  <2>2. IsPlace(next)
    <3>1. next \in Paths /\ Len(next) = Len(place) + 1 /\ next[Len(place) + 1] = seg
          /\ \A i \in 1..Len(place) : next[i] = place[i]
      BY <1>1, AppendPath
    <3>2. seg = ".." => place = <<>> \/ place[Len(place)] = ".."
      BY <1>1, <1>4, FrontPath
    <3>3. Len(place) \in Nat /\ (place = <<>> => Len(place) = 0)
      BY <1>1 DEF Paths
    <3> HIDE DEF next
    <3>4. ASSUME NEW i \in DOMAIN next
          PROVE  next[i] \notin {"", "."} /\ (next[i] = ".." => i = 1 \/ next[i - 1] = "..")
      <4>1. i \in 1..Len(place) + 1
        BY <3>1, <3>3 DEF Paths
      <4>2. CASE i = Len(place) + 1
        <5>1. next[i] = seg /\ seg \notin {"", "."}
          BY <1>4, <3>1, <4>2
        <5>2. CASE place = <<>>
          <6>1. i = 1
            BY <3>3, <4>2, <5>2
          <6> QED
            BY <5>1, <6>1
        <5>3. CASE place # <<>>
          <6>1. Len(place) \in 1..Len(place) /\ i - 1 = Len(place)
            BY <1>1, <3>3, <4>2, <5>3, FrontPath
          <6> QED
            BY <3>1, <3>2, <5>1, <5>3, <6>1
        <5> QED
          BY <5>2, <5>3
      <4>3. CASE i # Len(place) + 1
        <5>1. i \in 1..Len(place) /\ (i = 1 \/ i - 1 \in 1..Len(place)) /\ i \in DOMAIN place
          BY <1>1, <3>3, <4>1, <4>3 DEF Paths
        <5> QED
          BY <3>1, <5>1 DEF IsPlace
      <4> QED
        BY <4>2, <4>3
    <3> QED
      BY <3>1, <3>4 DEF IsPlace, Paths
  <2>3. IsPlace(Enter(place, seg, links))
    BY <2>1, <2>2 DEF GoodLinks
  <2> QED
    BY <2>3 DEF IsPlace, Paths
<1> QED
  BY <1>2, <1>3, <1>4

\* The places on the way of a walk.
Steps(g, raw, links) ==
    /\ g[0] = <<>>
    /\ \A n \in 1..Len(raw) : g[n] = Enter(g[n - 1], raw[n], links)

LEMMA StepsArePlaces ==
    ASSUME NEW raw \in Paths, NEW links, GoodLinks(links), NEW g, Steps(g, raw, links)
    PROVE  \A n \in 0..Len(raw) : IsPlace(g[n])
<1> DEFINE T == {n \in 0..Len(raw) : IsPlace(g[n])}
<1>1. Len(raw) \in Nat /\ \A n \in 1..Len(raw) : raw[n] \in Segments
  BY DEF Paths
<1>2. 0 \in T
  <2>1. IsPlace(<<>>)
    BY DEF IsPlace
  <2> QED
    BY <1>1, <2>1 DEF Steps
<1>3. ASSUME NEW n \in 0..Len(raw) - 1, n \in T
      PROVE  n + 1 \in T
  <2>1. n + 1 \in 1..Len(raw) /\ (n + 1) - 1 = n /\ n + 1 \in 0..Len(raw)
    BY <1>1
  <2>2. g[n + 1] = Enter(g[n], raw[n + 1], links) /\ raw[n + 1] \in Segments
    BY <1>1, <2>1 DEF Steps
  <2> QED
    BY <1>3, <2>1, <2>2, EnterPlace
<1>4. \A n \in 0..Len(raw) : n \in T
  <2> HIDE DEF T
  <2> QED
    BY <1>1, <1>2, <1>3, UpTo
<1> QED
  BY <1>4

\* The recursion has a solution.
LEMMA StepsExist ==
    ASSUME NEW raw \in Paths, NEW links
    PROVE  \E g : g = [n \in 0..Len(raw) |->
                          IF n = 0 THEN <<>> ELSE Enter(g[n - 1], raw[n], links)]
<1> DEFINE Solves(g, k) == g = [n \in 0..k |->
                                   IF n = 0 THEN <<>> ELSE Enter(g[n - 1], raw[n], links)]
           T == {k \in 0..Len(raw) : \E g : Solves(g, k)}
<1>1. Len(raw) \in Nat
  BY DEF Paths
<1>2. 0 \in T
  <2>1. Solves([n \in 0..0 |-> <<>>], 0)
    OBVIOUS
  <2> HIDE DEF Solves
  <2>2. \E g : Solves(g, 0)
    BY <2>1
  <2> QED
    BY <1>1, <2>2
<1>3. ASSUME NEW k \in 0..Len(raw) - 1, k \in T
      PROVE  k + 1 \in T
  <2>1. PICK g : Solves(g, k)
    BY <1>3
  <2> DEFINE last == Enter(g[k], raw[k + 1], links)
             h == [n \in 0..k + 1 |-> IF n = k + 1 THEN last ELSE g[n]]
  <2>2. ASSUME NEW n \in 0..k + 1
        PROVE  h[n] = IF n = 0 THEN <<>> ELSE Enter(h[n - 1], raw[n], links)
    <3>1. CASE n = k + 1
      <4>1. h[n] = last /\ h[n - 1] = g[k] /\ n # 0
        BY <3>1
      <4> QED
        BY <3>1, <4>1
    <3>2. CASE n # k + 1
      <4>1. n \in 0..k /\ h[n] = g[n] /\ (n # 0 => h[n - 1] = g[n - 1])
        BY <3>2
      <4>2. g[n] = IF n = 0 THEN <<>> ELSE Enter(g[n - 1], raw[n], links)
        BY <2>1, <4>1
      <4> QED
        BY <4>1, <4>2
    <3> QED
      BY <3>1, <3>2
  <2>3. Solves(h, k + 1)
    BY <2>2
  <2> HIDE DEF Solves
  <2>4. \E f : Solves(f, k + 1)
    BY <2>3
  <2> QED
    BY <1>1, <2>4
<1>4. \A k \in 0..Len(raw) : k \in T
  <2> HIDE DEF T
  <2> QED
    BY <1>1, <1>2, <1>3, UpTo
<1> QED
  BY <1>1, <1>4

LEMMA WalkSteps ==
    ASSUME NEW raw \in Paths, NEW links, GoodLinks(links)
    PROVE  \E g : Steps(g, raw, links) /\ Walk(raw, links) = g[Len(raw)]
<1> DEFINE Solves(g) == g = [n \in 0..Len(raw) |->
                                IF n = 0 THEN <<>> ELSE Enter(g[n - 1], raw[n], links)]
           w == CHOOSE g : Solves(g)
<1>1. \E g : Solves(g)
  BY StepsExist
<1>2. Solves(w)
  <2> HIDE DEF Solves
  <2> QED
    BY <1>1
<1>3. Walk(raw, links) = w[Len(raw)]
  BY DEF Walk
<1>4. Steps(w, raw, links)
  <2>1. Len(raw) \in Nat
    BY DEF Paths
  <2> HIDE DEF w
  <2> QED
    BY <1>2, <2>1 DEF Steps
<1> QED
  BY <1>3, <1>4

\* canonicalize_path is a walk in a tree without links.
LEMMA CanonicalSteps ==
    ASSUME NEW raw \in Paths
    PROVE  \E g : Steps(g, raw, NoLinks) /\ Canonical(raw) = g[Len(raw)]
<1> DEFINE Solves(g) == g = [n \in 0..Len(raw) |->
                                IF n = 0 THEN <<>> ELSE Collapse(g[n - 1], raw[n])]
           w == CHOOSE g : Solves(g)
<1>1. \A place, seg : Collapse(place, seg) = Enter(place, seg, NoLinks)
  BY NoLinksAreGood DEF Collapse, Enter
<1>2. \E g : Solves(g)
  <2>1. PICK g : g = [n \in 0..Len(raw) |->
                         IF n = 0 THEN <<>> ELSE Enter(g[n - 1], raw[n], NoLinks)]
    BY StepsExist, NoLinksAreGood
  <2>2. Solves(g)
    BY <1>1, <2>1
  <2> QED
    BY <2>2
<1>3. Solves(w)
  <2> HIDE DEF Solves
  <2> QED
    BY <1>2
<1>4. Canonical(raw) = w[Len(raw)]
  BY DEF Canonical
<1>5. Steps(w, raw, NoLinks)
  <2>1. Len(raw) \in Nat
    BY DEF Paths
  <2> HIDE DEF w
  <2> QED
    BY <1>1, <1>3, <2>1 DEF Steps
<1> QED
  BY <1>4, <1>5
-----------------------------------------------------------------------------
\* The segment matcher computes what can be said without recursion: the name can be cut
\* into pieces, one for each segment of the pattern.  `least` is the number of segments
\* that "**" takes at least: none for Python, one for Rego.

Piece(least, seg, name, i, j) ==
    IF seg = "**" THEN i + least <= j ELSE j = i + 1 /\ Fnmatch(name[j], seg)

\* The name from pi on can be cut for the pattern from qi on.
Rest(least, name, glob, qi, pi) ==
    \E cut \in [qi - 1..Len(glob) -> 0..Len(name)] :
        /\ cut[qi - 1] = pi - 1 /\ cut[Len(glob)] = Len(name)
        /\ \A j \in qi..Len(glob) : Piece(least, glob[j], name, cut[j - 1], cut[j])

LEMMA RestEnd ==
    ASSUME NEW least, NEW name, NEW glob, Len(name) \in Nat, Len(glob) \in Nat,
           NEW pi \in 1..Len(name) + 1
    PROVE  Rest(least, name, glob, Len(glob) + 1, pi) <=> pi = Len(name) + 1
<1> DEFINE n == Len(glob)
<1>1. ASSUME Rest(least, name, glob, n + 1, pi)
      PROVE  pi = Len(name) + 1
  <2>1. PICK cut \in [n + 1 - 1..n -> 0..Len(name)] : cut[n + 1 - 1] = pi - 1 /\ cut[n] = Len(name)
    BY <1>1 DEF Rest
  <2>2. n + 1 - 1 = n
    OBVIOUS
  <2> QED
    BY <2>1, <2>2
<1>2. ASSUME pi = Len(name) + 1
      PROVE  Rest(least, name, glob, n + 1, pi)
  <2> DEFINE cut == [j \in n + 1 - 1..n |-> Len(name)]
  <2>1. n + 1 - 1 = n /\ n + 1..n = {}
    OBVIOUS
  <2>2. /\ cut \in [n + 1 - 1..n -> 0..Len(name)]
        /\ cut[n + 1 - 1] = pi - 1 /\ cut[n] = Len(name)
    BY <1>2, <2>1
  <2>3. \A j \in n + 1..n : Piece(least, glob[j], name, cut[j - 1], cut[j])
    BY <2>1
  <2> HIDE DEF cut
  <2> QED
    BY <2>2, <2>3 DEF Rest
<1> QED
  BY <1>1, <1>2

LEMMA RestStep ==
    ASSUME NEW least, NEW name, NEW glob, Len(name) \in Nat, Len(glob) \in Nat,
           NEW qi \in 1..Len(glob), NEW pi \in 1..Len(name) + 1
    PROVE  Rest(least, name, glob, qi, pi) <=>
               \E i \in 1..Len(name) + 1 :
                   Piece(least, glob[qi], name, pi - 1, i - 1) /\ Rest(least, name, glob, qi + 1, i)
<1> DEFINE n == Len(glob)
<1>0. qi + 1 - 1 = qi /\ qi \in qi - 1..n /\ qi \in qi..n
  OBVIOUS
<1>1. ASSUME Rest(least, name, glob, qi, pi)
      PROVE  \E i \in 1..Len(name) + 1 :
                 Piece(least, glob[qi], name, pi - 1, i - 1) /\ Rest(least, name, glob, qi + 1, i)
  <2>1. PICK cut \in [qi - 1..n -> 0..Len(name)] :
            /\ cut[qi - 1] = pi - 1 /\ cut[n] = Len(name)
            /\ \A j \in qi..n : Piece(least, glob[j], name, cut[j - 1], cut[j])
    BY <1>1 DEF Rest
  <2> DEFINE i == cut[qi] + 1
             tail == [j \in qi + 1 - 1..n |-> cut[j]]
  <2>2. cut[qi] \in 0..Len(name) /\ i \in 1..Len(name) + 1 /\ i - 1 = cut[qi]
    <3>1. cut[qi] \in 0..Len(name)
      BY <1>0, <2>1
    <3> QED
      BY <3>1
  <2>3. Piece(least, glob[qi], name, pi - 1, i - 1)
    BY <1>0, <2>1, <2>2
  <2>4. tail \in [qi + 1 - 1..n -> 0..Len(name)]
    BY <1>0, <2>1
  <2>5. tail[qi + 1 - 1] = i - 1 /\ tail[n] = Len(name)
    BY <1>0, <2>1, <2>2
  <2>6. ASSUME NEW j \in qi + 1..n
        PROVE  Piece(least, glob[j], name, tail[j - 1], tail[j])
    <3>1. j \in qi..n /\ tail[j] = cut[j] /\ tail[j - 1] = cut[j - 1]
      BY <1>0
    <3> QED
      BY <2>1, <3>1
  <2> HIDE DEF tail, i
  <2>7. Rest(least, name, glob, qi + 1, i)
    BY <2>4, <2>5, <2>6 DEF Rest
  <2> QED
    BY <2>2, <2>3, <2>7
<1>2. ASSUME NEW i \in 1..Len(name) + 1, Piece(least, glob[qi], name, pi - 1, i - 1),
             Rest(least, name, glob, qi + 1, i)
      PROVE  Rest(least, name, glob, qi, pi)
  <2>1. PICK tail \in [qi + 1 - 1..n -> 0..Len(name)] :
            /\ tail[qi + 1 - 1] = i - 1 /\ tail[n] = Len(name)
            /\ \A j \in qi + 1..n : Piece(least, glob[j], name, tail[j - 1], tail[j])
    <3>1. Rest(least, name, glob, qi + 1, i)
      BY <1>2
    <3> QED
      BY <3>1 DEF Rest
  <2> DEFINE cut == [j \in qi - 1..n |-> IF j = qi - 1 THEN pi - 1 ELSE tail[j]]
  <2>2. cut \in [qi - 1..n -> 0..Len(name)]
    <3> SUFFICES ASSUME NEW j \in qi - 1..n PROVE cut[j] \in 0..Len(name)
      OBVIOUS
    <3>1. j # qi - 1 => j \in qi + 1 - 1..n
      OBVIOUS
    <3> QED
      BY <2>1, <3>1
  <2>3. cut[qi - 1] = pi - 1 /\ cut[n] = Len(name)
    BY <1>0, <2>1
  <2>4. ASSUME NEW j \in qi..n
        PROVE  Piece(least, glob[j], name, cut[j - 1], cut[j])
    <3>1. CASE j = qi
      <4>1. cut[j] = i - 1 /\ cut[j - 1] = pi - 1
        BY <1>0, <2>1, <3>1
      <4> QED
        BY <1>2, <3>1, <4>1
    <3>2. CASE j # qi
      <4>1. j \in qi + 1..n /\ cut[j] = tail[j] /\ cut[j - 1] = tail[j - 1]
        BY <3>2
      <4> QED
        BY <2>1, <4>1
    <3> QED
      BY <3>1, <3>2
  <2> HIDE DEF cut
  <2> QED
    BY <2>2, <2>3, <2>4 DEF Rest
<1> QED
  BY <1>1, <1>2

\* The sets of positions that the matcher works out are those of Rest, and no others.
Positions(least, name, glob, qi) ==
    {pi \in 1..Len(name) + 1 : Rest(least, name, glob, qi, pi)}

Column(least, name, glob, qi, next) ==
    IF qi > Len(glob) THEN {Len(name) + 1}
    ELSE {pi \in 1..Len(name) + 1 :
             \E i \in 1..Len(name) + 1 : Piece(least, glob[qi], name, pi - 1, i - 1) /\ i \in next}

LEMMA ColumnOfPositions ==
    ASSUME NEW least, NEW name, NEW glob, Len(name) \in Nat, Len(glob) \in Nat,
           NEW qi \in 1..Len(glob) + 1
    PROVE  Positions(least, name, glob, qi)
               = Column(least, name, glob, qi, Positions(least, name, glob, qi + 1))
<1>1. CASE qi = Len(glob) + 1
  <2>1. \A pi \in 1..Len(name) + 1 : Rest(least, name, glob, qi, pi) <=> pi = Len(name) + 1
    BY <1>1, RestEnd
  <2>2. Positions(least, name, glob, qi) = {Len(name) + 1}
    <3>1. Len(name) + 1 \in 1..Len(name) + 1
      OBVIOUS
    <3> QED
      BY <2>1, <3>1 DEF Positions
  <2>3. qi > Len(glob)
    BY <1>1
  <2> QED
    BY <2>2, <2>3 DEF Column
<1>2. CASE qi # Len(glob) + 1
  <2>1. qi \in 1..Len(glob) /\ ~(qi > Len(glob))
    BY <1>2
  <2>2. \A pi \in 1..Len(name) + 1 :
            Rest(least, name, glob, qi, pi) <=>
                \E i \in 1..Len(name) + 1 :
                   Piece(least, glob[qi], name, pi - 1, i - 1) /\ Rest(least, name, glob, qi + 1, i)
    BY <2>1, RestStep
  <2> QED
    BY <2>1, <2>2 DEF Positions, Column
<1> QED
  BY <1>1, <1>2

LEMMA PositionsUnique ==
    ASSUME NEW least, NEW name, NEW glob, Len(name) \in Nat, Len(glob) \in Nat, NEW from,
           \A qi \in 1..Len(glob) + 1 : from[qi] = Column(least, name, glob, qi, from[qi + 1])
    PROVE  \A qi \in 1..Len(glob) + 1 : from[qi] = Positions(least, name, glob, qi)
<1> DEFINE n == Len(glob)
           T == {k \in 0..n : from[n + 1 - k] = Positions(least, name, glob, n + 1 - k)}
<1>1. 0 \in T
  <2>1. n + 1 - 0 = n + 1 /\ n + 1 \in 1..n + 1 /\ n + 1 > n
    OBVIOUS
  <2>2. \A next : Column(least, name, glob, n + 1, next) = {Len(name) + 1}
    BY <2>1 DEF Column
  <2>3. Positions(least, name, glob, n + 1)
            = Column(least, name, glob, n + 1, Positions(least, name, glob, n + 1 + 1))
    BY <2>1, ColumnOfPositions
  <2>4. from[n + 1] = Positions(least, name, glob, n + 1)
    BY <2>1, <2>2, <2>3
  <2> QED
    BY <2>1, <2>4
<1>2. ASSUME NEW k \in 0..n - 1, k \in T
      PROVE  k + 1 \in T
  <2> DEFINE qi == n + 1 - (k + 1)
  <2>1. qi \in 1..n + 1 /\ qi + 1 = n + 1 - k /\ k + 1 \in 0..n
    OBVIOUS
  <2>2. from[qi + 1] = Positions(least, name, glob, qi + 1)
    BY <1>2, <2>1
  <2> HIDE DEF qi
  <2>3. from[qi] = Positions(least, name, glob, qi)
    BY <2>1, <2>2, ColumnOfPositions
  <2> QED
    BY <2>1, <2>3 DEF qi
<1>3. \A k \in 0..n : k \in T
  <2> HIDE DEF T
  <2> QED
    BY <1>1, <1>2, UpTo
<1> SUFFICES ASSUME NEW qi \in 1..n + 1
             PROVE  from[qi] = Positions(least, name, glob, qi)
  OBVIOUS
<1>4. n + 1 - qi \in 0..n /\ n + 1 - (n + 1 - qi) = qi
  OBVIOUS
<1> QED
  BY <1>3, <1>4
\* What the matcher's definitions say of one segment of the pattern.
LEMMA ColumnOfMatchParts ==
    ASSUME NEW name, NEW glob, Len(name) \in Nat, Len(glob) \in Nat,
           NEW qi \in 1..Len(glob) + 1, NEW next
    PROVE  (IF qi > Len(glob) THEN {Len(name) + 1}
            ELSE IF glob[qi] = "**"
            THEN {pi \in 1..Len(name) + 1 : \E i \in pi..Len(name) + 1 : i \in next}
            ELSE {pi \in 1..Len(name) : Fnmatch(name[pi], glob[qi]) /\ pi + 1 \in next})
               = Column(0, name, glob, qi, next)
<1>1. CASE qi > Len(glob)
  BY <1>1 DEF Column
<1>2. CASE ~(qi > Len(glob)) /\ glob[qi] = "**"
  <2>1. {pi \in 1..Len(name) + 1 : \E i \in pi..Len(name) + 1 : i \in next}
            = {pi \in 1..Len(name) + 1 :
                  \E i \in 1..Len(name) + 1 : pi - 1 + 0 <= i - 1 /\ i \in next}
    OBVIOUS
  <2> QED
    BY <1>2, <2>1 DEF Column, Piece
<1>3. CASE ~(qi > Len(glob)) /\ glob[qi] # "**"
  <2> DEFINE fits(k) == Fnmatch(name[k], glob[qi])
  <2> HIDE DEF fits
  <2>1. {pi \in 1..Len(name) : fits(pi) /\ pi + 1 \in next}
            = {pi \in 1..Len(name) + 1 :
                  \E i \in 1..Len(name) + 1 : (i - 1 = pi - 1 + 1 /\ fits(i - 1)) /\ i \in next}
    <3>1. ASSUME NEW pi \in 1..Len(name) + 1
          PROVE  (pi \in 1..Len(name) /\ fits(pi) /\ pi + 1 \in next)
                     <=> \E i \in 1..Len(name) + 1 :
                             (i - 1 = pi - 1 + 1 /\ fits(i - 1)) /\ i \in next
      <4>1. ASSUME pi \in 1..Len(name), fits(pi), pi + 1 \in next
            PROVE  \E i \in 1..Len(name) + 1 :
                       (i - 1 = pi - 1 + 1 /\ fits(i - 1)) /\ i \in next
        <5>1. pi + 1 \in 1..Len(name) + 1 /\ (pi + 1) - 1 = pi /\ (pi + 1) - 1 = pi - 1 + 1
          BY <4>1
        <5> QED
          BY <4>1, <5>1
      <4>2. ASSUME NEW i \in 1..Len(name) + 1, i - 1 = pi - 1 + 1, fits(i - 1), i \in next
            PROVE  pi \in 1..Len(name) /\ fits(pi) /\ pi + 1 \in next
        <5>1. i = pi + 1 /\ i - 1 = pi /\ pi \in 1..Len(name)
          BY <4>2
        <5> QED
          BY <4>2, <5>1
      <4> QED
        BY <4>1, <4>2
    <3>2. 1..Len(name) \subseteq 1..Len(name) + 1
      OBVIOUS
    <3> QED
      BY <3>1, <3>2
  <2> QED
    BY <1>3, <2>1 DEF Column, Piece, fits
<1> QED
  BY <1>1, <1>2, <1>3

LEMMA ColumnOfMatchNonEmpty ==
    ASSUME NEW name, NEW glob, Len(name) \in Nat, Len(glob) \in Nat,
           NEW qi \in 1..Len(glob) + 1, NEW next
    PROVE  (IF qi > Len(glob) THEN {Len(name) + 1}
            ELSE IF glob[qi] = "**"
            THEN {pi \in 1..Len(name) + 1 : \E i \in pi + 1..Len(name) + 1 : i \in next}
            ELSE {pi \in 1..Len(name) : Fnmatch(name[pi], glob[qi]) /\ pi + 1 \in next})
               = Column(1, name, glob, qi, next)
<1>1. CASE qi > Len(glob)
  BY <1>1 DEF Column
<1>2. CASE ~(qi > Len(glob)) /\ glob[qi] = "**"
  <2>1. {pi \in 1..Len(name) + 1 : \E i \in pi + 1..Len(name) + 1 : i \in next}
            = {pi \in 1..Len(name) + 1 :
                  \E i \in 1..Len(name) + 1 : pi - 1 + 1 <= i - 1 /\ i \in next}
    OBVIOUS
  <2> QED
    BY <1>2, <2>1 DEF Column, Piece
<1>3. CASE ~(qi > Len(glob)) /\ glob[qi] # "**"
  <2>1. {pi \in 1..Len(name) : Fnmatch(name[pi], glob[qi]) /\ pi + 1 \in next}
            = Column(0, name, glob, qi, next)
    BY <1>3, ColumnOfMatchParts
  <2>2. Column(0, name, glob, qi, next) = Column(1, name, glob, qi, next)
    BY <1>3 DEF Column, Piece
  <2> QED
    BY <1>3, <2>1, <2>2
<1> QED
  BY <1>1, <1>2, <1>3

Columns(f, least, name, glob) ==
    f = [qi \in 1..Len(glob) + 1 |-> Column(least, name, glob, qi, f[qi + 1])]

LEMMA ColumnsExist ==
    ASSUME NEW least, NEW name, NEW glob, Len(name) \in Nat, Len(glob) \in Nat
    PROVE  \E f : Columns(f, least, name, glob)
<1> DEFINE n == Len(glob)
           f == [qi \in 1..n + 1 |-> Positions(least, name, glob, qi)]
<1>1. ASSUME NEW qi \in 1..n + 1
      PROVE  Column(least, name, glob, qi, f[qi + 1]) = Positions(least, name, glob, qi)
  <2>1. Positions(least, name, glob, qi)
            = Column(least, name, glob, qi, Positions(least, name, glob, qi + 1))
    BY ColumnOfPositions
  <2>2. CASE qi = n + 1
    <3>1. qi > Len(glob)
      BY <2>2
    <3> QED
      BY <2>1, <3>1 DEF Column
  <2>3. CASE qi # n + 1
    <3>1. qi + 1 \in 1..n + 1
      BY <2>3
    <3>2. f[qi + 1] = Positions(least, name, glob, qi + 1)
      BY <3>1
    <3> QED
      BY <2>1, <3>2
  <2> QED
    BY <2>2, <2>3
<1>2. Columns(f, least, name, glob)
  BY <1>1 DEF Columns
<1> HIDE DEF f
<1> QED
  BY <1>2

LEMMA FirstColumn ==
    ASSUME NEW least, NEW name, NEW glob, Len(name) \in Nat, Len(glob) \in Nat, NEW f,
           Columns(f, least, name, glob)
    PROVE  1 \in f[1] <=> Rest(least, name, glob, 1, 1)
<1>1. \A qi \in 1..Len(glob) + 1 : f[qi] = Column(least, name, glob, qi, f[qi + 1])
  BY DEF Columns
<1>2. \A qi \in 1..Len(glob) + 1 : f[qi] = Positions(least, name, glob, qi)
  BY <1>1, PositionsUnique
<1>3. 1 \in 1..Len(glob) + 1 /\ 1 \in 1..Len(name) + 1
  OBVIOUS
<1>4. 1 \in Positions(least, name, glob, 1) <=> Rest(least, name, glob, 1, 1)
  BY <1>3 DEF Positions
<1> QED
  BY <1>2, <1>3, <1>4

LEMMA MatchPartsIs ==
    ASSUME NEW name, NEW glob, Len(name) \in Nat, Len(glob) \in Nat
    PROVE  MatchParts(name, glob) <=> Rest(0, name, glob, 1, 1)
<1> DEFINE body(qi, next) ==
               IF qi > Len(glob) THEN {Len(name) + 1}
               ELSE IF glob[qi] = "**"
               THEN {pi \in 1..Len(name) + 1 : \E i \in pi..Len(name) + 1 : i \in next}
               ELSE {pi \in 1..Len(name) : Fnmatch(name[pi], glob[qi]) /\ pi + 1 \in next}
           Solves(f) == f = [qi \in 1..Len(glob) + 1 |-> body(qi, f[qi + 1])]
           w == CHOOSE f : Solves(f)
<1>1. MatchParts(name, glob) <=> 1 \in w[1]
  BY DEF MatchParts
<1>2. \A qi \in 1..Len(glob) + 1 : \A next : body(qi, next) = Column(0, name, glob, qi, next)
  BY ColumnOfMatchParts
<1> HIDE DEF body
<1>3. \A f : Solves(f) <=> Columns(f, 0, name, glob)
  BY <1>2 DEF Columns
<1> HIDE DEF Solves
<1>4. \E f : Solves(f)
  BY <1>3, ColumnsExist
<1>5. Solves(w)
  BY <1>4
<1> HIDE DEF w
<1>6. Columns(w, 0, name, glob)
  BY <1>3, <1>5
<1> QED
  BY <1>1, <1>6, FirstColumn

LEMMA MatchNonEmptyIs ==
    ASSUME NEW name, NEW glob, Len(name) \in Nat, Len(glob) \in Nat
    PROVE  MatchNonEmpty(name, glob) <=> Rest(1, name, glob, 1, 1)
<1> DEFINE body(qi, next) ==
               IF qi > Len(glob) THEN {Len(name) + 1}
               ELSE IF glob[qi] = "**"
               THEN {pi \in 1..Len(name) + 1 : \E i \in pi + 1..Len(name) + 1 : i \in next}
               ELSE {pi \in 1..Len(name) : Fnmatch(name[pi], glob[qi]) /\ pi + 1 \in next}
           Solves(f) == f = [qi \in 1..Len(glob) + 1 |-> body(qi, f[qi + 1])]
           w == CHOOSE f : Solves(f)
<1>1. MatchNonEmpty(name, glob) <=> 1 \in w[1]
  BY DEF MatchNonEmpty
<1>2. \A qi \in 1..Len(glob) + 1 : \A next : body(qi, next) = Column(1, name, glob, qi, next)
  BY ColumnOfMatchNonEmpty
<1> HIDE DEF body
<1>3. \A f : Solves(f) <=> Columns(f, 1, name, glob)
  BY <1>2 DEF Columns
<1> HIDE DEF Solves
<1>4. \E f : Solves(f)
  BY <1>3, ColumnsExist
<1>5. Solves(w)
  BY <1>4
<1> HIDE DEF w
<1>6. Columns(w, 1, name, glob)
  BY <1>3, <1>5
<1> QED
  BY <1>1, <1>6, FirstColumn
-----------------------------------------------------------------------------
\* The value of a walk is that of any way to take its steps.

LEMMA StepsAgree ==
    ASSUME NEW raw \in Paths, NEW links, NEW g, Steps(g, raw, links), NEW h, Steps(h, raw, links)
    PROVE  g[Len(raw)] = h[Len(raw)]
<1> DEFINE T == {n \in 0..Len(raw) : g[n] = h[n]}
<1>1. Len(raw) \in Nat
  BY DEF Paths
<1>2. 0 \in T
  BY <1>1 DEF Steps
<1>3. ASSUME NEW n \in 0..Len(raw) - 1, n \in T
      PROVE  n + 1 \in T
  <2>1. n + 1 \in 1..Len(raw) /\ (n + 1) - 1 = n /\ n + 1 \in 0..Len(raw)
    BY <1>1
  <2>2. g[n + 1] = Enter(g[n], raw[n + 1], links) /\ h[n + 1] = Enter(h[n], raw[n + 1], links)
    BY <2>1 DEF Steps
  <2> QED
    BY <1>3, <2>1, <2>2
<1>4. \A n \in 0..Len(raw) : n \in T
  <2> HIDE DEF T
  <2> QED
    BY <1>1, <1>2, <1>3, UpTo
<1> QED
  BY <1>1, <1>4

LEMMA CanonicalIs ==
    ASSUME NEW raw \in Paths, NEW g, Steps(g, raw, NoLinks)
    PROVE  Canonical(raw) = g[Len(raw)] /\ Walk(raw, NoLinks) = g[Len(raw)]
<1>1. Canonical(raw) = g[Len(raw)]
  BY CanonicalSteps, StepsAgree
<1>2. Walk(raw, NoLinks) = g[Len(raw)]
  BY WalkSteps, NoLinksAreGood, StepsAgree
<1> QED
  BY <1>1, <1>2

LEMMA WalkIsPlace ==
    ASSUME NEW raw \in Paths, NEW links, GoodLinks(links)
    PROVE  IsPlace(Walk(raw, links)) /\ Walk(raw, links) \in Paths
<1>1. PICK g : Steps(g, raw, links) /\ Walk(raw, links) = g[Len(raw)]
  BY WalkSteps
<1>2. Len(raw) \in 0..Len(raw)
  BY DEF Paths
<1>3. IsPlace(g[Len(raw)])
  BY <1>1, <1>2, StepsArePlaces
<1> QED
  BY <1>1, <1>3 DEF IsPlace, Paths

\* canonicalize_path yields the place that a path names, segments "" and "." left out and each
\* ".." taking back the segment before it, and nothing of the kind is left inside.
THEOREM CanonicalIsWalk ==
    ASSUME NEW raw \in Seq(Segments)
    PROVE  Canonical(raw) = Walk(raw, NoLinks) /\ IsPlace(Canonical(raw))
<1>1. raw \in Paths
  BY DEF Paths
<1>2. PICK g : Steps(g, raw, NoLinks)
  BY <1>1, CanonicalSteps
<1>3. Canonical(raw) = Walk(raw, NoLinks)
  BY <1>1, <1>2, CanonicalIs
<1> QED
  BY <1>1, <1>3, NoLinksAreGood, WalkIsPlace

\* A place climbs exactly if it begins with a climb.
LEMMA Climbs ==
    ASSUME NEW place, IsPlace(place)
    PROVE  Contains(place, "..") <=> IsOutside(place)
<1>1. place \in Paths /\ Len(place) \in Nat /\ DOMAIN place = 1..Len(place)
  <2>1. place \in Seq(Segments)
    BY DEF IsPlace
  <2> QED
    BY <2>1 DEF Paths
<1>2. ASSUME NEW i \in 1..Len(place), place[i] = ".."
      PROVE  IsOutside(place)
  <2> DEFINE T == {k \in 0..i - 1 : place[i - k] = ".."}
  <2>1. 0 \in T
    BY <1>1, <1>2
  <2>2. ASSUME NEW k \in 0..(i - 1) - 1, k \in T
        PROVE  k + 1 \in T
    <3>1. i - k \in DOMAIN place /\ i - k # 1 /\ (i - k) - 1 = i - (k + 1) /\ k + 1 \in 0..i - 1
      BY <1>1
    <3>2. place[i - k] = ".."
      BY <2>2
    <3>3. place[(i - k) - 1] = ".."
      BY <3>1, <3>2 DEF IsPlace
    <3> QED
      BY <3>1, <3>3
  <2>3. i - 1 \in Nat
    BY <1>1
  <2>4. \A k \in 0..i - 1 : k \in T
    <3> HIDE DEF T
    <3> QED
      BY <2>1, <2>2, <2>3, UpTo
  <2>5. i - 1 \in 0..i - 1 /\ i - (i - 1) = 1
    BY <1>1
  <2>6. place[1] = ".."
    BY <2>4, <2>5
  <2>7. place # <<>>
    BY <1>1, <1>2
  <2> QED
    BY <2>6, <2>7 DEF IsOutside
<1>3. ASSUME IsOutside(place)
      PROVE  1 \in 1..Len(place) /\ place[1] = ".."
  BY <1>1, <1>3 DEF IsOutside, Paths
<1> QED
  BY <1>2, <1>3 DEF Contains

-----------------------------------------------------------------------------
\* Paths without "..": canonicalize_path only drops segments.

Clean(path) == \A i \in 1..Len(path) : path[i] # ".."

LEMMA CleanStep ==
    ASSUME NEW raw \in Paths, Clean(raw), NEW g, Steps(g, raw, NoLinks), NEW n \in 1..Len(raw)
    PROVE  /\ raw[n] \in Segments /\ g[n - 1] \in Paths /\ g[n] \in Paths
           /\ raw[n] \in {"", "."} => g[n] = g[n - 1]
           /\ raw[n] \notin {"", "."} => g[n] = Append(g[n - 1], raw[n])
<1>1. n - 1 \in 0..Len(raw) /\ n \in 0..Len(raw) /\ raw[n] \in Segments
  BY DEF Paths
<1>2. g[n - 1] \in Paths /\ g[n] \in Paths
  <2>1. IsPlace(g[n - 1]) /\ IsPlace(g[n])
    BY <1>1, NoLinksAreGood, StepsArePlaces
  <2> QED
    BY <2>1 DEF IsPlace, Paths
<1>3. g[n] = Enter(g[n - 1], raw[n], NoLinks)
  BY DEF Steps
<1>4. raw[n] # ".."
  BY DEF Clean
<1> QED
  BY <1>1, <1>2, <1>3, <1>4, NoLinksAreGood DEF Enter

LEMMA PlaceIsCanonical ==
    ASSUME NEW place, IsPlace(place), Clean(place)
    PROVE  Canonical(place) = place
<1>1. place \in Paths /\ Len(place) \in Nat /\ DOMAIN place = 1..Len(place)
  <2>1. place \in Seq(Segments)
    BY DEF IsPlace
  <2> QED
    BY <2>1 DEF Paths
<1>2. PICK g : Steps(g, place, NoLinks) /\ Canonical(place) = g[Len(place)]
  BY <1>1, CanonicalSteps
<1> DEFINE T == {n \in 0..Len(place) :
                    g[n] \in Paths /\ Len(g[n]) = n /\ \A i \in 1..n : g[n][i] = place[i]}
<1>3. 0 \in T
  <2>1. g[0] = <<>>
    BY <1>2 DEF Steps
  <2>2. g[0] \in Paths /\ Len(g[0]) = 0
    BY <2>1 DEF Paths
  <2>3. 0 \in 0..Len(place) /\ 1..0 = {}
    BY <1>1
  <2> QED
    BY <2>2, <2>3
<1>4. ASSUME NEW n \in 0..Len(place) - 1, n \in T
      PROVE  n + 1 \in T
  <2>1. n + 1 \in 1..Len(place) /\ (n + 1) - 1 = n /\ n + 1 \in 0..Len(place)
    BY <1>1
  <2>2. place[n + 1] \notin {"", "."}
    BY <1>1, <2>1 DEF IsPlace
  <2>3. g[n + 1] = Append(g[n], place[n + 1]) /\ place[n + 1] \in Segments /\ g[n] \in Paths
    BY <1>1, <1>2, <2>1, <2>2, CleanStep
  <2>4. /\ Append(g[n], place[n + 1]) \in Paths
        /\ Len(Append(g[n], place[n + 1])) = n + 1
        /\ Append(g[n], place[n + 1])[n + 1] = place[n + 1]
        /\ \A i \in 1..n : Append(g[n], place[n + 1])[i] = g[n][i]
    BY <1>4, <2>3, AppendPath
  <2>5. \A i \in 1..n + 1 : i = n + 1 \/ i \in 1..n
    BY <1>1
  <2>6. \A i \in 1..n : g[n][i] = place[i]
    BY <1>4
  <2> HIDE DEF T
  <2>7. \A i \in 1..n + 1 : g[n + 1][i] = place[i]
    BY <2>3, <2>4, <2>5, <2>6
  <2> QED
    BY <2>1, <2>3, <2>4, <2>7 DEF T
<1>5. \A n \in 0..Len(place) : n \in T
  <2> HIDE DEF T
  <2> QED
    BY <1>1, <1>3, <1>4, UpTo
<1>6. Len(place) \in T
  BY <1>1, <1>5
<1> QED
  BY <1>1, <1>2, <1>6, SeqEqual DEF Paths
-----------------------------------------------------------------------------
\* What a pattern covers does not change when canonicalize_path drops segments of it.

\* The first n segments of the pattern cover the first k of the place.
CutTo(glob, place, n, k) ==
    \E cut \in [0..n -> 0..Len(place)] :
        /\ cut[0] = 0 /\ cut[n] = k
        /\ \A j \in 1..n : Takes(glob[j], place, cut[j - 1], cut[j])

LEMMA CoversIsCut ==
    ASSUME NEW glob, NEW place
    PROVE  Covers(glob, place) <=> CutTo(glob, place, Len(glob), Len(place))
  BY DEF Covers, CutTo

LEMMA CutToStep ==
    ASSUME NEW glob, NEW place, Len(place) \in Nat, NEW n \in Nat, NEW k \in 0..Len(place)
    PROVE  CutTo(glob, place, n + 1, k) <=>
               \E i \in 0..Len(place) : CutTo(glob, place, n, i) /\ Takes(glob[n + 1], place, i, k)
<1>1. ASSUME CutTo(glob, place, n + 1, k)
      PROVE  \E i \in 0..Len(place) :
                 CutTo(glob, place, n, i) /\ Takes(glob[n + 1], place, i, k)
  <2>1. PICK cut \in [0..n + 1 -> 0..Len(place)] :
            /\ cut[0] = 0 /\ cut[n + 1] = k
            /\ \A j \in 1..n + 1 : Takes(glob[j], place, cut[j - 1], cut[j])
    BY <1>1 DEF CutTo
  <2> DEFINE first == [j \in 0..n |-> cut[j]]
  <2>2. first \in [0..n -> 0..Len(place)] /\ first[0] = 0 /\ first[n] = cut[n]
    BY <2>1
  <2>3. ASSUME NEW j \in 1..n
        PROVE  Takes(glob[j], place, first[j - 1], first[j])
    <3>1. j \in 1..n + 1 /\ first[j] = cut[j] /\ first[j - 1] = cut[j - 1]
      OBVIOUS
    <3> QED
      BY <2>1, <3>1
  <2> HIDE DEF first
  <2>4. CutTo(glob, place, n, cut[n])
    BY <2>2, <2>3 DEF CutTo
  <2>5. n \in 0..n + 1 /\ n + 1 \in 1..n + 1 /\ (n + 1) - 1 = n
    OBVIOUS
  <2>6. cut[n] \in 0..Len(place) /\ Takes(glob[n + 1], place, cut[n], k)
    <3>1. Takes(glob[n + 1], place, cut[(n + 1) - 1], cut[n + 1])
      BY <2>1, <2>5
    <3> QED
      BY <2>1, <2>5, <3>1
  <2> QED
    BY <2>4, <2>6
<1>2. ASSUME NEW i \in 0..Len(place), CutTo(glob, place, n, i), Takes(glob[n + 1], place, i, k)
      PROVE  CutTo(glob, place, n + 1, k)
  <2>0. CutTo(glob, place, n, i)
    BY <1>2
  <2>1. PICK first \in [0..n -> 0..Len(place)] :
            /\ first[0] = 0 /\ first[n] = i
            /\ \A j \in 1..n : Takes(glob[j], place, first[j - 1], first[j])
    BY <2>0 DEF CutTo
  <2> DEFINE cut == [j \in 0..n + 1 |-> IF j = n + 1 THEN k ELSE first[j]]
  <2>2. cut \in [0..n + 1 -> 0..Len(place)] /\ cut[0] = 0 /\ cut[n + 1] = k
    BY <2>1
  <2>3. ASSUME NEW j \in 1..n + 1
        PROVE  Takes(glob[j], place, cut[j - 1], cut[j])
    <3>1. CASE j = n + 1
      <4>1. cut[j] = k /\ cut[j - 1] = i
        BY <2>1, <3>1
      <4> QED
        BY <1>2, <3>1, <4>1
    <3>2. CASE j # n + 1
      <4>1. j \in 1..n /\ cut[j] = first[j] /\ cut[j - 1] = first[j - 1]
        BY <3>2
      <4> QED
        BY <2>1, <4>1
    <3> QED
      BY <3>1, <3>2
  <2> HIDE DEF cut
  <2> QED
    BY <2>2, <2>3 DEF CutTo
<1> QED
  BY <1>1, <1>2

LEMMA CutToSame ==
    ASSUME NEW a, NEW b, NEW place, NEW n \in Nat, NEW k, \A j \in 1..n : a[j] = b[j]
    PROVE  CutTo(a, place, n, k) <=> CutTo(b, place, n, k)
  BY DEF CutTo

LEMMA CutToCanonical ==
    ASSUME NEW raw \in Paths, Clean(raw), NEW g, Steps(g, raw, NoLinks),
           NEW place, Len(place) \in Nat
    PROVE  \A k \in 0..Len(place) :
               CutTo(raw, place, Len(raw), k)
                   <=> CutTo(g[Len(raw)], place, Len(g[Len(raw)]), k)
<1> DEFINE Same(n) == \A k \in 0..Len(place) :
                          CutTo(raw, place, n, k) <=> CutTo(g[n], place, Len(g[n]), k)
           T == {n \in 0..Len(raw) : Same(n)}
<1>1. Len(raw) \in Nat
  BY DEF Paths
<1>2. 0 \in T
  <2>1. g[0] = <<>> /\ Len(<<>>) = 0 /\ 1..0 = {}
    BY DEF Steps
  <2>2. Len(g[0]) = 0
    BY <2>1
  <2>3. \A k \in 0..Len(place) : CutTo(raw, place, 0, k) <=> CutTo(g[0], place, 0, k)
    BY <2>1, CutToSame
  <2>4. Same(0)
    BY <2>2, <2>3
  <2> HIDE DEF Same
  <2> QED
    BY <1>1, <2>4
<1>3. ASSUME NEW n \in 0..Len(raw) - 1, n \in T
      PROVE  n + 1 \in T
  <2>0. n + 1 \in 1..Len(raw) /\ (n + 1) - 1 = n /\ n + 1 \in 0..Len(raw) /\ n \in Nat
    BY <1>1
  <2>1. /\ raw[n + 1] \in Segments /\ g[n] \in Paths
        /\ raw[n + 1] \in {"", "."} => g[n + 1] = g[n]
        /\ raw[n + 1] \notin {"", "."} => g[n + 1] = Append(g[n], raw[n + 1])
    BY <2>0, CleanStep
  <2>2. Same(n)
    BY <1>3
  <2> SUFFICES ASSUME NEW k \in 0..Len(place)
               PROVE  CutTo(raw, place, n + 1, k) <=> CutTo(g[n + 1], place, Len(g[n + 1]), k)
    BY <2>0
  <2>3. CutTo(raw, place, n + 1, k) <=>
            \E i \in 0..Len(place) :
                CutTo(g[n], place, Len(g[n]), i) /\ Takes(raw[n + 1], place, i, k)
    BY <2>0, <2>2, CutToStep
  <2>4. CASE raw[n + 1] \in {"", "."}
    <3>1. \A i \in 0..Len(place) : Takes(raw[n + 1], place, i, k) <=> k = i
      BY <2>4 DEF Takes
    <3> QED
      BY <2>1, <2>3, <2>4, <3>1
  <2>5. CASE raw[n + 1] \notin {"", "."}
    <3> DEFINE next == Append(g[n], raw[n + 1])
               m == Len(g[n])
    <3>1. /\ next \in Paths /\ Len(next) = m + 1
          /\ next[m + 1] = raw[n + 1]
          /\ \A i \in 1..m : next[i] = g[n][i]
      BY <2>1, AppendPath
    <3>2. m \in Nat
      <4>1. g[n] \in Seq(Segments)
        BY <2>1 DEF Paths
      <4> QED
        BY <4>1, LenProperties
    <3>3. g[n + 1] = next
      BY <2>1, <2>5
    <3> HIDE DEF next, m
    <3>4. CutTo(next, place, m + 1, k) <=>
              \E i \in 0..Len(place) : CutTo(next, place, m, i) /\ Takes(next[m + 1], place, i, k)
      BY <3>2, CutToStep
    <3>5. \A i : CutTo(next, place, m, i) <=> CutTo(g[n], place, m, i)
      BY <3>1, <3>2, CutToSame
    <3> QED
      BY <2>3, <3>1, <3>3, <3>4, <3>5 DEF m
  <2> QED
    BY <2>4, <2>5
<1>4. \A n \in 0..Len(raw) : n \in T
  <2> HIDE DEF T
  <2> QED
    BY <1>1, <1>2, <1>3, UpTo
<1>5. Len(raw) \in T
  BY <1>1, <1>4
<1> QED
  BY <1>5

LEMMA CoversCanonical ==
    ASSUME NEW raw \in Paths, Clean(raw), NEW place, Len(place) \in Nat
    PROVE  Covers(raw, place) <=> Covers(Canonical(raw), place)
<1>1. PICK g : Steps(g, raw, NoLinks) /\ Canonical(raw) = g[Len(raw)]
  BY CanonicalSteps
<1>2. Len(place) \in 0..Len(place)
  OBVIOUS
<1>3. CutTo(raw, place, Len(raw), Len(place))
          <=> CutTo(Canonical(raw), place, Len(Canonical(raw)), Len(place))
  BY <1>1, <1>2, CutToCanonical
<1> QED
  BY <1>3, CoversIsCut

LEMMA CoversIsRest ==
    ASSUME NEW glob, IsPlace(glob), NEW place
    PROVE  Covers(glob, place) <=> Rest(0, place, glob, 1, 1)
<1>1. Len(glob) \in Nat /\ DOMAIN glob = 1..Len(glob)
  <2>1. glob \in Seq(Segments)
    BY DEF IsPlace
  <2> QED
    BY <2>1
<1>2. 1 - 1 = 0
  OBVIOUS
<1>3. ASSUME NEW cut \in [0..Len(glob) -> 0..Len(place)], NEW j \in 1..Len(glob)
      PROVE  Takes(glob[j], place, cut[j - 1], cut[j]) <=> Piece(0, glob[j], place, cut[j - 1], cut[j])
  <2>1. glob[j] \notin {"", "."}
    BY <1>1 DEF IsPlace
  <2>2. j - 1 \in 0..Len(glob) /\ j \in 0..Len(glob)
    BY <1>1
  <2>3. cut[j - 1] \in Int /\ cut[j] \in Int
    BY <2>2
  <2>4. cut[j - 1] + 0 = cut[j - 1]
    BY <2>3
  <2> QED
    BY <2>1, <2>4 DEF Takes, Piece
<1>4. Covers(glob, place) <=>
          \E cut \in [0..Len(glob) -> 0..Len(place)] :
              /\ cut[0] = 0 /\ cut[Len(glob)] = Len(place)
              /\ \A j \in 1..Len(glob) : Piece(0, glob[j], place, cut[j - 1], cut[j])
  BY <1>3 DEF Covers
<1> QED
  BY <1>2, <1>4 DEF Rest

\* match_pattern, from the last segment to the first with the answers for the rest of the name
\* kept, accepts a path exactly if the place it names can be cut into pieces, one for each
\* segment of the pattern as it is spelled.
THEOREM MatchIsCoverage ==
    ASSUME NEW path \in Seq(Segments), NEW pattern \in Seq(Segments), ~Contains(pattern, "..")
    PROVE  MatchPattern(path, pattern) <=> Covers(pattern, Walk(path, NoLinks))
<1> DEFINE place == Canonical(path)
           glob == Canonical(pattern)
<1>1. path \in Paths /\ pattern \in Paths /\ Clean(pattern)
  BY DEF Paths, Clean, Contains
<1>2. place = Walk(path, NoLinks) /\ IsPlace(place) /\ IsPlace(glob)
  BY CanonicalIsWalk
<1> HIDE DEF place, glob
<1>3. Len(place) \in Nat /\ Len(glob) \in Nat
  <2>1. place \in Seq(Segments) /\ glob \in Seq(Segments)
    BY <1>2 DEF IsPlace
  <2> QED
    BY <2>1
<1>4. MatchParts(place, glob) <=> Covers(glob, place)
  BY <1>2, <1>3, MatchPartsIs, CoversIsRest
<1>5. Covers(pattern, place) <=> Covers(glob, place)
  BY <1>1, <1>3, CoversCanonical DEF glob
<1> QED
  BY <1>2, <1>4, <1>5 DEF MatchPattern, place, glob
-----------------------------------------------------------------------------
\* The decision, the capsule and the calls.

\* A path that the policy kept for the capsule's tier.
Kept(p) ==
    /\ p \in Seq(Segments) /\ ValidTargetPath(p)
    /\ ~PathMatchesDenied(p, DeniedPatterns(capsule.tier))

ScopeInv ==
    /\ TypeOK
    /\ \A p \in capsule.paths : Kept(p)
    /\ stage = "issued" /\ ~human =>
           ~RequiresHumanApproval(capsule.tier, capsule.tools, capsule.paths, FALSE)
    /\ call # NoCall =>
           /\ call.path \in Seq(Segments) /\ call.text \in Seq(Segments)
           /\ call.verdict # "blocked" <=> Admits(call)
           /\ call.verdict = "acted" => ToolActs(call)

\* What evaluate let into a capsule passed every check of its tier, a capsule that no human saw
\* needs none, and what became of a call is what proxy and tool make of it under the capsule:
\* the invariant the theorems below rest on.
THEOREM ScopeInductive == Spec => []ScopeInv
<1>1. Init => ScopeInv
  <2> SUFFICES ASSUME Init PROVE ScopeInv
    OBVIOUS
  <2>1. MaxFiles["external"] # -1 => Cardinality({}) <= MaxFiles["external"]
    <3>1. MaxFiles["external"] \in Nat \union {-1}
      BY PathScopeAssumption DEF Tiers
    <3> QED
      BY <3>1, FS_EmptySet
  <2> QED
    BY <2>1 DEF Init, ScopeInv, TypeOK, Undecided, Tiers, NoCall
<1>2. ScopeInv /\ [Next]_vars => ScopeInv'
  <2> SUFFICES ASSUME ScopeInv, [Next]_vars PROVE ScopeInv'
    OBVIOUS
  <2>0. /\ TypeOK
        /\ \A p \in capsule.paths : Kept(p)
    BY DEF ScopeInv
  <2>1. ASSUME NEW tier \in Tiers, NEW requested \in ToolSets, NEW targets \in TargetSets,
               NEW asks \in BOOLEAN, Evaluate(tier, requested, targets, asks)
        PROVE  ScopeInv'
    <3> DEFINE tools == requested \intersect TierTools(tier)
               allowed == {p \in targets : ~PathMatchesDenied(p, DeniedPatterns(tier))}
               paths == {p \in allowed : ValidTargetPath(p)}
    <3>1. stage = "new" /\ UNCHANGED <<human, call>>
      BY <2>1 DEF Evaluate
    <3>2. call = NoCall
      BY <2>0, <3>1 DEF TypeOK
    <3>3. CASE stage' = "denied" /\ UNCHANGED capsule
      <4>1. (\A p \in capsule.paths : Kept(p))'
        BY <2>0, <3>3 DEF Kept
      <4>2. TypeOK'
        BY <2>0, <3>1, <3>2, <3>3 DEF TypeOK
      <4> QED
        BY <3>1, <3>2, <3>3, <4>1, <4>2 DEF ScopeInv
    <3>4. CASE /\ WithinLimit(tier, paths)
               /\ stage' = IF RequiresHumanApproval(tier, tools, paths, asks)
                           THEN "pending" ELSE "issued"
               /\ capsule' = [tier |-> tier, tools |-> tools, paths |-> paths]
      <4>1. capsule'.tier = tier /\ capsule'.tools = tools /\ capsule'.paths = paths
        BY <3>4
      <4>2. \A p \in paths : /\ p \in Seq(Segments) /\ ValidTargetPath(p)
                             /\ ~PathMatchesDenied(p, DeniedPatterns(tier))
        BY PathScopeAssumption
      <4>3. tools \subseteq TierTools(tier) /\ stage' \in {"pending", "issued"}
        BY <3>4
      <4>4. MaxFiles[tier] # -1 => Cardinality(paths) <= MaxFiles[tier]
        BY <3>4 DEF WithinLimit
      <4>5. stage' = "issued" => ~RequiresHumanApproval(tier, tools, paths, FALSE)
        BY <3>4 DEF RequiresHumanApproval
      <4> HIDE DEF tools, paths
      <4>6. TypeOK'
        BY <2>0, <3>1, <3>2, <4>1, <4>3, <4>4 DEF TypeOK
      <4>7. (\A p \in capsule.paths : Kept(p))'
        BY <4>1, <4>2 DEF Kept
      <4>8. (stage = "issued" /\ ~human =>
                 ~RequiresHumanApproval(capsule.tier, capsule.tools, capsule.paths, FALSE))'
        BY <4>1, <4>5
      <4> QED
        BY <3>1, <3>2, <4>6, <4>7, <4>8 DEF ScopeInv
    <3> QED
      BY <2>1, <3>3, <3>4 DEF Evaluate
  <2>2. ASSUME Approve
        PROVE  ScopeInv'
    <3>1. /\ stage = "pending" /\ stage' = "issued" /\ human' = TRUE /\ call = NoCall
          /\ UNCHANGED <<capsule, call>>
      BY <2>0, <2>2 DEF Approve, TypeOK
    <3>2. TypeOK'
      BY <2>0, <3>1 DEF TypeOK
    <3>3. (\A p \in capsule.paths : Kept(p))'
      BY <2>0, <3>1 DEF Kept
    <3> QED
      BY <3>1, <3>2, <3>3 DEF ScopeInv
  <2>3. ASSUME Reject
        PROVE  ScopeInv'
    <3>1. /\ stage = "pending" /\ stage' = "rejected" /\ call = NoCall
          /\ UNCHANGED <<capsule, human, call>>
      BY <2>0, <2>3 DEF Reject, TypeOK
    <3>2. TypeOK'
      BY <2>0, <3>1 DEF TypeOK
    <3>3. (\A p \in capsule.paths : Kept(p))'
      BY <2>0, <3>1 DEF Kept
    <3> QED
      BY <3>1, <3>2, <3>3 DEF ScopeInv
  <2>4. ASSUME NEW c \in Calls, ToolCall(c)
        PROVE  ScopeInv'
    <3> DEFINE verdict == IF ~Admits(c) THEN "blocked"
                          ELSE IF ToolActs(c) THEN "acted" ELSE "failed"
    <3>1. /\ stage = "issued"
          /\ call' = [tool |-> c.tool, path |-> c.path, text |-> c.text, verdict |-> verdict]
          /\ UNCHANGED <<stage, capsule, human>>
      BY <2>4 DEF ToolCall
    <3>2. /\ call'.tool = c.tool /\ call'.path = c.path /\ call'.text = c.text
          /\ call'.verdict = verdict
      BY <3>1
    <3>3. TypeOK'
      BY <2>0, <3>1, <3>2 DEF TypeOK
    <3>4. (\A p \in capsule.paths : Kept(p))'
      BY <2>0, <3>1 DEF Kept
    <3>5. (stage = "issued" /\ ~human =>
               ~RequiresHumanApproval(capsule.tier, capsule.tools, capsule.paths, FALSE))'
      BY <3>1 DEF ScopeInv
    <3>6. /\ verdict # "blocked" <=> Admits(c)
          /\ verdict = "acted" => ToolActs(c)
      OBVIOUS
    <3>7. c.path \in Seq(Segments) /\ c.text \in Seq(Segments)
      BY PathScopeAssumption
    <3> HIDE DEF verdict
    <3>8. Admits(call)' <=> Admits(c)
      BY <3>1, <3>2 DEF Admits
    <3>9. ToolActs(call)' <=> ToolActs(c)
      BY <3>1, <3>2 DEF ToolActs
    <3> QED
      BY <3>2, <3>3, <3>4, <3>5, <3>6, <3>7, <3>8, <3>9 DEF ScopeInv
  <2>5. ASSUME Answered
        PROVE  ScopeInv'
    <3>1. call' = NoCall /\ UNCHANGED <<stage, capsule, human>>
      BY <2>5 DEF Answered
    <3>2. TypeOK'
      BY <2>0, <3>1 DEF TypeOK, NoCall
    <3>3. (\A p \in capsule.paths : Kept(p))'
      BY <2>0, <3>1 DEF Kept
    <3> QED
      BY <3>1, <3>2, <3>3 DEF ScopeInv
  <2>6. ASSUME UNCHANGED vars
        PROVE  ScopeInv'
    BY <2>6 DEF vars, ScopeInv, TypeOK, Kept, Admits, ToolActs
  <2> QED
    BY <2>1, <2>2, <2>3, <2>4, <2>5, <2>6 DEF Next
<1> QED
  BY <1>1, <1>2, PTL DEF Spec

\* The capsule, the decision and the calls are well formed.
THEOREM ScopeTypeCorrect == Spec => []TypeOK
<1>1. ScopeInv => TypeOK
  BY DEF ScopeInv
<1> QED
  BY <1>1, ScopeInductive, PTL

\* Comparing a place with patterns that do not climb is asking whether one covers it.
LEMMA AllowedIsCovered ==
    ASSUME NEW place, IsPlace(place), NEW paths,
           \A p \in paths : p \in Seq(Segments) /\ ~Contains(p, "..")
    PROVE  PathAllowed(place, paths) <=> ~IsOutside(place) /\ \E p \in paths : Covers(p, place)
<1>1. place \in Seq(Segments)
  BY DEF IsPlace
<1>2. Contains(place, "..") <=> IsOutside(place)
  BY Climbs
<1>3. ASSUME ~Contains(place, ".."), NEW p \in paths
      PROVE  MatchPattern(place, p) <=> Covers(p, place)
  <2>1. Clean(place)
    BY <1>3 DEF Clean, Contains
  <2>2. Canonical(place) = place
    BY <2>1, PlaceIsCanonical
  <2>3. Walk(place, NoLinks) = place
    BY <1>1, <2>2, CanonicalIsWalk
  <2> QED
    BY <1>1, <2>3, MatchIsCoverage
<1> QED
  BY <1>2, <1>3 DEF PathAllowed

\* What _looks_like_path leaves out is the empty text, web addresses and certain single segments.
LEMMA LeftOutIsPassedOver ==
    ASSUME NEW raw \in Seq(Segments)
    PROVE  ~LooksLikePath(raw) <=> PassedOver(raw)
<1>1. CASE raw = <<>>
  BY <1>1 DEF LooksLikePath, PassedOver
<1>2. CASE raw # <<>>
  <2>1. Len(raw) \in Nat \ {0}
    BY <1>2
  <2>2. \A n \in Nat \ {0} : n > 1 <=> n # 1
    OBVIOUS
  <2>3. Len(raw) > 1 <=> Len(raw) # 1
    BY <2>1, <2>2
  <2> QED
    BY <1>2, <2>3 DEF LooksLikePath, PassedOver
<1> QED
  BY <1>1, <1>2

\* The proxy lets through exactly the calls whose tool is granted and whose arguments are either
\* passed over as no paths or name places inside the workspace that a granted pattern covers,
\* however arguments and patterns are spelled.
THEOREM ProxyAdmitsWhatIsGranted == Spec => []AdmittedIsGranted
<1>1. ScopeInv => AdmittedIsGranted
  <2> DEFINE granted(place) == ~IsOutside(place) /\ InScope(place)
  <2> SUFFICES ASSUME ScopeInv, call # NoCall
               PROVE  call.verdict # "blocked" <=>
                          /\ call.tool \in capsule.tools
                          /\ \A arg \in {call.path, call.text} :
                                 PassedOver(arg) \/ granted(Walk(arg, NoLinks))
    BY DEF AdmittedIsGranted
  <2>1. /\ call.path \in Seq(Segments) /\ call.text \in Seq(Segments)
        /\ call.verdict # "blocked" <=> Admits(call)
    BY DEF ScopeInv
  <2>2. \A p \in capsule.paths : p \in Seq(Segments) /\ ~Contains(p, "..")
    BY DEF ScopeInv, Kept, ValidTargetPath
  <2>3. ASSUME NEW arg \in {call.path, call.text}
        PROVE  /\ ~LooksLikePath(arg) <=> PassedOver(arg)
               /\ PathAllowed(Canonical(arg), capsule.paths) <=> granted(Walk(arg, NoLinks))
    <3>1. arg \in Seq(Segments)
      BY <2>1
    <3>2. Canonical(arg) = Walk(arg, NoLinks) /\ IsPlace(Canonical(arg))
      BY <3>1, CanonicalIsWalk
    <3>3. PathAllowed(Canonical(arg), capsule.paths) <=>
              /\ ~IsOutside(Canonical(arg))
              /\ \E p \in capsule.paths : Covers(p, Canonical(arg))
      BY <2>2, <3>2, AllowedIsCovered
    <3> QED
      BY <3>1, <3>2, <3>3, LeftOutIsPassedOver DEF InScope
  <2> HIDE DEF granted
  <2> QED
    BY <2>1, <2>3 DEF Admits
<1> QED
  BY <1>1, ScopeInductive, PTL

\* The place that a file tool touched.
LEMMA TouchedPlace ==
    ASSUME ScopeInv, call.verdict = "acted", call.tool \in FileTools
    PROVE  /\ IsPlace(Candidate(call.path))
           /\ ~IsOutside(Candidate(call.path)) /\ InScope(Candidate(call.path))
<1>1. call # NoCall
  BY DEF NoCall
<1>2. call.path \in Seq(Segments) /\ Resolves(call.path, capsule.paths)
  BY <1>1, PathScopeAssumption DEF ScopeInv, ToolActs
<1>3. \A p \in capsule.paths : p \in Seq(Segments) /\ ~Contains(p, "..")
  BY DEF ScopeInv, Kept, ValidTargetPath
<1>4. ~IsOutside(Candidate(call.path)) /\ PathAllowed(Candidate(call.path), capsule.paths)
  BY <1>2 DEF Resolves
<1>5. ~IsAbsolute(call.path)
  <2>1. <<"..">> # <<>> /\ Head(<<"..">>) = ".."
    OBVIOUS
  <2> QED
    BY <1>4, <2>1 DEF Candidate, IsOutside
<1>6. IsPlace(Candidate(call.path))
  BY <1>2, <1>5, LinksAreGood, WalkIsPlace DEF Candidate, Paths
<1>7. \E p \in capsule.paths : Covers(p, Candidate(call.path))
  BY <1>3, <1>4, <1>6, AllowedIsCovered
<1> QED
  BY <1>4, <1>6, <1>7 DEF InScope

\* read_file and write_file touch no place outside the workspace or outside the capsule's
\* patterns, whatever links and ".." segments the path goes through.
THEOREM ToolsActInsideScope == Spec => []ActsInsideScope
<1>1. ScopeInv => ActsInsideScope
  BY TouchedPlace DEF ActsInsideScope
<1> QED
  BY <1>1, ScopeInductive, PTL

-----------------------------------------------------------------------------
\* Secrets: what the denied patterns cover, and what a concrete path covers.

\* A segment of a pattern that no dropped segment of a path matches.
Solid(seg) == seg \notin {"", "."} /\ (seg = "**" \/ (~Fnmatch("", seg) /\ ~Fnmatch(".", seg)))

LEMMA SpelledOutIsSolid ==
    ASSUME NEW seg \in SpelledOut
    PROVE  Solid(seg) /\ seg # ".."
<1>1. seg \notin {"", ".", ".."}
  BY DEF SpelledOut
<1>2. ASSUME NEW name \in {"", "."}, seg # "**"
      PROVE  ~Fnmatch(name, seg)
  <2>1. CASE seg \in {".env.*", "*.key", "*.pem"}
    <3>1. <<name, seg>>[1] = name /\ <<name, seg>>[2] = seg
      OBVIOUS
    <3>2. <<name, seg>> \notin GlobPairs
      BY <2>1, <3>1, PathScopeAssumption
    <3>3. seg \in Globs
      BY <2>1, PathScopeAssumption
    <3> QED
      BY <3>2, <3>3 DEF Fnmatch
  <2>2. CASE seg \in {".env", ".git", "secrets"}
    <3>1. seg \notin Globs \union Brackets /\ name # seg
      BY <2>2, PathScopeAssumption
    <3> QED
      BY <3>1 DEF Fnmatch
  <2> QED
    BY <1>2, <2>1, <2>2 DEF SpelledOut
<1> QED
  BY <1>1, <1>2 DEF Solid

SpelledPattern(d) ==
    d \in Paths /\ Clean(d) /\ ~Contains(d, "..") /\ \A j \in 1..Len(d) : Solid(d[j])

LEMMA SpelledPatterns == \A d \in DotFiles \union {<<"**", ".git", "**">>} : SpelledPattern(d)
<1>1. ASSUME NEW a \in SpelledOut, NEW b \in SpelledOut
      PROVE  SpelledPattern(<<a, b>>)
  <2>1. <<a, b>> \in Paths
    <3>1. a \in Segments /\ b \in Segments
      BY PathScopeAssumption
    <3> QED
      BY <3>1 DEF Paths
  <2>2. \A j \in 1..Len(<<a, b>>) : <<a, b>>[j] \in {a, b}
    OBVIOUS
  <2>3. \A j \in 1..Len(<<a, b>>) : Solid(<<a, b>>[j]) /\ <<a, b>>[j] # ".."
    BY <2>2, SpelledOutIsSolid
  <2> QED
    BY <2>1, <2>3 DEF SpelledPattern, Clean, Contains
<1>2. ASSUME NEW a \in SpelledOut, NEW b \in SpelledOut, NEW c \in SpelledOut
      PROVE  SpelledPattern(<<a, b, c>>)
  <2>1. <<a, b, c>> \in Paths
    <3>1. a \in Segments /\ b \in Segments /\ c \in Segments
      BY PathScopeAssumption
    <3> QED
      BY <3>1 DEF Paths
  <2>2. \A j \in 1..Len(<<a, b, c>>) : <<a, b, c>>[j] \in {a, b, c}
    OBVIOUS
  <2>3. \A j \in 1..Len(<<a, b, c>>) : Solid(<<a, b, c>>[j]) /\ <<a, b, c>>[j] # ".."
    BY <2>2, SpelledOutIsSolid
  <2> QED
    BY <2>1, <2>3 DEF SpelledPattern, Clean, Contains
<1>3. {"**", ".env", ".env.*", "secrets", "*.key", "*.pem", ".git"} \subseteq SpelledOut
  BY DEF SpelledOut
<1>4. /\ SpelledPattern(<<"**", ".env">>) /\ SpelledPattern(<<"**", ".env.*">>)
      /\ SpelledPattern(<<"**", "*.key">>) /\ SpelledPattern(<<"**", "*.pem">>)
  BY <1>1, <1>3
<1>5. SpelledPattern(<<"**", "secrets", "**">>) /\ SpelledPattern(<<"**", ".git", "**">>)
  BY <1>2, <1>3
<1> QED
  BY <1>4, <1>5 DEF DotFiles

\* A leading "./" names nothing.
LEMMA DotSlash ==
    ASSUME NEW raw \in Paths
    PROVE  <<".">> \o raw \in Paths /\ Canonical(<<".">> \o raw) = Canonical(raw)
<1> DEFINE dotted == <<".">> \o raw
<1>1. <<".">> \in Seq(Segments) /\ Len(<<".">>) = 1 /\ <<".">>[1] = "."
  <2>1. "." \in Segments
    BY PathScopeAssumption
  <2> QED
    BY <2>1
<1>2. Len(raw) \in Nat /\ raw \in Seq(Segments)
  BY DEF Paths
<1>3. dotted \in Paths /\ Len(dotted) = 1 + Len(raw)
  BY <1>1, <1>2, ConcatProperties DEF Paths
<1>4. dotted[1] = "." /\ \A n \in 2..Len(raw) + 1 : dotted[n] = raw[n - 1]
  BY <1>1, <1>2
<1>5. PICK g : Steps(g, raw, NoLinks)
  BY CanonicalSteps
<1> DEFINE h == [n \in 0..Len(raw) + 1 |-> IF n = 0 THEN <<>> ELSE g[n - 1]]
<1>6. h[0] = <<>> /\ g[0] = <<>> /\ h[1] = g[0] /\ h[Len(raw) + 1] = g[Len(raw)]
  BY <1>2, <1>5 DEF Steps
<1>7. ASSUME NEW n \in 1..Len(raw) + 1
      PROVE  h[n] = Enter(h[n - 1], dotted[n], NoLinks)
  <2>1. CASE n = 1
    <3>1. h[n] = <<>> /\ h[n - 1] = <<>> /\ dotted[n] = "."
      BY <1>4, <1>6, <2>1
    <3> QED
      BY <3>1 DEF Enter
  <2>2. CASE n # 1
    <3>1. n - 1 \in 1..Len(raw) /\ n \in 2..Len(raw) + 1
      BY <1>2, <2>2
    <3>2. h[n] = g[n - 1] /\ h[n - 1] = g[(n - 1) - 1] /\ dotted[n] = raw[n - 1]
      BY <1>2, <1>4, <3>1
    <3>3. g[n - 1] = Enter(g[(n - 1) - 1], raw[n - 1], NoLinks)
      BY <1>5, <3>1 DEF Steps
    <3> QED
      BY <3>2, <3>3
  <2> QED
    BY <2>1, <2>2
<1> HIDE DEF h, dotted
<1>8. Len(dotted) = Len(raw) + 1
  BY <1>2, <1>3
<1>9. Steps(h, dotted, NoLinks)
  BY <1>6, <1>7, <1>8 DEF Steps
<1>10. Canonical(dotted) = h[Len(raw) + 1]
  BY <1>3, <1>8, <1>9, CanonicalIs
<1>11. Canonical(raw) = g[Len(raw)]
  BY <1>5, CanonicalIs
<1> QED
  BY <1>3, <1>6, <1>10, <1>11 DEF dotted

LEMMA TrimmedPath ==
    ASSUME NEW p \in Paths
    PROVE  /\ Trimmed(p) \in Paths /\ Canonical(Trimmed(p)) = Canonical(p)
           /\ Clean(p) => Clean(Trimmed(p))
           /\ ~IsGlob(p) => ~IsGlob(Trimmed(p))
<1>1. CASE ~(Len(p) > 1 /\ Head(p) = ".")
  BY <1>1 DEF Trimmed
<1>2. CASE Len(p) > 1 /\ Head(p) = "."
  <2>1. p \in Seq(Segments) /\ p # <<>> /\ Len(p) \in Nat
    BY <1>2 DEF Paths
  <2>2. Tail(p) \in Seq(Segments) /\ Len(Tail(p)) = Len(p) - 1
        /\ \A i \in 1..Len(Tail(p)) : Tail(p)[i] = p[i + 1]
    BY <2>1, HeadTailProperties
  <2>3. Trimmed(p) = Tail(p)
    BY <1>2 DEF Trimmed
  <2>4. <<".">> \o Tail(p) = p
    <3>1. <<".">> \in Seq(Segments) /\ Len(<<".">>) = 1 /\ <<".">>[1] = "."
      <4>1. "." \in Segments
        BY PathScopeAssumption
      <4> QED
        BY <4>1
    <3>2. <<".">> \o Tail(p) \in Seq(Segments) /\ Len(<<".">> \o Tail(p)) = Len(p)
      BY <2>1, <2>2, <3>1, ConcatProperties
    <3>3. ASSUME NEW i \in 1..Len(p)
          PROVE  (<<".">> \o Tail(p))[i] = p[i]
      <4>1. CASE i = 1
        <5>1. (<<".">> \o Tail(p))[i] = "."
          BY <2>2, <3>1, <4>1, ConcatProperties
        <5>2. p[i] = "."
          BY <1>2, <2>1, <4>1
        <5> QED
          BY <5>1, <5>2
      <4>2. CASE i # 1
        <5>1. i - 1 \in 1..Len(Tail(p)) /\ (i - 1) + 1 = i
          BY <2>1, <2>2, <4>2
        <5>2. (<<".">> \o Tail(p))[i] = Tail(p)[i - 1]
          BY <2>2, <3>1, <4>2, <5>1
        <5> QED
          BY <2>2, <5>1, <5>2
      <4> QED
        BY <4>1, <4>2
    <3> QED
      BY <2>1, <3>2, <3>3, SeqEqual
  <2>5. Canonical(Tail(p)) = Canonical(p) /\ Tail(p) \in Paths
    <3>1. Tail(p) \in Paths
      BY <2>2 DEF Paths
    <3>2. Canonical(<<".">> \o Tail(p)) = Canonical(Tail(p))
      BY <3>1, DotSlash
    <3> QED
      BY <2>4, <3>1, <3>2
  <2>6. \A i \in 1..Len(Tail(p)) : i + 1 \in 1..Len(p)
    BY <2>1, <2>2
  <2>7. Clean(p) => Clean(Tail(p))
    BY <2>2, <2>6 DEF Clean
  <2>8. ~IsGlob(p) => ~IsGlob(Tail(p))
    BY <2>1, <2>2, <2>6 DEF IsGlob
  <2> QED
    BY <2>3, <2>5, <2>7, <2>8
<1> QED
  BY <1>1, <1>2
\* A pattern that is none to fnmatch covers one place at most, the one it names.
LEMMA LiteralCovers ==
    ASSUME NEW p \in Paths, Clean(p), IsLiteral(p), NEW place \in Paths, Covers(p, place)
    PROVE  place = Canonical(p)
<1>1. PICK g : Steps(g, p, NoLinks) /\ Canonical(p) = g[Len(p)]
  BY CanonicalSteps
<1>2. PICK cut \in [0..Len(p) -> 0..Len(place)] :
          /\ cut[0] = 0 /\ cut[Len(p)] = Len(place)
          /\ \A j \in 1..Len(p) : Takes(p[j], place, cut[j - 1], cut[j])
  BY DEF Covers
<1>3. p \in Seq(Segments) /\ place \in Seq(Segments) /\ Len(p) \in Nat /\ Len(place) \in Nat
  BY DEF Paths
<1> DEFINE Same(n) == /\ g[n] \in Paths /\ Len(g[n]) = cut[n]
                      /\ \A i \in 1..cut[n] : g[n][i] = place[i]
           T == {n \in 0..Len(p) : Same(n)}
<1>4. 0 \in T
  <2>1. g[0] = <<>>
    BY <1>1 DEF Steps
  <2>2. g[0] \in Paths /\ Len(g[0]) = 0
    BY <2>1 DEF Paths
  <2>3. 0 \in 0..Len(p) /\ 1..0 = {}
    BY <1>3
  <2> QED
    BY <1>2, <2>2, <2>3
<1>5. ASSUME NEW n \in 0..Len(p) - 1, n \in T
      PROVE  n + 1 \in T
  <2>0. n + 1 \in 1..Len(p) /\ (n + 1) - 1 = n /\ n + 1 \in 0..Len(p) /\ n \in 0..Len(p)
    BY <1>3
  <2>1. Same(n)
    BY <1>5
  <2>2. /\ p[n + 1] \in Segments /\ g[n] \in Paths /\ g[n + 1] \in Paths
        /\ p[n + 1] \in {"", "."} => g[n + 1] = g[n]
        /\ p[n + 1] \notin {"", "."} => g[n + 1] = Append(g[n], p[n + 1])
    <3>1. /\ g[(n + 1) - 1] \in Paths /\ g[n + 1] \in Paths /\ p[n + 1] \in Segments
          /\ p[n + 1] \in {"", "."} => g[n + 1] = g[(n + 1) - 1]
          /\ p[n + 1] \notin {"", "."} => g[n + 1] = Append(g[(n + 1) - 1], p[n + 1])
      BY <1>1, <2>0, CleanStep
    <3> QED
      BY <2>0, <3>1
  <2>3. Takes(p[n + 1], place, cut[n], cut[n + 1])
    <3>1. Takes(p[n + 1], place, cut[(n + 1) - 1], cut[n + 1])
      BY <1>2, <2>0
    <3> QED
      BY <2>0, <3>1
  <2>4. cut[n] \in 0..Len(place) /\ cut[n + 1] \in 0..Len(place)
    BY <2>0
  <2>5. p[n + 1] \notin Globs \union Brackets /\ p[n + 1] # "**"
    <3>1. n + 1 \in DOMAIN p
      BY <1>3, <2>0
    <3>2. p[n + 1] \notin Globs \union Brackets
      BY <3>1 DEF IsLiteral
    <3> QED
      BY <3>2, PathScopeAssumption
  <2>6. CASE p[n + 1] \in {"", "."}
    <3>1. cut[n + 1] = cut[n] /\ g[n + 1] = g[n]
      BY <2>2, <2>3, <2>6 DEF Takes
    <3>2. Same(n + 1)
      BY <2>1, <3>1
    <3> QED
      BY <2>0, <3>2
  <2>7. CASE p[n + 1] \notin {"", "."}
    <3>1. cut[n + 1] = cut[n] + 1 /\ Fnmatch(place[cut[n + 1]], p[n + 1])
      BY <2>3, <2>5, <2>7 DEF Takes
    <3>2. place[cut[n + 1]] = p[n + 1]
      BY <2>5, <3>1 DEF Fnmatch
    <3>3. g[n + 1] = Append(g[n], p[n + 1])
      BY <2>2, <2>7
    <3>4. /\ Len(Append(g[n], p[n + 1])) = Len(g[n]) + 1
          /\ Append(g[n], p[n + 1])[Len(g[n]) + 1] = p[n + 1]
          /\ \A i \in 1..Len(g[n]) : Append(g[n], p[n + 1])[i] = g[n][i]
      BY <2>2, AppendPath
    <3>5. Len(g[n]) = cut[n] /\ \A i \in 1..cut[n] : g[n][i] = place[i]
      BY <2>1
    <3>6. Len(g[n + 1]) = cut[n + 1]
      BY <3>1, <3>3, <3>4, <3>5
    <3>7. \A i \in 1..cut[n + 1] : g[n + 1][i] = place[i]
      <4>1. \A i \in 1..cut[n + 1] : i = cut[n] + 1 \/ i \in 1..cut[n]
        BY <2>4, <3>1
      <4> QED
        BY <3>1, <3>2, <3>3, <3>4, <3>5, <4>1
    <3>8. Same(n + 1)
      BY <2>2, <3>6, <3>7
    <3> QED
      BY <2>0, <3>8
  <2> QED
    BY <2>6, <2>7
<1>6. \A n \in 0..Len(p) : n \in T
  <2> HIDE DEF T
  <2> QED
    BY <1>3, <1>4, <1>5, UpTo
<1>7. Same(Len(p))
  BY <1>3, <1>6
<1>8. g[Len(p)] \in Seq(Segments)
  BY <1>7 DEF Paths
<1> QED
  BY <1>1, <1>2, <1>3, <1>7, <1>8, SeqEqual

\* What canonicalize_path has kept of a path without ".." stays.
LEMMA CleanGrows ==
    ASSUME NEW raw \in Paths, Clean(raw), NEW g, Steps(g, raw, NoLinks),
           NEW m \in 0..Len(raw), NEW n \in 0..m
    PROVE  Len(g[n]) <= Len(g[m]) /\ \A i \in 1..Len(g[n]) : g[m][i] = g[n][i]
<1>1. Len(raw) \in Nat /\ m \in Nat /\ n \in Nat
  BY DEF Paths
<1>2. \A k \in 0..Len(raw) : g[k] \in Paths /\ Len(g[k]) \in Nat
  <2>1. ASSUME NEW k \in 0..Len(raw) PROVE g[k] \in Seq(Segments)
    <3>1. IsPlace(g[k])
      BY NoLinksAreGood, StepsArePlaces
    <3> QED
      BY <3>1 DEF IsPlace
  <2> QED
    BY <2>1, LenProperties DEF Paths
<1> DEFINE Grown(k) == Len(g[n]) <= Len(g[n + k]) /\ \A i \in 1..Len(g[n]) : g[n + k][i] = g[n][i]
           T == {k \in 0..m - n : Grown(k)}
<1>3. 0 \in T
  <2>1. n + 0 = n /\ n \in 0..Len(raw) /\ 0 \in 0..m - n
    BY <1>1
  <2>2. Grown(0)
    BY <1>2, <2>1
  <2> QED
    BY <2>1, <2>2
<1>4. ASSUME NEW k \in 0..(m - n) - 1, k \in T
      PROVE  k + 1 \in T
  <2> DEFINE j == n + k + 1
  <2>1. /\ j \in 1..Len(raw) /\ j - 1 = n + k /\ n + k \in 0..Len(raw) /\ j = n + (k + 1)
        /\ j \in 0..Len(raw) /\ n \in 0..Len(raw) /\ k + 1 \in 0..m - n
    BY <1>1
  <2>2. /\ raw[j] \in Segments /\ g[j - 1] \in Paths
        /\ raw[j] \in {"", "."} => g[j] = g[j - 1]
        /\ raw[j] \notin {"", "."} => g[j] = Append(g[j - 1], raw[j])
    BY <2>1, CleanStep
  <2>3. Grown(k)
    BY <1>4
  <2>4. Len(g[n]) \in Nat /\ Len(g[j - 1]) \in Nat
    BY <1>2, <2>1
  <2>5. Len(g[n]) <= Len(g[j - 1]) /\ \A i \in 1..Len(g[n]) : g[j - 1][i] = g[n][i]
    BY <2>1, <2>3
  <2>6. Len(g[j - 1]) <= Len(g[j]) /\ \A i \in 1..Len(g[j - 1]) : g[j][i] = g[j - 1][i]
    <3>1. CASE raw[j] \in {"", "."}
      <4>1. g[j] = g[j - 1]
        BY <2>2, <3>1
      <4> HIDE DEF j
      <4> QED
        BY <2>4, <4>1
    <3>2. CASE raw[j] \notin {"", "."}
      <4>0. g[j] = Append(g[j - 1], raw[j])
        BY <2>2, <3>2
      <4>1. /\ Len(Append(g[j - 1], raw[j])) = Len(g[j - 1]) + 1
            /\ \A i \in 1..Len(g[j - 1]) : Append(g[j - 1], raw[j])[i] = g[j - 1][i]
        BY <2>2, AppendPath
      <4> HIDE DEF j
      <4> QED
        BY <2>4, <4>0, <4>1
    <3> QED
      BY <3>1, <3>2
  <2>7. Len(g[j]) \in Nat
    BY <1>2, <2>1
  <2> HIDE DEF j
  <2>8. Len(g[n]) <= Len(g[j]) /\ \A i \in 1..Len(g[n]) : g[j][i] = g[n][i]
    BY <2>4, <2>5, <2>6, <2>7
  <2>9. Grown(k + 1)
    BY <2>1, <2>8
  <2> QED
    BY <2>1, <2>9
<1>5. m - n \in Nat
  BY <1>1
<1>6. \A k \in 0..m - n : k \in T
  <2> HIDE DEF T
  <2> QED
    BY <1>3, <1>4, <1>5, UpTo
<1>7. m - n \in 0..m - n /\ n + (m - n) = m
  BY <1>1
<1>8. Grown(m - n)
  BY <1>6, <1>7
<1> QED
  BY <1>7, <1>8

\* What Rego's matcher takes as it is spelled, the engine's takes after canonicalize_path.
LEMMA SpelledMatchIsKept ==
    ASSUME NEW raw \in Paths, Clean(raw), NEW d, SpelledPattern(d), MatchNonEmpty(raw, d)
    PROVE  MatchPattern(raw, d)
<1>1. d \in Seq(Segments) /\ Len(d) \in Nat /\ raw \in Seq(Segments) /\ Len(raw) \in Nat
  BY DEF SpelledPattern, Paths
<1>2. PICK g : Steps(g, raw, NoLinks)
  BY CanonicalSteps
<1> DEFINE place == g[Len(raw)]
<1>3. place = Walk(raw, NoLinks)
  BY <1>2, CanonicalIs
<1>4. \A k \in 0..Len(raw) : g[k] \in Paths /\ Len(g[k]) \in Nat
  <2>1. ASSUME NEW k \in 0..Len(raw) PROVE g[k] \in Seq(Segments)
    <3>1. IsPlace(g[k])
      BY <1>2, NoLinksAreGood, StepsArePlaces
    <3> QED
      BY <3>1 DEF IsPlace
  <2> QED
    BY <2>1, LenProperties DEF Paths
<1>5. Rest(1, raw, d, 1, 1)
  BY <1>1, MatchNonEmptyIs
<1>6. PICK cut \in [0..Len(d) -> 0..Len(raw)] :
          /\ cut[0] = 0 /\ cut[Len(d)] = Len(raw)
          /\ \A j \in 1..Len(d) : Piece(1, d[j], raw, cut[j - 1], cut[j])
  <2>1. 1 - 1 = 0
    OBVIOUS
  <2> QED
    BY <1>5, <2>1 DEF Rest
<1> DEFINE kept == [j \in 0..Len(d) |-> Len(g[cut[j]])]
<1>7. kept \in [0..Len(d) -> 0..Len(place)]
  <2> SUFFICES ASSUME NEW j \in 0..Len(d) PROVE Len(g[cut[j]]) \in 0..Len(place)
    OBVIOUS
  <2>1. cut[j] \in 0..Len(raw) /\ Len(raw) \in 0..Len(raw)
    BY <1>1
  <2>2. Len(g[cut[j]]) <= Len(g[Len(raw)])
    BY <1>2, <2>1, CleanGrows
  <2> QED
    BY <1>4, <2>1, <2>2
<1>8. kept[0] = 0 /\ kept[Len(d)] = Len(place)
  <2>1. g[0] = <<>> /\ Len(<<>>) = 0
    BY <1>2 DEF Steps
  <2>2. kept[0] = Len(g[cut[0]]) /\ kept[Len(d)] = Len(g[cut[Len(d)]])
    BY <1>1
  <2>3. Len(g[0]) = 0
    BY <2>1
  <2> QED
    BY <1>6, <2>2, <2>3
<1>9. ASSUME NEW j \in 1..Len(d)
      PROVE  Takes(d[j], place, kept[j - 1], kept[j])
  <2>1. j \in 0..Len(d) /\ j - 1 \in 0..Len(d)
    BY <1>1
  <2>2. kept[j] = Len(g[cut[j]]) /\ kept[j - 1] = Len(g[cut[j - 1]])
    BY <2>1
  <2>3. cut[j] \in 0..Len(raw) /\ cut[j - 1] \in 0..Len(raw) /\ Len(raw) \in 0..Len(raw)
    BY <1>1, <2>1
  <2>4. Piece(1, d[j], raw, cut[j - 1], cut[j]) /\ Solid(d[j])
    BY <1>6 DEF SpelledPattern
  <2> HIDE DEF kept
  <2>5. CASE d[j] = "**"
    <3>1. cut[j - 1] + 1 <= cut[j]
      BY <2>4, <2>5 DEF Piece
    <3>2. cut[j - 1] \in 0..cut[j]
      BY <2>3, <3>1
    <3>3. Len(g[cut[j - 1]]) <= Len(g[cut[j]])
      BY <1>2, <2>3, <3>2, CleanGrows
    <3> QED
      BY <2>2, <2>5, <3>3 DEF Takes
  <2>6. CASE d[j] # "**"
    <3>1. cut[j] = cut[j - 1] + 1 /\ Fnmatch(raw[cut[j]], d[j])
      BY <2>4, <2>6 DEF Piece
    <3>2. raw[cut[j]] \notin {"", "."} /\ d[j] \notin {"", "."}
      BY <2>4, <2>6, <3>1 DEF Solid
    <3>3. cut[j] \in 1..Len(raw) /\ cut[j] - 1 = cut[j - 1]
      BY <2>3, <3>1
    <3>4. /\ raw[cut[j]] \in Segments /\ g[cut[j] - 1] \in Paths
          /\ g[cut[j]] = Append(g[cut[j] - 1], raw[cut[j]])
      BY <1>2, <3>2, <3>3, CleanStep
    <3>5. /\ Len(Append(g[cut[j] - 1], raw[cut[j]])) = Len(g[cut[j] - 1]) + 1
          /\ Append(g[cut[j] - 1], raw[cut[j]])[Len(g[cut[j] - 1]) + 1] = raw[cut[j]]
      BY <3>4, AppendPath
    <3>6. kept[j] = kept[j - 1] + 1 /\ g[cut[j]][kept[j]] = raw[cut[j]]
      BY <2>2, <3>3, <3>4, <3>5
    <3>7. kept[j] \in 1..Len(g[cut[j]])
      <4>1. kept[j - 1] \in Nat
        BY <1>4, <2>2, <2>3
      <4>2. kept[j] = kept[j - 1] + 1
        BY <3>6
      <4>3. kept[j] \in 1..kept[j]
        BY <4>1, <4>2
      <4> QED
        BY <2>2, <4>3
    <3>8. place[kept[j]] = raw[cut[j]]
      <4>1. \A i \in 1..Len(g[cut[j]]) : place[i] = g[cut[j]][i]
        BY <1>2, <2>3, CleanGrows
      <4> HIDE DEF place
      <4> QED
        BY <3>6, <3>7, <4>1
    <3> QED
      BY <2>6, <3>1, <3>2, <3>6, <3>8 DEF Takes
  <2> QED
    BY <2>5, <2>6
<1> HIDE DEF kept, place
<1>10. Covers(d, place)
  BY <1>7, <1>8, <1>9 DEF Covers
<1>11. ~Contains(d, "..")
  BY DEF SpelledPattern
<1>12. MatchPattern(raw, d) <=> Covers(d, Walk(raw, NoLinks))
  BY <1>1, <1>11, MatchIsCoverage
<1> QED
  BY <1>3, <1>10, <1>12
\* What a human's approval is asked for is not issued without one.
LEMMA SecretsAreKeptBack ==
    ASSUME ScopeInv, NEW p \in capsule.paths, ~IsGlob(p),
           NEW s \in SensitivePatterns, MatchPattern(Trimmed(p), s)
    PROVE  capsule.tier = "maintainer" /\ (stage = "issued" => human)
<1>1. p \in Paths /\ Kept(p)
  BY DEF ScopeInv, Kept, Paths
<1>2. ~IsGlob(Trimmed(p))
  BY <1>1, TrimmedPath
<1>3. capsule.tier = "maintainer"
  <2> SUFFICES ASSUME capsule.tier # "maintainer" PROVE FALSE
    OBVIOUS
  <2>1. s \in DeniedPatterns(capsule.tier)
    BY DEF DeniedPatterns, SensitivePatterns
  <2>2. PathMatchesDenied(p, DeniedPatterns(capsule.tier))
    BY <1>2, <2>1 DEF PathMatchesDenied
  <2> QED
    BY <1>1, <2>2 DEF Kept
<1>4. RequiresHumanApproval(capsule.tier, capsule.tools, capsule.paths, FALSE)
  BY <1>3 DEF RequiresHumanApproval
<1> QED
  BY <1>3, <1>4 DEF ScopeInv

LEMMA PowersAreKeptBack ==
    ASSUME ScopeInv, capsule.tools \intersect {"net_request", "execute_cmd"} # {}
    PROVE  capsule.tier = "maintainer" /\ (stage = "issued" => human)
<1>1. capsule.tier \in Tiers /\ capsule.tools \subseteq TierTools(capsule.tier)
  BY DEF ScopeInv, TypeOK
<1>2. capsule.tier = "maintainer"
  BY <1>1 DEF Tiers, TierTools
<1>3. RequiresHumanApproval(capsule.tier, capsule.tools, capsule.paths, FALSE)
  BY <1>2 DEF RequiresHumanApproval
<1> QED
  BY <1>2, <1>3 DEF ScopeInv

\* evaluate and _requires_human_approval leave the network, and every secret file that a literal
\* path of the capsule covers, to a maintainer's capsule that a human approved.
THEOREM SensitiveNeedsHuman == Spec => []SensitiveOnlyByHuman
<1>1. ScopeInv => SensitiveOnlyByHuman
  <2> DEFINE Secret(place) == /\ call.tool \in FileTools
                              /\ \E p \in capsule.paths : IsLiteral(p) /\ Covers(p, place)
                              /\ \E s \in SensitivePatterns : Covers(s, place)
  <2> SUFFICES ASSUME ScopeInv, call.verdict = "acted",
                      call.tool = "net_request" \/ Secret(Candidate(call.path))
               PROVE  capsule.tier = "maintainer" /\ human
    BY DEF SensitiveOnlyByHuman
  <2>1. call # NoCall /\ stage = "issued"
    BY DEF NoCall, ScopeInv, TypeOK
  <2>2. CASE call.tool = "net_request"
    <3>1. "net_request" \in capsule.tools
      BY <2>1, <2>2 DEF ScopeInv, Admits
    <3> QED
      BY <2>1, <3>1, PowersAreKeptBack
  <2>3. CASE Secret(Candidate(call.path))
    <3>1. PICK s \in SensitivePatterns : Covers(s, Candidate(call.path))
      BY <2>3
    <3>2. IsPlace(Candidate(call.path))
      BY <2>3, TouchedPlace
    <3>3. PICK p \in capsule.paths : IsLiteral(p) /\ Covers(p, Candidate(call.path))
      BY <2>3
    <3>4. p \in Paths /\ Clean(p) /\ ~IsGlob(p)
      BY <3>3 DEF ScopeInv, Kept, ValidTargetPath, Contains, Clean, Paths, IsLiteral, IsGlob
    <3>5. Candidate(call.path) \in Paths
      BY <3>2 DEF IsPlace, Paths
    <3>6. Candidate(call.path) = Canonical(p)
      BY <3>3, <3>4, <3>5, LiteralCovers
    <3>7. Trimmed(p) \in Paths /\ Canonical(Trimmed(p)) = Canonical(p)
      BY <3>4, TrimmedPath
    <3>8. Walk(Trimmed(p), NoLinks) = Candidate(call.path)
      BY <3>6, <3>7, CanonicalIsWalk DEF Paths
    <3>9. s \in Seq(Segments) /\ ~Contains(s, "..")
      BY SpelledPatterns DEF SensitivePatterns, SpelledPattern, Paths
    <3>10. MatchPattern(Trimmed(p), s) <=> Covers(s, Walk(Trimmed(p), NoLinks))
      BY <3>7, <3>9, MatchIsCoverage DEF Paths
    <3>11. MatchPattern(Trimmed(p), s)
      BY <3>1, <3>8, <3>10
    <3> QED
      BY <2>1, <3>4, <3>11, SecretsAreKeptBack
  <2> QED
    BY <2>2, <2>3
<1> QED
  BY <1>1, ScopeInductive, PTL

\* What Rego denies of a path, the engine denies of a path without "..".
LEMMA DeniedByRego ==
    ASSUME NEW p \in Paths, Clean(p), NEW d, SpelledPattern(d),
           MatchNonEmpty(Trimmed(p), d) \/ MatchNonEmpty(<<".">> \o Trimmed(p), d)
    PROVE  MatchPattern(Trimmed(p), d)
<1>1. Trimmed(p) \in Paths /\ Clean(Trimmed(p))
  BY TrimmedPath
<1>2. CASE MatchNonEmpty(Trimmed(p), d)
  BY <1>1, <1>2, SpelledMatchIsKept
<1>3. CASE MatchNonEmpty(<<".">> \o Trimmed(p), d)
  <2> DEFINE dotted == <<".">> \o Trimmed(p)
  <2>1. dotted \in Paths /\ Canonical(dotted) = Canonical(Trimmed(p))
    BY <1>1, DotSlash
  <2>2. Clean(dotted)
    <3>1. <<".">> \in Seq(Segments) /\ Trimmed(p) \in Seq(Segments)
      <4>1. "." \in Segments
        BY PathScopeAssumption
      <4> QED
        BY <1>1, <4>1 DEF Paths
    <3>2. Len(<<".">>) = 1 /\ <<".">>[1] = "." /\ Len(Trimmed(p)) \in Nat
      BY <3>1, LenProperties
    <3>3. /\ Len(dotted) = 1 + Len(Trimmed(p))
          /\ \A i \in 1..1 + Len(Trimmed(p)) :
                 dotted[i] = IF i <= 1 THEN <<".">>[i] ELSE Trimmed(p)[i - 1]
      BY <3>1, <3>2, ConcatProperties
    <3> HIDE DEF dotted
    <3>4. ASSUME NEW i \in 1..Len(dotted) PROVE dotted[i] # ".."
      <4>1. CASE i = 1
        BY <3>2, <3>3, <4>1
      <4>2. CASE i # 1
        <5>1. i - 1 \in 1..Len(Trimmed(p)) /\ ~(i <= 1) /\ i \in 1..1 + Len(Trimmed(p))
          BY <3>2, <3>3, <4>2
        <5>2. dotted[i] = Trimmed(p)[i - 1]
          BY <3>3, <5>1
        <5> QED
          BY <1>1, <5>1, <5>2 DEF Clean
      <4> QED
        BY <4>1, <4>2
    <3> QED
      BY <3>4 DEF Clean
  <2>3. MatchPattern(dotted, d)
    BY <1>3, <2>1, <2>2, SpelledMatchIsKept
  <2> QED
    BY <2>1, <2>3 DEF MatchPattern
<1> QED
  BY <1>2, <1>3

\* The engine grants no tool and no concrete path that capsule.rego refuses, and waives the
\* human only where capsule.rego does.
THEOREM EngineWithinPolicy == Spec => []WithinCanonicalPolicy
<1>1. ScopeInv => WithinCanonicalPolicy
  <2> DEFINE concrete == {p \in capsule.paths : ~IsGlob(p)}
  <2> SUFFICES ASSUME ScopeInv, stage = "issued"
               PROVE  /\ capsule.tools \subseteq RegoTools(capsule.tier)
                      /\ concrete \subseteq RegoFinal(capsule.tier, concrete)
                      /\ RegoAsksHuman(capsule.tier, capsule.tools, capsule.paths) => human
    BY DEF WithinCanonicalPolicy
  <2>1. capsule.tier \in Tiers /\ capsule.tools \subseteq TierTools(capsule.tier)
    BY DEF ScopeInv, TypeOK
  <2>2. capsule.tools \subseteq RegoTools(capsule.tier)
    BY <2>1 DEF Tiers, TierTools, RegoTools, KnownTools
  <2>3. \A p \in capsule.paths : p \in Paths /\ Clean(p) /\ Kept(p)
    BY DEF ScopeInv, Kept, ValidTargetPath, Contains, Clean, Paths
  <2>4. ASSUME NEW p \in concrete
        PROVE  p \in RegoFinal(capsule.tier, concrete)
    <3>1. p \in Paths /\ Clean(p) /\ Kept(p) /\ ~IsGlob(p)
      BY <2>3
    <3>2. ~RegoDenies(capsule.tier, p)
      <4> SUFFICES ASSUME NEW d \in RegoDenied(capsule.tier),
                          MatchNonEmpty(Trimmed(p), d) \/ MatchNonEmpty(<<".">> \o Trimmed(p), d)
                   PROVE  FALSE
        BY DEF RegoDenies
      <4>1. d \in DeniedPatterns(capsule.tier)
        BY DEF RegoDenied, DeniedPatterns, RegoSensitive, DotFiles
      <4>2. SpelledPattern(d)
        BY <4>1, SpelledPatterns DEF DeniedPatterns
      <4>3. MatchPattern(Trimmed(p), d)
        BY <3>1, <4>2, DeniedByRego
      <4>4. ~IsGlob(Trimmed(p))
        BY <3>1, TrimmedPath
      <4>5. PathMatchesDenied(p, DeniedPatterns(capsule.tier))
        BY <4>1, <4>3, <4>4 DEF PathMatchesDenied
      <4> QED
        BY <3>1, <4>5 DEF Kept
    <3> HIDE DEF concrete
    <3> QED
      BY <3>1, <3>2 DEF RegoFinal, Kept, ValidTargetPath
  <2>5. ASSUME RegoAsksHuman(capsule.tier, capsule.tools, capsule.paths)
        PROVE  human
    <3>1. CASE capsule.tools \intersect {"net_request", "execute_cmd"} # {}
      BY <3>1, PowersAreKeptBack
    <3>2. ASSUME capsule.tier = "maintainer", NEW p \in RegoFinal(capsule.tier, capsule.paths),
                 NEW s \in RegoSensitive, MatchNonEmpty(Trimmed(p), s)
          PROVE  human
      <4>1. p \in capsule.paths
        BY DEF RegoFinal
      <4>2. s \in SensitivePatterns /\ SpelledPattern(s)
        BY SpelledPatterns DEF RegoSensitive, SensitivePatterns, DotFiles
      <4>3. MatchPattern(Trimmed(p), s)
        BY <2>3, <3>2, <4>1, <4>2, DeniedByRego
      <4>4. RequiresHumanApproval(capsule.tier, capsule.tools, capsule.paths, FALSE)
        BY <3>2, <4>1, <4>2, <4>3 DEF RequiresHumanApproval
      <4> QED
        BY <4>4 DEF ScopeInv
    <3> QED
      BY <2>5, <3>1, <3>2 DEF RegoAsksHuman
  <2> QED
    BY <2>2, <2>4, <2>5
<1> QED
  BY <1>1, ScopeInductive, PTL
=============================================================================
