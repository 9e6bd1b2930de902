------------------------ MODULE SegmentedOplog_proofs ------------------------
(***************************************************************************)
(* Proofs about SegmentedOplog, for any number of handles, records,        *)
(* generations and failures.                                               *)
(***************************************************************************)
EXTENDS SegmentedOplog, TLAPS

(***************************************************************************)
(* Manifests.                                                              *)
(***************************************************************************)
Ordered(m) ==
  LET s == m.segments
  IN /\ m.base.hi <= m.head
     /\ \A a \in 1..Len(s) : m.base.hi < s[a].lo /\ s[a].hi <= m.head
     /\ \A a, b \in 1..Len(s) : a < b => s[a].hi < s[b].lo

Covers(m) == \A i \in 1..m.head : \E n \in Listed(m) : Holds(n, i)

(* A manifest that a writer can have published *)
WF(m) ==
  /\ m \in Manifests
  /\ Contiguous(m)
  /\ Ordered(m)
  /\ Covers(m)
  /\ \A k \in 1..Len(m.segments) : m.segments[k].level >= 0
  /\ \A n \in Listed(m) : n.gen <= m.gen

(* The empty log is well formed. *)
LEMMA WFNoManifest == WF(NoManifest) /\ Listed(NoManifest) = {Canonical}
<1>1. /\ NoManifest \in Manifests /\ NoManifest.segments = << >>
      /\ NoManifest.base = Canonical /\ NoManifest.head = 0 /\ NoManifest.gen = 0
      /\ Canonical.lo = 1 /\ Canonical.hi = 0 /\ Canonical.gen = 0
  BY DEF NoManifest, Manifests, Names, Canonical, Name, BaseLevel
<1>2. Len(<< >>) = 0 /\ DOMAIN << >> = {}
  OBVIOUS
<1>3. Listed(NoManifest) = {Canonical}
  BY <1>1, <1>2 DEF Listed
<1>4. Contiguous(NoManifest)
  BY <1>1, <1>2 DEF Contiguous
<1>5. Ordered(NoManifest) /\ Covers(NoManifest)
  BY <1>1, <1>2 DEF Ordered, Covers
<1> QED
  BY <1>1, <1>2, <1>3, <1>4, <1>5 DEF WF

(* The containers listed are the base and the segments. *)
LEMMA ListedCases ==
  ASSUME NEW m \in Manifests, NEW n \in Listed(m)
  PROVE  n \in Names /\ (n = m.base \/ \E k \in 1..Len(m.segments) : n = m.segments[k])
  BY DEF Listed, Manifests

(* No two listed containers hold the same entry. *)
LEMMA HomeUnique ==
  ASSUME NEW m, WF(m), NEW n1 \in Listed(m), NEW n2 \in Listed(m), NEW i \in Nat,
         Holds(n1, i), Holds(n2, i)
  PROVE  n1 = n2
<1>1. m \in Manifests /\ Ordered(m)
  BY DEF WF
<1>2. m.segments \in Seq(Names) /\ m.base \in Names
  BY <1>1 DEF Manifests
<1>3. ASSUME NEW k \in 1..Len(m.segments), NEW n \in Names, n = m.segments[k],
             Holds(n, i), Holds(m.base, i)
      PROVE  FALSE
  <2>1. m.base.hi < n.lo
    BY <1>1, <1>3 DEF Ordered
  <2>2. n.lo <= i /\ i <= m.base.hi
    BY <1>3 DEF Holds
  <2>3. n.lo \in Nat /\ m.base.hi \in Nat
    BY <1>2, <1>3 DEF Names
  <2> QED
    BY <2>1, <2>2, <2>3
<1>4. CASE n1 = m.base \/ n2 = m.base
  BY <1>1, <1>3, <1>4, ListedCases
<1>5. CASE n1 # m.base /\ n2 # m.base
  <2>1. PICK a \in 1..Len(m.segments) : n1 = m.segments[a]
    BY <1>1, <1>5, ListedCases
  <2>2. PICK b \in 1..Len(m.segments) : n2 = m.segments[b]
    BY <1>1, <1>5, ListedCases
  <2>3. a < b => n1.hi < n2.lo
    BY <1>1, <2>1, <2>2 DEF Ordered
  <2>4. b < a => n2.hi < n1.lo
    BY <1>1, <2>1, <2>2 DEF Ordered
  <2>5. n1 \in Names /\ n2 \in Names
    BY <1>1, ListedCases
  <2>6. ~(a < b) /\ ~(b < a)
    BY <2>3, <2>4, <2>5 DEF Holds, Names
  <2>7. a = b
    BY <2>6
  <2> QED
    BY <2>1, <2>2, <2>7
<1> QED
  BY <1>4, <1>5

(* The entry at i is the one in whichever listed container holds i. *)
LEMMA HomeEntry ==
  ASSUME NEW m, WF(m), NEW d, NEW t, Listed(m) \subseteq DOMAIN d \ t,
         NEW n \in Listed(m), NEW i \in Nat, Holds(n, i)
  PROVE  EntryAt(m, d, t, i) = d[n][i]
<1> DEFINE home == {x \in Listed(m) : Holds(x, i) /\ x \in DOMAIN d /\ x \notin t}
<1>1. home = {n}
  BY HomeUnique
<1>2. (CHOOSE x \in home : TRUE) = n
  BY <1>1
<1>3. EntryAt(m, d, t, i) = IF home = {} THEN Lost ELSE d[CHOOSE x \in home : TRUE][i]
  BY DEF EntryAt
<1> QED
  BY <1>1, <1>2, <1>3

(***************************************************************************)
(* What a writer publishes.                                                *)
(***************************************************************************)

(* The fields of the manifest that an append publishes. *)
LEMMA AppendFields ==
  ASSUME NEW m \in Manifests, NEW k \in 0..Len(m.segments)
  PROVE  LET am == AppendManifest(m, k)
             n == AppendName(m, k)
             c == Len(m.segments) - k
         IN /\ am \in Manifests /\ n \in Names
            /\ am.gen = m.gen + 1 /\ am.head = m.head + 1 /\ am.base = m.base
            /\ c \in Nat /\ Len(am.segments) = c + 1
            /\ \A j \in 1..c : am.segments[j] = m.segments[j]
            /\ am.segments[c + 1] = n
            /\ n.level = k /\ n.hi = m.head + 1 /\ n.gen = m.gen + 1
            /\ n.lo = IF k = 0 THEN m.head + 1 ELSE m.segments[c + 1].lo
<1> DEFINE n == AppendName(m, k)
           c == Len(m.segments) - k
           sub == SubSeq(m.segments, 1, c)
           am == AppendManifest(m, k)
<1>1. m.segments \in Seq(Names) /\ m.gen \in Nat /\ m.head \in Nat /\ m.base \in Names
  BY DEF Manifests
<1>2. c \in Nat /\ c <= Len(m.segments) /\ (k # 0 => c + 1 \in 1..Len(m.segments))
  BY <1>1
<1>3. /\ n.level = k /\ n.hi = m.head + 1 /\ n.gen = m.gen + 1
      /\ n.lo = IF k = 0 THEN m.head + 1 ELSE m.segments[c + 1].lo
  BY DEF AppendName, Name
<1>4. n \in Names
  <2>1. k # 0 => m.segments[c + 1] \in Names
    BY <1>1, <1>2
  <2>2. k # 0 => m.segments[c + 1].lo \in Nat
    BY <2>1 DEF Names
  <2> DEFINE lo == IF k = 0 THEN m.head + 1 ELSE m.segments[c + 1].lo
  <2>3. lo \in Nat
    BY <1>1, <2>2
  <2>4. n = [level |-> k, lo |-> lo, hi |-> m.head + 1, gen |-> m.gen + 1]
    BY DEF AppendName, Name
  <2> HIDE DEF lo, n
  <2> QED
    BY <1>1, <2>3, <2>4 DEF Names
<1> HIDE DEF n
<1>5. sub \in Seq(Names) /\ Len(sub) = c /\ \A j \in 1..c : sub[j] = m.segments[j]
  BY <1>1, <1>2
<1> HIDE DEF sub, c
<1>6. /\ Append(sub, n) \in Seq(Names) /\ Len(Append(sub, n)) = c + 1
      /\ \A j \in 1..c : Append(sub, n)[j] = m.segments[j]
      /\ Append(sub, n)[c + 1] = n
  BY <1>2, <1>4, <1>5
<1> DEFINE ns == Append(sub, n)
<1>7. am = [m EXCEPT !.gen = m.gen + 1, !.head = m.head + 1, !.segments = ns]
  BY DEF AppendManifest, n, sub, c
<1> HIDE DEF am, ns
<1>8. m.gen + 1 \in Nat /\ m.head + 1 \in Nat /\ ns \in Seq(Names)
  BY <1>1, <1>6 DEF ns
<1>9. /\ am \in Manifests /\ am.gen = m.gen + 1 /\ am.head = m.head + 1
      /\ am.base = m.base /\ am.segments = ns
  <2> DEFINE g == m.gen + 1
             h == m.head + 1
  <2>1. g \in Nat /\ h \in Nat /\ am = [m EXCEPT !.gen = g, !.head = h, !.segments = ns]
    BY <1>7, <1>8
  <2> HIDE DEF g, h
  <2>2. am \in Manifests /\ am.gen = g /\ am.head = h /\ am.base = m.base /\ am.segments = ns
    BY <1>8, <2>1 DEF Manifests
  <2> QED
    BY <2>2 DEF g, h
<1>10. /\ Len(am.segments) = c + 1
       /\ \A j \in 1..c : am.segments[j] = m.segments[j]
       /\ am.segments[c + 1] = n
  BY <1>6, <1>9 DEF ns
<1> QED
  BY <1>2, <1>3, <1>4, <1>9, <1>10 DEF n, am, c

(* An append drops the segments it carries and adds the one it wrote. *)
LEMMA AppendListed ==
  ASSUME NEW m \in Manifests, NEW k \in 0..Len(m.segments)
  PROVE  /\ AppendName(m, k) \in Listed(AppendManifest(m, k))
         /\ Listed(AppendManifest(m, k)) \subseteq Listed(m) \union {AppendName(m, k)}
         /\ m.base \in Listed(AppendManifest(m, k))
         /\ \A j \in 1..(Len(m.segments) - k) :
              m.segments[j] \in Listed(AppendManifest(m, k))
<1> DEFINE am == AppendManifest(m, k)
           n == AppendName(m, k)
           c == Len(m.segments) - k
<1>1. /\ am \in Manifests /\ am.base = m.base /\ c \in Nat /\ Len(am.segments) = c + 1
      /\ \A j \in 1..c : am.segments[j] = m.segments[j]
      /\ am.segments[c + 1] = n
  BY AppendFields
<1>2. m.segments \in Seq(Names) /\ am.segments \in Seq(Names)
  BY <1>1 DEF Manifests
<1>3. DOMAIN m.segments = 1..Len(m.segments) /\ DOMAIN am.segments = 1..(c + 1)
  BY <1>1, <1>2
<1> HIDE DEF am, n
<1>4. n \in Listed(am) /\ m.base \in Listed(am)
  BY <1>1, <1>3 DEF Listed
<1>5. ASSUME NEW j \in 1..c PROVE m.segments[j] \in Listed(am)
  <2>1. j \in DOMAIN am.segments /\ m.segments[j] = am.segments[j]
    BY <1>1, <1>3, <1>5
  <2> QED
    BY <2>1 DEF Listed
<1>6. ASSUME NEW x \in Listed(am) PROVE x \in Listed(m) \union {n}
  <2>1. CASE x = am.base
    BY <1>1, <2>1 DEF Listed
  <2>2. CASE x # am.base
    <3>1. PICK j \in 1..(c + 1) : x = am.segments[j]
      BY <1>1, <2>2, ListedCases
    <3>2. CASE j = c + 1
      BY <1>1, <3>1, <3>2
    <3>3. CASE j # c + 1
      <4>0. c \in Nat /\ j \in 1..(c + 1) /\ j # c + 1
        BY <1>1, <3>1, <3>3
      <4>2. Len(m.segments) \in Nat /\ c <= Len(m.segments)
        BY <1>2
      <4> HIDE DEF c
      <4>1. j \in 1..c /\ j \in 1..Len(m.segments)
        BY <4>0, <4>2
      <4> QED
        BY <1>1, <1>3, <3>1, <4>1 DEF Listed
    <3> QED
      BY <3>2, <3>3
  <2> QED
    BY <2>1, <2>2
<1> QED
  BY <1>4, <1>5, <1>6 DEF am, n

(* The manifest that an append publishes is well formed. *)
LEMMA AppendWF ==
  ASSUME NEW m, WF(m), NEW k \in 0..Len(m.segments), Carries(m.segments, k)
  PROVE  WF(AppendManifest(m, k))
<1> DEFINE am == AppendManifest(m, k)
           n == AppendName(m, k)
           s == m.segments
           as == am.segments
           c == Len(s) - k
<1>1. /\ m \in Manifests /\ s \in Seq(Names) /\ m.base \in Names
      /\ m.head \in Nat /\ m.gen \in Nat /\ c \in Nat
      /\ \A j \in 1..Len(s) : s[j] \in Names
  BY DEF WF, Manifests
<1>2. /\ am \in Manifests /\ n \in Names
      /\ am.gen = m.gen + 1 /\ am.head = m.head + 1 /\ am.base = m.base
      /\ c \in Nat /\ Len(as) = c + 1
      /\ \A j \in 1..c : as[j] = s[j]
      /\ as[c + 1] = n
      /\ n.level = k /\ n.hi = m.head + 1 /\ n.gen = m.gen + 1
      /\ n.lo = IF k = 0 THEN m.head + 1 ELSE s[c + 1].lo
  BY <1>1, AppendFields
<1>3. /\ n \in Listed(am)
      /\ Listed(am) \subseteq Listed(m) \union {n}
      /\ m.base \in Listed(am)
      /\ \A j \in 1..c : s[j] \in Listed(am)
  BY <1>1, AppendListed
<1> HIDE DEF am, n
<1>4. /\ c + k = Len(s) /\ c <= Len(s) /\ (k = 0 => c = Len(s))
      /\ (k # 0 => c + 1 \in 1..Len(s))
  BY <1>1
<1>5. /\ m.base.hi <= m.head
      /\ \A a \in 1..Len(s) : m.base.hi < s[a].lo /\ s[a].hi <= m.head
      /\ \A a, b \in 1..Len(s) : a < b => s[a].hi < s[b].lo
  BY DEF WF, Ordered
<1>6. /\ m.base.lo = 1
      /\ \A j \in 1..Len(s) : s[j].lo <= s[j].hi
      /\ \A j \in 1..Len(s) : s[j].lo = IF j = 1 THEN m.base.hi + 1 ELSE s[j - 1].hi + 1
      /\ \A j \in 2..Len(s) : s[j - 1].level > s[j].level
      /\ m.head = IF s = << >> THEN m.base.hi ELSE s[Len(s)].hi
  BY DEF WF, Contiguous
<1> HIDE DEF as, s, c
<1>7. /\ \A j \in 1..Len(s) : s[j].lo \in Nat /\ s[j].hi \in Nat /\ s[j].level \in Int
      /\ m.base.hi \in Nat /\ n.lo \in Nat /\ n.hi \in Nat
  BY <1>1, <1>2 DEF Names
<1>8. n.lo <= m.head + 1 /\ m.base.hi < n.lo
  <2>1. CASE k = 0
    BY <1>1, <1>2, <1>5, <1>7, <2>1
  <2>2. CASE k # 0
    <3>1. /\ c + 1 \in 1..Len(s) /\ n.lo = s[c + 1].lo
          /\ s[c + 1].lo <= s[c + 1].hi /\ s[c + 1].hi <= m.head /\ m.base.hi < s[c + 1].lo
      BY <1>2, <1>4, <1>5, <1>6, <2>2
    <3> QED
      BY <1>1, <1>7, <3>1
  <2> QED
    BY <2>1, <2>2
<1>9. ASSUME NEW a \in 1..c PROVE s[a].hi < n.lo
  <2>0. a \in 1..Len(s)
    BY <1>1, <1>4
  <2>1. CASE k = 0
    <3>1. s[a].hi <= m.head
      BY <1>5, <2>0
    <3> QED
      BY <1>1, <1>2, <1>7, <2>0, <2>1, <3>1
  <2>2. CASE k # 0
    <3>1. c + 1 \in 1..Len(s) /\ n.lo = s[c + 1].lo /\ a < c + 1
      BY <1>1, <1>2, <1>4, <2>2
    <3> QED
      BY <1>5, <2>0, <3>1
  <2> QED
    BY <2>1, <2>2
<1>10. n.lo = IF c = 0 THEN m.base.hi + 1 ELSE s[c].hi + 1
  <2>1. CASE k = 0 /\ c = 0
    <3>1. Len(s) = 0 /\ s = << >>
      BY <1>1, <1>4, <2>1 DEF s
    <3> QED
      BY <1>2, <1>6, <2>1, <3>1
  <2>2. CASE k = 0 /\ c # 0
    <3>1. s # << >> /\ Len(s) = c
      BY <1>1, <1>4, <2>2 DEF s
    <3> QED
      BY <1>2, <1>6, <2>2, <3>1
  <2>3. CASE k # 0
    <3>1. c + 1 \in 1..Len(s) /\ n.lo = s[c + 1].lo
      BY <1>2, <1>4, <2>3
    <3>2. s[c + 1].lo = IF c + 1 = 1 THEN m.base.hi + 1 ELSE s[c + 1 - 1].hi + 1
      BY <1>1, <1>6, <3>1
    <3>3. (c + 1 = 1 <=> c = 0) /\ c + 1 - 1 = c
      BY <1>1
    <3> QED
      BY <3>1, <3>2, <3>3
  <2> QED
    BY <2>1, <2>2, <2>3
<1>11. c # 0 => s[c].level > k
  <2> SUFFICES ASSUME c # 0 PROVE s[c].level > k
    OBVIOUS
  <2>1. c \in 1..Len(s) /\ k < Len(s) /\ Len(s) - k = c
    BY <1>1, <1>4
  <2>2. s[c].level # k
    BY <2>1 DEF Carries, s
  <2>3. CASE k = 0
    <3>1. s[c].level >= 0
      BY <2>1 DEF WF, s
    <3> QED
      BY <1>7, <2>1, <2>2, <2>3, <3>1
  <2>4. CASE k # 0
    <3>1. c + 1 \in 2..Len(s) /\ k \in 1..k /\ Len(s) - k + 1 = c + 1 /\ c + 1 - 1 = c
      BY <1>1, <1>4, <2>1, <2>4
    <3>2. s[c + 1].level = k - 1
      BY <3>1 DEF Carries, s
    <3>3. s[c].level > s[c + 1].level
      BY <1>1, <1>6, <3>1
    <3> QED
      BY <1>7, <2>1, <2>2, <3>2, <3>3
  <2> QED
    BY <2>3, <2>4
<1>12. \A j \in 1..(c + 1) : j = c + 1 \/ (j \in 1..c /\ j \in 1..Len(s))
  BY <1>1, <1>4
<1>13. Contiguous(am)
  <2>1. \A j \in 1..(c + 1) : as[j].lo <= as[j].hi
    BY <1>1, <1>2, <1>6, <1>8, <1>12
  <2>2. ASSUME NEW j \in 1..(c + 1)
        PROVE  as[j].lo = IF j = 1 THEN m.base.hi + 1 ELSE as[j - 1].hi + 1
    <3>1. CASE j = c + 1
      <4>1. (j = 1 <=> c = 0) /\ (j # 1 => j - 1 = c /\ c \in 1..c)
        BY <1>1, <3>1
      <4> QED
        BY <1>2, <1>10, <3>1, <4>1
    <3>2. CASE j \in 1..c /\ j \in 1..Len(s)
      <4>1. j # 1 => j - 1 \in 1..c
        BY <1>1, <3>2
      <4> QED
        BY <1>2, <1>6, <3>2, <4>1
    <3> QED
      BY <1>12, <3>1, <3>2
  <2>3. ASSUME NEW j \in 2..(c + 1)
        PROVE  as[j - 1].level > as[j].level
    <3>1. CASE j = c + 1
      <4>1. j - 1 = c /\ c \in 1..c /\ c # 0
        BY <1>1, <3>1
      <4> QED
        BY <1>2, <1>11, <3>1, <4>1
    <3>2. CASE j # c + 1
      <4>1. j \in 1..c /\ j - 1 \in 1..c /\ j \in 2..Len(s)
        BY <1>1, <1>4, <3>2
      <4> QED
        BY <1>2, <1>6, <4>1
    <3> QED
      BY <3>1, <3>2
  <2>4. as # << >>
    BY <1>1, <1>2 DEF as
  <2> QED
    BY <1>2, <1>6, <2>1, <2>2, <2>3, <2>4 DEF Contiguous, as
<1>14. Ordered(am)
  <2>1. m.base.hi <= am.head
    BY <1>1, <1>2, <1>5, <1>7
  <2>2. ASSUME NEW j \in 1..(c + 1) PROVE m.base.hi < as[j].lo /\ as[j].hi <= am.head
    <3>1. CASE j = c + 1
      <4>1. as[j] = n /\ am.head = n.hi
        BY <1>2, <3>1
      <4> QED
        BY <1>7, <1>8, <4>1
    <3>2. CASE j \in 1..c /\ j \in 1..Len(s)
      <4>1. as[j] = s[j] /\ m.base.hi < s[j].lo /\ s[j].hi <= m.head
        BY <1>2, <1>5, <3>2
      <4> QED
        BY <1>1, <1>2, <1>7, <3>2, <4>1
    <3> QED
      BY <1>12, <3>1, <3>2
  <2>3. ASSUME NEW a \in 1..(c + 1), NEW b \in 1..(c + 1), a < b
        PROVE  as[a].hi < as[b].lo
    <3>1. a \in 1..c /\ a \in 1..Len(s)
      BY <1>1, <1>4, <2>3
    <3>2. CASE b = c + 1
      BY <1>2, <1>9, <3>1, <3>2
    <3>3. CASE b \in 1..c /\ b \in 1..Len(s)
      BY <1>2, <1>5, <2>3, <3>1, <3>3
    <3> QED
      BY <1>12, <3>2, <3>3
  <2> QED
    BY <1>2, <2>1, <2>2, <2>3 DEF Ordered, as
<1>15. Covers(am)
  <2> SUFFICES ASSUME NEW i \in 1..am.head PROVE \E x \in Listed(am) : Holds(x, i)
    BY DEF Covers
  <2>1. CASE i = m.head + 1
    BY <1>1, <1>2, <1>3, <1>8, <2>1 DEF Holds
  <2>2. CASE i # m.head + 1
    <3>1. i \in 1..m.head
      BY <1>1, <1>2, <2>2
    <3>2. PICK x \in Listed(m) : Holds(x, i)
      BY <3>1 DEF WF, Covers
    <3>3. CASE x = m.base
      BY <1>3, <3>2, <3>3
    <3>4. CASE x # m.base
      <4>1. PICK j \in 1..Len(s) : x = s[j]
        BY <1>1, <3>4, ListedCases DEF s
      <4>2. CASE j \in 1..c
        BY <1>3, <3>2, <4>1, <4>2
      <4>3. CASE j \notin 1..c
        <5>1. k # 0 /\ c + 1 \in 1..Len(s) /\ (c + 1 = j \/ c + 1 < j)
          BY <1>1, <1>4, <4>3
        <5>2. n.lo = s[c + 1].lo
          BY <1>2, <5>1
        <5>3. s[c + 1].lo <= s[j].lo
          <6>1. CASE c + 1 = j
            BY <1>7, <6>1
          <6>2. CASE c + 1 < j
            <7>1. s[c + 1].hi < s[j].lo /\ s[c + 1].lo <= s[c + 1].hi
              BY <1>5, <1>6, <5>1, <6>2
            <7> QED
              BY <1>7, <5>1, <7>1
          <6> QED
            BY <5>1, <6>1, <6>2
        <5>4. n.lo <= i
          BY <1>7, <3>2, <4>1, <5>1, <5>2, <5>3 DEF Holds
        <5> QED
          BY <1>1, <1>2, <1>3, <3>1, <5>4 DEF Holds
      <4> QED
        BY <4>2, <4>3
    <3> QED
      BY <3>3, <3>4
  <2> QED
    BY <2>1, <2>2
<1>16. ASSUME NEW j \in 1..(c + 1) PROVE as[j].level >= 0
  <2>1. \A i \in 1..Len(s) : s[i].level >= 0
    BY DEF WF, s
  <2>2. CASE j = c + 1
    <3>0. Len(m.segments) \in Nat
      BY <1>1 DEF s
    <3>1. as[j] = n
      BY <1>2, <2>2
    <3>2. n.level = k
      BY <1>2
    <3>3. k >= 0
      BY <3>0
    <3> QED
      BY <3>1, <3>2, <3>3
  <2>3. CASE j \in 1..c /\ j \in 1..Len(s)
    BY <1>2, <2>1, <2>3
  <2> QED
    BY <1>12, <2>2, <2>3
<1>17. ASSUME NEW x \in Listed(am) PROVE x.gen <= am.gen
  <2>1. CASE x = n
    BY <1>1, <1>2, <2>1
  <2>2. CASE x \in Listed(m)
    <3>1. x \in Names /\ x.gen <= m.gen
      BY <1>1, <2>2, ListedCases DEF WF
    <3> QED
      BY <1>1, <1>2, <3>1 DEF Names
  <2> QED
    BY <1>3, <2>1, <2>2
<1> QED
  BY <1>2, <1>13, <1>14, <1>15, <1>16, <1>17 DEF WF, am, as

(* So is the manifest that a rewrite publishes; it lists the new base only. *)
LEMMA BaseWF ==
  ASSUME NEW m, WF(m)
  PROVE  /\ WF(BaseManifest(m)) /\ BaseName(m) \in Names
         /\ Listed(BaseManifest(m)) = {BaseName(m)}
         /\ BaseManifest(m).gen = m.gen + 1 /\ BaseManifest(m).head = m.head
         /\ BaseName(m).lo = 1 /\ BaseName(m).hi = m.head /\ BaseName(m).gen = m.gen + 1
<1>1. m.gen \in Nat /\ m.head \in Nat
  BY DEF WF, Manifests
<1> DEFINE bm == BaseManifest(m)
           n == BaseName(m)
<1>2. /\ n \in Names /\ n.lo = 1 /\ n.hi = m.head /\ n.gen = m.gen + 1
      /\ bm.gen = m.gen + 1 /\ bm.base = n /\ bm.segments = << >> /\ bm.head = m.head
  BY <1>1 DEF BaseManifest, BaseName, Name, Names, BaseLevel
<1>3. bm \in Manifests
  BY <1>1, <1>2 DEF BaseManifest, Manifests
<1> HIDE DEF n, bm
<1>4. Len(<< >>) = 0 /\ DOMAIN << >> = {}
  OBVIOUS
<1>5. Listed(bm) = {n}
  BY <1>2, <1>4 DEF Listed
<1>6. Contiguous(bm) /\ Ordered(bm)
  BY <1>1, <1>2, <1>4 DEF Contiguous, Ordered
<1>7. Covers(bm)
  BY <1>2, <1>5 DEF Covers, Holds
<1> QED
  BY <1>1, <1>2, <1>3, <1>4, <1>5, <1>6, <1>7 DEF WF, n, bm

(***************************************************************************)
(* The log that a manifest and a directory make up.                        *)
(***************************************************************************)

(* Every container that exists holds entries lo..hi. *)
DiskOK(d) == \A n \in DOMAIN d : n \in Names /\ d[n] \in [n.lo..n.hi -> Entry]

(* Container n exists, can be read, and holds its part of the log l. *)
Written(d, t, n, l) == n \in DOMAIN d \ t /\ d[n] = [i \in n.lo..n.hi |-> l[i]]

(* The log is a sequence of entries, as long as the manifest says. *)
LEMMA LogType ==
  ASSUME NEW m, WF(m), NEW d, DiskOK(d), NEW t, Listed(m) \subseteq DOMAIN d \ t
  PROVE  /\ LogOf(m, d, t) \in Logs
         /\ Len(LogOf(m, d, t)) = m.head
         /\ DOMAIN LogOf(m, d, t) = 1..m.head
<1>1. m \in Manifests /\ m.head \in Nat
  BY DEF WF, Manifests
<1>2. ASSUME NEW i \in 1..m.head PROVE EntryAt(m, d, t, i) \in Entry
  <2>1. PICK n \in Listed(m) : Holds(n, i)
    BY DEF WF, Covers
  <2>2. n \in Names /\ d[n] \in [n.lo..n.hi -> Entry]
    BY <1>1, ListedCases DEF DiskOK
  <2>3. i \in n.lo..n.hi
    BY <2>1, <2>2 DEF Holds, Names
  <2>4. EntryAt(m, d, t, i) = d[n][i]
    BY <2>1, HomeEntry
  <2> QED
    BY <2>2, <2>3, <2>4
<1>3. LogOf(m, d, t) \in [1..m.head -> Entry]
  BY <1>2 DEF LogOf
<1> QED
  BY <1>1, <1>3 DEF Logs

(* The log depends on the listed containers only. *)
LEMMA LogSame ==
  ASSUME NEW m, WF(m), NEW d, NEW t, NEW e, NEW u,
         Listed(m) \subseteq DOMAIN d \ t, Listed(m) \subseteq DOMAIN e \ u,
         \A n \in Listed(m) : d[n] = e[n]
  PROVE  LogOf(m, d, t) = LogOf(m, e, u)
<1>1. ASSUME NEW i \in 1..m.head PROVE EntryAt(m, d, t, i) = EntryAt(m, e, u, i)
  <2>1. PICK n \in Listed(m) : Holds(n, i)
    BY DEF WF, Covers
  <2>2. EntryAt(m, d, t, i) = d[n][i] /\ EntryAt(m, e, u, i) = e[n][i]
    BY <2>1, HomeEntry
  <2> QED
    BY <2>2
<1> QED
  BY <1>1 DEF LogOf

(* What an append needs: a log that opens, the tail to carry, the segment written *)
CanAppend(m, k, d, t, x, l) ==
  /\ WF(m) /\ k \in 0..Len(m.segments) /\ Carries(m.segments, k)
  /\ DiskOK(d) /\ Listed(m) \subseteq DOMAIN d \ t
  /\ x \in Entry /\ l = Append(LogOf(m, d, t), x)
  /\ Written(d, t, AppendName(m, k), l)

(* An append's manifest makes up the log extended by its entry. *)
LEMMA AppendLog ==
  ASSUME NEW m, NEW k, NEW d, NEW t, NEW x, NEW l, CanAppend(m, k, d, t, x, l)
  PROVE  LogOf(AppendManifest(m, k), d, t) = l
<1> DEFINE am == AppendManifest(m, k)
           nm == AppendName(m, k)
           old == LogOf(m, d, t)
           c == Len(m.segments) - k
<1>0. /\ WF(m) /\ DiskOK(d) /\ Listed(m) \subseteq DOMAIN d \ t
      /\ k \in 0..Len(m.segments) /\ Written(d, t, nm, l)
  BY DEF CanAppend
<1>1. m \in Manifests /\ m.head \in Nat /\ WF(am) /\ m.segments \in Seq(Names)
  BY AppendWF DEF CanAppend, WF, Manifests
<1>2. /\ nm \in Names /\ am.head = m.head + 1 /\ c \in Nat
      /\ nm.lo = (IF k = 0 THEN m.head + 1 ELSE m.segments[c + 1].lo)
      /\ nm.hi = m.head + 1
  BY <1>0, <1>1, AppendFields
<1>3. /\ nm \in Listed(am) /\ Listed(am) \subseteq Listed(m) \union {nm}
      /\ m.base \in Listed(am)
      /\ \A j \in 1..c : m.segments[j] \in Listed(am)
  BY <1>0, <1>1, AppendListed
<1>4. old \in Logs /\ Len(old) = m.head
  BY <1>0, LogType
<1> HIDE DEF am, nm, c, old
<1>5. /\ l \in Logs /\ Len(l) = m.head + 1
      /\ \A i \in 1..m.head : l[i] = old[i]
  <2>1. x \in Entry /\ l = Append(old, x)
    BY DEF CanAppend, old
  <2> QED
    BY <1>1, <1>4, <2>1 DEF Logs
<1>6. Listed(am) \subseteq DOMAIN d \ t
  BY <1>0, <1>3 DEF Written
<1>7. ASSUME NEW i \in 1..am.head PROVE EntryAt(am, d, t, i) = l[i]
  <2>1. CASE nm.lo <= i
    <3>1. Holds(nm, i) /\ i \in nm.lo..nm.hi /\ i \in Nat
      BY <1>1, <1>2, <2>1 DEF Holds, Names
    <3>2. EntryAt(am, d, t, i) = d[nm][i]
      <4>1. WF(am) /\ Listed(am) \subseteq DOMAIN d \ t /\ nm \in Listed(am)
        BY <1>1, <1>3, <1>6
      <4> QED
        BY <3>1, <4>1, HomeEntry
    <3> QED
      BY <1>0, <3>1, <3>2 DEF Written
  <2>2. CASE ~(nm.lo <= i)
    <3>1. i \in 1..m.head /\ i < nm.lo /\ i \in Nat
      <4>1. nm.lo \in Nat /\ nm.lo <= m.head + 1
        <5>1. CASE k = 0
          BY <1>1, <1>2, <5>1
        <5>2. CASE k # 0
          <6>1. c + 1 \in 1..Len(am.segments) /\ am.segments[c + 1] = nm
            BY <1>0, <1>1, AppendFields DEF am, nm, c
          <6>2. nm.hi <= am.head /\ nm.lo <= nm.hi
            BY <1>1, <6>1 DEF WF, Ordered, Contiguous
          <6> QED
            BY <1>2, <6>2 DEF Names
        <5> QED
          BY <5>1, <5>2
      <4> QED
        BY <1>1, <2>2, <4>1
    <3>2. PICK y \in Listed(m) : Holds(y, i)
      BY <1>0, <3>1 DEF WF, Covers
    <3>3. y \in Listed(am)
      <4>1. CASE y = m.base
        BY <1>3, <4>1
      <4>2. CASE y # m.base
        <5>1. PICK j \in 1..Len(m.segments) : y = m.segments[j]
          BY <1>1, <4>2, ListedCases
        <5>2. CASE j \in 1..c
          BY <1>3, <5>1, <5>2
        <5>3. CASE j \notin 1..c
          <6>1. k # 0 /\ c + 1 \in 1..Len(m.segments) /\ (c + 1 = j \/ c + 1 < j)
            BY <1>0, <1>1, <1>2, <5>3 DEF c
          <6>2. nm.lo = m.segments[c + 1].lo
            BY <1>2, <6>1
          <6>3. c + 1 < j => m.segments[c + 1].hi < m.segments[j].lo
            BY <1>0, <6>1 DEF WF, Ordered
          <6>4. m.segments[c + 1].lo <= m.segments[c + 1].hi
            BY <1>0, <6>1 DEF WF, Contiguous
          <6>5. m.segments[c + 1] \in Names /\ m.segments[j] \in Names
            BY <1>1, <6>1
          <6>6. m.segments[c + 1].lo <= m.segments[j].lo
            BY <6>1, <6>3, <6>4, <6>5 DEF Names
          <6>7. nm.lo \in Nat /\ y.lo \in Nat /\ nm.lo <= y.lo
            BY <1>2, <5>1, <6>2, <6>5, <6>6 DEF Names
          <6>8. y.lo <= i
            BY <3>2 DEF Holds
          <6> QED
            BY <3>1, <6>7, <6>8
        <5> QED
          BY <5>2, <5>3
      <4> QED
        BY <4>1, <4>2
    <3>4. EntryAt(am, d, t, i) = d[y][i]
      <4>1. WF(am) /\ Listed(am) \subseteq DOMAIN d \ t
        BY <1>1, <1>6
      <4>2. Holds(y, i) /\ i \in Nat
        BY <3>1, <3>2
      <4> QED
        BY <3>3, <4>1, <4>2, HomeEntry
    <3>5. EntryAt(m, d, t, i) = d[y][i]
      <4>1. WF(m) /\ Listed(m) \subseteq DOMAIN d \ t
        BY <1>0
      <4>2. Holds(y, i) /\ i \in Nat
        BY <3>1, <3>2
      <4> QED
        BY <4>1, <4>2, HomeEntry
    <3>6. old[i] = EntryAt(m, d, t, i)
      BY <3>1 DEF old, LogOf
    <3> QED
      BY <1>5, <3>1, <3>4, <3>5, <3>6
  <2> QED
    BY <2>1, <2>2
<1>8. LogOf(am, d, t) = [i \in 1..am.head |-> l[i]]
  BY <1>7 DEF LogOf
<1>9. l = [i \in 1..(m.head + 1) |-> l[i]]
  <2>1. l \in Seq(Entry) /\ DOMAIN l = 1..(m.head + 1)
    BY <1>1, <1>5 DEF Logs
  <2> QED
    BY <2>1
<1> QED
  BY <1>2, <1>8, <1>9 DEF am

(* A rewrite's manifest makes up the log it wrote. *)
LEMMA BaseLog ==
  ASSUME NEW m, WF(m), NEW d, NEW t, NEW l \in Logs, Len(l) = m.head,
         Written(d, t, BaseName(m), l)
  PROVE  LogOf(BaseManifest(m), d, t) = l
<1> DEFINE bm == BaseManifest(m)
           n == BaseName(m)
<1>1. /\ WF(bm) /\ n \in Names /\ Listed(bm) = {n} /\ bm.head = m.head
      /\ n.lo = 1 /\ n.hi = m.head
  BY BaseWF
<1>2. m.head \in Nat
  BY DEF WF, Manifests
<1> HIDE DEF bm
<1>3. ASSUME NEW i \in 1..m.head PROVE EntryAt(bm, d, t, i) = l[i]
  <2>1. Holds(n, i) /\ i \in Nat /\ i \in n.lo..n.hi
    BY <1>1, <1>2 DEF Holds
  <2>2. EntryAt(bm, d, t, i) = d[n][i]
    BY <1>1, <2>1, HomeEntry DEF Written
  <2> QED
    BY <2>1, <2>2 DEF Written
<1>4. LogOf(bm, d, t) = [i \in 1..m.head |-> l[i]]
  BY <1>1, <1>3 DEF LogOf
<1>5. l = [i \in 1..m.head |-> l[i]]
  BY <1>2 DEF Logs
<1> QED
  BY <1>4, <1>5 DEF bm

(***************************************************************************)
(* The inductive invariant.                                                *)
(***************************************************************************)

(* What a writer set out to publish over the log l of manifest m *)
OpOK(m, l, o) ==
  \/ o.kind = "rewrite" /\ o.log \in Rewrites(l)
  \/ /\ o.kind \in {"append", "view"}
     /\ o.carry \in 0..Len(m.segments) /\ Carries(m.segments, o.carry)
     /\ o.rec \in Recs /\ o.rec >= 1 /\ o.log = Append(l, NewEntry(l, o.rec))

(* What container n holds of the log l *)
Part(l, n) == [i \in n.lo..n.hi |-> l[i]]

(* The log with the bytes of all its containers *)
Whole == LogOf(manifest, disk, {})

Types ==
  /\ torn \subseteq Names /\ solid \subseteq Names /\ manifest.gen <= MaxGen
  /\ lock \in Procs \union {None}
  /\ pc \in [Procs -> PcValues]
  /\ index \in [Procs -> Indexes]
  /\ op \in [Procs -> Ops]
  /\ cached \in [Procs -> SUBSET Indexes]
  /\ want \in [Procs -> Manifests]
  /\ DOMAIN got = Procs
  /\ used \in Nat /\ kept \subseteq 1..used
  /\ \A p \in Procs : op[p].rec <= used
  /\ published \in [0..MaxGen -> Logs]
  /\ fails \in 0..MaxFails

(* A state of the files that opens, as its log was published, with every   *)
(* record whose durable append returned                                    *)
Sound(s) ==
  /\ s = [man |-> s.man, disk |-> s.disk]
  /\ WF(s.man) /\ s.man.gen <= manifest.gen
  /\ DiskOK(s.disk) /\ Listed(s.man) \subseteq DOMAIN s.disk
  /\ LogOf(s.man, s.disk, {}) = published[s.man.gen]
  /\ \A r \in kept : \E i \in 1..s.man.head : published[s.man.gen][i].rec = r

FilesOK == Now \in past /\ \A s \in past : Sound(s)

(* A writer holds the lock; its index is the log, until its plan is *)
PreparedOK(p) ==
  /\ index[p].man = manifest /\ index[p].log = Whole
  /\ manifest.gen < MaxGen
  /\ OpOK(manifest, Whole, op[p])
WrittenOK(p) == Written(disk, {}, ContainerFor(manifest, op[p]), op[p].log)
PublishedOK(p) ==
  /\ ManifestFor(index[p].man, op[p]) = manifest /\ op[p].log = Whole
  /\ op[p].kind = "append" => \E i \in 1..manifest.head : Whole[i].rec = op[p].rec
  /\ op[p].kind = "append" => op[p].rec >= 1
WriterAt(p) ==
  /\ pc[p] \in WriterPcs => lock = p
  /\ pc[p] \in {"container", "manifest"} => PreparedOK(p)
  /\ pc[p] = "manifest" => WrittenOK(p)
  /\ pc[p] \in {"manifestSync", "sweep"} => PublishedOK(p)
  /\ pc[p] = "sweep" /\ op[p].kind = "append" => past = {Now}

CacheOK ==
  \A p \in Procs : \A x \in cached[p] :
    x.man.gen <= manifest.gen /\ x.log = published[x.man.gen]

(* What a lock-free reader opened, and what it will still find, is the log *)
(* that the manifest it read was published with                            *)
ReadingOK(p) ==
  LET m == want[p]
      l == published[m.gen]
  IN /\ WF(m) /\ m.gen <= manifest.gen /\ Len(l) = m.head
     /\ \E k \in 0..Count(m) : got[p] = [j \in 1..k |-> Part(l, ContainerAt(m, j))]
     /\ \A n \in Listed(m) : n \in DOMAIN disk => disk[n] = Part(l, n)
ReaderAt(p) ==
  /\ pc[p] # "opening" => got[p] = << >>
  /\ pc[p] = "opening" => ReadingOK(p)

HandlesOK == \A p \in Procs : WriterAt(p) /\ ReaderAt(p)

IInv == Types /\ FilesOK /\ CacheOK /\ HandlesOK

(***************************************************************************)
(* What the steps rely on.                                                 *)
(***************************************************************************)

(* Marking a batch undone and coalescing two keep every record's place *)
LEMMA RewriteKeeps ==
  ASSUME NEW l \in Logs, NEW r \in Rewrites(l)
  PROVE  r \in Logs /\ Len(r) = Len(l) /\ \A i \in 1..Len(l) : r[i].rec = l[i].rec
<1>1. /\ l \in [1..Len(l) -> Entry] /\ DOMAIN l = 1..Len(l) /\ Len(l) \in Nat
      /\ Batches(l) \subseteq Nat
  <2>1. l \in [1..Len(l) -> Entry] /\ DOMAIN l = 1..Len(l) /\ Len(l) \in Nat
    BY DEF Logs
  <2>2. \A e \in Entry : e.batch \in Nat
    BY DEF Entry
  <2> QED
    BY <2>1, <2>2 DEF Batches
<1>2. ASSUME NEW b, NEW u \in BOOLEAN, r = SetUndone(l, b, u) PROVE
        r \in [1..Len(l) -> Entry] /\ \A i \in 1..Len(l) : r[i].rec = l[i].rec
  <2>1. ASSUME NEW e \in Entry
        PROVE  [e EXCEPT !.undone = u] \in Entry /\ [e EXCEPT !.undone = u].rec = e.rec
    BY DEF Entry
  <2>2. r = [i \in 1..Len(l) |-> IF l[i].batch = b THEN [l[i] EXCEPT !.undone = u] ELSE l[i]]
    BY <1>1, <1>2 DEF SetUndone
  <2> QED
    BY <1>1, <2>1, <2>2
<1>3. ASSUME NEW b \in Nat, NEW c, r = Coalesce(l, b, c) PROVE
        r \in [1..Len(l) -> Entry] /\ \A i \in 1..Len(l) : r[i].rec = l[i].rec
  <2>1. ASSUME NEW e \in Entry
        PROVE  [e EXCEPT !.batch = b] \in Entry /\ [e EXCEPT !.batch = b].rec = e.rec
    BY DEF Entry
  <2>2. r = [i \in 1..Len(l) |-> IF l[i].batch = c THEN [l[i] EXCEPT !.batch = b] ELSE l[i]]
    BY <1>1, <1>3 DEF Coalesce
  <2> QED
    BY <1>1, <2>1, <2>2
<1>4. r \in [1..Len(l) -> Entry] /\ \A i \in 1..Len(l) : r[i].rec = l[i].rec
  <2>1. CASE r \in {SetUndone(l, b, u) : b \in Batches(l), u \in BOOLEAN}
    BY <1>2, <2>1
  <2>2. CASE r \in {Coalesce(l, bc[1], bc[2]) :
                      bc \in {x \in Batches(l) \X Batches(l) : x[1] # x[2]}}
    <3>1. PICK bc \in Batches(l) \X Batches(l) : r = Coalesce(l, bc[1], bc[2])
      BY <2>2
    <3>2. bc[1] \in Nat
      BY <1>1, <3>1
    <3> QED
      BY <1>3, <3>1, <3>2
  <2> QED
    BY <2>1, <2>2 DEF Rewrites
<1>5. r \in Seq(Entry) /\ Len(r) = Len(l)
  BY <1>1, <1>4
<1> QED
  BY <1>4, <1>5 DEF Logs

(* The log under the current manifest *)
LEMMA Current ==
  ASSUME IInv
  PROVE  /\ WF(manifest) /\ manifest \in Manifests /\ DiskOK(disk)
         /\ manifest.gen \in 0..MaxGen /\ manifest.head \in Nat /\ MaxGen \in Nat
         /\ Listed(manifest) \subseteq DOMAIN disk
         /\ Whole = LogOf(manifest, disk, {}) /\ Whole = published[manifest.gen]
         /\ Whole \in Logs /\ Len(Whole) = manifest.head /\ DOMAIN Whole = 1..manifest.head
         /\ \A r \in kept : \E i \in 1..manifest.head : Whole[i].rec = r
<1>1. Sound(Now) /\ manifest.gen <= MaxGen
  BY DEF IInv, FilesOK, Types
<1>2. Now.man = manifest /\ Now.disk = disk
  BY DEF Now
<1>3. /\ WF(manifest) /\ DiskOK(disk) /\ Listed(manifest) \subseteq DOMAIN disk
      /\ LogOf(manifest, disk, {}) = published[manifest.gen]
      /\ \A r \in kept : \E i \in 1..manifest.head : published[manifest.gen][i].rec = r
  BY <1>1, <1>2 DEF Sound
<1>4. manifest \in Manifests /\ manifest.gen \in Nat /\ manifest.head \in Nat
  BY <1>3 DEF WF, Manifests
<1>5. /\ LogOf(manifest, disk, {}) \in Logs /\ Len(LogOf(manifest, disk, {})) = manifest.head
      /\ DOMAIN LogOf(manifest, disk, {}) = 1..manifest.head
  <2>1. Listed(manifest) \subseteq DOMAIN disk \ {}
    BY <1>3
  <2> QED
    BY <1>3, <2>1, LogType
<1>6. Whole = LogOf(manifest, disk, {})
  BY DEF Whole
<1>7. manifest.gen \in 0..MaxGen /\ MaxGen \in Nat
  BY <1>1, <1>4, OplogAssumption
<1> QED
  BY <1>1, <1>3, <1>4, <1>5, <1>6, <1>7

(* A log that opens is whole *)
LEMMA OpenWhole ==
  ASSUME IInv, Opens(manifest, disk, torn) \/ ~Damaged
  PROVE  Log = Whole
<1>1. WF(manifest) /\ Listed(manifest) \subseteq DOMAIN disk \ {}
  BY Current
<1>2. Listed(manifest) \subseteq DOMAIN disk \ torn
  BY <1>1 DEF Opens, Damaged
<1> QED
  BY <1>1, <1>2, LogSame DEF Log, Whole

LEMMA WholeLog == IInv /\ ~Damaged => Log = Whole
  BY OpenWhole

(* A handle that does not write *)
LEMMA NotWriting ==
  ASSUME NEW q, pc'[q] \notin WriterPcs
  PROVE  WriterAt(q)'
  BY DEF WriterAt, WriterPcs

(* Handles that stay as they are, while the files stay as they are *)
LEMMA WriterStays ==
  ASSUME NEW q, WriterAt(q), UNCHANGED <<manifest, disk, torn, past>>,
         pc'[q] = pc[q], index'[q] = index[q], op'[q] = op[q],
         pc[q] \in WriterPcs => lock' = q
  PROVE  WriterAt(q)'
  BY DEF WriterAt, PreparedOK, WrittenOK, PublishedOK, Whole, Now

LEMMA ReaderStays ==
  ASSUME NEW q, ReaderAt(q), UNCHANGED <<manifest, disk, published>>,
         pc'[q] = pc[q], want'[q] = want[q], got'[q] = got[q]
  PROVE  ReaderAt(q)'
  BY DEF ReaderAt, ReadingOK

(* Only one handle writes *)
LEMMA OneWriter ==
  ASSUME IInv, NEW p \in Procs, lock = p \/ pc[p] \in WriterPcs, NEW q \in Procs, q # p
  PROVE  pc[q] \notin WriterPcs
  BY DEF IInv, HandlesOK, WriterAt

LEMMA NoWriter ==
  ASSUME IInv, lock = None, NEW q \in Procs
  PROVE  pc[q] \notin WriterPcs
  BY OplogAssumption DEF IInv, HandlesOK, WriterAt

LEMMA FilesStay ==
  ASSUME FilesOK, UNCHANGED <<fileVars, kept, published>>
  PROVE  FilesOK'
  BY DEF FilesOK, Sound, Now, fileVars

(***************************************************************************)
(* Writers up to the container, and calls that end early.                  *)
(***************************************************************************)

(* A cached index of the current manifest is the log *)
LEMMA WriteIndex ==
  ASSUME IInv, NEW p \in Procs, Opens(manifest, disk, torn)
  PROVE  /\ IndexForWrite(p) \in Indexes
         /\ IndexForWrite(p).man = manifest /\ IndexForWrite(p).log = Whole
<1>1. manifest \in Manifests /\ Whole \in Logs /\ Whole = published[manifest.gen]
  BY Current
<1>2. CASE Reusable(p) # {}
  <2> DEFINE x == CHOOSE x \in Reusable(p) : TRUE
  <2>1. x \in cached[p] /\ x.man = manifest
    BY <1>2 DEF Reusable
  <2>2. IndexForWrite(p) = x
    BY <1>2 DEF IndexForWrite
  <2> HIDE DEF x
  <2>3. x \in Indexes /\ x.log = published[manifest.gen]
    BY <2>1 DEF IInv, Types, CacheOK
  <2> QED
    BY <1>1, <2>1, <2>2, <2>3
<1>3. CASE Reusable(p) = {}
  <2>1. IndexForWrite(p) = [man |-> manifest, log |-> Whole]
    BY <1>3, OpenWhole DEF IndexForWrite
  <2> QED
    BY <1>1, <2>1 DEF Indexes
<1> QED
  BY <1>2, <1>3

(* What BeginAppend and BeginRewrite have in common *)
LEMMA BeginStep ==
  ASSUME IInv, NEW p \in Procs, WriteLock(p),
         NEW x \in Indexes, x.man = manifest, x.log = Whole, index' = [index EXCEPT ![p] = x],
         NEW o \in Ops, OpOK(manifest, Whole, o), op' = [op EXCEPT ![p] = o],
         used' \in Nat, used <= used', o.rec <= used'
  PROVE  IInv'
<1>1. /\ pc[p] = "idle" /\ lock = None /\ manifest.gen < MaxGen /\ lock' = p
      /\ pc' = [pc EXCEPT ![p] = "container"]
      /\ UNCHANGED <<fileVars, cached, readVars, kept, published, fails>>
  BY DEF WriteLock
<1>2. Types /\ FilesOK /\ CacheOK /\ HandlesOK
  BY DEF IInv
<1>3. /\ pc' \in [Procs -> PcValues] /\ index' \in [Procs -> Indexes] /\ op' \in [Procs -> Ops]
      /\ pc'[p] = "container" /\ index'[p] = x /\ op'[p] = o
      /\ \A q \in Procs : q # p => pc'[q] = pc[q] /\ index'[q] = index[q] /\ op'[q] = op[q]
  BY <1>1, <1>2 DEF Types, PcValues, WriterPcs
<1>4. Types'
  <2>1. kept \subseteq 1..used'
    BY <1>2 DEF Types
  <2>2. \A q \in Procs : op'[q].rec <= used'
    <3>1. \A q \in Procs : op[q].rec \in Nat /\ op[q].rec <= used /\ used \in Nat
      BY <1>2 DEF Types, Ops
    <3> QED
      BY <1>3, <3>1
  <2> QED
    BY <1>1, <1>2, <1>3, <2>1, <2>2 DEF Types, fileVars, readVars
<1>5. FilesOK'
  BY <1>1, <1>2, FilesStay
<1>6. CacheOK'
  BY <1>1, <1>2 DEF CacheOK, fileVars
<1>7. ASSUME NEW q \in Procs PROVE WriterAt(q)' /\ ReaderAt(q)'
  <2>1. WriterAt(q) /\ ReaderAt(q)
    BY <1>2 DEF HandlesOK
  <2>2. CASE q = p
    <3>1. ReaderAt(p)'
      BY <1>1, <1>3, <2>1, <2>2 DEF ReaderAt, readVars
    <3>2. Whole' = Whole /\ manifest' = manifest
      BY <1>1 DEF Whole, fileVars
    <3>3. PreparedOK(p)'
      BY <1>1, <1>3, <3>2 DEF PreparedOK
    <3>4. WriterAt(p)'
      BY <1>1, <1>3, <3>3 DEF WriterAt
    <3> QED
      BY <2>2, <3>1, <3>4
  <2>3. CASE q # p
    <3>1. pc[q] \notin WriterPcs
      BY <1>1, NoWriter
    <3>2. WriterAt(q)'
      BY <1>3, <2>3, <3>1, NotWriting
    <3>3. ReaderAt(q)'
      BY <1>1, <1>3, <2>1, <2>3, ReaderStays DEF fileVars, readVars
    <3> QED
      BY <3>2, <3>3
  <2> QED
    BY <2>2, <2>3
<1> QED
  BY <1>4, <1>5, <1>6, <1>7 DEF IInv, HandlesOK

LEMMA BeginAppendStep ==
  ASSUME IInv, NEW p \in Procs, BeginAppend(p) PROVE IInv'
<1>1. PICK x \in Indexes : x = IndexForWrite(p) /\ x.man = manifest /\ x.log = Whole
  BY WriteIndex DEF BeginAppend, WriteLock
<1>2. /\ WriteLock(p) /\ index' = [index EXCEPT ![p] = x] /\ used + 1 \in Recs
      /\ used' = used + 1 /\ used \in Nat /\ used' \in Nat /\ used <= used'
  BY <1>1 DEF BeginAppend, IInv, Types
<1>3. index'[p] = x
  BY <1>2 DEF IInv, Types
<1>4. Whole \in Logs /\ Len(Whole) = manifest.head /\ manifest \in Manifests
  BY Current
<1>5. PICK kind \in {"append", "view"}, k \in 0..Len(manifest.segments) :
        /\ Carries(manifest.segments, k)
        /\ op' = [op EXCEPT ![p] = [kind |-> kind, rec |-> used', carry |-> k,
                                    log |-> Append(Whole, NewEntry(Whole, used'))]]
  BY <1>1, <1>3 DEF BeginAppend
<1> DEFINE o == [kind |-> kind, rec |-> used', carry |-> k,
                 log |-> Append(Whole, NewEntry(Whole, used'))]
<1>6. NewEntry(Whole, used') \in Entry
  BY <1>2, <1>4 DEF NewEntry, Entry, Logs
<1>7. Append(Whole, NewEntry(Whole, used')) \in Logs
  BY <1>4, <1>6 DEF Logs
<1>8. /\ o.kind = kind /\ o.rec = used' /\ o.carry = k
      /\ o.log = Append(Whole, NewEntry(Whole, used'))
  OBVIOUS
<1>9. k \in Nat
  BY <1>4 DEF Manifests
<1>10. o \in Ops
  BY <1>2, <1>7, <1>9 DEF Ops
<1> HIDE DEF o
<1>11. OpOK(manifest, Whole, o)
  BY <1>2, <1>5, <1>8 DEF OpOK
<1>12. op' = [op EXCEPT ![p] = o] /\ o.rec <= used'
  BY <1>2, <1>5, <1>8 DEF o
<1> QED
  BY <1>1, <1>2, <1>10, <1>11, <1>12, BeginStep

LEMMA BeginRewriteStep ==
  ASSUME IInv, NEW p \in Procs, BeginRewrite(p) PROVE IInv'
<1>1. /\ Whole \in Logs /\ manifest \in Manifests /\ used \in Nat
      /\ Log = Whole
  BY Current, OpenWhole DEF IInv, Types, BeginRewrite, WriteLock
<1> DEFINE x == [man |-> manifest, log |-> Whole]
<1>2. x \in Indexes /\ x.man = manifest /\ x.log = Whole
  BY <1>1 DEF Indexes
<1>3. PICK l \in Rewrites(Whole) :
        op' = [op EXCEPT ![p] = [kind |-> "rewrite", rec |-> 0, carry |-> 0, log |-> l]]
  BY <1>1 DEF BeginRewrite
<1> DEFINE o == [kind |-> "rewrite", rec |-> 0, carry |-> 0, log |-> l]
<1>4. l \in Logs
  BY <1>1, RewriteKeeps
<1>5. o \in Ops /\ OpOK(manifest, Whole, o) /\ o.rec <= used
  BY <1>1, <1>3, <1>4 DEF Ops, OpOK
<1>6. WriteLock(p) /\ index' = [index EXCEPT ![p] = x] /\ used' = used
  BY <1>1 DEF BeginRewrite
<1>7. op' = [op EXCEPT ![p] = o]
  BY <1>3
<1> HIDE DEF x, o
<1> QED
  <2>1. used' \in Nat /\ used <= used' /\ o.rec <= used'
    BY <1>1, <1>5, <1>6
  <2> QED
    BY <1>2, <1>5, <1>6, <1>7, <2>1, BeginStep

(* A call that ends early leaves the files, and no trace of itself *)
LEMMA IdleStep ==
  ASSUME IInv, NEW p \in Procs, UNCHANGED <<fileVars, used, kept, published>>,
         fails' \in 0..MaxFails, lock' \in Procs \union {None}, lock # p => lock' = lock,
         pc' = [pc EXCEPT ![p] = "idle"],
         index' \in [Procs -> Indexes], op' \in [Procs -> Ops],
         \A q \in Procs : q # p => index'[q] = index[q] /\ op'[q] = op[q],
         op'[p].rec <= used,
         cached' \in [Procs -> SUBSET Indexes],
         \A q \in Procs : \A x \in cached'[q] :
           x \in cached[q] \/ (x.man.gen <= manifest.gen /\ x.log = published[x.man.gen]),
         want' \in [Procs -> Manifests], DOMAIN got' = Procs, got'[p] = << >>,
         \A q \in Procs : q # p => want'[q] = want[q] /\ got'[q] = got[q]
  PROVE  IInv'
<1>2. Types /\ FilesOK /\ CacheOK /\ HandlesOK
  BY DEF IInv
<1>3. /\ pc' \in [Procs -> PcValues] /\ pc'[p] = "idle"
      /\ \A q \in Procs : q # p => pc'[q] = pc[q]
  BY <1>2 DEF Types, PcValues
<1>4. Types'
  <2>1. \A q \in Procs : op'[q].rec <= used'
    BY <1>2 DEF Types
  <2> QED
    BY <1>2, <1>3, <2>1 DEF Types, fileVars
<1>5. FilesOK'
  BY <1>2, FilesStay
<1>6. CacheOK'
  BY <1>2 DEF CacheOK, fileVars
<1>7. ASSUME NEW q \in Procs PROVE WriterAt(q)' /\ ReaderAt(q)'
  <2>1. WriterAt(q) /\ ReaderAt(q)
    BY <1>2 DEF HandlesOK
  <2>2. CASE q = p
    BY <1>3, <2>2, NotWriting DEF ReaderAt, WriterPcs
  <2>3. CASE q # p
    <3>1. pc[q] \in WriterPcs => lock' = q
      BY <2>1, <2>3 DEF WriterAt
    <3>2. WriterAt(q)'
      BY <1>3, <2>1, <2>3, <3>1, WriterStays DEF fileVars
    <3>3. ReaderAt(q)'
      BY <1>3, <2>1, <2>3, ReaderStays DEF fileVars
    <3> QED
      BY <3>2, <3>3
  <2> QED
    BY <2>2, <2>3
<1> QED
  BY <1>4, <1>5, <1>6, <1>7 DEF IInv, HandlesOK

LEMMA NoTypes == NoIndex \in Indexes /\ NoOp \in Ops /\ NoManifest \in Manifests /\ NoOp.rec = 0
<1>1. NoManifest \in Manifests
  BY WFNoManifest DEF WF
<1>2. << >> \in Logs
  BY DEF Logs
<1> QED
  BY <1>1, <1>2 DEF NoIndex, Indexes, NoOp, Ops

LEMMA FailureBound ==
  ASSUME IInv, Failure
  PROVE  fails' \in 0..MaxFails
  BY OplogAssumption DEF IInv, Types, Failure

LEMMA WriteFailsStep ==
  ASSUME IInv, NEW p \in Procs, WriteFails(p) PROVE IInv'
<1>1. Types /\ WriterAt(p) /\ ReaderAt(p) /\ fails' \in 0..MaxFails
  BY FailureBound DEF IInv, HandlesOK, WriteFails
<1>2. lock = p /\ got[p] = << >>
  BY <1>1 DEF WriteFails, WriterAt, ReaderAt, WriterPcs
<1>3. /\ index' \in [Procs -> Indexes] /\ op' \in [Procs -> Ops] /\ op'[p].rec <= used
      /\ \A q \in Procs : q # p => index'[q] = index[q] /\ op'[q] = op[q]
  BY <1>1, NoTypes DEF WriteFails, Idle, Types
<1>4. /\ UNCHANGED <<fileVars, used, kept, published>> /\ lock' = None /\ cached' = cached
      /\ want' = want /\ got' = got /\ pc' = [pc EXCEPT ![p] = "idle"]
  BY DEF WriteFails, Idle, histVars, readVars
<1>5. /\ cached' \in [Procs -> SUBSET Indexes] /\ want' \in [Procs -> Manifests]
      /\ DOMAIN got' = Procs
  BY <1>1, <1>4 DEF Types
<1> QED
  BY <1>1, <1>2, <1>3, <1>4, <1>5, IdleStep

LEMMA CrashStep ==
  ASSUME IInv, NEW p \in Procs, Crash(p) PROVE IInv'
<1>1. Types /\ fails' \in 0..MaxFails
  BY FailureBound DEF IInv, Crash
<1>2. /\ index' \in [Procs -> Indexes] /\ op' \in [Procs -> Ops] /\ op'[p].rec <= used
      /\ \A q \in Procs : q # p => index'[q] = index[q] /\ op'[q] = op[q]
  BY <1>1, NoTypes DEF Crash, Idle, Types
<1>3. /\ UNCHANGED <<fileVars, used, kept, published>> /\ lock' \in Procs \union {None}
      /\ lock # p => lock' = lock
      /\ pc' = [pc EXCEPT ![p] = "idle"]
  BY <1>1 DEF Crash, Idle, histVars, Types
<1>4. /\ cached' \in [Procs -> SUBSET Indexes]
      /\ \A q \in Procs : \A x \in cached'[q] : x \in cached[q]
  BY <1>1 DEF Crash, Types
<1>5. /\ want' \in [Procs -> Manifests] /\ DOMAIN got' = Procs /\ got'[p] = << >>
      /\ \A q \in Procs : q # p => want'[q] = want[q] /\ got'[q] = got[q]
  BY <1>1, NoTypes DEF Crash, Types
<1> QED
  BY <1>1, <1>2, <1>3, <1>4, <1>5, IdleStep

(***************************************************************************)
(* Readers.                                                                *)
(***************************************************************************)

(* The containers that a reader opened make up the log it was after *)
LEMMA ReadLogPublished ==
  ASSUME NEW m, WF(m), NEW l \in Logs, Len(l) = m.head, NEW g,
         g = [j \in 1..Count(m) |-> Part(l, ContainerAt(m, j))]
  PROVE  ReadLog(m, g) = l
<1>1. m \in Manifests /\ m.head \in Nat /\ m.segments \in Seq(Names) /\ Count(m) \in Nat
  BY DEF WF, Manifests, Count
<1>2. ASSUME NEW i \in 1..m.head
      PROVE  LET k == CHOOSE k \in DOMAIN g : i \in DOMAIN g[k] IN g[k][i] = l[i]
  <2>1. PICK n \in Listed(m) : Holds(n, i)
    BY DEF WF, Covers
  <2>2. \E k \in 1..Count(m) : n = ContainerAt(m, k)
    <3>1. CASE n = m.base
      <4>1. 1 \in 1..Count(m) /\ n = ContainerAt(m, 1)
        BY <1>1, <3>1 DEF ContainerAt, Count
      <4> QED
        BY <4>1
    <3>2. CASE n # m.base
      <4>1. PICK j \in 1..Len(m.segments) : n = m.segments[j]
        BY <1>1, <3>2, ListedCases
      <4>2. j + 1 \in 1..Count(m) /\ j + 1 # 1 /\ (j + 1) - 1 = j
        BY <1>1 DEF Count
      <4>3. n = ContainerAt(m, j + 1)
        BY <4>1, <4>2 DEF ContainerAt
      <4> QED
        BY <4>2, <4>3
    <3> QED
      BY <3>1, <3>2
  <2>3. PICK k0 \in 1..Count(m) : n = ContainerAt(m, k0)
    BY <2>2
  <2>4. i \in n.lo..n.hi
    BY <1>1, <2>1, ListedCases DEF Holds, Names
  <2>5. k0 \in DOMAIN g /\ i \in DOMAIN g[k0]
    BY <2>3, <2>4 DEF Part
  <2> DEFINE k == CHOOSE k \in DOMAIN g : i \in DOMAIN g[k]
  <2>6. k \in 1..Count(m) /\ i \in DOMAIN g[k]
    BY <2>5
  <2> HIDE DEF k
  <2>7. g[k] = Part(l, ContainerAt(m, k))
    BY <2>6
  <2>8. g[k][i] = l[i]
    BY <2>6, <2>7 DEF Part
  <2> QED
    BY <2>8 DEF k
<1>3. ReadLog(m, g) = [i \in 1..m.head |-> l[i]]
  BY <1>2 DEF ReadLog
<1>4. l = [i \in 1..m.head |-> l[i]]
  BY <1>1 DEF Logs
<1> QED
  BY <1>3, <1>4

LEMMA ReadReturnsStep ==
  ASSUME IInv, NEW p \in Procs, ReadReturns(p) PROVE IInv'
<1>1. Types /\ ReaderAt(p) /\ pc[p] = "opening"
  BY DEF IInv, HandlesOK, ReadReturns
<1> DEFINE m == want[p]
           l == published[m.gen]
<1>2. /\ WF(m) /\ m.gen <= manifest.gen /\ Len(l) = m.head
      /\ \E k \in 0..Count(m) : got[p] = [j \in 1..k |-> Part(l, ContainerAt(m, j))]
  BY <1>1 DEF ReaderAt, ReadingOK
<1>3. PICK k \in 0..Count(m) : got[p] = [j \in 1..k |-> Part(l, ContainerAt(m, j))]
  BY <1>2
<1>4. m \in Manifests /\ m.gen \in Nat /\ m.segments \in Seq(Names) /\ Count(m) \in Nat
  BY <1>2 DEF WF, Manifests, Count
<1>5. l \in Logs
  <2>1. m.gen \in 0..MaxGen
    BY <1>2, <1>4, Current
  <2> QED
    BY <1>1, <2>1 DEF Types
<1>6. k = Count(m)
  <2>1. Len(got[p]) = k
    BY <1>3, <1>4
  <2> QED
    BY <2>1 DEF ReadReturns
<1> DEFINE x == [man |-> want[p], log |-> ReadLog(want[p], got[p])]
<1>7. ReadLog(m, got[p]) = l
  BY <1>2, <1>3, <1>5, <1>6, ReadLogPublished
<1>8. x \in Indexes /\ x.man.gen <= manifest.gen /\ x.log = published[x.man.gen]
  BY <1>2, <1>4, <1>5, <1>7 DEF Indexes
<1>9. /\ cached' = [cached EXCEPT ![p] = {x}] /\ pc' = [pc EXCEPT ![p] = "idle"]
      /\ want' = [want EXCEPT ![p] = NoManifest] /\ got' = [got EXCEPT ![p] = << >>]
      /\ UNCHANGED <<fileVars, lock, index, op, used, kept, published, fails>>
  BY DEF ReadReturns, EndRead, histVars
<1> HIDE DEF x, m, l
<1>10. /\ cached' \in [Procs -> SUBSET Indexes]
       /\ \A q \in Procs : \A y \in cached'[q] : y \in cached[q] \/ y = x
  BY <1>1, <1>8, <1>9 DEF Types
<1>11. /\ want' \in [Procs -> Manifests] /\ DOMAIN got' = Procs /\ got'[p] = << >>
       /\ \A q \in Procs : q # p => want'[q] = want[q] /\ got'[q] = got[q]
  BY <1>1, <1>9, NoTypes DEF Types
<1>12. /\ index' \in [Procs -> Indexes] /\ op' \in [Procs -> Ops] /\ op'[p].rec <= used
       /\ lock' \in Procs \union {None} /\ fails' \in 0..MaxFails
  BY <1>1, <1>9 DEF Types
<1> QED
  BY <1>8, <1>9, <1>10, <1>11, <1>12, IdleStep

LEMMA ReadUnderLockStep ==
  ASSUME IInv, NEW p \in Procs, ReadUnderLock(p) PROVE IInv'
<1>1. Types /\ ReaderAt(p) /\ got[p] = << >>
  BY DEF IInv, HandlesOK, ReadUnderLock, ReaderAt
<1> DEFINE x == [man |-> manifest, log |-> Whole]
<1>2. /\ manifest \in Manifests /\ Whole \in Logs /\ Whole = published[manifest.gen]
      /\ manifest.gen <= manifest.gen
  BY Current
<1>3. x \in Indexes /\ x.man.gen <= manifest.gen /\ x.log = published[x.man.gen]
  BY <1>2 DEF Indexes
<1>4. /\ cached' = [cached EXCEPT ![p] = {x}] \/ cached' = cached
      /\ pc' = [pc EXCEPT ![p] = "idle"]
      /\ UNCHANGED <<fileVars, lock, index, op, want, got, used, kept, published, fails>>
  <2>1. Opens(manifest, disk, torn) => Log = Whole
    BY OpenWhole
  <2> QED
    BY <2>1 DEF ReadUnderLock, histVars, readVars
<1> HIDE DEF x
<1>5. /\ cached' \in [Procs -> SUBSET Indexes]
      /\ \A q \in Procs : \A y \in cached'[q] : y \in cached[q] \/ y = x
  BY <1>1, <1>3, <1>4 DEF Types
<1>6. /\ want' \in [Procs -> Manifests] /\ DOMAIN got' = Procs /\ got'[p] = << >>
      /\ index' \in [Procs -> Indexes] /\ op' \in [Procs -> Ops] /\ op'[p].rec <= used
      /\ lock' \in Procs \union {None} /\ fails' \in 0..MaxFails
  BY <1>1, <1>4 DEF Types
<1> QED
  BY <1>3, <1>4, <1>5, <1>6, IdleStep

(* A listed container is within the log, and is its part of it *)
LEMMA ListedRange ==
  ASSUME NEW m, WF(m), NEW n \in Listed(m)
  PROVE  n \in Names /\ 1 <= n.lo /\ n.hi <= m.head
<1>1. m \in Manifests /\ m.base \in Names /\ m.head \in Nat
  BY DEF WF, Manifests
<1>2. n \in Names /\ (n = m.base \/ \E k \in 1..Len(m.segments) : n = m.segments[k])
  BY <1>1, ListedCases
<1>3. CASE n = m.base
  BY <1>1, <1>3 DEF WF, Contiguous, Ordered, Names
<1>4. CASE n # m.base
  <2>1. PICK k \in 1..Len(m.segments) : n = m.segments[k]
    BY <1>2, <1>4
  <2>2. m.base.hi < n.lo /\ n.hi <= m.head
    BY <2>1 DEF WF, Ordered
  <2> QED
    BY <1>1, <1>2, <2>2 DEF Names
<1> QED
  BY <1>3, <1>4

LEMMA LogEntry ==
  ASSUME NEW m, WF(m), NEW d, NEW t, Listed(m) \subseteq DOMAIN d \ t,
         NEW n \in Listed(m), NEW i \in Nat, Holds(n, i), i \in 1..m.head
  PROVE  LogOf(m, d, t)[i] = d[n][i]
<1>1. EntryAt(m, d, t, i) = d[n][i]
  BY HomeEntry
<1> QED
  BY <1>1 DEF LogOf

LEMMA ListedPart ==
  ASSUME NEW m, WF(m), NEW d, DiskOK(d), NEW t, Listed(m) \subseteq DOMAIN d \ t,
         NEW n \in Listed(m)
  PROVE  d[n] = Part(LogOf(m, d, t), n)
<1>1. n \in Names /\ 1 <= n.lo /\ n.hi <= m.head /\ m.head \in Nat
  BY ListedRange DEF WF, Manifests
<1>2. d[n] \in [n.lo..n.hi -> Entry]
  BY DEF DiskOK
<1>3. ASSUME NEW i \in n.lo..n.hi PROVE d[n][i] = LogOf(m, d, t)[i]
  <2>1. i \in 1..m.head /\ i \in Nat /\ Holds(n, i)
    BY <1>1 DEF Names, Holds
  <2> QED
    BY <2>1, LogEntry
<1> QED
  BY <1>2, <1>3 DEF Part

(* A reader goes on *)
LEMMA ReadStep ==
  ASSUME IInv, NEW p \in Procs, UNCHANGED <<fileVars, lock, index, op, cached, histVars, fails>>,
         NEW v \in {"opening", "retry"}, pc' = [pc EXCEPT ![p] = v],
         want' \in [Procs -> Manifests], DOMAIN got' = Procs, ReaderAt(p)',
         \A q \in Procs : q # p => want'[q] = want[q] /\ got'[q] = got[q]
  PROVE  IInv'
<1>2. Types /\ FilesOK /\ CacheOK /\ HandlesOK
  BY DEF IInv
<1>3. /\ pc' \in [Procs -> PcValues] /\ pc'[p] = v /\ v \notin WriterPcs
      /\ \A q \in Procs : q # p => pc'[q] = pc[q]
  BY <1>2 DEF Types, PcValues, WriterPcs
<1>4. Types'
  BY <1>2, <1>3 DEF Types, fileVars, histVars
<1>5. FilesOK'
  BY <1>2, FilesStay DEF histVars
<1>6. CacheOK'
  BY <1>2 DEF CacheOK, fileVars, histVars
<1>7. ASSUME NEW q \in Procs, q # p PROVE WriterAt(q)' /\ ReaderAt(q)'
  <2>1. WriterAt(q) /\ ReaderAt(q)
    BY <1>2 DEF HandlesOK
  <2>2. pc[q] \in WriterPcs => lock' = q
    BY <2>1 DEF WriterAt
  <2>3. WriterAt(q)'
    BY <1>3, <1>7, <2>1, <2>2, WriterStays DEF fileVars
  <2>4. ReaderAt(q)'
    BY <1>3, <1>7, <2>1, ReaderStays DEF fileVars, histVars
  <2> QED
    BY <2>3, <2>4
<1>8. WriterAt(p)'
  BY <1>3, NotWriting
<1> QED
  BY <1>4, <1>5, <1>6, <1>7, <1>8 DEF IInv, HandlesOK

LEMMA ReadManifestStep ==
  ASSUME IInv, NEW p \in Procs, ReadManifest(p) PROVE IInv'
<1>1. Types /\ ReaderAt(p) /\ got[p] = << >>
  BY DEF IInv, HandlesOK, ReadManifest, ReaderAt
<1>2. /\ UNCHANGED <<fileVars, lock, index, op, cached, histVars, fails>> /\ got' = got
      /\ pc' = [pc EXCEPT ![p] = "opening"] /\ want' = [want EXCEPT ![p] = manifest]
  BY DEF ReadManifest
<1>3. /\ WF(manifest) /\ manifest \in Manifests /\ DiskOK(disk) /\ manifest.gen <= manifest.gen
      /\ Listed(manifest) \subseteq DOMAIN disk \ {}
      /\ LogOf(manifest, disk, {}) = published[manifest.gen]
      /\ Len(published[manifest.gen]) = manifest.head
  BY Current
<1>4. /\ want' \in [Procs -> Manifests] /\ want'[p] = manifest /\ pc'[p] = "opening"
      /\ \A q \in Procs : q # p => want'[q] = want[q]
  BY <1>1, <1>2, <1>3 DEF Types
<1>5. UNCHANGED <<manifest, disk, published>>
  BY <1>2 DEF fileVars, histVars
<1>6. \A n \in Listed(manifest) : disk[n] = Part(published[manifest.gen], n)
  BY <1>3, ListedPart
<1>7. /\ 0 \in 0..Count(manifest)
      /\ got'[p] = [j \in 1..0 |-> Part(published[manifest.gen], ContainerAt(manifest, j))]
  BY <1>1, <1>2, <1>3 DEF Count, Manifests
<1>8. ReadingOK(p)'
  BY <1>3, <1>4, <1>5, <1>6, <1>7 DEF ReadingOK
<1>9. ReaderAt(p)' /\ DOMAIN got' = Procs
  BY <1>1, <1>2, <1>4, <1>8 DEF ReaderAt, Types
<1> QED
  BY <1>2, <1>4, <1>9, ReadStep

LEMMA OpenContainerStep ==
  ASSUME IInv, NEW p \in Procs, OpenContainer(p) PROVE IInv'
<1>1. Types /\ ReaderAt(p) /\ pc[p] = "opening"
  BY DEF IInv, HandlesOK, OpenContainer
<1>2. PICK m : m = want[p]
  OBVIOUS
<1>3. PICK l : l = published[m.gen]
  OBVIOUS
<1>4. /\ WF(m) /\ m.gen <= manifest.gen /\ Len(l) = m.head
      /\ \A n \in Listed(m) : n \in DOMAIN disk => disk[n] = Part(l, n)
  BY <1>1, <1>2, <1>3 DEF ReaderAt, ReadingOK
<1>5. PICK k \in 0..Count(m) : got[p] = [j \in 1..k |-> Part(l, ContainerAt(m, j))]
  BY <1>1, <1>2, <1>3 DEF ReaderAt, ReadingOK
<1>6. m \in Manifests /\ m.segments \in Seq(Names) /\ Count(m) \in Nat /\ k \in Nat
  BY <1>4 DEF WF, Manifests, Count
<1>7. Len(got[p]) = k /\ got[p] \in Seq({Part(l, ContainerAt(m, j)) : j \in Nat})
  BY <1>5, <1>6
<1>8. k + 1 \in 0..Count(m) /\ k + 1 \in 1..Count(m)
  BY <1>2, <1>6, <1>7 DEF OpenContainer
<1> DEFINE n == ContainerAt(m, k + 1)
<1>9. n \in Listed(m)
  BY <1>6, <1>8 DEF ContainerAt, Listed, Count
<1>10. n \in DOMAIN disk /\ got' = [got EXCEPT ![p] = Append(got[p], disk[n])]
  BY <1>2, <1>7 DEF OpenContainer
<1>11. disk[n] = Part(l, n)
  BY <1>4, <1>9, <1>10
<1>12. got'[p] = Append(got[p], Part(l, n)) /\ DOMAIN got' = Procs
  BY <1>1, <1>10, <1>11 DEF Types
<1>13. got'[p] = [j \in 1..(k + 1) |-> Part(l, ContainerAt(m, j))]
  <2>1. Part(l, n) \in {Part(l, ContainerAt(m, j)) : j \in Nat}
    BY <1>6
  <2> DEFINE P(j) == Part(l, ContainerAt(m, j))
             S == {P(j) : j \in Nat}
  <2>2. got[p] \in Seq(S) /\ Len(got[p]) = k /\ P(k + 1) \in S /\ got'[p] = Append(got[p], P(k + 1))
        /\ \A j \in 1..k : got[p][j] = P(j)
    BY <1>5, <1>7, <1>12, <2>1
  <2> HIDE DEF P, S
  <2>3. /\ got'[p] \in Seq(S) /\ Len(got'[p]) = k + 1
        /\ \A j \in 1..(k + 1) : got'[p][j] = P(j)
    BY <1>6, <2>2
  <2>4. got'[p] = [j \in 1..(k + 1) |-> P(j)]
    BY <1>6, <2>3
  <2> QED
    BY <2>4 DEF P
<1>14. /\ UNCHANGED <<fileVars, lock, pc, index, op, cached, want, histVars, fails>>
       /\ \A q \in Procs : q # p => want'[q] = want[q] /\ got'[q] = got[q]
  BY <1>1, <1>10 DEF OpenContainer, Types
<1>15. UNCHANGED <<manifest, disk, published>> /\ pc' = [pc EXCEPT ![p] = "opening"]
  BY <1>1, <1>14 DEF fileVars, histVars, Types
<1> HIDE DEF n
<1>16. ReadingOK(p)'
  BY <1>2, <1>3, <1>4, <1>8, <1>13, <1>14, <1>15 DEF ReadingOK
<1>17. ReaderAt(p)' /\ want' \in [Procs -> Manifests]
  BY <1>1, <1>14, <1>16 DEF ReaderAt, Types
<1> QED
  BY <1>12, <1>14, <1>15, <1>17, ReadStep

LEMMA ContainerGoneStep ==
  ASSUME IInv, NEW p \in Procs, ContainerGone(p) PROVE IInv'
<1>1. Types
  BY DEF IInv
<1>2. /\ UNCHANGED <<fileVars, lock, index, op, cached, histVars, fails>>
      /\ pc' = [pc EXCEPT ![p] = "retry"] /\ want' = [want EXCEPT ![p] = NoManifest]
      /\ got' = [got EXCEPT ![p] = << >>]
  BY DEF ContainerGone
<1>3. /\ want' \in [Procs -> Manifests] /\ DOMAIN got' = Procs /\ ReaderAt(p)'
      /\ \A q \in Procs : q # p => want'[q] = want[q] /\ got'[q] = got[q]
  BY <1>1, <1>2, NoTypes DEF Types, ReaderAt
<1> QED
  BY <1>2, <1>3, ReadStep

(***************************************************************************)
(* Writers: the container, the manifest, the sweep.                        *)
(***************************************************************************)

(* What a writer publishes over the log l of manifest m *)
LEMMA Plan ==
  ASSUME NEW m, WF(m), NEW l \in Logs, Len(l) = m.head, NEW o, OpOK(m, l, o)
  PROVE  LET n == ContainerFor(m, o)
             nm == ManifestFor(m, o)
         IN /\ n \in Names /\ n.gen = m.gen + 1 /\ 1 <= n.lo /\ n.hi <= Len(o.log)
            /\ WF(nm) /\ nm.gen = m.gen + 1 /\ nm.head = Len(o.log)
            /\ Listed(nm) \subseteq Listed(m) \union {n}
            /\ o.log \in Logs /\ m.head <= Len(o.log)
            /\ \A i \in 1..m.head : o.log[i].rec = l[i].rec
            /\ o.kind = "append" => \E i \in 1..nm.head : o.log[i].rec = o.rec
<1>1. m \in Manifests /\ m.head \in Nat /\ m.gen \in Nat /\ m.segments \in Seq(Names)
  BY DEF WF, Manifests
<1>2. CASE o.kind = "rewrite"
  <2>1. o.log \in Rewrites(l)
    BY <1>2 DEF OpOK
  <2>2. o.log \in Logs /\ Len(o.log) = m.head /\ \A i \in 1..m.head : o.log[i].rec = l[i].rec
    BY <2>1, RewriteKeeps
  <2>3. /\ WF(BaseManifest(m)) /\ BaseName(m) \in Names
        /\ Listed(BaseManifest(m)) = {BaseName(m)}
        /\ BaseManifest(m).gen = m.gen + 1 /\ BaseManifest(m).head = m.head
        /\ BaseName(m).lo = 1 /\ BaseName(m).hi = m.head /\ BaseName(m).gen = m.gen + 1
    BY BaseWF
  <2>4. ContainerFor(m, o) = BaseName(m) /\ ManifestFor(m, o) = BaseManifest(m)
    BY <1>2 DEF ContainerFor, ManifestFor
  <2> QED
    BY <1>1, <1>2, <2>2, <2>3, <2>4
<1>3. CASE o.kind # "rewrite"
  <2>1. /\ o.carry \in 0..Len(m.segments) /\ Carries(m.segments, o.carry)
        /\ o.rec \in Recs /\ o.log = Append(l, NewEntry(l, o.rec))
    BY <1>3 DEF OpOK
  <2> DEFINE k == o.carry
             n == AppendName(m, k)
             nm == AppendManifest(m, k)
             e == NewEntry(l, o.rec)
  <2>2. WF(nm)
    BY <2>1, AppendWF
  <2>3. n \in Names /\ nm.gen = m.gen + 1 /\ nm.head = m.head + 1 /\ n.gen = m.gen + 1
    BY <1>1, <2>1, AppendFields
  <2>4. n \in Listed(nm) /\ Listed(nm) \subseteq Listed(m) \union {n}
    BY <1>1, <2>1, AppendListed
  <2>5. ContainerFor(m, o) = n /\ ManifestFor(m, o) = nm
    BY <1>3 DEF ContainerFor, ManifestFor
  <2>6. e \in Entry /\ e.rec = o.rec
    BY <1>1, <2>1 DEF NewEntry, Entry
  <2> HIDE DEF n, nm, e
  <2>7. 1 <= n.lo /\ n.hi <= nm.head
    BY <2>2, <2>4, ListedRange
  <2>8. o.log = Append(l, e)
    BY <2>1 DEF e
  <2>9. /\ o.log \in Logs /\ Len(o.log) = m.head + 1
        /\ \A i \in 1..m.head : o.log[i] = l[i]
        /\ o.log[m.head + 1] = e
    BY <1>1, <2>6, <2>8 DEF Logs
  <2>10. m.head + 1 \in 1..nm.head /\ m.head <= Len(o.log)
    BY <1>1, <2>3, <2>9
  <2>11. \E i \in 1..nm.head : o.log[i].rec = o.rec
    BY <2>6, <2>9, <2>10
  <2> QED
    BY <2>2, <2>3, <2>4, <2>5, <2>7, <2>9, <2>10, <2>11
<1> QED
  BY <1>2, <1>3

(* Once its container is written, the manifest makes up the log *)
LEMMA PlanLog ==
  ASSUME NEW m, WF(m), NEW l \in Logs, Len(l) = m.head, NEW o, OpOK(m, l, o),
         NEW d, DiskOK(d), Listed(m) \subseteq DOMAIN d, LogOf(m, d, {}) = l,
         Written(d, {}, ContainerFor(m, o), o.log)
  PROVE  LogOf(ManifestFor(m, o), d, {}) = o.log
<1>1. o.log \in Logs /\ Len(o.log) = ManifestFor(m, o).head
  BY Plan
<1>2. CASE o.kind = "rewrite"
  <2>1. Written(d, {}, BaseName(m), o.log) /\ ManifestFor(m, o) = BaseManifest(m)
    BY <1>2 DEF ContainerFor, ManifestFor
  <2>2. Len(o.log) = m.head
    BY <1>1, <2>1, BaseWF
  <2> QED
    BY <1>1, <2>1, <2>2, BaseLog
<1>3. CASE o.kind # "rewrite"
  <2>1. /\ o.carry \in 0..Len(m.segments) /\ Carries(m.segments, o.carry)
        /\ o.rec \in Recs /\ o.log = Append(l, NewEntry(l, o.rec))
    BY <1>3 DEF OpOK
  <2>2. ContainerFor(m, o) = AppendName(m, o.carry) /\ ManifestFor(m, o) = AppendManifest(m, o.carry)
    BY <1>3 DEF ContainerFor, ManifestFor
  <2>3. m.head \in Nat
    BY DEF WF, Manifests
  <2>4. NewEntry(l, o.rec) \in Entry
    BY <2>1, <2>3 DEF NewEntry, Entry
  <2>5. CanAppend(m, o.carry, d, {}, NewEntry(l, o.rec), o.log)
    BY <2>1, <2>2, <2>4 DEF CanAppend
  <2> QED
    BY <2>2, <2>5, AppendLog
<1> QED
  BY <1>2, <1>3

LEMMA PutDisk ==
  ASSUME NEW d, DiskOK(d), NEW n \in Names, NEW c \in [n.lo..n.hi -> Entry]
  PROVE  /\ DiskOK(Put(d, n, c)) /\ DOMAIN Put(d, n, c) = DOMAIN d \union {n}
         /\ Put(d, n, c)[n] = c /\ \A x \in DOMAIN d : x # n => Put(d, n, c)[x] = d[x]
  BY DEF Put, DiskOK

(* What could be left before can be left after *)
LEMMA SoundStays ==
  ASSUME NEW s, Sound(s), manifest.gen <= manifest'.gen,
         manifest.gen \in Nat, manifest'.gen \in Nat,
         published'[s.man.gen] = published[s.man.gen], kept' = kept
  PROVE  Sound(s)'
<1>1. s.man.gen \in Nat
  BY DEF Sound, WF, Manifests
<1> QED
  BY <1>1 DEF Sound

LEMMA WriteContainerStep ==
  ASSUME IInv, NEW p \in Procs, WriteContainer(p)
  PROVE  /\ IInv' /\ Whole' = Whole /\ Now' \in past'
         /\ past' = {Now'} \/ past' = past \union {Now'}
<1>1. Types /\ FilesOK /\ CacheOK /\ HandlesOK /\ WriterAt(p) /\ ReaderAt(p)
  BY DEF IInv, HandlesOK
<1>2. PreparedOK(p) /\ pc[p] = "container" /\ lock = p
  BY <1>1 DEF WriteContainer, WriterAt, WriterPcs
<1>3. /\ WF(manifest) /\ DiskOK(disk) /\ manifest.gen \in Nat
      /\ Listed(manifest) \subseteq DOMAIN disk
      /\ Whole = LogOf(manifest, disk, {}) /\ Whole \in Logs /\ Len(Whole) = manifest.head
  BY Current
<1>4. PICK o \in Ops : o = op[p]
  BY <1>1 DEF Types
<1>5. OpOK(manifest, Whole, o) /\ index[p].man = manifest
  BY <1>2, <1>4 DEF PreparedOK
<1> DEFINE n == ContainerFor(manifest, o)
           c == [i \in n.lo..n.hi |-> o.log[i]]
<1>6. n \in Names /\ n.gen = manifest.gen + 1 /\ 1 <= n.lo /\ n.hi <= Len(o.log) /\ o.log \in Logs
  BY <1>3, <1>5, Plan
<1>7. /\ disk' = Put(disk, n, c) /\ torn' = torn \ {n}
      /\ solid' \subseteq solid \union {n}
      /\ past' = {[man |-> manifest, disk |-> disk']} \union (IF o.kind = "view" THEN past ELSE {})
      /\ pc' = [pc EXCEPT ![p] = "manifest"]
      /\ UNCHANGED <<manifest, lock, index, op, cached, want, got, used, kept, published, fails>>
  BY <1>3, <1>4, <1>5 DEF WriteContainer, readVars, histVars
<1> HIDE DEF n
<1>8. c \in [n.lo..n.hi -> Entry]
  BY <1>6 DEF Names, Logs
<1> HIDE DEF c
<1>9. /\ DiskOK(disk') /\ DOMAIN disk' = DOMAIN disk \union {n} /\ disk'[n] = c
      /\ \A x \in DOMAIN disk : x # n => disk'[x] = disk[x]
  <2>1. /\ DiskOK(Put(disk, n, c)) /\ DOMAIN Put(disk, n, c) = DOMAIN disk \union {n}
        /\ Put(disk, n, c)[n] = c
        /\ \A x \in DOMAIN disk : x # n => Put(disk, n, c)[x] = disk[x]
    BY <1>3, <1>6, <1>8, PutDisk
  <2>2. disk' = Put(disk, n, c)
    BY <1>7 DEF n, c
  <2> QED
    BY <2>1, <2>2
<1>10. \A x \in Listed(manifest) : x # n /\ disk'[x] = disk[x]
  <2>1. \A x \in Listed(manifest) : x \in Names /\ x.gen <= manifest.gen
    BY <1>3, ListedRange DEF WF
  <2>2. \A x \in Listed(manifest) : x # n
    BY <1>3, <1>6, <2>1 DEF Names
  <2> QED
    BY <1>3, <1>9, <2>2
<1>11. Listed(manifest) \subseteq DOMAIN disk'
  BY <1>3, <1>7, <1>9
<1>12. LogOf(manifest, disk', {}) = LogOf(manifest, disk, {})
  BY <1>3, <1>10, <1>11, LogSame
<1>13. Whole' = Whole /\ manifest' = manifest
  BY <1>3, <1>7, <1>12 DEF Whole
<1>14. FilesOK' /\ Now' \in past' /\ (past' = {Now'} \/ past' = past \union {Now'})
  <2>1. Now' = [man |-> manifest, disk |-> disk']
    BY <1>7 DEF Now
  <2>2. Sound(Now) /\ \A s \in past : Sound(s)
    BY <1>1 DEF FilesOK
  <2>3. PICK s : s = Now'
    OBVIOUS
  <2>4. s = [man |-> s.man, disk |-> s.disk] /\ s.man = manifest /\ s.disk = disk'
    BY <2>1, <2>3
  <2>5. \A r \in kept : \E i \in 1..manifest.head : published[manifest.gen][i].rec = r
    BY <2>2 DEF Sound, Now
  <2>6. LogOf(manifest, disk', {}) = published[manifest.gen]
    BY <1>3, <1>12, Current
  <2>7. Sound(s)'
    BY <1>3, <1>7, <1>9, <1>11, <2>4, <2>5, <2>6 DEF Sound
  <2>8. ASSUME NEW x \in past PROVE Sound(x)'
    BY <1>3, <1>7, <1>11, <2>2, SoundStays
  <2>9. past' = {s} \/ past' = past \union {s}
    BY <1>7, <2>1, <2>3
  <2>10. \A x \in past' : Sound(x)'
    BY <2>7, <2>8, <2>9
  <2> QED
    BY <2>3, <2>9, <2>10 DEF FilesOK
<1>15. Types'
  <2>1. pc' \in [Procs -> PcValues]
    BY <1>1, <1>7 DEF Types, PcValues, WriterPcs
  <2> QED
    BY <1>1, <1>6, <1>7, <2>1 DEF Types
<1>16. CacheOK'
  BY <1>1, <1>7 DEF CacheOK
<1>17. \A q \in Procs : WriterAt(q)'
  <2>1. WriterAt(p)'
    <3>1. PreparedOK(p)'
      BY <1>2, <1>7, <1>13 DEF PreparedOK
    <3>2. WrittenOK(p)'
      BY <1>4, <1>7, <1>9 DEF WrittenOK, Written, n, c
    <3>3. pc'[p] = "manifest" /\ lock' = p
      BY <1>1, <1>2, <1>7 DEF Types
    <3> QED
      BY <3>1, <3>2, <3>3 DEF WriterAt
  <2>2. ASSUME NEW q \in Procs, q # p PROVE WriterAt(q)'
    <3>1. pc'[q] = pc[q] /\ pc[q] \notin WriterPcs
      BY <1>1, <1>2, <1>7, <2>2, OneWriter DEF Types
    <3> QED
      BY <3>1, NotWriting
  <2> QED
    BY <2>1, <2>2
<1>18. ASSUME NEW q \in Procs PROVE ReaderAt(q)'
  <2>1. ReaderAt(q)
    BY <1>1 DEF HandlesOK
  <2>2. CASE pc[q] # "opening"
    BY <1>1, <1>7, <2>1, <2>2 DEF ReaderAt, Types
  <2>3. CASE pc[q] = "opening"
    <3>1. q # p /\ pc'[q] = pc[q] /\ ReadingOK(q)
      BY <1>1, <1>2, <1>7, <2>1, <2>3 DEF ReaderAt, Types
    <3>2. PICK m : m = want[q]
      OBVIOUS
    <3>3. /\ WF(m) /\ m.gen <= manifest.gen
          /\ \A x \in Listed(m) : x \in DOMAIN disk => disk[x] = Part(published[m.gen], x)
      BY <3>1, <3>2 DEF ReadingOK
    <3>4. \A x \in Listed(m) : x # n
      <4>1. \A x \in Listed(m) : x \in Names /\ x.gen <= m.gen
        BY <3>3, ListedRange DEF WF
      <4>2. m.gen \in Nat
        BY <3>3 DEF WF, Manifests
      <4> QED
        BY <1>3, <1>6, <3>3, <4>1, <4>2 DEF Names
    <3>5. \A x \in Listed(m) : x \in DOMAIN disk' => disk'[x] = Part(published[m.gen], x)
      BY <1>9, <3>3, <3>4
    <3>6. ReadingOK(q)'
      BY <1>7, <3>1, <3>2, <3>5 DEF ReadingOK
    <3> QED
      BY <2>3, <3>1, <3>6 DEF ReaderAt
  <2> QED
    BY <2>2, <2>3
<1> QED
  BY <1>13, <1>14, <1>15, <1>16, <1>17, <1>18 DEF IInv, HandlesOK

LEMMA WriteManifestStep ==
  ASSUME IInv, NEW p \in Procs, WriteManifest(p)
  PROVE  IInv' /\ Whole' = op[p].log /\ OpOK(manifest, Whole, op[p]) /\ past' = past \union {Now'}
<1>1. Types /\ FilesOK /\ CacheOK /\ HandlesOK /\ WriterAt(p) /\ ReaderAt(p)
  BY DEF IInv, HandlesOK
<1>2. PreparedOK(p) /\ WrittenOK(p) /\ pc[p] = "manifest" /\ lock = p
  BY <1>1 DEF WriteManifest, WriterAt, WriterPcs
<1>3. /\ WF(manifest) /\ DiskOK(disk) /\ manifest.gen \in Nat /\ manifest.head \in Nat
      /\ Listed(manifest) \subseteq DOMAIN disk
      /\ LogOf(manifest, disk, {}) = Whole /\ Whole \in Logs /\ Len(Whole) = manifest.head
      /\ \A r \in kept : \E i \in 1..manifest.head : Whole[i].rec = r
  BY Current
<1>4. PICK o \in Ops : o = op[p]
  BY <1>1 DEF Types
<1>5. /\ OpOK(manifest, Whole, o) /\ index[p].man = manifest /\ manifest.gen < MaxGen
      /\ Written(disk, {}, ContainerFor(manifest, o), o.log)
  BY <1>2, <1>4 DEF PreparedOK, WrittenOK
<1> DEFINE n == ContainerFor(manifest, o)
           nm == ManifestFor(manifest, o)
<1>6. /\ WF(nm) /\ nm.gen = manifest.gen + 1 /\ nm.head = Len(o.log)
      /\ Listed(nm) \subseteq Listed(manifest) \union {n}
      /\ o.log \in Logs /\ manifest.head <= Len(o.log)
      /\ \A i \in 1..manifest.head : o.log[i].rec = Whole[i].rec
      /\ o.kind = "append" => \E i \in 1..nm.head : o.log[i].rec = o.rec
  BY <1>3, <1>5, Plan
<1>7. LogOf(nm, disk, {}) = o.log
  BY <1>3, <1>5, PlanLog
<1>8. /\ manifest' = nm /\ past' = past \union {[man |-> nm, disk |-> disk]}
      /\ published' = [published EXCEPT ![nm.gen] = o.log]
      /\ pc' = [pc EXCEPT ![p] = IF o.kind = "view" THEN "sweep" ELSE "manifestSync"]
      /\ UNCHANGED <<disk, torn, solid, lock, index, op, cached, want, got, used, kept, fails>>
  BY <1>4, <1>5 DEF WriteManifest, readVars
<1>9. Listed(nm) \subseteq DOMAIN disk
  BY <1>3, <1>5, <1>6 DEF Written
<1> HIDE DEF n, nm
<1>10. /\ nm.gen \in 0..MaxGen /\ nm.gen \in Nat /\ manifest.gen < nm.gen
       /\ published' \in [0..MaxGen -> Logs] /\ published'[nm.gen] = o.log
       /\ \A g \in 0..manifest.gen : published'[g] = published[g]
  <2>1. nm.gen \in 0..MaxGen /\ nm.gen \in Nat /\ manifest.gen < nm.gen
    BY <1>3, <1>5, <1>6, OplogAssumption
  <2>2. published \in [0..MaxGen -> Logs]
    BY <1>1 DEF Types
  <2> QED
    BY <1>3, <1>5, <1>6, <1>8, <2>1, <2>2
<1>11. Whole' = o.log
  BY <1>3, <1>7, <1>8 DEF Whole
<1>12. FilesOK' /\ past' = past \union {Now'}
  <2>1. Now' = [man |-> nm, disk |-> disk]
    BY <1>8 DEF Now
  <2>2. PICK s : s = Now'
    OBVIOUS
  <2>3. s = [man |-> s.man, disk |-> s.disk] /\ s.man = nm /\ s.disk = disk
    BY <2>1, <2>2
  <2>4. ASSUME NEW r \in kept PROVE \E i \in 1..nm.head : o.log[i].rec = r
    <3>1. PICK i \in 1..manifest.head : Whole[i].rec = r
      BY <1>3
    <3>2. i \in 1..nm.head /\ o.log[i].rec = r
      BY <1>3, <1>6, <3>1 DEF Logs
    <3> QED
      BY <3>2
  <2>5. Sound(s)'
    BY <1>3, <1>6, <1>7, <1>8, <1>9, <1>10, <2>3, <2>4 DEF Sound
  <2>6. ASSUME NEW x \in past PROVE Sound(x)'
    <3>1. Sound(x)
      BY <1>1 DEF FilesOK
    <3>2. x.man.gen \in 0..manifest.gen
      BY <1>3, <3>1 DEF Sound, WF, Manifests
    <3> QED
      BY <1>3, <1>8, <1>10, <3>1, <3>2, SoundStays
  <2>7. past' = past \union {s}
    BY <1>8, <2>1, <2>2
  <2> QED
    BY <2>2, <2>5, <2>6, <2>7 DEF FilesOK
<1>13. Types'
  <2>1. pc' \in [Procs -> PcValues]
    BY <1>1, <1>8 DEF Types, PcValues, WriterPcs
  <2> QED
    BY <1>1, <1>8, <1>10, <2>1 DEF Types
<1>14. CacheOK'
  <2>1. ASSUME NEW q \in Procs, NEW x \in cached[q]
        PROVE  x.man.gen <= nm.gen /\ x.log = published'[x.man.gen]
    <3>1. x.man.gen \in Nat /\ x.man.gen <= manifest.gen /\ x.log = published[x.man.gen]
      BY <1>1 DEF Types, CacheOK, Indexes, Manifests
    <3> QED
      BY <1>3, <1>10, <3>1
  <2> QED
    BY <1>8, <2>1 DEF CacheOK
<1>15. \A q \in Procs : WriterAt(q)'
  <2>1. WriterAt(p)'
    <3>1. PublishedOK(p)'
      <4>1. index'[p].man = manifest /\ op'[p] = o /\ ManifestFor(manifest, o) = nm
        BY <1>4, <1>5, <1>8 DEF nm
      <4>2. o.kind = "append" => o.rec >= 1
        BY <1>5 DEF OpOK
      <4> QED
        BY <1>6, <1>8, <1>11, <4>1, <4>2 DEF PublishedOK
    <3>2. /\ pc'[p] = (IF o.kind = "view" THEN "sweep" ELSE "manifestSync") /\ lock' = p
          /\ op'[p] = o
      BY <1>1, <1>2, <1>4, <1>8 DEF Types
    <3> QED
      BY <3>1, <3>2 DEF WriterAt
  <2>2. ASSUME NEW q \in Procs, q # p PROVE WriterAt(q)'
    <3>1. pc'[q] = pc[q] /\ pc[q] \notin WriterPcs
      BY <1>1, <1>2, <1>8, <2>2, OneWriter DEF Types
    <3> QED
      BY <3>1, NotWriting
  <2> QED
    BY <2>1, <2>2
<1>16. ASSUME NEW q \in Procs PROVE ReaderAt(q)'
  <2>1. ReaderAt(q)
    BY <1>1 DEF HandlesOK
  <2>2. CASE pc[q] # "opening"
    BY <1>1, <1>8, <2>1, <2>2 DEF ReaderAt, Types
  <2>3. CASE pc[q] = "opening"
    <3>1. q # p /\ pc'[q] = pc[q] /\ ReadingOK(q)
      BY <1>1, <1>2, <1>8, <2>1, <2>3 DEF ReaderAt, Types
    <3>2. PICK m : m = want[q]
      OBVIOUS
    <3>3. m.gen \in 0..manifest.gen
      BY <1>3, <3>1, <3>2 DEF ReadingOK, WF, Manifests
    <3>4. published'[m.gen] = published[m.gen] /\ m.gen <= nm.gen
      BY <1>3, <1>10, <3>3
    <3>5. ReadingOK(q)'
      BY <1>8, <3>1, <3>2, <3>4 DEF ReadingOK
    <3> QED
      BY <2>3, <3>1, <3>5 DEF ReaderAt
  <2> QED
    BY <2>2, <2>3
<1> QED
  BY <1>4, <1>5, <1>11, <1>12, <1>13, <1>14, <1>15, <1>16 DEF IInv, HandlesOK

LEMMA SyncManifestStep ==
  ASSUME IInv, NEW p \in Procs, SyncManifest(p)
  PROVE  IInv' /\ Whole' = Whole /\ past' = {Now}
<1>1. Types /\ FilesOK /\ CacheOK /\ HandlesOK /\ WriterAt(p)
  BY DEF IInv, HandlesOK
<1>2. /\ pc[p] = "manifestSync" /\ past' = {Now} /\ pc' = [pc EXCEPT ![p] = "sweep"]
      /\ UNCHANGED <<manifest, disk, torn, solid, lock, index, op, cached, want, got, used, kept,
                     published, fails>>
  BY DEF SyncManifest, readVars, histVars
<1>3. lock = p /\ PublishedOK(p)
  BY <1>1, <1>2 DEF WriterAt, WriterPcs
<1>4. Types' /\ Whole' = Whole /\ Now' = Now
  <2>1. pc' \in [Procs -> PcValues]
    BY <1>1, <1>2 DEF Types, PcValues, WriterPcs
  <2> QED
    BY <1>1, <1>2, <2>1 DEF Types, Whole, Now
<1>5. FilesOK'
  BY <1>1, <1>2, <1>4 DEF FilesOK, Sound
<1>6. CacheOK'
  BY <1>1, <1>2 DEF CacheOK
<1>7. ASSUME NEW q \in Procs PROVE WriterAt(q)' /\ ReaderAt(q)'
  <2>1. ReaderAt(q) /\ (q # p => pc'[q] = pc[q]) /\ pc'[p] = "sweep"
    BY <1>1, <1>2 DEF HandlesOK, Types
  <2>2. CASE q = p
    <3>1. ReaderAt(q)'
      BY <1>2, <2>1, <2>2 DEF ReaderAt
    <3>2. PublishedOK(p)'
      BY <1>2, <1>3, <1>4 DEF PublishedOK
    <3>3. WriterAt(q)'
      BY <1>2, <1>3, <1>4, <2>1, <2>2, <3>2 DEF WriterAt
    <3> QED
      BY <3>1, <3>3
  <2>3. CASE q # p
    <3>1. pc[q] \notin WriterPcs
      BY <1>3, <2>3, OneWriter
    <3>2. WriterAt(q)'
      BY <2>1, <2>3, <3>1, NotWriting
    <3>3. ReaderAt(q)'
      BY <1>2, <2>1, <2>3, ReaderStays
    <3> QED
      BY <3>2, <3>3
  <2> QED
    BY <2>2, <2>3
<1> QED
  BY <1>2, <1>4, <1>5, <1>6, <1>7 DEF IInv, HandlesOK

LEMMA SweepStep ==
  ASSUME IInv, NEW p \in Procs, SweepAndReturn(p)
  PROVE  IInv' /\ Whole' = Whole /\ past' = past \union {Now'}
<1>1. Types /\ FilesOK /\ CacheOK /\ HandlesOK /\ WriterAt(p) /\ ReaderAt(p) /\ pc[p] = "sweep"
  BY DEF IInv, HandlesOK, SweepAndReturn
<1>2. /\ WF(manifest) /\ manifest \in Manifests /\ DiskOK(disk)
      /\ manifest.gen \in Nat /\ manifest.head \in Nat
      /\ Listed(manifest) \subseteq DOMAIN disk
      /\ LogOf(manifest, disk, {}) = Whole /\ Whole = published[manifest.gen] /\ Whole \in Logs
      /\ Len(Whole) = manifest.head
      /\ \A r \in kept : \E i \in 1..manifest.head : Whole[i].rec = r
  BY Current
<1>3. lock = p /\ PublishedOK(p) /\ (op[p].kind = "append" => past = {Now})
  BY <1>1 DEF WriterAt, WriterPcs
<1>4. PICK o \in Ops : o = op[p]
  BY <1>1 DEF Types
<1>5. /\ ManifestFor(index[p].man, op[p]) = manifest /\ o.log = Whole
      /\ o.kind = "append" => \E i \in 1..manifest.head : Whole[i].rec = o.rec
      /\ o.kind = "append" => o.rec >= 1
  BY <1>3, <1>4 DEF PublishedOK
<1>6. PICK S \in SUBSET Sweepable(manifest) : disk' = Remove(disk, S)
  BY <1>5 DEF SweepAndReturn
<1>7. /\ DOMAIN disk' = DOMAIN disk \ S /\ \A x \in DOMAIN disk' : disk'[x] = disk[x]
      /\ Listed(manifest) \subseteq DOMAIN disk'
  BY <1>2, <1>6 DEF Remove, Sweepable
<1>8. DiskOK(disk')
  BY <1>2, <1>7 DEF DiskOK
<1> DEFINE x == [man |-> manifest, log |-> Whole]
<1>9. /\ past' = past \union {[man |-> manifest, disk |-> disk']} /\ lock' = None
      /\ cached' = [cached EXCEPT ![p] = {x}]
      /\ kept' = IF o.kind = "append" THEN kept \union {o.rec} ELSE kept
      /\ pc' = [pc EXCEPT ![p] = "idle"] /\ index' = [index EXCEPT ![p] = NoIndex]
      /\ op' = [op EXCEPT ![p] = NoOp]
      /\ UNCHANGED <<manifest, torn, solid, want, got, used, published, fails>>
  BY <1>4, <1>5 DEF SweepAndReturn, Idle, readVars
<1>10. x \in Indexes /\ x.man = manifest /\ x.log = Whole
  BY <1>2 DEF Indexes
<1> HIDE DEF x
<1>11. LogOf(manifest, disk', {}) = LogOf(manifest, disk, {})
  <2>1. Listed(manifest) \subseteq DOMAIN disk \ {} /\ Listed(manifest) \subseteq DOMAIN disk' \ {}
    BY <1>2, <1>7
  <2>2. \A y \in Listed(manifest) : disk'[y] = disk[y]
    BY <1>7
  <2> QED
    BY <1>2, <2>1, <2>2, LogSame
<1>12. Whole' = Whole
  BY <1>2, <1>9, <1>11 DEF Whole
<1>13. Types'
  <2>1. pc' \in [Procs -> PcValues] /\ lock' \in Procs \union {None}
    BY <1>1, <1>9 DEF Types, PcValues
  <2>2. /\ index' \in [Procs -> Indexes] /\ op' \in [Procs -> Ops]
        /\ cached' \in [Procs -> SUBSET Indexes]
    BY <1>1, <1>9, <1>10, NoTypes DEF Types
  <2>3. \A q \in Procs : op'[q].rec <= used
    BY <1>1, <1>9, NoTypes DEF Types
  <2>4. kept' \subseteq 1..used
    <3>1. o.rec \in Nat /\ o.rec <= used /\ used \in Nat /\ kept \subseteq 1..used
      BY <1>1, <1>4 DEF Types, Ops
    <3>2. o.kind = "append" => o.rec \in 1..used
      BY <1>5, <3>1
    <3> QED
      BY <1>9, <3>1, <3>2
  <2> QED
    BY <1>1, <1>9, <2>1, <2>2, <2>3, <2>4 DEF Types
<1>14. FilesOK' /\ past' = past \union {Now'}
  <2>1. Now' = [man |-> manifest, disk |-> disk']
    BY <1>9 DEF Now
  <2>2. PICK s : s = Now'
    OBVIOUS
  <2>3. s = [man |-> s.man, disk |-> s.disk] /\ s.man = manifest /\ s.disk = disk'
    BY <2>1, <2>2
  <2>4. \A r \in kept' : \E i \in 1..manifest.head : published[manifest.gen][i].rec = r
    BY <1>2, <1>5, <1>9
  <2>5. manifest.gen <= manifest.gen
    BY <1>2
  <2>6. LogOf(manifest, disk', {}) = published[manifest.gen]
    BY <1>2, <1>11
  <2>7. Sound(s)'
    BY <1>2, <1>7, <1>8, <1>9, <2>3, <2>4, <2>5, <2>6 DEF Sound
  <2>8. ASSUME NEW y \in past PROVE Sound(y)'
    <3>1. Sound(y)
      BY <1>1 DEF FilesOK
    <3>2. CASE o.kind = "append"
      <4>1. y.man = manifest
        BY <1>3, <1>4, <3>2 DEF Now
      <4>2. \A r \in kept' : \E i \in 1..y.man.head : published[y.man.gen][i].rec = r
        BY <2>4, <4>1
      <4> QED
        BY <1>9, <3>1, <4>2 DEF Sound
    <3>3. CASE o.kind # "append"
      BY <1>2, <1>9, <3>1, <3>3, SoundStays
    <3> QED
      BY <3>2, <3>3
  <2>9. past' = past \union {s}
    BY <1>9, <2>1, <2>2
  <2> QED
    BY <2>2, <2>7, <2>8, <2>9 DEF FilesOK
<1>15. CacheOK'
  <2>1. ASSUME NEW q \in Procs, NEW y \in cached'[q]
        PROVE  y.man.gen <= manifest.gen /\ y.log = published[y.man.gen]
    <3>1. y \in cached[q] \/ y = x
      BY <1>1, <1>9 DEF Types
    <3>2. x.man.gen <= manifest.gen /\ x.log = published[x.man.gen]
      BY <1>2, <1>10
    <3> QED
      BY <1>1, <3>1, <3>2 DEF CacheOK
  <2> QED
    BY <1>9, <2>1 DEF CacheOK
<1>16. ASSUME NEW q \in Procs PROVE WriterAt(q)' /\ ReaderAt(q)'
  <2>1. ReaderAt(q) /\ (q # p => pc'[q] = pc[q]) /\ pc'[p] = "idle"
    BY <1>1, <1>9 DEF HandlesOK, Types
  <2>2. WriterAt(q)'
    <3>1. pc'[q] \notin WriterPcs
      BY <1>3, <2>1, OneWriter DEF WriterPcs
    <3> QED
      BY <3>1, NotWriting
  <2>3. ReaderAt(q)'
    <3>1. CASE pc[q] # "opening"
      BY <1>1, <1>9, <2>1, <3>1 DEF ReaderAt
    <3>2. CASE pc[q] = "opening"
      <4>1. q # p /\ pc'[q] = pc[q] /\ ReadingOK(q)
        BY <1>1, <2>1, <3>2 DEF ReaderAt
      <4>2. PICK m : m = want[q]
        OBVIOUS
      <4>3. \A n \in Listed(m) : n \in DOMAIN disk' => disk'[n] = Part(published[m.gen], n)
        BY <1>7, <4>1, <4>2 DEF ReadingOK
      <4>4. ReadingOK(q)'
        BY <1>9, <4>1, <4>2, <4>3 DEF ReadingOK
      <4> QED
        BY <3>2, <4>1, <4>4 DEF ReaderAt
    <3> QED
      BY <3>1, <3>2
  <2> QED
    BY <2>2, <2>3
<1> QED
  BY <1>12, <1>13, <1>14, <1>15, <1>16 DEF IInv, HandlesOK

(***************************************************************************)
(* Power failures, and the invariant.                                      *)
(***************************************************************************)
LEMMA PowerLossStep ==
  ASSUME IInv, PowerLoss
  PROVE  IInv' /\ \E s \in past : past' = {s} /\ Whole' = LogOf(s.man, s.disk, {})
<1>1. Types /\ FilesOK
  BY DEF IInv
<1>2. PICK s \in past : /\ manifest' = s.man /\ disk' = s.disk
                        /\ torn' \subseteq DOMAIN s.disk
                        /\ solid' \subseteq solid \union DOMAIN s.disk /\ past' = {s}
  BY DEF PowerLoss
<1>3. Sound(s)
  BY <1>1 DEF FilesOK
<1>4. torn' \subseteq Names /\ solid' \subseteq Names
  BY <1>1, <1>2, <1>3 DEF Sound, DiskOK, Types
<1>5. /\ lock' = None /\ pc' = [p \in Procs |-> "idle"] /\ index' = [p \in Procs |-> NoIndex]
      /\ op' = [p \in Procs |-> NoOp] /\ cached' = [p \in Procs |-> {}]
      /\ want' = [p \in Procs |-> NoManifest] /\ got' = [p \in Procs |-> << >>]
      /\ UNCHANGED <<used, kept, published>> /\ fails' \in 0..MaxFails
  BY FailureBound DEF PowerLoss, histVars
<1>6. s.man.gen \in Nat /\ s.man.gen <= MaxGen
  BY <1>3, Current DEF Sound, WF, Manifests
<1>7. Types'
  BY <1>1, <1>2, <1>4, <1>5, <1>6, NoTypes DEF Types, PcValues
<1>8. FilesOK'
  <2>1. Now' = s
    BY <1>2, <1>3 DEF Now, Sound
  <2>2. Sound(s)'
    BY <1>2, <1>3, <1>5, <1>6 DEF Sound
  <2> QED
    BY <1>2, <2>1, <2>2 DEF FilesOK
<1>9. CacheOK'
  BY <1>5 DEF CacheOK
<1>10. HandlesOK'
  <2>1. ASSUME NEW q \in Procs PROVE WriterAt(q)' /\ ReaderAt(q)'
    BY <1>5, NotWriting DEF ReaderAt, WriterPcs
  <2> QED
    BY <2>1 DEF HandlesOK
<1>11. Whole' = LogOf(s.man, s.disk, {})
  BY <1>2 DEF Whole
<1> QED
  BY <1>2, <1>7, <1>8, <1>9, <1>10, <1>11 DEF IInv

LEMMA Initially == Init => IInv
<1> SUFFICES ASSUME Init PROVE IInv
  OBVIOUS
<1>1. /\ manifest = NoManifest /\ torn = {} /\ solid = {Canonical} /\ past = {Now}
      /\ disk = Put([x \in {} |-> << >>], Canonical, << >>)
      /\ lock = None /\ pc = [p \in Procs |-> "idle"] /\ index = [p \in Procs |-> NoIndex]
      /\ op = [p \in Procs |-> NoOp] /\ cached = [p \in Procs |-> {}]
      /\ want = [p \in Procs |-> NoManifest] /\ got = [p \in Procs |-> << >>]
      /\ used = 0 /\ kept = {} /\ published = [g \in 0..MaxGen |-> << >>] /\ fails = 0
  BY DEF Init
<1>2. /\ WF(NoManifest) /\ Listed(NoManifest) = {Canonical}
      /\ NoManifest.gen = 0 /\ NoManifest.head = 0
      /\ Canonical \in Names /\ Canonical.lo = 1 /\ Canonical.hi = 0
  BY WFNoManifest DEF NoManifest, Canonical, Name, Names, BaseLevel
<1>3. MaxGen \in Nat /\ MaxFails \in Nat /\ << >> \in Logs
  BY OplogAssumption DEF Logs
<1>4. DOMAIN disk = {Canonical} /\ disk[Canonical] = << >>
  BY <1>1 DEF Put
<1>5. << >> \in [1..0 -> Entry]
  OBVIOUS
<1>6. DiskOK(disk)
  BY <1>2, <1>4, <1>5 DEF DiskOK
<1>7. Types
  BY <1>1, <1>2, <1>3, NoTypes DEF Types, PcValues
<1>8. LogOf(manifest, disk, {}) = << >>
  <2>1. LogOf(manifest, disk, {}) = [i \in 1..0 |-> EntryAt(manifest, disk, {}, i)]
    BY <1>1, <1>2 DEF LogOf
  <2> QED
    BY <2>1
<1>9. FilesOK
  <2>1. Now = [man |-> manifest, disk |-> disk] /\ Now.man = manifest /\ Now.disk = disk
    BY DEF Now
  <2>2. Sound(Now)
    BY <1>1, <1>2, <1>3, <1>4, <1>6, <1>8, <2>1 DEF Sound
  <2> QED
    BY <1>1, <2>2 DEF FilesOK
<1>10. CacheOK
  BY <1>1 DEF CacheOK
<1>11. HandlesOK
  BY <1>1 DEF HandlesOK, WriterAt, ReaderAt, WriterPcs
<1> QED
  BY <1>7, <1>9, <1>10, <1>11 DEF IInv

LEMMA Preserved ==
  ASSUME IInv, [Next]_vars
  PROVE  IInv'
<1>1. CASE UNCHANGED vars
  <2>1. /\ UNCHANGED <<fileVars, kept, published>>
        /\ UNCHANGED <<lock, pc, index, op, cached, want, got, used, fails>>
    BY <1>1 DEF vars, histVars, readVars
  <2>2. UNCHANGED <<manifest, disk, torn, solid, past>>
    BY <2>1 DEF fileVars
  <2>3. Types'
    BY <2>1, <2>2 DEF IInv, Types
  <2>4. FilesOK'
    BY <2>1, FilesStay DEF IInv
  <2>5. CacheOK'
    BY <2>1, <2>2 DEF IInv, CacheOK
  <2>6. ASSUME NEW q \in Procs PROVE WriterAt(q)' /\ ReaderAt(q)'
    <3>1. WriterAt(q) /\ ReaderAt(q) /\ (pc[q] \in WriterPcs => lock' = q)
      BY <2>1 DEF IInv, HandlesOK, WriterAt
    <3> QED
      BY <2>1, <2>2, <3>1, WriterStays, ReaderStays
  <2> QED
    BY <2>3, <2>4, <2>5, <2>6 DEF IInv, HandlesOK
<1>2. CASE Next
  <2>1. ASSUME NEW p \in Procs, BeginAppend(p) \/ BeginRewrite(p) \/ WriteFails(p) \/ Crash(p)
        PROVE  IInv'
    BY <2>1, BeginAppendStep, BeginRewriteStep, WriteFailsStep, CrashStep
  <2>2. ASSUME NEW p \in Procs, Write(p) PROVE IInv'
    BY <2>2, WriteContainerStep, SyncManifestStep, WriteManifestStep, SweepStep DEF Write
  <2>3. ASSUME NEW p \in Procs, ReadManifest(p) \/ Read(p) PROVE IInv'
    BY <2>3, ReadManifestStep, OpenContainerStep, ContainerGoneStep, ReadReturnsStep,
       ReadUnderLockStep DEF Read
  <2>4. ASSUME PowerLoss PROVE IInv'
    BY <2>4, PowerLossStep
  <2> QED
    BY <1>2, <2>1, <2>2, <2>3, <2>4 DEF Next
<1> QED
  BY <1>1, <1>2

LEMMA Invariant == Spec => []IInv
<1>1. Init => IInv
  BY Initially
<1>2. IInv /\ [Next]_vars => IInv'
  BY Preserved
<1> QED
  BY <1>1, <1>2, PTL DEF Spec

(***************************************************************************)
(* Damage.                                                                 *)
(***************************************************************************)

(* A damaged log is not written; a container to be listed is readable *)
DamageOK ==
  /\ Damaged => past = {Now} /\ \A p \in Procs : pc[p] \notin WriterPcs
  /\ \A p \in Procs : pc[p] = "manifest" => ContainerFor(manifest, op[p]) \notin torn

(* The log stays as it is while a call ends, or one that only reads goes on *)
LEMMA DamageStays ==
  ASSUME DamageOK, UNCHANGED fileVars,
         \A q \in Procs : pc'[q] \notin WriterPcs \/ (pc'[q] = pc[q] /\ op'[q] = op[q])
  PROVE  DamageOK'
<1>1. /\ manifest' = manifest /\ disk' = disk /\ torn' = torn /\ past' = past
  BY DEF fileVars
<1>2. Damaged' = Damaged /\ Now' = Now
  BY <1>1 DEF Damaged, Now
<1>3. ASSUME NEW q \in Procs, pc'[q] = "manifest" PROVE ContainerFor(manifest', op'[q]) \notin torn'
  <2>1. pc'[q] = pc[q] /\ op'[q] = op[q]
    BY <1>3 DEF WriterPcs
  <2> QED
    BY <1>1, <1>3, <2>1 DEF DamageOK
<1>4. Damaged' => past' = {Now'} /\ \A q \in Procs : pc'[q] \notin WriterPcs
  BY <1>1, <1>2 DEF DamageOK
<1>5. \A q \in Procs : pc'[q] = "manifest" => ContainerFor(manifest', op'[q]) \notin torn'
  BY <1>3
<1> QED
  BY <1>4, <1>5 DEF DamageOK

(* A log that is whole before and after a step of its only writer *)
LEMMA WholeStays ==
  ASSUME IInv, NEW p \in Procs, pc[p] \in WriterPcs, Types', ~Damaged',
         \A q \in Procs : q # p => pc'[q] = pc[q],
         pc'[p] = "manifest" => ContainerFor(manifest, op[p])' \notin torn'
  PROVE  DamageOK'
<1>1. \A q \in Procs : q # p => pc'[q] # "manifest"
  BY OneWriter DEF WriterPcs
<1> QED
  BY <1>1 DEF DamageOK

LEMMA DamagePreserved ==
  ASSUME IInv, DamageOK, [Next]_vars
  PROVE  DamageOK'
<1>1. IInv'
  BY Preserved
<1>2. Types /\ Types' /\ HandlesOK
  BY <1>1 DEF IInv
<1>3. CASE UNCHANGED vars
  BY <1>3, DamageStays DEF vars
<1>4. ASSUME NEW p \in Procs, BeginAppend(p) \/ BeginRewrite(p) PROVE DamageOK'
  <2>1. /\ Opens(manifest, disk, torn) /\ lock = None /\ UNCHANGED fileVars
        /\ pc' = [pc EXCEPT ![p] = "container"]
    BY <1>4 DEF BeginAppend, BeginRewrite, WriteLock
  <2>2. manifest' = manifest /\ torn' = torn /\ ~Damaged'
    BY <2>1 DEF fileVars, Opens, Damaged
  <2>3. \A q \in Procs : pc'[q] # "manifest"
    BY <1>2, <2>1, NoWriter DEF Types, WriterPcs
  <2> QED
    BY <2>2, <2>3 DEF DamageOK
<1>5. ASSUME NEW p \in Procs, WriteFails(p) \/ Crash(p) PROVE DamageOK'
  <2>1. /\ UNCHANGED fileVars /\ pc' = [pc EXCEPT ![p] = "idle"]
        /\ op' = [op EXCEPT ![p] = NoOp]
    BY <1>5 DEF WriteFails, Crash, Idle
  <2>2. pc'[p] \notin WriterPcs /\ \A q \in Procs : q # p => pc'[q] = pc[q] /\ op'[q] = op[q]
    BY <1>2, <2>1 DEF Types, WriterPcs
  <2> QED
    BY <2>1, <2>2, DamageStays
<1>6. ASSUME NEW p \in Procs, ReadManifest(p) \/ Read(p) PROVE DamageOK'
  <2>1. UNCHANGED fileVars /\ op' = op
    BY <1>6 DEF ReadManifest, Read, OpenContainer, ContainerGone, ReadReturns, EndRead,
                ReadUnderLock
  <2>2. pc' = pc \/ \E v \in {"idle", "opening", "retry"} : pc' = [pc EXCEPT ![p] = v]
    BY <1>6 DEF ReadManifest, Read, OpenContainer, ContainerGone, ReadReturns, EndRead,
                ReadUnderLock
  <2>3. \A q \in Procs : pc'[q] \notin WriterPcs \/ pc'[q] = pc[q]
    BY <1>2, <2>2 DEF Types, WriterPcs
  <2> QED
    BY <2>1, <2>3, DamageStays
<1>7. ASSUME NEW p \in Procs, WriteContainer(p) PROVE DamageOK'
  <2>1. pc[p] = "container" /\ pc[p] \in WriterPcs /\ WriterAt(p)
    BY <1>2, <1>7 DEF WriteContainer, WriterPcs, HandlesOK
  <2>2. index[p].man = manifest /\ ~Damaged
    BY <2>1 DEF WriterAt, PreparedOK, DamageOK
  <2>3. /\ torn' = torn \ {ContainerFor(manifest, op[p])}
        /\ manifest' = manifest /\ op' = op /\ pc' = [pc EXCEPT ![p] = "manifest"]
    BY <1>7, <2>2 DEF WriteContainer
  <2>4. ~Damaged' /\ ContainerFor(manifest, op[p])' \notin torn'
    BY <2>2, <2>3 DEF Damaged
  <2>5. \A q \in Procs : q # p => pc'[q] = pc[q]
    BY <1>2, <2>3 DEF Types
  <2> QED
    BY <1>2, <2>1, <2>4, <2>5, WholeStays
<1>8. ASSUME NEW p \in Procs, WriteManifest(p) PROVE DamageOK'
  <2>1. pc[p] = "manifest" /\ pc[p] \in WriterPcs /\ WriterAt(p)
    BY <1>2, <1>8 DEF WriteManifest, WriterPcs, HandlesOK
  <2>2. PICK o \in Ops : o = op[p]
    BY <1>2 DEF Types
  <2>3. index[p].man = manifest /\ OpOK(manifest, Whole, o) /\ ~Damaged
    BY <2>1, <2>2 DEF WriterAt, PreparedOK, DamageOK
  <2>4. WF(manifest) /\ Whole \in Logs /\ Len(Whole) = manifest.head
    BY Current
  <2>5. Listed(ManifestFor(manifest, o)) \subseteq Listed(manifest) \union {ContainerFor(manifest, o)}
    BY <2>3, <2>4, Plan
  <2>6. ContainerFor(manifest, o) \notin torn
    BY <2>1, <2>2 DEF DamageOK
  <2>7. /\ manifest' = ManifestFor(manifest, o) /\ torn' = torn
        /\ \E v \in {"sweep", "manifestSync"} : pc' = [pc EXCEPT ![p] = v]
    BY <1>8, <2>2, <2>3 DEF WriteManifest
  <2>8. ~Damaged'
    BY <2>3, <2>5, <2>6, <2>7 DEF Damaged
  <2>9. /\ \A q \in Procs : q # p => pc'[q] = pc[q]
        /\ pc'[p] # "manifest"
    BY <1>2, <2>7 DEF Types
  <2> QED
    BY <1>2, <2>1, <2>8, <2>9, WholeStays
<1>9. ASSUME NEW p \in Procs, SyncManifest(p) \/ SweepAndReturn(p) PROVE DamageOK'
  <2>1. /\ pc[p] \in WriterPcs /\ manifest' = manifest /\ torn' = torn
        /\ \E v \in {"sweep", "idle"} : pc' = [pc EXCEPT ![p] = v]
    BY <1>9 DEF SyncManifest, SweepAndReturn, Idle, WriterPcs
  <2>2. ~Damaged'
    BY <2>1 DEF Damaged, DamageOK
  <2>3. /\ \A q \in Procs : q # p => pc'[q] = pc[q]
        /\ pc'[p] # "manifest"
    BY <1>2, <2>1 DEF Types
  <2> QED
    BY <1>2, <2>1, <2>2, <2>3, WholeStays
<1>10. ASSUME PowerLoss PROVE DamageOK'
  <2>1. PICK s \in past : manifest' = s.man /\ disk' = s.disk /\ past' = {s}
    BY <1>10 DEF PowerLoss
  <2>2. Sound(s)
    BY DEF IInv, FilesOK
  <2>3. Now' = s
    BY <2>1, <2>2 DEF Now, Sound
  <2>4. \A q \in Procs : pc'[q] = "idle"
    BY <1>10 DEF PowerLoss
  <2> QED
    BY <2>1, <2>3, <2>4 DEF DamageOK, WriterPcs
<1> QED
  BY <1>3, <1>4, <1>5, <1>6, <1>7, <1>8, <1>9, <1>10 DEF Next, Write

(* No step undoes damage. *)
LEMMA DamageLasts ==
  ASSUME IInv, DamageOK, Damaged, [Next]_vars
  PROVE  Damaged'
<1>1. past = {Now} /\ \A p \in Procs : pc[p] \notin WriterPcs
  BY DEF DamageOK
<1>2. ~(\E p \in Procs : Write(p))
  BY <1>1 DEF Write, WriteContainer, SyncManifest, WriteManifest, SweepAndReturn, WriterPcs
<1>3. CASE manifest' = manifest /\ torn' = torn
  BY <1>3 DEF Damaged
<1>4. CASE PowerLoss
  <2>1. PICK s \in past : /\ manifest' = s.man /\ torn \cap DOMAIN s.disk \subseteq torn'
    BY <1>4 DEF PowerLoss
  <2>2. s = Now /\ s.man = manifest /\ s.disk = disk
    BY <1>1, <2>1 DEF Now
  <2>3. Listed(manifest) \subseteq DOMAIN disk
    BY Current
  <2> QED
    BY <2>1, <2>2, <2>3 DEF Damaged
<1>5. (manifest' = manifest /\ torn' = torn) \/ PowerLoss
  <2>1. ASSUME NEW p \in Procs, BeginAppend(p) \/ BeginRewrite(p) \/ WriteFails(p) \/ Crash(p)
        PROVE  manifest' = manifest /\ torn' = torn
    BY <2>1 DEF BeginAppend, BeginRewrite, WriteLock, WriteFails, Crash, fileVars
  <2>2. ASSUME NEW p \in Procs, ReadManifest(p) \/ Read(p)
        PROVE  manifest' = manifest /\ torn' = torn
    BY <2>2 DEF ReadManifest, Read, OpenContainer, ContainerGone, ReadReturns, ReadUnderLock,
                fileVars
  <2>3. UNCHANGED vars => manifest' = manifest /\ torn' = torn
    BY DEF vars, fileVars
  <2> QED
    BY <1>2, <2>1, <2>2, <2>3 DEF Next
<1> QED
  BY <1>3, <1>4, <1>5

LEMMA DamageInvariant == Spec => [](IInv /\ DamageOK)
<1>1. Init => IInv /\ DamageOK
  <2> SUFFICES ASSUME Init PROVE DamageOK
    BY Initially
  <2>1. torn = {} /\ \A p \in Procs : pc[p] = "idle"
    BY DEF Init
  <2> QED
    BY <2>1 DEF DamageOK, Damaged
<1>2. IInv /\ DamageOK /\ [Next]_vars => (IInv /\ DamageOK)'
  BY Preserved, DamagePreserved
<1> QED
  BY <1>1, <1>2, PTL DEF Spec

(***************************************************************************)
(* The theorems.                                                           *)
(***************************************************************************)

(* The variables keep their types. *)
THEOREM TypesHold == Spec => []TypeOK
<1>1. IInv => TypeOK
  <2> SUFFICES ASSUME IInv PROVE TypeOK
    OBVIOUS
  <2>1. Types /\ Now \in past /\ Now.man = manifest /\ Now.disk = disk
    BY DEF IInv, FilesOK, Now
  <2>2. manifest \in Manifests /\ DiskOK(disk)
    BY Current
  <2> QED
    BY <2>1, <2>2 DEF TypeOK, Types, DiskOK
<1>2. Spec => []IInv
  BY Invariant
<1> QED
  BY <1>1, <1>2, PTL

(* The manifest, and each one that a power failure may leave, lists        *)
(* containers that fit one another and exist: sweeps, merges and the order *)
(* of the writes lose none, only unsynced bytes may be torn.               *)
THEOREM ListedStaysIntact == Spec => []ListedIntact
<1>1. IInv => ListedIntact
  <2> SUFFICES ASSUME IInv PROVE ListedIntact
    OBVIOUS
  <2>1. Opens(manifest, disk, {})
    BY Current DEF Opens, WF
  <2>2. ASSUME NEW s \in past PROVE Opens(s.man, s.disk, {})
    <3>1. Sound(s)
      BY DEF IInv, FilesOK
    <3> QED
      BY <3>1 DEF Opens, Sound, WF
  <2> QED
    BY <2>1, <2>2 DEF ListedIntact
<1>2. Spec => []IInv
  BY Invariant
<1> QED
  BY <1>1, <1>2, PTL

(* A handle's index answers with the log exactly as its generation was     *)
(* published, also when refresh_cached opened the containers one by one,   *)
(* without the lock, while writers merged, rewrote and unlinked them.      *)
THEOREM ReadsAreSnapshots == Spec => []CachedSound
<1>1. IInv => CachedSound
  BY DEF IInv, CacheOK, CachedSound
<1>2. Spec => []IInv
  BY Invariant
<1> QED
  BY <1>1, <1>2, PTL

(* A record whose durable append returned stays in the log, through        *)
(* merges, rewrites, crashes and power failures, as long as none of these  *)
(* tore a listed container.                                                *)
THEOREM DurableAppendsStay == Spec => []DurableKept
<1>1. IInv => DurableKept
  <2> SUFFICES ASSUME IInv, ~Damaged PROVE \A r \in kept : \E i \in DOMAIN Log : Log[i].rec = r
    BY DEF DurableKept
  <2>1. Log = Whole
    BY OpenWhole
  <2>2. /\ DOMAIN Whole = 1..manifest.head
        /\ \A r \in kept : \E i \in 1..manifest.head : Whole[i].rec = r
    BY Current
  <2> QED
    BY <2>1, <2>2
<1>2. Spec => []IInv
  BY Invariant
<1> QED
  BY <1>1, <1>2, PTL

(***************************************************************************)
(* The refinement of DurableLog.                                           *)
(***************************************************************************)

(* The log that a state of the files stands for *)
LogIn(s) == LogOf(s.man, s.disk, {})
Possible == {LogIn(s) : s \in past}

(* The state the files are in stands for the log. *)
LEMMA NowLog ==
  IInv => LogIn(Now) = Whole /\ Whole \in Possible
<1> SUFFICES ASSUME IInv PROVE LogIn(Now) = Whole /\ Whole \in Possible
  OBVIOUS
<1>1. Now.man = manifest /\ Now.disk = disk /\ Now \in past
  BY DEF IInv, FilesOK, Now
<1>2. LogIn(Now) = Whole
  BY <1>1 DEF LogIn, Whole
<1> QED
  BY <1>1, <1>2 DEF Possible

(* The steps of the abstract log, in terms of the files. *)
LEMMA AbsSteps ==
  ASSUME ~Damaged, ~Damaged', Log = Whole, Log' = Whole'
  PROVE  /\ Whole' = Whole /\ Possible' = Possible => [Abs!Next]_(Abs!vars)
         /\ Whole' = Whole /\ Possible' = {Whole} => Abs!Next
         /\ \A r \in Recs :
              Whole' = Append(Whole, NewEntry(Whole, r)) /\ Possible' = Possible \union {Whole'}
                => Abs!Next
         /\ Whole' \in Rewrites(Whole) /\ Possible' = Possible \union {Whole'} => Abs!Next
         /\ Whole' \in Possible /\ Possible' = {Whole'} => Abs!Next
<1>1. Whole' = Whole /\ Possible' = Possible => [Abs!Next]_(Abs!vars)
  <2>1. Damaged' = Damaged
    BY DEF Damaged
  <2> QED
    BY <2>1 DEF Abs!vars, Possible, LogIn
<1>2. Whole' = Whole /\ Possible' = {Whole} => Abs!Sync
  BY DEF Abs!Sync, Possible, LogIn
<1>3. \A r \in Recs : Whole' = Append(Whole, NewEntry(Whole, r)) /\ Possible' = Possible \union {Whole'}
                        => Abs!AppendBatch
  BY DEF Abs!AppendBatch, Abs!NewEntry, NewEntry, Possible, LogIn
<1>4. Whole' \in Rewrites(Whole) /\ Possible' = Possible \union {Whole'} => Abs!Rewrite
  <2>1. Abs!Rewrites(Log) = Rewrites(Log)
    BY DEF Abs!Rewrites, Rewrites, Abs!SetUndone, SetUndone, Abs!Coalesce, Coalesce,
           Abs!Batches, Batches
  <2> QED
    BY <2>1 DEF Abs!Rewrite, Possible, LogIn
<1>5. Whole' \in Possible /\ Possible' = {Whole'} => Abs!PowerLoss
  BY DEF Abs!PowerLoss, Possible, LogIn
<1>6. Abs!AppendBatch \/ Abs!Rewrite \/ Abs!Sync \/ Abs!PowerLoss => Abs!Next
  <2>1. Damaged' = Damaged
    BY DEF Damaged
  <2> QED
    BY <2>1 DEF Abs!Next, Abs!Intact
<1> QED
  <2>1. Whole' = Whole /\ Possible' = {Whole} => Abs!Next
    BY <1>2, <1>6
  <2>2. \A r \in Recs :
          Whole' = Append(Whole, NewEntry(Whole, r)) /\ Possible' = Possible \union {Whole'}
            => Abs!Next
    BY <1>3, <1>6
  <2>3. Whole' \in Rewrites(Whole) /\ Possible' = Possible \union {Whole'} => Abs!Next
    BY <1>4, <1>6
  <2>4. Whole' \in Possible /\ Possible' = {Whole'} => Abs!Next
    BY <1>5, <1>6
  <2> QED
    BY <1>1, <2>1, <2>2, <2>3, <2>4

(* Every step is a step of the abstract log, or changes nothing of it. *)
LEMMA RefinementStep ==
  ASSUME IInv, DamageOK, [Next]_vars, ~Damaged'
  PROVE  [Abs!Next]_(Abs!vars)
<1>1. LogIn(Now) = Whole /\ Whole \in Possible
  BY NowLog
<1>2. IInv'
  BY Preserved
<1>3. (LogIn(Now) = Whole /\ Whole \in Possible)'
  BY <1>2, NowLog, PTL
<1>0. ~Damaged /\ Log = Whole /\ Log' = Whole'
  <2>1. ~Damaged
    BY DamageLasts
  <2>2. Log = Whole
    BY <2>1, OpenWhole
  <2>3. (Log = Whole)'
    BY <1>2, WholeLog, PTL
  <2> QED
    BY <1>2, <2>1, <2>2, <2>3
<1>4. CASE UNCHANGED fileVars
  <2>1. Whole' = Whole /\ Possible' = Possible
    BY <1>4 DEF fileVars, Whole, Possible, LogIn
  <2> QED
    BY <2>1, <1>0, AbsSteps
<1>5. ASSUME NEW p \in Procs, WriteContainer(p) PROVE [Abs!Next]_(Abs!vars)
  <2>1. Whole' = Whole /\ (past' = {Now'} \/ past' = past \union {Now'})
    BY <1>5, WriteContainerStep
  <2>2. CASE past' = {Now'}
    <3>1. Possible' = {Whole}
      BY <1>3, <2>1, <2>2 DEF Possible, LogIn
    <3> QED
      BY <2>1, <3>1, <1>0, AbsSteps
  <2>3. CASE past' = past \union {Now'}
    <3>1. Possible' = Possible
      BY <1>1, <1>3, <2>1, <2>3 DEF Possible, LogIn
    <3> QED
      BY <2>1, <3>1, <1>0, AbsSteps
  <2> QED
    BY <2>1, <2>2, <2>3
<1>6. ASSUME NEW p \in Procs, SyncManifest(p) PROVE [Abs!Next]_(Abs!vars)
  <2>1. Whole' = Whole /\ past' = {Now}
    BY <1>6, SyncManifestStep
  <2>2. Possible' = {Whole}
    BY <1>1, <2>1 DEF Possible, LogIn
  <2> QED
    BY <2>1, <2>2, <1>0, AbsSteps
<1>7. ASSUME NEW p \in Procs, WriteManifest(p) PROVE [Abs!Next]_(Abs!vars)
  <2>1. Whole' = op[p].log /\ OpOK(manifest, Whole, op[p]) /\ past' = past \union {Now'}
    BY <1>7, WriteManifestStep
  <2>2. Possible' = Possible \union {Whole'}
    BY <1>3, <2>1 DEF Possible, LogIn
  <2>3. Whole' \in Rewrites(Whole) \/ \E r \in Recs : Whole' = Append(Whole, NewEntry(Whole, r))
    BY <2>1 DEF OpOK
  <2> QED
    BY <2>2, <2>3, <1>0, AbsSteps
<1>8. ASSUME NEW p \in Procs, SweepAndReturn(p) PROVE [Abs!Next]_(Abs!vars)
  <2>1. Whole' = Whole /\ past' = past \union {Now'}
    BY <1>8, SweepStep
  <2>2. Possible' = Possible
    BY <1>1, <1>3, <2>1 DEF Possible, LogIn
  <2> QED
    BY <2>1, <2>2, <1>0, AbsSteps
<1>9. ASSUME PowerLoss PROVE [Abs!Next]_(Abs!vars)
  <2>1. PICK s \in past : past' = {s} /\ Whole' = LogIn(s)
    BY <1>9, PowerLossStep DEF LogIn
  <2>2. Whole' \in Possible /\ Possible' = {Whole'}
    BY <2>1 DEF Possible, LogIn
  <2> QED
    BY <2>2, <1>0, AbsSteps
<1>10. \/ UNCHANGED fileVars
       \/ \E p \in Procs : \/ WriteContainer(p) \/ SyncManifest(p)
                           \/ WriteManifest(p) \/ SweepAndReturn(p)
       \/ PowerLoss
  <2>1. ASSUME NEW p \in Procs, BeginAppend(p) \/ BeginRewrite(p) PROVE UNCHANGED fileVars
    BY <2>1 DEF BeginAppend, BeginRewrite, WriteLock
  <2>2. ASSUME NEW p \in Procs, WriteFails(p) \/ Crash(p) PROVE UNCHANGED fileVars
    BY <2>2 DEF WriteFails, Crash
  <2>3. ASSUME NEW p \in Procs, ReadManifest(p) \/ Read(p) PROVE UNCHANGED fileVars
    BY <2>3 DEF ReadManifest, Read, OpenContainer, ContainerGone, ReadReturns, ReadUnderLock
  <2>4. UNCHANGED vars => UNCHANGED fileVars
    BY DEF vars
  <2> QED
    BY <2>1, <2>2, <2>3, <2>4 DEF Next, Write
<1> QED
  BY <1>4, <1>5, <1>6, <1>7, <1>8, <1>9, <1>10

(* The containers and the manifest implement the durable log: each step of *)
(* a handle appends a batch, rewrites entries in one of the two ways       *)
(* allowed, forces the log to disk or leaves it alone, and a power failure *)
(* leaves a log that was there since it was last forced, or a damaged one. *)
THEOREM FilesImplementLog == Spec => ImplementsLog
<1>1. Init => Abs!Init
  <2> SUFFICES ASSUME Init PROVE Abs!Init
    OBVIOUS
  <2>1. IInv /\ past = {Now} /\ manifest.head = 0 /\ torn = {}
    BY Initially DEF Init, NoManifest
  <2>2. ~Damaged
    BY <2>1 DEF Damaged
  <2>3. Whole = << >> /\ Log = Whole
    BY <2>1, <2>2, Current, OpenWhole DEF Logs
  <2>4. Possible = {Whole}
    BY <2>1, NowLog DEF Possible
  <2> QED
    BY <2>2, <2>3, <2>4 DEF Abs!Init, Possible, LogIn
<1>2. IInv /\ DamageOK /\ [Next]_vars => [Abs!Next]_(Abs!vars)
  <2> SUFFICES ASSUME IInv, DamageOK, [Next]_vars PROVE [Abs!Next]_(Abs!vars)
    OBVIOUS
  <2>1. CASE Damaged'
    BY <2>1 DEF Abs!Next, Abs!Damage
  <2>2. CASE ~Damaged'
    BY <2>2, RefinementStep
  <2> QED
    BY <2>1, <2>2
<1>3. Spec => [](IInv /\ DamageOK)
  BY DamageInvariant
<1> QED
  BY <1>1, <1>2, <1>3, PTL DEF Spec, ImplementsLog, Abs!Spec
=============================================================================
