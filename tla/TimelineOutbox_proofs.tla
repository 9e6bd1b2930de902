------------------------ MODULE TimelineOutbox_proofs ------------------------
(* Proofs about TimelineOutbox: the budget of the outbox is never exceeded, *)
(* an acknowledgement always continues the acknowledged prefix, no event    *)
(* with a hosted position is dropped, and the hosted timeline is the local  *)
(* one, for any number of runs, events, faults and calls in flight.         *)
EXTENDS TimelineOutbox, FiniteSetTheorems, WellFoundedInduction, TLAPS

-----------------------------------------------------------------------------
(* Positions in their order.                                                *)

(* Every nonempty set of positions has a smallest one. *)
LEMMA LeastPosition ==
  ASSUME NEW T, T \subseteq Nat, T # {}
  PROVE  \E x \in T : \A y \in T : x <= y
<1>1. \E R : IsWellFoundedOn(R, Nat) /\ \A x, y \in Nat : x < y => <<x, y>> \in R
  <2>1. \A x, y \in Nat : x < y => <<x, y>> \in OpToRel(<, Nat)
    BY DEF OpToRel
  <2>. QED  BY <2>1, NatLessThanWellFounded, Zenon
<1>2. PICK R : IsWellFoundedOn(R, Nat) /\ \A x, y \in Nat : x < y => <<x, y>> \in R
  BY <1>1
<1>3. IsWellFoundedOn(R, Nat)
  BY <1>2
<1>4. \E x \in T : \A y \in T : ~(<<y, x>> \in R)
  BY <1>3, WFMin
<1>5. PICK x \in T : \A y \in T : ~(<<y, x>> \in R)
  BY <1>4, Zenon
<1>6. \A y \in T : ~(y < x)
  BY <1>2, <1>5, Zenon
<1>7. \A y \in T : x <= y
  BY <1>6, SMT
<1>. QED  BY <1>7

(* s lists the set S in its order *)
Rising(s, S) ==
  /\ s \in [1 .. Cardinality(S) -> S]
  /\ \A i, j \in 1 .. Cardinality(S) : i < j => s[i] < s[j]

(* The positions up to a bound can be listed in their order ... *)
LEMMA RisingExists ==
  ASSUME NEW n \in Nat, NEW S \in SUBSET (1 .. n)
  PROVE  \E s : Rising(s, S)
<1>. DEFINE T == {m \in Nat : \E X \in SUBSET (1 .. m) : ~ \E s : Rising(s, X)}
<1>1. T = {}
  <2>. SUFFICES ASSUME T # {} PROVE FALSE
    OBVIOUS
  <2>1. PICK m \in T : \A k \in T : m <= k
    BY LeastPosition
  <2>2. PICK X \in SUBSET (1 .. m) : ~ \E s : Rising(s, X)
    BY <2>1
  <2>3. m \in Nat /\ IsFiniteSet(1 .. m) /\ IsFiniteSet(X) /\ Cardinality(X) \in Nat
    <3>1. m \in Nat /\ 1 \in Int /\ m \in Int
      BY <2>1
    <3>2. IsFiniteSet(1 .. m)
      BY <3>1, FS_Interval
    <3>3. IsFiniteSet(X)
      BY <2>2, <3>2, FS_Subset
    <3>. QED  BY <3>1, <3>2, <3>3, FS_CardinalityType
  <2>4. m # 0
    <3>. SUFFICES ASSUME m = 0 PROVE FALSE
      OBVIOUS
    <3>1. X = {} /\ Cardinality(X) = 0
      <4>1. X = {}
        BY <2>2
      <4>. QED  BY <4>1, FS_EmptySet
    <3>2. Rising([i \in {} |-> 0], X)
      BY <3>1 DEF Rising
    <3>. QED  BY <2>2, <3>2
  <2>5. m - 1 \in Nat /\ m - 1 < m
    BY <2>3, <2>4
  <2>6. \A Y \in SUBSET (1 .. m - 1) : \E s : Rising(s, Y)
    <3>1. m - 1 \notin T
      <4>. HIDE DEF T
      <4>. QED  BY <2>1, <2>3, <2>5
    <3>. QED  BY <2>5, <3>1
  <2>7. m \in X
    <3>1. m \notin X => X \in SUBSET (1 .. m - 1)
      BY <2>2, <2>3
    <3>. QED  BY <2>2, <2>6, <3>1
  <2>. DEFINE Y == X \ {m}
              c == Cardinality(Y)
  <2>8. Y \in SUBSET (1 .. m - 1)
    BY <2>2, <2>3
  <2>9. PICK s : Rising(s, Y)
    BY <2>6, <2>8
  <2>10. c \in Nat /\ Cardinality(X) = c + 1
    <3>1. IsFiniteSet(Y) /\ Cardinality(Y) = Cardinality(X) - 1
      BY <2>3, <2>7, FS_RemoveElement
    <3>. QED  BY <2>3, <3>1, FS_CardinalityType
  <2>. DEFINE t == [i \in 1 .. c + 1 |-> IF i = c + 1 THEN m ELSE s[i]]
  <2>11. s \in [1 .. c -> Y] /\ \A i, j \in 1 .. c : i < j => s[i] < s[j]
    BY <2>9 DEF Rising
  <2>. HIDE DEF c
  <2>12. \A i \in 1 .. c + 1 : i # c + 1 => i \in 1 .. c /\ s[i] \in Y /\ s[i] < m
    <3>1. \A i \in 1 .. c + 1 : i # c + 1 => i \in 1 .. c
      BY <2>10
    <3>2. \A y \in Y : y < m
      BY <2>3, <2>8
    <3>. QED  BY <2>11, <3>1, <3>2
  <2>13. t \in [1 .. c + 1 -> X]
    BY <2>7, <2>12
  <2>14. \A i, j \in 1 .. c + 1 : i < j => t[i] < t[j]
    BY <2>10, <2>11, <2>12
  <2>. QED  BY <2>2, <2>10, <2>13, <2>14 DEF Rising
<1>. QED  BY <1>1

(* ... and in one way only. *)
LEMMA RisingUnique ==
  ASSUME NEW n \in Nat, NEW S \in SUBSET (1 .. n), NEW s, Rising(s, S), NEW t, Rising(t, S)
  PROVE  s = t
<1>. DEFINE c == Cardinality(S)
<1>0. \A x \in S : x \in Nat
  OBVIOUS
<1>1. IsFiniteSet(S) /\ c \in Nat /\ IsFiniteSet(1 .. c) /\ Cardinality(1 .. c) = c
  <2>1. IsFiniteSet(1 .. n)
    BY FS_Interval
  <2>2. IsFiniteSet(S)
    BY <2>1, FS_Subset
  <2>3. c \in Nat
    BY <2>2, FS_CardinalityType
  <2>. HIDE DEF c
  <2>4. IsFiniteSet(1 .. c) /\ Cardinality(1 .. c) = c
    BY <2>3, FS_Interval
  <2>. QED  BY <2>2, <2>3, <2>4
<1>2. ASSUME NEW f, Rising(f, S), NEW x \in S
      PROVE  \E i \in 1 .. c : f[i] = x
  <2>1. f \in Injection(1 .. c, S)
    <3>1. f \in [1 .. c -> S] /\ \A i, j \in 1 .. c : i < j => f[i] < f[j]
      BY <1>2 DEF Rising
    <3>2. \A i, j \in 1 .. c : i # j => i < j \/ j < i
      BY <1>1
    <3>3. \A i \in 1 .. c : f[i] \in 1 .. n
      BY <3>1
    <3>4. \A i, j \in 1 .. c : f[i] = f[j] => i = j
      BY <3>1, <3>2, <3>3
    <3>. QED  BY <3>1, <3>4 DEF Injection, IsInjective
  <2>2. f \in Surjection(1 .. c, S)
    BY <1>1, <2>1, FS_Injection
  <2>. QED  BY <2>2 DEF Surjection
<1>3. /\ s \in [1 .. c -> S] /\ \A i, j \in 1 .. c : i < j => s[i] < s[j]
      /\ t \in [1 .. c -> S] /\ \A i, j \in 1 .. c : i < j => t[i] < t[j]
  BY DEF Rising
<1>. DEFINE T == {k \in 1 .. c : s[k] # t[k]}
<1>4. T = {}
  <2>. SUFFICES ASSUME T # {} PROVE FALSE
    OBVIOUS
  <2>1. T \subseteq Nat
    OBVIOUS
  <2>2. PICK k \in T : \A j \in T : k <= j
    BY <2>1, LeastPosition
  <2>3. k \in 1 .. c /\ s[k] # t[k] /\ s[k] \in S /\ t[k] \in S /\ s[k] \in Nat /\ t[k] \in Nat
    <3>1. k \in 1 .. c /\ s[k] # t[k]
      BY <2>2
    <3>. HIDE DEF c, T
    <3>2. s[k] \in S /\ t[k] \in S
      BY <1>3, <3>1
    <3>. QED  BY <1>0, <3>1, <3>2
  <2>4. \A j \in 1 .. c : j < k => s[j] = t[j]
    BY <2>2
  <2>5. PICK j \in 1 .. c : t[j] = s[k]
    BY <1>2, <2>3
  <2>6. PICK i \in 1 .. c : s[i] = t[k]
    BY <1>2, <2>3
  <2>7. \A x \in 1 .. c : s[x] \in Nat /\ t[x] \in Nat
    <3>. HIDE DEF c
    <3>1. \A x \in 1 .. c : s[x] \in S /\ t[x] \in S
      BY <1>3
    <3>. QED  BY <1>0, <3>1
  <2>8. CASE s[k] < t[k]
    <3>1. j < k
      BY <1>3, <2>3, <2>5, <2>7, <2>8
    <3>. QED  BY <1>3, <2>3, <2>4, <2>5, <2>7, <3>1
  <2>9. CASE t[k] < s[k]
    <3>1. i < k
      BY <1>3, <2>3, <2>6, <2>7, <2>9
    <3>. QED  BY <1>3, <2>3, <2>4, <2>6, <2>7, <3>1
  <2>. QED  BY <2>3, <2>8, <2>9
<1>. HIDE DEF c
<1>5. \A k \in 1 .. c : s[k] = t[k]
  BY <1>4
<1>6. s = [k \in 1 .. c |-> s[k]] /\ t = [k \in 1 .. c |-> t[k]]
  BY <1>3
<1>. QED  BY <1>5, <1>6, Zenon

LEMMA AscendingRises ==
  ASSUME NEW n \in Nat, NEW S \in SUBSET (1 .. n)
  PROVE  /\ Rising(Ascending(S), S)
         /\ Ascending(S) \in Seq(Nat) /\ Ascending(S) \in Seq(S)
         /\ Len(Ascending(S)) = Cardinality(S) /\ Cardinality(S) \in Nat /\ IsFiniteSet(S)
<1>. DEFINE c == Cardinality(S)
            P(s) == \A i, j \in DOMAIN s : i < j => s[i] < s[j]
<1>1. IsFiniteSet(S) /\ c \in Nat
  <2>1. IsFiniteSet(1 .. n)
    BY FS_Interval
  <2>2. IsFiniteSet(S)
    BY <2>1, FS_Subset
  <2>. QED  BY <2>2, FS_CardinalityType
<1>2. \E s \in [1 .. c -> S] : P(s)
  <2>1. PICK s : Rising(s, S)
    BY RisingExists
  <2>2. s \in [1 .. c -> S] /\ DOMAIN s = 1 .. c
    BY <2>1 DEF Rising
  <2>. QED  BY <2>1, <2>2 DEF Rising
<1>3. Ascending(S) = CHOOSE s \in [1 .. c -> S] : P(s)
  BY DEF Ascending
<1>. DEFINE s == Ascending(S)
<1>4. s \in [1 .. c -> S] /\ P(s)
  <2>. HIDE DEF c, P
  <2>. QED  BY <1>2, <1>3, Zenon
<1>5. Rising(s, S)
  BY <1>4 DEF Rising
<1>. HIDE DEF c, s
<1>6. s \in Seq(S) /\ s \in Seq(Nat) /\ Len(s) = c
  <2>1. \A i \in 1 .. c : s[i] \in S /\ s[i] \in Nat
    <3>1. \A i \in 1 .. c : s[i] \in S
      BY <1>4
    <3>2. \A x \in S : x \in Nat
      OBVIOUS
    <3>. QED  BY <3>1, <3>2
  <2>2. s \in [1 .. c -> S] /\ s \in [1 .. c -> Nat]
    BY <1>4, <2>1
  <2>. QED  BY <1>1, <2>2
<1>. QED  BY <1>1, <1>5, <1>6 DEF c, s

-----------------------------------------------------------------------------
(* Types.                                                                   *)

UpRow ==
  [row : BOOLEAN, origin : BOOLEAN, registered : {-1, 0, 1}, regDue : BOOLEAN, rev : Nat,
   seen : Nat, last : Nat, acked : Nat, map : Seq(Nat), incomplete : Reasons]

Daemon ==
  [at : {"idle", "repair", "connect", "upload", "sent", "answered", "scan"},
   todo : SUBSET Run, reg : Run \union {None}, upload : Request \union {None},
   answer : {None, "ack", "gap", "denied", "gone", "conflict"}, gap : Nat]

StoreTypes ==
  /\ local \in [Run -> Seq(BOOLEAN)] /\ snapshot \in [Run -> Nat]
  /\ up \in [Run -> UpRow] /\ queue \in Seq(Rows) /\ nextOp \in Nat

RemoteTypes ==
  /\ net \in SUBSET [req : Request, late : BOOLEAN]
  /\ server \in [Run -> Seq(Request)] /\ high \in [Run -> Nat]

Typed == StoreTypes /\ RemoteTypes /\ daemon \in Daemon /\ faults \in 0 .. MaxFaults

(* The events up to position k that have a hosted form *)
Hosted(l, k) == {i \in 1 .. k : l[i]}

(* The row u lists the hosted positions of the events l that were scanned *)
Lists(u, l) ==
  /\ u.last <= Len(l) /\ u.acked <= Len(u.map)
  /\ u.map = Ascending(Hosted(l, u.last))

(* A run without a row has nothing in the tables, one with an origin has *)
Blank(u) == ~u.row => ~u.origin /\ u.map = << >> /\ u.last = 0 /\ u.acked = 0

MapInv == \A r \in Run : Lists(up[r], local[r]) /\ Blank(up[r])

LEMMA ScanRange ==
  ASSUME NEW l \in Seq(BOOLEAN), NEW from \in Nat, from <= Len(l)
  PROVE  Scanned(l, from) \in from .. Len(l)
<1>. DEFINE end == Lesser(from + ScanLimit, Len(l))
            full == {i \in from + 1 .. end : Cardinality({j \in from + 1 .. i : l[j]}) = BatchLimit}
<1>1. end \in from .. Len(l)
  BY OutboxAssumption DEF Lesser
<1>2. ASSUME full # {} PROVE \E i \in full : \A j \in full : i <= j
  <2>1. full \subseteq Nat
    OBVIOUS
  <2>. QED  BY <1>2, <2>1, LeastPosition
<1>3. full # {} => (CHOOSE i \in full : \A j \in full : i <= j) \in full
  <2>. HIDE DEF full
  <2>. QED  BY <1>2
<1>4. full \subseteq from .. Len(l)
  BY <1>1
<1>5. Scanned(l, from) = IF full = {} THEN end
                                      ELSE CHOOSE i \in full : \A j \in full : i <= j
  BY DEF Scanned
<1>. HIDE DEF end, full
<1>. QED  BY <1>1, <1>3, <1>4, <1>5

(* What a transaction appends to the map. *)
LEMMA ProjectedList ==
  ASSUME NEW l \in Seq(BOOLEAN), NEW from \in Nat, NEW to \in from .. Len(l)
  PROVE  LET p == Ascending({i \in from + 1 .. to : l[i]})
         IN  /\ p \in Seq(Nat)
             /\ Ascending(Hosted(l, from)) \in Seq(Nat)
             /\ Ascending(Hosted(l, to)) = Ascending(Hosted(l, from)) \o p
<1>. DEFINE S == Hosted(l, from)
            R == {i \in from + 1 .. to : l[i]}
<1>1. /\ to \in Nat /\ S \in SUBSET (1 .. to) /\ R \in SUBSET (1 .. to)
      /\ S \subseteq 1 .. from /\ R \subseteq from + 1 .. to
      /\ Hosted(l, to) = S \union R /\ S \union R \in SUBSET (1 .. to)
  BY DEF Hosted
<1>. HIDE DEF S, R
<1>. DEFINE c == Cardinality(S)
            d == Cardinality(R)
            s == Ascending(S)
            t == Ascending(R)
<1>2. /\ Rising(s, S) /\ s \in Seq(Nat) /\ Len(s) = c /\ c \in Nat /\ IsFiniteSet(S)
      /\ Rising(t, R) /\ t \in Seq(Nat) /\ Len(t) = d /\ d \in Nat /\ IsFiniteSet(R)
      /\ Rising(Ascending(S \union R), S \union R)
  BY <1>1, AscendingRises
<1>3. Cardinality(S \union R) = c + d
  <2>1. S \intersect R = {}
    BY <1>1
  <2>2. Cardinality(S \intersect R) = 0
    BY <2>1, FS_EmptySet
  <2>3. Cardinality(S \union R) = c + d - Cardinality(S \intersect R)
    BY <1>2, FS_Union
  <2>. QED  BY <1>2, <2>2, <2>3
<1>4. /\ s \in [1 .. c -> S] /\ \A i, j \in 1 .. c : i < j => s[i] < s[j]
      /\ t \in [1 .. d -> R] /\ \A i, j \in 1 .. d : i < j => t[i] < t[j]
  BY <1>2 DEF Rising
<1>5. Rising(s \o t, S \union R)
  <2>. HIDE DEF c, d, s, t
  <2>1. /\ s \o t \in [1 .. c + d -> Nat]
        /\ \A i \in 1 .. c : (s \o t)[i] = s[i]
        /\ \A i \in c + 1 .. c + d : (s \o t)[i] = t[i - c] /\ i - c \in 1 .. d
    <3>1. s \o t \in Seq(Nat) /\ Len(s \o t) = c + d
      BY <1>2
    <3>2. \A i \in 1 .. c : (s \o t)[i] = s[i]
      BY <1>2
    <3>3. ASSUME NEW i \in c + 1 .. c + d
          PROVE  (s \o t)[i] = t[i - c] /\ i - c \in 1 .. d
      <4>1. i \in Nat /\ i - c \in 1 .. d /\ i > Len(s) /\ i <= Len(s) + Len(t)
        BY <1>2
      <4>2. s \in Seq(Nat) /\ t \in Seq(Nat)
        BY <1>2
      <4>3. (s \o t)[i] = t[i - Len(s)]
        BY <4>1, <4>2
      <4>. QED  BY <1>2, <4>1, <4>3
    <3>4. s \o t \in [1 .. c + d -> Nat]
      <4>. DEFINE u == s \o t
      <4>1. u \in Seq(Nat) /\ Len(u) = c + d
        BY <3>1
      <4>. HIDE DEF u
      <4>2. u \in [1 .. c + d -> Nat]
        BY <4>1
      <4>. QED  BY <4>2 DEF u
    <3>. QED  BY <3>2, <3>3, <3>4
  <2>2. \A i \in 1 .. c + d : i \in 1 .. c \/ i \in c + 1 .. c + d
    BY <1>2
  <2>3. /\ \A i \in 1 .. c : (s \o t)[i] \in S
        /\ \A i \in c + 1 .. c + d : (s \o t)[i] \in R
    BY <1>4, <2>1
  <2>4. s \o t \in [1 .. c + d -> S \union R]
    BY <2>1, <2>2, <2>3
  <2>5. ASSUME NEW i \in 1 .. c + d, NEW j \in 1 .. c + d, i < j
        PROVE  (s \o t)[i] < (s \o t)[j]
    <3>1. CASE i \in 1 .. c /\ j \in 1 .. c
      BY <1>4, <2>1, <2>5, <3>1
    <3>2. CASE i \in c + 1 .. c + d /\ j \in c + 1 .. c + d
      <4>1. i - c \in 1 .. d /\ j - c \in 1 .. d /\ i - c < j - c
        BY <1>2, <2>5, <3>2
      <4>. QED  BY <1>4, <2>1, <3>2, <4>1
    <3>3. CASE i \in 1 .. c /\ j \in c + 1 .. c + d
      <4>1. (s \o t)[i] \in S /\ (s \o t)[j] \in R
        BY <2>3, <3>3
      <4>2. \A x \in S, y \in R : x < y
        BY <1>1
      <4>. QED  BY <4>1, <4>2
    <3>. QED  BY <1>2, <2>2, <2>5, <3>1, <3>2, <3>3
  <2>. QED  BY <1>3, <2>4, <2>5 DEF Rising, c, d
<1>6. Ascending(S \union R) = s \o t
  <2>. HIDE DEF s, t
  <2>. QED  BY <1>1, <1>2, <1>5, RisingUnique
<1>. QED  BY <1>1, <1>2, <1>6 DEF S, R

(* What a transaction of append_with_limits does to the row of its run and  *)
(* to the outbox.                                                           *)
AppendsTo(r, u, v, l) ==
  /\ v \in UpRow /\ Lists(v, l)
  /\ v.row = u.row /\ v.origin = u.origin /\ v.registered = u.registered
  /\ v.acked = u.acked
  /\ v.last # u.last \/ v.map # u.map => u.origin

LEMMA AppendEffect ==
  ASSUME StoreTypes, NEW r \in Run, NEW u \in UpRow, NEW l \in Seq(BOOLEAN), NEW s \in Nat,
         Lists(u, l), AppendInTx(r, u, l, s)
  PROVE  \E v : /\ up' = [up EXCEPT ![r] = v] /\ AppendsTo(r, u, v, l)
                /\ \/ UNCHANGED <<queue, nextOp>> /\ v.map = u.map
                   \/ /\ ~Full([up EXCEPT ![r] = u])
                      /\ nextOp' = nextOp + 1
                      /\ \E p \in Seq(Nat) :
                           v.map = u.map \o p /\ queue' = Append(queue, NewRow(r, Len(u.map), p))
<1>. DEFINE to == Scanned(l, u.last)
            p == Ascending({i \in u.last + 1 .. to : l[i]})
            state == IF to < Len(l) THEN "scan_pending" ELSE ""
            visible == IF u.incomplete \in {"registration_denied", "re-enroll"} THEN u.incomplete
                                                                                ELSE state
            nothing == p = << >> /\ u.rev > 0 /\ s = u.seen
            overflow == Full([up EXCEPT ![r] = u])
<1>1. /\ u.last \in Nat /\ u.last <= Len(l) /\ u.map = Ascending(Hosted(l, u.last))
      /\ u.acked <= Len(u.map) /\ u.acked \in Nat /\ u.map \in Seq(Nat) /\ u.rev \in Nat
      /\ u.seen \in Nat /\ u.incomplete \in Reasons
  BY DEF Lists, UpRow
<1>2. to \in u.last .. Len(l) /\ to \in Nat /\ to <= Len(l)
  <2>1. to \in u.last .. Len(l)
    BY <1>1, ScanRange
  <2>. HIDE DEF to
  <2>. QED  BY <1>1, <2>1
<1>3. /\ p \in Seq(Nat)
      /\ Ascending(Hosted(l, to)) = u.map \o p
  <2>1. to \in u.last .. Len(l)
    BY <1>2
  <2>2. LET q == Ascending({i \in u.last + 1 .. to : l[i]})
        IN  /\ q \in Seq(Nat)
            /\ Ascending(Hosted(l, u.last)) \in Seq(Nat)
            /\ Ascending(Hosted(l, to)) = Ascending(Hosted(l, u.last)) \o q
    <3>. HIDE DEF to
    <3>. QED  BY <1>1, <2>1, ProjectedList
  <2>. QED  BY <1>1, <2>2
<1>4. {state, visible, "outbox_overflow"} \subseteq Reasons
  BY <1>1 DEF Reasons
<1>5. \/ /\ up' = [up EXCEPT ![r] = u]
         /\ UNCHANGED <<queue, nextOp>>
      \/ /\ u.origin /\ nothing
         /\ up' = [up EXCEPT ![r] = IF u.incomplete \in {"", "outbox_overflow", "scan_pending"}
                                    THEN [u EXCEPT !.last = to, !.incomplete = state]
                                    ELSE u]
         /\ UNCHANGED <<queue, nextOp>>
      \/ /\ up' = [up EXCEPT ![r] = [u EXCEPT !.incomplete = "outbox_overflow"]]
         /\ UNCHANGED <<queue, nextOp>>
      \/ /\ u.origin /\ ~overflow
         /\ queue' = Append(queue, NewRow(r, Len(u.map), p))
         /\ nextOp' = nextOp + 1
         /\ up' = [up EXCEPT ![r] =
                     [u EXCEPT !.rev = IF @ = 0 \/ s # u.seen THEN @ + 1 ELSE @, !.seen = s,
                               !.last = to, !.map = @ \o p, !.incomplete = visible]]
  BY Zenon DEF AppendInTx
<1>. HIDE DEF to, p, state, visible, overflow
<1>6. CASE up' = [up EXCEPT ![r] = u] /\ UNCHANGED <<queue, nextOp>>
  BY <1>1, <1>6 DEF AppendsTo, Lists
<1>7. CASE /\ u.origin /\ nothing
           /\ up' = [up EXCEPT ![r] = IF u.incomplete \in {"", "outbox_overflow", "scan_pending"}
                                    THEN [u EXCEPT !.last = to, !.incomplete = state]
                                    ELSE u]
           /\ UNCHANGED <<queue, nextOp>>
  <2>1. CASE u.incomplete \in {"", "outbox_overflow", "scan_pending"}
    <3>. DEFINE v == [u EXCEPT !.last = to, !.incomplete = state]
    <3>1. Ascending(Hosted(l, to)) = u.map
      <4>1. p = << >>
        BY <1>7
      <4>2. u.map \o << >> = u.map
        BY <1>1
      <4>. QED  BY <1>3, <4>1, <4>2
    <3>2. v \in UpRow
      BY <1>1, <1>2, <1>4 DEF UpRow
    <3>3. /\ v.row = u.row /\ v.origin = u.origin /\ v.registered = u.registered
          /\ v.acked = u.acked /\ v.map = u.map /\ v.last = to
      BY DEF UpRow
    <3>4. up' = [up EXCEPT ![r] = v]
      BY <1>7, <2>1
    <3>. HIDE DEF v
    <3>. QED  BY <1>1, <1>2, <1>7, <3>1, <3>2, <3>3, <3>4 DEF AppendsTo, Lists
  <2>2. CASE u.incomplete \notin {"", "outbox_overflow", "scan_pending"}
    BY <1>1, <1>7, <2>2 DEF AppendsTo, Lists
  <2>. QED  BY <2>1, <2>2
<1>8. CASE /\ up' = [up EXCEPT ![r] = [u EXCEPT !.incomplete = "outbox_overflow"]]
           /\ UNCHANGED <<queue, nextOp>>
  <2>. DEFINE v == [u EXCEPT !.incomplete = "outbox_overflow"]
  <2>1. v \in UpRow
    BY <1>4 DEF UpRow
  <2>2. /\ v.row = u.row /\ v.origin = u.origin /\ v.registered = u.registered
        /\ v.acked = u.acked /\ v.map = u.map /\ v.last = u.last
    BY DEF UpRow
  <2>. HIDE DEF v
  <2>. QED  BY <1>1, <1>8, <2>1, <2>2 DEF AppendsTo, Lists, v
<1>9. CASE /\ u.origin /\ ~overflow
           /\ queue' = Append(queue, NewRow(r, Len(u.map), p))
           /\ nextOp' = nextOp + 1
           /\ up' = [up EXCEPT ![r] =
                       [u EXCEPT !.rev = IF @ = 0 \/ s # u.seen THEN @ + 1 ELSE @, !.seen = s,
                                 !.last = to, !.map = @ \o p, !.incomplete = visible]]
  <2>. DEFINE n == IF u.rev = 0 \/ s # u.seen THEN u.rev + 1 ELSE u.rev
              v == [u EXCEPT !.rev = n, !.seen = s, !.last = to, !.map = u.map \o p,
                             !.incomplete = visible]
  <2>1. up' = [up EXCEPT ![r] = v]
    BY <1>9
  <2>2. n \in Nat /\ u.map \o p \in Seq(Nat)
    BY <1>1, <1>3
  <2>. HIDE DEF n
  <2>3. v \in UpRow
    BY <1>1, <1>2, <1>4, <2>2 DEF UpRow
  <2>4. /\ v.row = u.row /\ v.origin = u.origin /\ v.registered = u.registered
        /\ v.acked = u.acked /\ v.map = u.map \o p /\ v.last = to
    BY DEF UpRow
  <2>. HIDE DEF v
  <2>5. Lists(v, l)
    BY <1>1, <1>2, <1>3, <2>4 DEF Lists
  <2>6. AppendsTo(r, u, v, l)
    BY <1>9, <2>3, <2>4, <2>5 DEF AppendsTo
  <2>. QED  BY <1>3, <1>9, <2>1, <2>4, <2>6 DEF overflow
<1>. QED  BY <1>5, <1>6, <1>7, <1>8, <1>9

(* The row a transaction starts from: the stored one, or that of a first    *)
(* report.                                                                  *)
Enters(r, u) ==
  \/ u = up[r]
  \/ ~up[r].row /\ \E origin \in BOOLEAN : u = Created(r, origin)

LEMMA NoRowType == NoRow \in UpRow /\ NoRow.map = << >> /\ NoRow.last = 0 /\ NoRow.acked = 0
BY DEF NoRow, UpRow, Reasons

LEMMA CreatedRow ==
  ASSUME NEW r \in Run, NEW origin \in BOOLEAN
  PROVE  LET u == Created(r, origin)
         IN  u \in UpRow /\ u.map = << >> /\ u.last = 0 /\ u.acked = 0 /\ u.row
<1>1. NoRow.row = FALSE /\ NoRow \in UpRow
  BY DEF NoRow, UpRow, Reasons
<1>2. {"origin_unavailable", "outbox_overflow"} \subseteq Reasons
  BY DEF Reasons
<1>3. CASE ~origin
  BY <1>1, <1>2, <1>3, NoRowType DEF UpRow, Created
<1>4. CASE origin /\ Full(up)
  BY <1>1, <1>2, <1>4, NoRowType DEF UpRow, Created
<1>5. CASE origin /\ ~Full(up)
  BY <1>1, <1>2, <1>5, NoRowType DEF UpRow, Created
<1>. QED  BY <1>3, <1>4, <1>5

LEMMA EnteredRow ==
  ASSUME Typed, MapInv, NEW r \in Run, NEW u, Enters(r, u)
  PROVE  /\ u \in UpRow /\ Blank(u)
         /\ u.map = up[r].map /\ u.last = up[r].last /\ u.acked = up[r].acked
<1>1. up[r] \in UpRow /\ Blank(up[r])
  BY DEF Typed, StoreTypes, MapInv
<1>2. CASE u = up[r]
  BY <1>1, <1>2
<1>3. CASE ~up[r].row /\ \E origin \in BOOLEAN : u = Created(r, origin)
  <2>1. PICK origin \in BOOLEAN : u = Created(r, origin)
    BY <1>3
  <2>2. u \in UpRow /\ u.map = << >> /\ u.last = 0 /\ u.acked = 0 /\ u.row
    BY <2>1, CreatedRow
  <2>. QED  BY <1>1, <1>3, <2>2 DEF Blank
<1>. QED  BY <1>2, <1>3 DEF Enters

(* More events do not change what is listed. *)
LEMMA ListsMore ==
  ASSUME NEW l \in Seq(BOOLEAN), NEW x \in Seq(BOOLEAN), NEW u \in UpRow, Lists(u, l)
  PROVE  Lists(u, l \o x)
<1>1. u.last \in Nat /\ Len(l) \in Nat /\ Len(l \o x) = Len(l) + Len(x) /\ Len(x) \in Nat
  BY DEF UpRow
<1>2. \A i \in 1 .. u.last : (l \o x)[i] = l[i]
  BY <1>1 DEF Lists
<1>3. Hosted(l \o x, u.last) = Hosted(l, u.last)
  BY <1>2 DEF Hosted
<1>. QED  BY <1>1, <1>3 DEF Lists

Scans(r) ==
  \/ Publish(r)
  \/ DrainRepair(r)
  \/ ScanAfterAck /\ r = daemon.upload.run

LEMMA AppendStep ==
  ASSUME Typed, MapInv, NEW r \in Run, Scans(r)
  PROVE  /\ local' \in [Run -> Seq(BOOLEAN)] /\ snapshot' \in [Run -> Nat]
         /\ \A q \in Run \ {r} : local'[q] = local[q]
         /\ \E x \in Seq(BOOLEAN) : local'[r] = local[r] \o x
         /\ \E u, v : /\ Enters(r, u)
                      /\ up' = [up EXCEPT ![r] = v] /\ AppendsTo(r, u, v, local'[r]) /\ Blank(v)
                      /\ v.acked = up[r].acked
                      /\ \/ UNCHANGED <<queue, nextOp>> /\ v.map = up[r].map
                         \/ /\ ~Full([up EXCEPT ![r] = u])
                            /\ nextOp' = nextOp + 1
                            /\ \E p \in Seq(Nat) :
                                 /\ v.map = up[r].map \o p
                                 /\ queue' = Append(queue, NewRow(r, Len(up[r].map), p))
<1>1. /\ local[r] \in Seq(BOOLEAN) /\ snapshot[r] \in Nat /\ up[r] \in UpRow
      /\ Lists(up[r], local[r]) /\ StoreTypes
  BY DEF Typed, StoreTypes, MapInv
<1>2. \E u : \E x \in Seq(BOOLEAN), s \in Nat :
        /\ local' = [local EXCEPT ![r] = local[r] \o x] /\ Enters(r, u)
        /\ snapshot' \in [Run -> Nat] /\ AppendInTx(r, u, local'[r], s)
  <2>1. CASE Publish(r)
    <3>1. PICK x \in {<< >>, <<TRUE>>, <<FALSE>>, <<TRUE, TRUE>>},
               s \in snapshot[r] .. MaxSnapshots[r], origin \in BOOLEAN :
            /\ s \in 1 .. snapshot[r] + 1
            /\ local' = [local EXCEPT ![r] = local[r] \o x]
            /\ snapshot' = [snapshot EXCEPT ![r] = s]
            /\ AppendInTx(r, IF up[r].row THEN up[r] ELSE Created(r, origin), local'[r], s)
      BY <2>1, Zenon DEF Publish
    <3>2. x \in Seq(BOOLEAN) /\ s \in Nat
      <4>1. s \in Nat
        BY <1>1, <3>1
      <4>2. /\ << >> \in Seq(BOOLEAN) /\ <<TRUE>> \in Seq(BOOLEAN)
            /\ <<FALSE>> \in Seq(BOOLEAN) /\ <<TRUE, TRUE>> \in Seq(BOOLEAN)
        OBVIOUS
      <4>. QED  BY <4>1, <4>2, Zenon
    <3>3. snapshot' \in [Run -> Nat]
      BY <3>1, <3>2 DEF Typed, StoreTypes
    <3>4. Enters(r, IF up[r].row THEN up[r] ELSE Created(r, origin))
      <4>1. CASE up[r].row
        BY <4>1, Zenon DEF Enters
      <4>2. CASE ~up[r].row
        BY <4>2, Zenon DEF Enters
      <4>. QED  BY <4>1, <4>2
    <3>. QED  BY <3>1, <3>2, <3>3, <3>4, Zenon
  <2>2. CASE \/ DrainRepair(r)
             \/ ScanAfterAck /\ r = daemon.upload.run
    <3>1. AppendInTx(r, up[r], local[r], snapshot[r]) /\ UNCHANGED <<local, snapshot>>
      BY <2>2 DEF DrainRepair, ScanAfterAck
    <3>2. local[r] \o << >> = local[r] /\ << >> \in Seq(BOOLEAN)
      BY <1>1
    <3>3. local' = [local EXCEPT ![r] = local[r] \o << >>]
      BY <3>1, <3>2 DEF Typed, StoreTypes
    <3>4. snapshot' \in [Run -> Nat] /\ Enters(r, up[r]) /\ local'[r] = local[r]
      <4>1. snapshot' \in [Run -> Nat] /\ local'[r] = local[r]
        BY <3>1 DEF Typed, StoreTypes
      <4>. QED  BY <4>1, Zenon DEF Enters
    <3>5. AppendInTx(r, up[r], local'[r], snapshot[r])
      BY <3>1, <3>4
    <3>. QED  BY <1>1, <3>2, <3>3, <3>4, <3>5, Zenon
  <2>. QED  BY <2>1, <2>2 DEF Scans
<1>3. PICK u : \E x \in Seq(BOOLEAN), s \in Nat :
        /\ local' = [local EXCEPT ![r] = local[r] \o x] /\ Enters(r, u)
        /\ snapshot' \in [Run -> Nat] /\ AppendInTx(r, u, local'[r], s)
  BY <1>2
<1>3a. PICK x \in Seq(BOOLEAN), s \in Nat :
        /\ local' = [local EXCEPT ![r] = local[r] \o x] /\ Enters(r, u)
        /\ snapshot' \in [Run -> Nat] /\ AppendInTx(r, u, local'[r], s)
  BY <1>3
<1>. DEFINE l == local[r] \o x
<1>4. local'[r] = l /\ l \in Seq(BOOLEAN)
  BY <1>1, <1>3a DEF Typed, StoreTypes
<1>5. /\ u \in UpRow /\ Blank(u)
      /\ u.map = up[r].map /\ u.last = up[r].last /\ u.acked = up[r].acked
  BY <1>3a, EnteredRow
<1>6. Lists(u, l)
  <2>1. Lists(u, local[r])
    BY <1>1, <1>5 DEF Lists
  <2>. QED  BY <1>1, <1>5, <2>1, ListsMore
<1>7. AppendInTx(r, u, l, s)
  BY <1>3a, <1>4
<1>. HIDE DEF l
<1>8. PICK v : /\ up' = [up EXCEPT ![r] = v] /\ AppendsTo(r, u, v, l)
               /\ \/ UNCHANGED <<queue, nextOp>> /\ v.map = u.map
                  \/ /\ ~Full([up EXCEPT ![r] = u])
                     /\ nextOp' = nextOp + 1
                     /\ \E p \in Seq(Nat) :
                          v.map = u.map \o p /\ queue' = Append(queue, NewRow(r, Len(u.map), p))
  BY <1>1, <1>4, <1>5, <1>6, <1>7, AppendEffect
<1>9. Blank(v) /\ v.acked = up[r].acked
  BY <1>5, <1>8 DEF AppendsTo, Blank
<1>10. /\ local' \in [Run -> Seq(BOOLEAN)]
       /\ \A q \in Run \ {r} : local'[q] = local[q]
  BY <1>3a, <1>4 DEF Typed, StoreTypes, l
<1>11. \/ UNCHANGED <<queue, nextOp>> /\ v.map = up[r].map
       \/ /\ ~Full([up EXCEPT ![r] = u])
          /\ nextOp' = nextOp + 1
          /\ \E p \in Seq(Nat) :
               /\ v.map = up[r].map \o p
               /\ queue' = Append(queue, NewRow(r, Len(up[r].map), p))
  BY <1>5, <1>8
<1>. QED  BY <1>3a, <1>4, <1>8, <1>9, <1>10, <1>11, Zenon DEF l

-----------------------------------------------------------------------------
(* The invariant.                                                           *)

(* Of two requests of one run the older row is the earlier one, or the      *)
(* younger repairs a gap before it.                                         *)
InOrder(a, b) ==
  \/ a.next <= b.first
  \/ b.first < b.next /\ b.next <= a.first

(* Row k of q is the first of its run *)
Leads(q, k) ==
  \A j \in DOMAIN q : q[j].req.run = q[k].req.run =>
     \/ q[k].req.first < q[j].req.first
     \/ q[k].req.first = q[j].req.first /\ k <= j

Covers(q, n) == q.first <= n /\ n < q.next

Queued(q) == \E i \in DOMAIN queue : queue[i].req = q
Served(q) == \E i \in DOMAIN server[q.run] : server[q.run][i] = q

(* The requests that exist, wherever they are *)
Known(q) ==
  \/ Queued(q)
  \/ \E c \in net : c.req = q
  \/ \E r \in Run : \E i \in DOMAIN server[r] : server[r][i] = q

(* A request carries the events that the map has at its positions, and no   *)
(* other request has its operation id.                                      *)
Sound(q) ==
  /\ q.op < nextOp /\ q.first <= q.next /\ q.next <= Len(up[q.run].map)
  /\ q.events = SubSeq(up[q.run].map, q.first + 1, q.next)

KnownInv ==
  /\ \A q \in Request : Known(q) => Sound(q)
  /\ \A a, b \in Request : Known(a) /\ Known(b) /\ a.op = b.op => a = b

QueueInv ==
  /\ \A i \in DOMAIN queue : up[queue[i].req.run].acked <= queue[i].req.first
  /\ \A i, j \in DOMAIN queue : i < j =>
       /\ queue[i].req.op # queue[j].req.op
       /\ queue[i].req.run = queue[j].req.run => InOrder(queue[i].req, queue[j].req)

(* What was not acknowledged, or was taken back, is queued, or the server   *)
(* does not have what is behind it either                                   *)
CoverInv ==
  \A r \in Run : \A n \in Nat :
    up[r].acked <= n /\ n < Len(up[r].map) =>
      \/ Position(server[r]) <= n
      \/ \E i \in DOMAIN queue : queue[i].req.run = r /\ Covers(queue[i].req, n)

(* A call the server has not seen belongs to a request that is still queued *)
(* or was served by an earlier one                                          *)
NetInv == \A c \in net : Queued(c.req) \/ Served(c.req)

(* The requests of a run were served one behind the other *)
Chain(s, r) ==
  /\ \A i \in DOMAIN s : s[i].run = r
  /\ \A i, j \in DOMAIN s : i < j => s[i].next <= s[j].first
  /\ \A m \in DOMAIN s : \A n \in Nat : n < s[m].next => \E i \in 1 .. m : Covers(s[i], n)

ServerInv == \A r \in Run : Chain(server[r], r) /\ Position(server[r]) <= high[r]

DroppedInv ==
  \A r \in Run : \A n \in Nat :
    high[r] <= n /\ n < Len(up[r].map) =>
      \E i \in DOMAIN queue : queue[i].req.run = r /\ Covers(queue[i].req, n)

(* The request of the drain is queued, and the first of its run *)
PickedInv ==
  /\ daemon.at \in {"upload", "sent", "answered", "scan"} => daemon.upload # None
  /\ daemon.at \in {"connect", "upload", "sent", "answered"} /\ daemon.upload # None =>
       \E k \in DOMAIN queue : queue[k].req = daemon.upload /\ Leads(queue, k)
  /\ \A c \in net : ~c.late => daemon.at = "sent" /\ daemon.upload = c.req

(* Its answer fits what the tables say *)
AnswerInv ==
  LET q == daemon.upload IN
  daemon.at = "answered" =>
    /\ daemon.answer = "ack" => /\ up[q.run].acked = q.first /\ q.next <= high[q.run]
                               /\ \A c \in net : c.req = q => Served(q)
    /\ daemon.answer = "gap" => Position(server[q.run]) <= daemon.gap /\ daemon.gap < q.first

DataInv ==
  /\ MapInv /\ KnownInv /\ QueueInv /\ CoverInv /\ NetInv /\ ServerInv /\ DroppedInv

OutboxInv == Typed /\ DataInv /\ PickedInv /\ AnswerInv

-----------------------------------------------------------------------------
(* Steps that leave the requests and the maps alone.                        *)

Keeps(q, p) ==
  /\ p \in Seq(Rows) /\ Len(p) = Len(q)
  /\ \A i \in 1 .. Len(q) : p[i].req = q[i].req /\ (~p[i].terminal => ~q[i].terminal)

SameRow(u, v) ==
  /\ v \in UpRow
  /\ v.row = u.row /\ v.origin = u.origin /\ v.map = u.map /\ v.last = u.last
  /\ v.acked = u.acked /\ (v.registered = 0 => u.registered = 0)

Calls == {c \in [req : Request, late : BOOLEAN] : (\E d \in net : d.req = c.req) \/ Queued(c.req)}

Steady ==
  /\ Keeps(queue, queue')
  /\ up' \in [Run -> UpRow] /\ \A r \in Run : SameRow(up[r], up'[r])
  /\ UNCHANGED <<local, snapshot, nextOp, server, high>>
  /\ net' \subseteq Calls

LEMMA KeepsSelf ==
  ASSUME Typed
  PROVE  /\ Keeps(queue, queue) /\ net \subseteq Calls /\ Abandoned \subseteq Calls
         /\ up \in [Run -> UpRow] /\ \A r \in Run : SameRow(up[r], up[r])
<1>1. Keeps(queue, queue)
  BY DEF Typed, StoreTypes, Keeps
<1>2. net \subseteq Calls
  BY DEF Typed, RemoteTypes, Calls
<1>3. Abandoned \subseteq Calls
  <2>1. ASSUME NEW c \in net
        PROVE  [c EXCEPT !.late = TRUE] \in Calls
    <3>1. c \in [req : Request, late : BOOLEAN]
      BY DEF Typed, RemoteTypes
    <3>2. /\ [c EXCEPT !.late = TRUE] \in [req : Request, late : BOOLEAN]
          /\ [c EXCEPT !.late = TRUE].req = c.req
      BY <3>1
    <3>. QED  BY <3>2, Zenon DEF Calls
  <2>. QED  BY <2>1 DEF Abandoned
<1>4. up \in [Run -> UpRow] /\ \A r \in Run : SameRow(up[r], up[r])
  BY DEF Typed, StoreTypes, SameRow
<1>. QED  BY <1>1, <1>2, <1>3, <1>4

LEMMA LaterKeeps ==
  ASSUME Typed, NEW op
  PROVE  /\ Keeps(queue, Later(op))
         /\ \A i \in 1 .. Len(queue) : Later(op)[i].accept = queue[i].accept
<1>1. queue \in Seq(Rows) /\ LongAfter \in Nat
  BY OutboxAssumption DEF Typed, StoreTypes
<1>. DEFINE p == Later(op)
<1>2. ASSUME NEW i \in 1 .. Len(queue)
      PROVE  /\ p[i] \in Rows /\ p[i].req = queue[i].req
             /\ p[i].terminal = queue[i].terminal /\ p[i].accept = queue[i].accept
  <2>1. queue[i] \in Rows /\ DOMAIN queue = 1 .. Len(queue)
    BY <1>1
  <2>2. CASE i \notin Index(op)
    <3>1. p[i] = queue[i]
      BY <2>1, <2>2 DEF Later
    <3>. QED  BY <2>1, <3>1
  <2>3. CASE i \in Index(op)
    <3>. DEFINE d == IF queue[i].attempts = LongAfter THEN "long" ELSE "later"
                n == Lesser(queue[i].attempts + 1, LongAfter)
    <3>1. p[i] = [queue[i] EXCEPT !.due = d, !.attempts = n]
      BY <2>1, <2>3 DEF Later
    <3>2. n \in 0 .. LongAfter /\ d \in {"now", "later", "long", "never"}
      BY <1>1, <2>1 DEF Rows, Lesser
    <3>. HIDE DEF d, n, p
    <3>. QED  BY <2>1, <3>1, <3>2 DEF Rows
  <2>. QED  BY <2>2, <2>3
<1>3. p = [i \in 1 .. Len(queue) |-> p[i]]
  BY <1>1 DEF Later
<1>. HIDE DEF p
<1>4. p \in Seq(Rows) /\ Len(p) = Len(queue)
  BY <1>1, <1>2, <1>3
<1>. QED  BY <1>2, <1>4 DEF Keeps, p

LEMMA TerminalKeeps ==
  ASSUME Typed, NEW op
  PROVE  /\ Keeps(queue, Terminal(op))
         /\ \A i \in 1 .. Len(queue) : Terminal(op)[i].accept = queue[i].accept
<1>1. queue \in Seq(Rows)
  BY DEF Typed, StoreTypes
<1>. DEFINE p == Terminal(op)
<1>2. ASSUME NEW i \in 1 .. Len(queue)
      PROVE  /\ p[i] \in Rows /\ p[i].req = queue[i].req
             /\ (~p[i].terminal => ~queue[i].terminal) /\ p[i].accept = queue[i].accept
  <2>1. queue[i] \in Rows /\ DOMAIN queue = 1 .. Len(queue)
    BY <1>1
  <2>2. CASE i \notin Index(op)
    <3>1. p[i] = queue[i]
      BY <2>1, <2>2 DEF Terminal
    <3>. QED  BY <2>1, <3>1
  <2>3. CASE i \in Index(op)
    <3>1. p[i] = [queue[i] EXCEPT !.terminal = TRUE]
      BY <2>1, <2>3 DEF Terminal
    <3>. HIDE DEF p
    <3>. QED  BY <2>1, <3>1 DEF Rows
  <2>. QED  BY <2>2, <2>3
<1>3. p = [i \in 1 .. Len(queue) |-> p[i]]
  BY <1>1 DEF Terminal
<1>. HIDE DEF p
<1>4. p \in Seq(Rows) /\ Len(p) = Len(queue)
  BY <1>1, <1>2, <1>3
<1>. QED  BY <1>2, <1>4 DEF Keeps, p

(* The delay of a row ends, or its flags change. *)
LEMMA RowKeeps ==
  ASSUME Typed, NEW i \in DOMAIN queue, NEW x \in Rows,
         x.req = queue[i].req, x.terminal = queue[i].terminal
  PROVE  Keeps(queue, [queue EXCEPT ![i] = x])
BY DEF Typed, StoreTypes, Keeps

LEMMA PickKeeps ==
  ASSUME Typed
  PROVE  LET p == [i \in DOMAIN queue |->
                     [queue[i] EXCEPT !.due = IF @ = "long" THEN "later" ELSE @]]
         IN  /\ Keeps(queue, p)
             /\ \A i \in 1 .. Len(queue) : p[i].accept = queue[i].accept
<1>1. queue \in Seq(Rows) /\ DOMAIN queue = 1 .. Len(queue)
  BY DEF Typed, StoreTypes
<1>. DEFINE due(i) == IF queue[i].due = "long" THEN "later" ELSE queue[i].due
            p == [i \in DOMAIN queue |-> [queue[i] EXCEPT !.due = due(i)]]
<1>2. ASSUME NEW i \in 1 .. Len(queue)
      PROVE  /\ p[i] \in Rows /\ p[i].req = queue[i].req
             /\ p[i].terminal = queue[i].terminal /\ p[i].accept = queue[i].accept
  <2>1. queue[i] \in Rows
    BY <1>1
  <2>2. due(i) \in {"now", "later", "long", "never"}
    BY <2>1 DEF Rows
  <2>3. p[i] = [queue[i] EXCEPT !.due = due(i)]
    BY <1>1
  <2>. HIDE DEF due, p
  <2>. QED  BY <2>1, <2>2, <2>3 DEF Rows
<1>3. p = [i \in 1 .. Len(queue) |-> p[i]]
  BY <1>1
<1>. HIDE DEF p
<1>4. p \in Seq(Rows) /\ Len(p) = Len(queue)
  BY <1>1, <1>2, <1>3
<1>5. Keeps(queue, p) /\ \A i \in 1 .. Len(queue) : p[i].accept = queue[i].accept
  BY <1>2, <1>4 DEF Keeps
<1>. QED  BY <1>5 DEF p, due

(* One field of the row of a run changes. *)
LEMMA RowOfRun ==
  ASSUME Typed, NEW r \in Run, NEW v, SameRow(up[r], v), up' = [up EXCEPT ![r] = v]
  PROVE  up' \in [Run -> UpRow] /\ \A q \in Run : SameRow(up[q], up'[q])
BY DEF Typed, StoreTypes, SameRow

LEMMA RowFields ==
  ASSUME NEW u \in UpRow
  PROVE  /\ \A s \in Reasons : SameRow(u, [u EXCEPT !.incomplete = s])
         /\ \A b \in BOOLEAN : SameRow(u, [u EXCEPT !.regDue = b])
         /\ \A n \in {-1, 1}, s \in Reasons :
              SameRow(u, [u EXCEPT !.registered = n, !.incomplete = s])
<1>1. ASSUME NEW s \in Reasons PROVE SameRow(u, [u EXCEPT !.incomplete = s])
  BY DEF SameRow, UpRow
<1>2. ASSUME NEW b \in BOOLEAN PROVE SameRow(u, [u EXCEPT !.regDue = b])
  BY DEF SameRow, UpRow
<1>3. ASSUME NEW n \in {-1, 1}, NEW s \in Reasons
      PROVE  SameRow(u, [u EXCEPT !.registered = n, !.incomplete = s])
  <2>. DEFINE v == [u EXCEPT !.registered = n, !.incomplete = s]
  <2>1. n \in {-1, 0, 1} /\ n # 0
    BY <1>3
  <2>2. v \in UpRow
    BY <2>1 DEF UpRow
  <2>3. /\ v.row = u.row /\ v.origin = u.origin /\ v.map = u.map /\ v.last = u.last
        /\ v.acked = u.acked /\ v.registered = n
    BY DEF UpRow
  <2>. HIDE DEF v
  <2>4. SameRow(u, v)
    BY <2>1, <2>2, <2>3 DEF SameRow
  <2>. QED  BY <2>4 DEF v
<1>. QED  BY <1>1, <1>2, <1>3

LEMMA StoredRow ==
  ASSUME Typed
  PROVE  \A i \in DOMAIN queue :
           /\ queue[i] \in Rows /\ queue[i].req \in Request /\ queue[i].req.run \in Run
           /\ queue[i].terminal \in BOOLEAN /\ queue[i].accept \in BOOLEAN
<1>1. ASSUME NEW i \in DOMAIN queue PROVE queue[i] \in Rows
  BY DEF Typed, StoreTypes
<1>2. \A x \in Rows : x.req \in Request /\ x.terminal \in BOOLEAN /\ x.accept \in BOOLEAN
  BY DEF Rows
<1>3. \A q \in Request : q.run \in Run
  BY DEF Request
<1>. QED  BY <1>1, <1>2, <1>3

(* The steps that answer nothing: of the hooks, the owner and the drain.    *)
LEMMA SteadyStore ==
  ASSUME Typed,
         \/ \E i \in DOMAIN queue : AttachAcceptance(i)
         \/ \E r \in Run : DueUpload(r) \/ DueRegistration(r)
         \/ DrainBegin \/ DrainPick \/ Reenroll
  PROVE  Steady
<1>. USE DEF Steady
<1>0. /\ queue \in Seq(Rows) /\ up \in [Run -> UpRow] /\ DOMAIN queue = 1 .. Len(queue)
      /\ \A i \in DOMAIN queue : queue[i] \in Rows /\ queue[i].req.run \in Run
  BY StoredRow DEF Typed, StoreTypes
<1>1. ASSUME NEW i \in DOMAIN queue, AttachAcceptance(i) PROVE Steady
  <2>. DEFINE r == queue[i].req.run
  <2>1. r \in Run /\ queue[i] \in Rows /\ up[r] \in UpRow
    BY <1>0
  <2>2. \/ /\ up' = [up EXCEPT ![r].incomplete = "acceptance_overflow"]
           /\ queue' = [queue EXCEPT ![i].due = "never"]
        \/ /\ \E s \in {"", up[r].incomplete} : up' = [up EXCEPT ![r].incomplete = s]
           /\ queue' = [queue EXCEPT ![i].accept = TRUE, ![i].due = "now"]
    BY <1>1 DEF AttachAcceptance
  <2>3. PICK s \in Reasons : up' = [up EXCEPT ![r] = [up[r] EXCEPT !.incomplete = s]]
    <3>1. {"", up[r].incomplete, "acceptance_overflow"} \subseteq Reasons
      BY <2>1 DEF Reasons, UpRow
    <3>. QED  BY <2>2, <3>1
  <2>4. \E x \in Rows : /\ x.req = queue[i].req /\ x.terminal = queue[i].terminal
                        /\ queue' = [queue EXCEPT ![i] = x]
    <3>. DEFINE x == [queue[i] EXCEPT !.due = "never"]
                y == [queue[i] EXCEPT !.accept = TRUE, !.due = "now"]
    <3>1. /\ x \in Rows /\ x.req = queue[i].req /\ x.terminal = queue[i].terminal
          /\ y \in Rows /\ y.req = queue[i].req /\ y.terminal = queue[i].terminal
      BY <2>1 DEF Rows
    <3>2. queue' = [queue EXCEPT ![i] = x] \/ queue' = [queue EXCEPT ![i] = y]
      BY <2>2
    <3>. HIDE DEF x, y
    <3>. QED  BY <3>1, <3>2
  <2>5. Keeps(queue, queue')
    BY <2>4, RowKeeps
  <2>6. SameRow(up[r], [up[r] EXCEPT !.incomplete = s])
    BY <2>1, RowFields
  <2>7. up' \in [Run -> UpRow] /\ \A q \in Run : SameRow(up[q], up'[q])
    BY <2>1, <2>3, <2>6, RowOfRun
  <2>8. UNCHANGED <<local, snapshot, nextOp, server, high, net>>
    BY <1>1 DEF AttachAcceptance, remote
  <2>. QED  BY <2>5, <2>7, <2>8, KeepsSelf
<1>2. ASSUME NEW r \in Run, DueUpload(r) PROVE Steady
  <2>1. PICK i \in DOMAIN queue : queue' = [queue EXCEPT ![i].due = "now"]
    BY <1>2 DEF DueUpload
  <2>. DEFINE x == [queue[i] EXCEPT !.due = "now"]
  <2>2. x \in Rows /\ x.req = queue[i].req /\ x.terminal = queue[i].terminal
    BY <1>0 DEF Rows
  <2>3. queue' = [queue EXCEPT ![i] = x]
    BY <2>1
  <2>. HIDE DEF x
  <2>4. Keeps(queue, queue')
    BY <2>2, <2>3, RowKeeps
  <2>5. UNCHANGED <<local, snapshot, up, nextOp, server, high, net>>
    BY <1>2 DEF DueUpload, remote
  <2>. QED  BY <2>4, <2>5, KeepsSelf
<1>3. ASSUME NEW r \in Run, DueRegistration(r) PROVE Steady
  <2>1. up' = [up EXCEPT ![r] = [up[r] EXCEPT !.regDue = TRUE]]
    BY <1>3 DEF DueRegistration
  <2>2. SameRow(up[r], [up[r] EXCEPT !.regDue = TRUE])
    BY <1>0, RowFields
  <2>3. up' \in [Run -> UpRow] /\ \A q \in Run : SameRow(up[q], up'[q])
    BY <2>1, <2>2, RowOfRun
  <2>4. UNCHANGED <<local, snapshot, queue, nextOp, server, high, net>>
    BY <1>3 DEF DueRegistration, remote
  <2>. QED  BY <2>3, <2>4, KeepsSelf
<1>4. CASE DrainBegin
  <2>1. UNCHANGED <<local, snapshot, up, queue, nextOp, server, high, net>>
    BY <1>4 DEF DrainBegin, store, remote
  <2>. QED  BY <2>1, KeepsSelf
<1>5. CASE DrainPick
  <2>1. UNCHANGED <<local, snapshot, up, nextOp, server, high, net>>
    BY <1>5 DEF DrainPick, remote
  <2>2. Keeps(queue, queue')
    BY <1>5, PickKeeps DEF DrainPick
  <2>. QED  BY <2>1, <2>2, KeepsSelf
<1>6. CASE Reenroll
  <2>1. UNCHANGED <<local, snapshot, queue, nextOp, server, high, net>>
    BY <1>6 DEF Reenroll, remote
  <2>2. \A r \in Run : up'[r] = up[r] \/ up'[r] = [up[r] EXCEPT !.incomplete = "re-enroll"]
    BY <1>6, Zenon DEF Reenroll
  <2>3. "re-enroll" \in Reasons
    BY DEF Reasons
  <2>4. \A r \in Run : SameRow(up[r], up'[r])
    <3>1. ASSUME NEW r \in Run PROVE SameRow(up[r], up'[r])
      <4>1. up[r] \in UpRow
        BY <1>0
      <4>2. SameRow(up[r], [up[r] EXCEPT !.incomplete = "re-enroll"]) /\ SameRow(up[r], up[r])
        BY <2>3, <4>1, RowFields, KeepsSelf
      <4>. QED  BY <2>2, <4>2, Zenon
    <3>. QED  BY <3>1
  <2>5. up' \in [Run -> UpRow]
    <3>1. DOMAIN up' = Run /\ up' = [r \in Run |-> up'[r]]
      BY <1>6 DEF Reenroll
    <3>2. \A r \in Run : up'[r] \in UpRow
      BY <2>4 DEF SameRow
    <3>. QED  BY <3>1, <3>2
  <2>. QED  BY <2>1, <2>4, <2>5, KeepsSelf
<1>. QED  BY <1>1, <1>2, <1>3, <1>4, <1>5, <1>6

LEMMA LaterRegistrationRows ==
  ASSUME Typed, up' = LaterRegistration(daemon.reg)
  PROVE  up' \in [Run -> UpRow] /\ \A q \in Run : SameRow(up[q], up'[q])
<1>. DEFINE r == daemon.reg
<1>1. CASE r = None
  BY <1>1, KeepsSelf DEF LaterRegistration
<1>2. CASE r # None
  <2>1. r \in Run
    BY <1>2 DEF Typed, Daemon
  <2>2. up' = [up EXCEPT ![r] = [up[r] EXCEPT !.regDue = FALSE]]
    BY <1>2 DEF LaterRegistration
  <2>3. up[r] \in UpRow
    BY <2>1 DEF Typed, StoreTypes
  <2>4. SameRow(up[r], [up[r] EXCEPT !.regDue = FALSE])
    BY <2>3, RowFields
  <2>. HIDE DEF r
  <2>. QED  BY <2>1, <2>2, <2>4, RowOfRun
<1>. QED  BY <1>1, <1>2

LEMMA SteadyDrain ==
  ASSUME Typed, PickedInv,
         \/ ConnectFails \/ Register \/ SendUpload \/ UploadFails \/ Deny \/ Stop
         \/ \E c \in net : Refuse(c)
         \/ \E c \in net : Serve(c) /\ UNCHANGED <<server, high>>
  PROVE  Steady
<1>. USE DEF Steady
<1>1. CASE ConnectFails
  <2>1. UNCHANGED <<local, snapshot, nextOp, server, high, net>>
    BY <1>1 DEF ConnectFails, remote
  <2>2. Keeps(queue, queue')
    <3>1. queue' = queue \/ \E op : queue' = Later(op)
      BY <1>1 DEF ConnectFails
    <3>. QED  BY <3>1, LaterKeeps, KeepsSelf
  <2>3. up' \in [Run -> UpRow] /\ \A q \in Run : SameRow(up[q], up'[q])
    <3>1. up' = LaterRegistration(daemon.reg)
      BY <1>1 DEF ConnectFails
    <3>. QED  BY <3>1, LaterRegistrationRows
  <2>. QED  BY <2>1, <2>2, <2>3, KeepsSelf
<1>2. CASE Register
  <2>1. UNCHANGED <<local, snapshot, queue, nextOp, server, high, net>>
    BY <1>2 DEF Register, remote
  <2>2. up' \in [Run -> UpRow] /\ \A q \in Run : SameRow(up[q], up'[q])
    <3>. DEFINE r == daemon.reg
                s == IF up[r].incomplete = "registration_denied" THEN "" ELSE up[r].incomplete
                v == [up[r] EXCEPT !.registered = 1, !.incomplete = s]
                w == [up[r] EXCEPT !.registered = -1, !.incomplete = "registration_denied"]
    <3>1. \/ up' = up
          \/ r # None /\ up' = [up EXCEPT ![r].registered = 1,
                       ![r].incomplete = IF @ = "registration_denied" THEN "" ELSE @]
          \/ up' = LaterRegistration(r)
          \/ r # None /\ up' = [up EXCEPT ![r].registered = -1,
                                          ![r].incomplete = "registration_denied"]
      BY <1>2, Zenon DEF Register
    <3>2. ASSUME r # None
          PROVE  /\ r \in Run /\ SameRow(up[r], v) /\ SameRow(up[r], w)
                 /\ up \in [Run -> UpRow]
      <4>1. r \in Run /\ up \in [Run -> UpRow]
        BY <3>2 DEF Typed, StoreTypes, Daemon
      <4>2. up[r] \in UpRow
        BY <4>1
      <4>3. s \in Reasons /\ "registration_denied" \in Reasons /\ -1 \in {-1, 1} /\ 1 \in {-1, 1}
        BY <4>2 DEF UpRow, Reasons
      <4>. HIDE DEF r, s
      <4>4. SameRow(up[r], v) /\ SameRow(up[r], w)
        BY <4>2, <4>3, RowFields
      <4>. QED  BY <4>1, <4>4
    <3>3. CASE r # None /\ up' = [up EXCEPT ![r].registered = 1,
                       ![r].incomplete = IF @ = "registration_denied" THEN "" ELSE @]
      <4>1. up' = [up EXCEPT ![r] = v]
        BY <3>2, <3>3
      <4>. HIDE DEF v
      <4>. QED  BY <3>2, <3>3, <4>1, RowOfRun
    <3>4. CASE r # None /\ up' = [up EXCEPT ![r].registered = -1,
                                          ![r].incomplete = "registration_denied"]
      <4>1. up' = [up EXCEPT ![r] = w]
        BY <3>2, <3>4
      <4>. HIDE DEF w
      <4>. QED  BY <3>2, <3>4, <4>1, RowOfRun
    <3>. HIDE DEF v, w, s
    <3>. QED  BY <3>1, <3>3, <3>4, LaterRegistrationRows, KeepsSelf
  <2>. QED  BY <2>1, <2>2, KeepsSelf
<1>3. CASE SendUpload
  <2>1. UNCHANGED <<local, snapshot, up, queue, nextOp, server, high>>
    BY <1>3 DEF SendUpload, store
  <2>2. daemon.upload \in Request /\ Queued(daemon.upload)
    BY <1>3 DEF SendUpload, PickedInv, Typed, Daemon, Queued
  <2>3. [req |-> daemon.upload, late |-> FALSE] \in Calls
    BY <2>2 DEF Calls
  <2>4. net' = net \union {[req |-> daemon.upload, late |-> FALSE]}
    BY <1>3 DEF SendUpload
  <2>. QED  BY <2>1, <2>3, <2>4, KeepsSelf
<1>4. CASE UploadFails
  <2>1. UNCHANGED <<local, snapshot, up, nextOp, server, high>>
    BY <1>4 DEF UploadFails
  <2>2. queue' = Later(daemon.upload.op) /\ net' = Abandoned
    BY <1>4 DEF UploadFails
  <2>. QED  BY <2>1, <2>2, LaterKeeps, KeepsSelf
<1>5. CASE Deny
  <2>1. UNCHANGED <<local, snapshot, nextOp, server, high, net>>
    BY <1>5 DEF Deny, remote
  <2>2. Keeps(queue, queue')
    <3>1. queue' = queue \/ \E op : queue' = Terminal(op)
      BY <1>5 DEF Deny
    <3>. QED  BY <3>1, TerminalKeeps, KeepsSelf
  <2>3. daemon.upload.run \in Run
    BY <1>5 DEF Deny, PickedInv, Typed, Daemon, Request
  <2>4. Reason(daemon.answer) \in Reasons
    BY <1>5 DEF Deny, Reason, Reasons
  <2>5. up' = [up EXCEPT ![daemon.upload.run] =
                 [up[daemon.upload.run] EXCEPT !.incomplete = Reason(daemon.answer)]]
    BY <1>5 DEF Deny
  <2>6. up[daemon.upload.run] \in UpRow
    BY <2>3 DEF Typed, StoreTypes
  <2>7. SameRow(up[daemon.upload.run],
                [up[daemon.upload.run] EXCEPT !.incomplete = Reason(daemon.answer)])
    BY <2>4, <2>6, RowFields
  <2>8. up' \in [Run -> UpRow] /\ \A q \in Run : SameRow(up[q], up'[q])
    BY <2>3, <2>5, <2>7, RowOfRun
  <2>. QED  BY <2>1, <2>2, <2>8, KeepsSelf
<1>6. CASE Stop
  <2>1. UNCHANGED <<local, snapshot, up, queue, nextOp, server, high>> /\ net' = Abandoned
    BY <1>6 DEF Stop, store
  <2>. QED  BY <2>1, KeepsSelf
<1>7. CASE \E c \in net : Refuse(c)
  <2>1. UNCHANGED <<local, snapshot, up, queue, nextOp, server, high>> /\ net' \subseteq net
    BY <1>7 DEF Refuse, store
  <2>. QED  BY <2>1, KeepsSelf
<1>8. CASE \E c \in net : Serve(c) /\ UNCHANGED <<server, high>>
  <2>1. UNCHANGED <<local, snapshot, up, queue, nextOp, server, high>> /\ net' \subseteq net
    BY <1>8 DEF Serve, store
  <2>. QED  BY <2>1, KeepsSelf
<1>. QED  BY <1>1, <1>2, <1>3, <1>4, <1>5, <1>6, <1>7, <1>8

LEMMA PositionType ==
  ASSUME Typed, NEW r \in Run
  PROVE  Position(server[r]) \in Nat
<1>1. server[r] \in Seq(Request)
  BY DEF Typed, RemoteTypes
<1>2. CASE server[r] = << >>
  BY <1>2 DEF Position
<1>3. CASE server[r] # << >>
  <2>1. Len(server[r]) \in DOMAIN server[r]
    BY <1>1, <1>3
  <2>2. server[r][Len(server[r])] \in Request
    BY <1>1, <2>1
  <2>. QED  BY <1>3, <2>2 DEF Position, Last, Request
<1>. QED  BY <1>2, <1>3

LEMMA CalledRequest ==
  ASSUME Typed, NEW c \in net
  PROVE  c.req \in Request /\ c.req.run \in Run /\ c.late \in BOOLEAN
<1>1. c \in [req : Request, late : BOOLEAN]
  BY DEF Typed, RemoteTypes
<1>2. \A q \in Request : q.run \in Run
  BY DEF Request
<1>. QED  BY <1>1, <1>2

LEMMA FirstUploadable ==
  ASSUME Typed, Uploadable # {}
  PROVE  LET k == Min(Uploadable)
         IN  k \in DOMAIN queue /\ queue[k].req \in Request /\ Leads(queue, k)
<1>1. Uploadable \subseteq DOMAIN queue /\ DOMAIN queue = 1 .. Len(queue) /\ Uploadable \subseteq Nat
  BY DEF Uploadable, Typed, StoreTypes
<1>2. Min(Uploadable) \in Uploadable
  <2>1. \E x \in Uploadable : \A y \in Uploadable : x <= y
    BY <1>1, LeastPosition
  <2>. QED  BY <2>1 DEF Min
<1>3. PICK k \in DOMAIN queue : k = Min(Uploadable)
  BY <1>1, <1>2
<1>4. Earlier(k) = {}
  BY <1>2, <1>3 DEF Uploadable
<1>5. \A j \in DOMAIN queue : queue[j].req.run = queue[k].req.run =>
        /\ ~(queue[j].req.first < queue[k].req.first)
        /\ ~(queue[j].req.first = queue[k].req.first /\ j < k)
  BY <1>4, Zenon DEF Earlier
<1>6. \A j \in DOMAIN queue : queue[j].req \in Request /\ queue[j].req.first \in Nat
  BY StoredRow DEF Request
<1>7. Leads(queue, k)
  <2>. SUFFICES ASSUME NEW j \in DOMAIN queue, queue[j].req.run = queue[k].req.run
                PROVE  \/ queue[k].req.first < queue[j].req.first
                       \/ queue[k].req.first = queue[j].req.first /\ k <= j
    BY DEF Leads
  <2>1. j \in Nat /\ k \in Nat
    BY <1>1
  <2>. QED  BY <1>5, <1>6, <2>1
<1>. QED  BY <1>3, <1>6, <1>7

LEMMA DaemonStep ==
  ASSUME Typed, [Next]_vars
  PROVE  daemon' \in Daemon /\ faults' \in 0 .. MaxFaults
<1>. DEFINE D == daemon' \in Daemon
<1>0. /\ daemon \in Daemon /\ faults \in 0 .. MaxFaults /\ MaxFaults \in Nat
      /\ Idle \in Daemon
  BY OutboxAssumption DEF Typed, Idle, Daemon
<1>1. faults' \in 0 .. MaxFaults
  <2>1. faults' = faults \/ Fault
    BY DEF Next, Drain, DrainBegin, DrainPick, Register, SendUpload, Acknowledge, ScanAfterAck,
       Deny, RepairGap, DrainRepair, Reenroll, ConnectFails, UploadFails, Stop, Publish,
       DueUpload, DueRegistration, ServerLoses, AttachAcceptance, Serve, Refuse, vars
  <2>. QED  BY <1>0, <2>1 DEF Fault
<1>2. CASE \/ daemon' = daemon
           \/ daemon' = Idle
  BY <1>0, <1>1, <1>2
<1>3. CASE DrainBegin
  BY <1>0, <1>1, <1>3 DEF DrainBegin, Daemon
<1>4. ASSUME NEW r \in Run, DrainRepair(r) PROVE D
  BY <1>0, <1>4 DEF DrainRepair, Daemon
<1>5. CASE DrainPick
  <2>1. CASE daemon' = Idle
    BY <1>0, <1>1, <2>1
  <2>2. CASE \E r \in IF Registrable = {} THEN {None} ELSE Registrable :
             daemon' = [daemon EXCEPT !.at = "connect", !.reg = r,
                          !.upload = IF Uploadable = {} THEN None
                                     ELSE queue[Min(Uploadable)].req]
    <3>. DEFINE q == IF Uploadable = {} THEN None ELSE queue[Min(Uploadable)].req
    <3>1. q \in Request \union {None}
      BY FirstUploadable
    <3>2. PICK r \in Run \union {None} :
             daemon' = [daemon EXCEPT !.at = "connect", !.reg = r, !.upload = q]
      BY <2>2 DEF Registrable
    <3>. HIDE DEF q
    <3>. QED  BY <1>0, <1>1, <3>1, <3>2 DEF Daemon
  <2>. QED  BY <1>5, <2>1, <2>2, Zenon DEF DrainPick
<1>6. CASE Register
  <2>1. daemon' = Idle \/ daemon' = [daemon EXCEPT !.at = "upload"]
    BY <1>6 DEF Register, Onward
  <2>. QED  BY <1>0, <1>1, <2>1 DEF Daemon
<1>7. CASE SendUpload
  BY <1>0, <1>1, <1>7 DEF SendUpload, Daemon
<1>8. CASE Acknowledge
  BY <1>0, <1>1, <1>8 DEF Acknowledge, Daemon
<1>9. ASSUME NEW c \in net, Serve(c) PROVE D
  <2>1. \E a \in {"ack", "gap", "conflict"}, n \in Nat : Answer(c, a, n)
    <3>1. Position(server[c.req.run]) \in Nat
      BY PositionType, CalledRequest
    <3>2. \/ Answer(c, "ack", 0)
          \/ Answer(c, "gap", Position(server[c.req.run]))
          \/ Answer(c, "conflict", Position(server[c.req.run]))
      BY <1>9 DEF Serve
    <3>. QED  BY <3>1, <3>2
  <2>. QED  BY <1>0, <2>1 DEF Answer, Daemon
<1>10. ASSUME NEW c \in net, Refuse(c) PROVE D
  <2>1. \E a \in {"denied", "gone", "conflict"} : Answer(c, a, 0)
    BY <1>10 DEF Refuse
  <2>2. PICK a \in {"denied", "gone", "conflict"} : Answer(c, a, 0)
    BY <2>1
  <2>3. daemon' = daemon \/ daemon' = [daemon EXCEPT !.at = "answered", !.answer = a, !.gap = 0]
    BY <2>2, Zenon DEF Answer
  <2>4. a \in {None, "ack", "gap", "denied", "gone", "conflict"} /\ 0 \in Nat
    BY <2>2
  <2>. QED  BY <1>0, <2>3, <2>4 DEF Daemon
<1>11. CASE \/ ScanAfterAck \/ Deny \/ RepairGap \/ Reenroll \/ ConnectFails \/ UploadFails \/ Stop
            \/ \E r \in Run : Publish(r) \/ DueUpload(r) \/ DueRegistration(r) \/ ServerLoses(r)
            \/ \E i \in DOMAIN queue : AttachAcceptance(i)
            \/ UNCHANGED vars
  BY <1>2, <1>11 DEF ScanAfterAck, Deny, RepairGap, Reenroll, ConnectFails, UploadFails, Stop,
     Publish, DueUpload, DueRegistration, ServerLoses, AttachAcceptance, vars
<1>. QED  BY <1>1, <1>3, <1>4, <1>5, <1>6, <1>7, <1>8, <1>9, <1>10, <1>11 DEF Next, Drain

(* The same, when acknowledged positions are taken back that the server     *)
(* does not have.                                                           *)
Lowers ==
  /\ up' \in [Run -> UpRow]
  /\ \A r \in Run :
       /\ up'[r].row = up[r].row /\ up'[r].origin = up[r].origin
       /\ up'[r].map = up[r].map /\ up'[r].last = up[r].last
       /\ up'[r].acked <= up[r].acked
       /\ \A n \in Nat : up'[r].acked <= n => up[r].acked <= n \/ Position(server[r]) <= n

TakesBack ==
  /\ Keeps(queue, queue') /\ Lowers
  /\ UNCHANGED <<local, snapshot, nextOp, server, high>>
  /\ net' \subseteq Calls

LEMMA SteadyTakesBack ==
  ASSUME Typed, Steady
  PROVE  TakesBack
<1>1. \A r \in Run : up[r].acked \in Nat
  BY DEF Typed, StoreTypes, UpRow
<1>. QED  BY <1>1 DEF Steady, SameRow, TakesBack, Lowers

(* What the invariant says of requests, maps and server stays.              *)
LEMMA TakeBackStep ==
  ASSUME Typed, DataInv, TakesBack, daemon' \in Daemon, faults' \in 0 .. MaxFaults
  PROVE  Typed' /\ DataInv'
<1>1. /\ DOMAIN queue' = DOMAIN queue /\ DOMAIN queue = 1 .. Len(queue)
      /\ \A i \in DOMAIN queue : queue'[i].req = queue[i].req
  BY DEF TakesBack, Keeps, Typed, StoreTypes
<1>2. /\ up \in [Run -> UpRow] /\ up' \in [Run -> UpRow]
      /\ \A r \in Run :
           /\ up'[r].map = up[r].map /\ up'[r].last = up[r].last
           /\ up'[r].row = up[r].row /\ up'[r].origin = up[r].origin
           /\ up'[r].acked <= up[r].acked /\ up'[r].acked \in Nat /\ up[r].acked \in Nat
           /\ \A n \in Nat : up'[r].acked <= n => up[r].acked <= n \/ Position(server[r]) <= n
  <2>1. \A u \in UpRow : u.acked \in Nat
    BY DEF UpRow
  <2>. QED  BY <2>1 DEF TakesBack, Lowers, Typed, StoreTypes
<1>3. UNCHANGED <<local, snapshot, nextOp, server, high>>
  BY DEF TakesBack
<1>4. Typed'
  <2>1. StoreTypes'
    BY <1>3 DEF Typed, StoreTypes, TakesBack, Lowers, Keeps
  <2>2. RemoteTypes'
    BY <1>3 DEF Typed, RemoteTypes, TakesBack, Calls
  <2>. QED  BY <2>1, <2>2 DEF Typed
<1>5. MapInv'
  <2>1. ASSUME NEW r \in Run PROVE Lists(up'[r], local[r]) /\ Blank(up'[r])
    <3>1. /\ Lists(up[r], local[r]) /\ Blank(up[r])
          /\ Len(up[r].map) \in Nat
      BY <1>2 DEF DataInv, MapInv, UpRow
    <3>. QED  BY <1>2, <3>1 DEF Lists, Blank
  <2>. QED  BY <1>3, <2>1 DEF MapInv
<1>6. \A q : Queued(q)' <=> Queued(q)
  BY <1>1 DEF Queued
<1>7. \A c \in net' : c.req \in Request /\ (Queued(c.req) \/ \E d \in net : d.req = c.req)
  BY DEF TakesBack, Calls
<1>8. \A q \in Request : Known(q)' => Known(q)
  BY <1>3, <1>6, <1>7 DEF Known
<1>9. KnownInv'
  <2>1. \A q \in Request : Sound(q) => Sound(q)'
    <3>1. \A q \in Request : q.run \in Run
      BY DEF Request
    <3>. QED  BY <1>2, <1>3, <3>1 DEF Sound
  <2>. QED  BY <1>8, <2>1 DEF DataInv, KnownInv
<1>10. QueueInv'
  <2>1. \A i \in DOMAIN queue : queue[i].req.run \in Run /\ queue[i].req.first \in Nat
    BY StoredRow DEF Request
  <2>2. \A i \in DOMAIN queue' : up'[queue'[i].req.run].acked <= queue'[i].req.first
    <3>1. ASSUME NEW i \in DOMAIN queue
          PROVE  up'[queue[i].req.run].acked <= queue[i].req.first
      <4>1. up[queue[i].req.run].acked <= queue[i].req.first
        BY DEF DataInv, QueueInv
      <4>2. PICK r \in Run : r = queue[i].req.run
        BY <2>1
      <4>3. /\ up'[r].acked <= up[r].acked /\ up'[r].acked \in Nat /\ up[r].acked \in Nat
            /\ queue[i].req.first \in Nat
        BY <1>2, <2>1
      <4>. QED  BY <4>1, <4>2, <4>3
    <3>. QED  BY <1>1, <3>1
  <2>. QED  BY <1>1, <2>2 DEF DataInv, QueueInv
<1>11. CoverInv' /\ DroppedInv'
  <2>1. \A r \in Run : \A n \in Nat :
          (\E i \in DOMAIN queue : queue[i].req.run = r /\ Covers(queue[i].req, n)) =>
            \E i \in DOMAIN queue' : queue'[i].req.run = r /\ Covers(queue'[i].req, n)
    BY <1>1
  <2>2. CoverInv'
    <3>. SUFFICES ASSUME NEW r \in Run, NEW n \in Nat, up'[r].acked <= n, n < Len(up[r].map)
                  PROVE  \/ Position(server[r]) <= n
                         \/ \E i \in DOMAIN queue : queue[i].req.run = r /\ Covers(queue[i].req, n)
      BY <1>2, <1>3, <2>1 DEF CoverInv
    <3>1. up[r].acked <= n \/ Position(server[r]) <= n
      BY <1>2
    <3>. QED  BY <3>1 DEF DataInv, CoverInv
  <2>3. DroppedInv'
    BY <1>2, <1>3, <2>1 DEF DataInv, DroppedInv
  <2>. QED  BY <2>2, <2>3
<1>12. NetInv'
  <2>1. \A q : Served(q)' <=> Served(q)
    BY <1>3 DEF Served
  <2>. QED  BY <1>6, <1>7, <2>1 DEF DataInv, NetInv
<1>13. ServerInv'
  BY <1>3 DEF DataInv, ServerInv
<1>. QED  BY <1>4, <1>5, <1>9, <1>10, <1>11, <1>12, <1>13 DEF DataInv

LEMMA SteadyStep ==
  ASSUME Typed, DataInv, Steady, daemon' \in Daemon, faults' \in 0 .. MaxFaults
  PROVE  Typed' /\ DataInv'
BY SteadyTakesBack, TakeBackStep

-----------------------------------------------------------------------------
(* Steps that add a request.                                                *)

LEMMA SubSeqPrefix ==
  ASSUME NEW m \in Seq(Nat), NEW p \in Seq(Nat), NEW a \in Nat, NEW b \in Nat, b <= Len(m)
  PROVE  SubSeq(m \o p, a + 1, b) = SubSeq(m, a + 1, b)
<1>. DEFINE x == SubSeq(m \o p, a + 1, b)
            y == SubSeq(m, a + 1, b)
<1>1. m \o p \in Seq(Nat) /\ Len(m \o p) = Len(m) + Len(p) /\ Len(m) \in Nat /\ Len(p) \in Nat
  OBVIOUS
<1>2. \A i \in 1 .. Len(m) : (m \o p)[i] = m[i]
  OBVIOUS
<1>3. CASE a + 1 <= b
  <2>1. \A i \in a + 1 .. b : i \in 1 .. Len(m) /\ (m \o p)[i] = m[i]
    BY <1>1, <1>2
  <2>. QED  BY <1>1, <1>3, <2>1
<1>4. CASE ~(a + 1 <= b)
  BY <1>1, <1>4
<1>. QED  BY <1>3, <1>4

LEMMA SubSeqTail ==
  ASSUME NEW m \in Seq(Nat), NEW p \in Seq(Nat)
  PROVE  SubSeq(m \o p, Len(m) + 1, Len(m) + Len(p)) = p
<1>1. m \o p \in Seq(Nat) /\ Len(m \o p) = Len(m) + Len(p) /\ Len(m) \in Nat /\ Len(p) \in Nat
  OBVIOUS
<1>2. \A i \in 1 .. Len(p) : (m \o p)[i + Len(m)] = p[i]
  BY <1>1
<1>. DEFINE s == SubSeq(m \o p, Len(m) + 1, Len(m) + Len(p))
<1>3. s \in Seq(Nat) /\ Len(s) = Len(p)
  BY <1>1
<1>4. \A i \in 1 .. Len(p) : s[i] = (m \o p)[i + Len(m)]
  BY <1>1
<1>. HIDE DEF s
<1>5. \A i \in 1 .. Len(p) : s[i] = p[i]
  BY <1>2, <1>4
<1>6. s = p
  BY <1>3, <1>5
<1>. QED  BY <1>6 DEF s

LEMMA SubSeqLength ==
  ASSUME NEW m \in Seq(Nat), NEW a \in Nat, NEW b \in Nat, a < b, b <= Len(m)
  PROVE  SubSeq(m, a + 1, b) \in Seq(Nat) /\ Len(SubSeq(m, a + 1, b)) = b - a
<1>1. Len(m) \in Nat /\ DOMAIN m = 1 .. Len(m)
  OBVIOUS
<1>2. \A i \in a + 1 .. b : i \in 1 .. Len(m) /\ m[i] \in Nat
  BY <1>1
<1>3. SubSeq(m, a + 1, b) \in Seq(Nat)
  BY <1>1, <1>2
<1>4. Len(SubSeq(m, a + 1, b)) = b - a
  BY <1>1
<1>. QED  BY <1>3, <1>4

LEMMA NewRowType ==
  ASSUME Typed, NEW owner \in Run, NEW first \in Nat, NEW events \in Seq(Nat)
  PROVE  LET x == NewRow(owner, first, events)
         IN  /\ x \in Rows /\ x.req \in Request /\ ~x.terminal /\ ~x.accept
             /\ x.req.op = nextOp /\ x.req.run = owner /\ x.req.first = first
             /\ x.req.next = first + Len(events) /\ x.req.events = events
<1>1. nextOp \in Nat /\ 0 \in 0 .. LongAfter /\ first + Len(events) \in Nat
  BY OutboxAssumption DEF Typed, StoreTypes
<1>. DEFINE q == [op |-> nextOp, run |-> owner, first |-> first, next |-> first + Len(events),
                  events |-> events]
<1>2. /\ q \in Request /\ q.op = nextOp /\ q.run = owner /\ q.first = first
      /\ q.next = first + Len(events) /\ q.events = events
  BY <1>1 DEF Request
<1>3. NewRow(owner, first, events) =
        [req |-> q, accept |-> FALSE, due |-> "now", attempts |-> 0, terminal |-> FALSE]
  BY DEF NewRow
<1>. HIDE DEF q
<1>. QED  BY <1>1, <1>2, <1>3 DEF Rows

LEMMA Appended ==
  ASSUME Typed, NEW x \in Rows, queue' = Append(queue, x)
  PROVE  /\ queue' \in Seq(Rows) /\ DOMAIN queue = 1 .. Len(queue) /\ Len(queue) \in Nat
         /\ DOMAIN queue' = 1 .. Len(queue) + 1 /\ queue'[Len(queue) + 1] = x
         /\ \A i \in DOMAIN queue : i \in DOMAIN queue' /\ queue'[i] = queue[i]
BY DEF Typed, StoreTypes

MapsExtend == \A r \in Run : \E p \in Seq(Nat) : up'[r].map = up[r].map \o p

LEMMA KnownGrows ==
  ASSUME Typed, KnownInv, MapsExtend, NEW x \in Rows, queue' = Append(queue, x),
         nextOp' = nextOp + 1, x.req.op = nextOp, Sound(x.req)', UNCHANGED <<net, server>>
  PROVE  KnownInv'
<1>1. x.req \in Request /\ nextOp \in Nat
  BY DEF Rows, Typed, StoreTypes
<1>2. \A q \in Request : Known(q)' => Known(q) \/ q = x.req
  <2>1. \A q : Queued(q)' => Queued(q) \/ q = x.req
    BY Appended DEF Queued
  <2>. QED  BY <2>1 DEF Known
<1>3. ASSUME NEW q \in Request, Sound(q)
      PROVE  Sound(q)' /\ q.op < nextOp
  <2>1. /\ q.run \in Run /\ q.first \in Nat /\ q.next \in Nat /\ q.op \in Nat
        /\ up[q.run].map \in Seq(Nat)
    BY DEF Request, Typed, StoreTypes, UpRow
  <2>2. PICK p \in Seq(Nat) : up'[q.run].map = up[q.run].map \o p
    BY <2>1 DEF MapsExtend
  <2>3. q.next <= Len(up[q.run].map) /\ q.events = SubSeq(up[q.run].map, q.first + 1, q.next)
        /\ q.op < nextOp /\ q.first <= q.next
    BY <1>3 DEF Sound
  <2>4. PICK m \in Seq(Nat) : m = up[q.run].map
    BY <2>1
  <2>5. up'[q.run].map = m \o p
    BY <2>2, <2>4
  <2>6. SubSeq(m \o p, q.first + 1, q.next) = SubSeq(m, q.first + 1, q.next)
    BY <2>1, <2>3, <2>4, SubSeqPrefix
  <2>7. Len(m \o p) \in Nat /\ Len(m) \in Nat /\ Len(m) <= Len(m \o p)
    OBVIOUS
  <2>8. q.next <= Len(m \o p) /\ q.op < nextOp'
    BY <1>1, <2>1, <2>3, <2>4, <2>7
  <2>. QED  BY <2>3, <2>4, <2>5, <2>6, <2>8 DEF Sound
<1>4. \A q \in Request : Known(q)' => Sound(q)'
  BY <1>2, <1>3 DEF KnownInv
<1>5. ASSUME NEW a \in Request, NEW b \in Request, Known(a)', Known(b)', a.op = b.op
      PROVE  a = b
  <2>1. \A q \in Request : Known(q) => q.op # nextOp
    <3>1. \A q \in Request : q.op \in Nat
      BY DEF Request
    <3>. QED  BY <1>1, <1>3, <3>1 DEF KnownInv
  <2>. QED  BY <1>2, <1>5, <2>1 DEF KnownInv
<1>. QED  BY <1>4, <1>5 DEF KnownInv

(* A transaction of append_with_limits. *)
LEMMA ScanStep ==
  ASSUME Typed, DataInv, NEW r \in Run, Scans(r),
         daemon' \in Daemon, faults' \in 0 .. MaxFaults
  PROVE  Typed' /\ DataInv'
<1>1. /\ local' \in [Run -> Seq(BOOLEAN)] /\ snapshot' \in [Run -> Nat]
      /\ \A q \in Run \ {r} : local'[q] = local[q]
  BY AppendStep DEF DataInv
<1>2. PICK u, v :
        /\ Enters(r, u)
        /\ up' = [up EXCEPT ![r] = v] /\ AppendsTo(r, u, v, local'[r]) /\ Blank(v)
        /\ v.acked = up[r].acked
        /\ \/ UNCHANGED <<queue, nextOp>> /\ v.map = up[r].map
           \/ /\ ~Full([up EXCEPT ![r] = u])
              /\ nextOp' = nextOp + 1
              /\ \E p \in Seq(Nat) :
                   /\ v.map = up[r].map \o p
                   /\ queue' = Append(queue, NewRow(r, Len(up[r].map), p))
  BY AppendStep DEF DataInv
<1>3. UNCHANGED <<net, server, high>>
  BY DEF Scans, Publish, DrainRepair, ScanAfterAck, remote
<1>4. v \in UpRow /\ Lists(v, local'[r])
  BY <1>2 DEF AppendsTo
<1>5. /\ up' \in [Run -> UpRow] /\ up'[r] = v /\ \A q \in Run \ {r} : up'[q] = up[q]
      /\ up \in [Run -> UpRow]
  BY <1>2, <1>4 DEF Typed, StoreTypes
<1>6. MapInv'
  BY <1>1, <1>2, <1>4, <1>5 DEF DataInv, MapInv
<1>7. RemoteTypes'
  BY <1>3 DEF Typed, RemoteTypes
<1>8. ServerInv'
  BY <1>3 DEF DataInv, ServerInv
<1>9. \A q \in Run : up'[q].acked = up[q].acked
  BY <1>2, <1>5
<1>10. CASE UNCHANGED <<queue, nextOp>> /\ v.map = up[r].map
  <2>1. \A q \in Run : up'[q].map = up[q].map
    BY <1>5, <1>10
  <2>2. \A q : Known(q)' <=> Known(q)
    BY <1>3, <1>10 DEF Known, Queued
  <2>3. \A q \in Request : Sound(q)' <=> Sound(q)
    <3>1. \A q \in Request : q.run \in Run
      BY DEF Request
    <3>. QED  BY <1>10, <2>1, <3>1 DEF Sound
  <2>4. KnownInv'
    BY <2>2, <2>3 DEF DataInv, KnownInv
  <2>5. QueueInv'
    BY <1>9, <1>10, StoredRow DEF DataInv, QueueInv
  <2>6. CoverInv' /\ DroppedInv'
    BY <1>3, <1>9, <1>10, <2>1 DEF DataInv, CoverInv, DroppedInv
  <2>7. NetInv'
    BY <1>3, <1>10 DEF DataInv, NetInv, Queued, Served
  <2>8. Typed'
    BY <1>1, <1>5, <1>7, <1>10 DEF Typed, StoreTypes
  <2>. QED  BY <1>6, <1>8, <2>4, <2>5, <2>6, <2>7, <2>8 DEF DataInv
<1>11. ASSUME NEW p \in Seq(Nat), v.map = up[r].map \o p, nextOp' = nextOp + 1,
              queue' = Append(queue, NewRow(r, Len(up[r].map), p))
       PROVE  Typed' /\ DataInv'
  <2>1. PICK m \in Seq(Nat) : m = up[r].map
    BY <1>5 DEF UpRow
  <2>2. PICK x : x = NewRow(r, Len(m), p)
    OBVIOUS
  <2>3. /\ x \in Rows /\ x.req \in Request /\ x.req.op = nextOp /\ x.req.run = r
        /\ x.req.first = Len(m) /\ x.req.next = Len(m) + Len(p) /\ x.req.events = p
    <3>1. Len(m) \in Nat
      OBVIOUS
    <3>. QED  BY <2>2, <3>1, NewRowType
  <2>4. /\ queue' = Append(queue, x) /\ up'[r].map = m \o p
        /\ Len(m) \in Nat /\ Len(p) \in Nat /\ Len(m \o p) = Len(m) + Len(p)
    BY <1>5, <1>11, <2>1, <2>2
  <2>5. MapsExtend
    <3>1. ASSUME NEW q \in Run \ {r} PROVE up'[q].map = up[q].map \o << >>
      BY <1>5 DEF UpRow
    <3>2. << >> \in Seq(Nat)
      OBVIOUS
    <3>. QED  BY <2>1, <2>4, <3>1, <3>2 DEF MapsExtend
  <2>6. Sound(x.req)'
    <3>1. SubSeq(m \o p, Len(m) + 1, Len(m) + Len(p)) = p
      BY SubSeqTail
    <3>2. nextOp \in Nat
      BY DEF Typed, StoreTypes
    <3>. QED  BY <1>11, <2>3, <2>4, <3>1, <3>2 DEF Sound
  <2>7. KnownInv'
    BY <1>3, <1>11, <2>3, <2>4, <2>5, <2>6, KnownGrows DEF DataInv
  <2>8. /\ queue' \in Seq(Rows) /\ DOMAIN queue = 1 .. Len(queue) /\ Len(queue) \in Nat
        /\ DOMAIN queue' = 1 .. Len(queue) + 1 /\ queue'[Len(queue) + 1] = x
        /\ \A i \in DOMAIN queue : i \in DOMAIN queue' /\ queue'[i] = queue[i]
    BY <2>3, <2>4, Appended
  <2>9. \A i \in DOMAIN queue : /\ queue[i].req \in Request /\ queue[i].req.run \in Run
                                /\ Sound(queue[i].req)
    BY StoredRow DEF DataInv, KnownInv, Known, Queued
  <2>10. QueueInv'
    <3>1. ASSUME NEW i \in DOMAIN queue'
          PROVE  up'[queue'[i].req.run].acked <= queue'[i].req.first
      <4>1. CASE i \in DOMAIN queue
        BY <1>9, <2>8, <2>9, <4>1 DEF DataInv, QueueInv
      <4>2. CASE i = Len(queue) + 1
        <5>1. up[r].acked <= Len(m)
          BY <2>1 DEF DataInv, MapInv, Lists
        <5>. QED  BY <1>9, <2>3, <2>8, <4>2, <5>1
      <4>. QED  BY <2>8, <4>1, <4>2
    <3>2. ASSUME NEW i \in DOMAIN queue', NEW j \in DOMAIN queue', i < j
          PROVE  /\ queue'[i].req.op # queue'[j].req.op
                 /\ queue'[i].req.run = queue'[j].req.run => InOrder(queue'[i].req, queue'[j].req)
      <4>1. i \in DOMAIN queue
        BY <2>8, <3>2
      <4>2. CASE j \in DOMAIN queue
        BY <2>8, <3>2, <4>1, <4>2 DEF DataInv, QueueInv
      <4>3. CASE j = Len(queue) + 1
        <5>1. queue[i].req.op < nextOp /\ queue[i].req.op \in Nat /\ nextOp \in Nat
          BY <2>9, <4>1 DEF Sound, Request, Typed, StoreTypes
        <5>2. queue[i].req.run = r => queue[i].req.next <= Len(m)
          BY <2>1, <2>9, <4>1 DEF Sound
        <5>3. queue'[i] = queue[i] /\ queue'[j] = x
          BY <2>8, <4>1, <4>3
        <5>. QED  BY <2>3, <5>1, <5>2, <5>3 DEF InOrder
      <4>. QED  BY <2>8, <4>2, <4>3
    <3>. QED  BY <3>1, <3>2 DEF QueueInv
  <2>11. ASSUME NEW q \in Run, NEW n \in Nat, n < Len(up'[q].map), ~(n < Len(up[q].map))
         PROVE  \E i \in DOMAIN queue' : queue'[i].req.run = q /\ Covers(queue'[i].req, n)
    <3>1. q = r
      BY <1>5, <2>11
    <3>2. Len(up'[q].map) = Len(m) + Len(p) /\ Len(up[q].map) = Len(m)
      BY <2>1, <2>4, <3>1
    <3>3. Len(m) <= n /\ n < Len(m) + Len(p)
      BY <2>4, <2>11, <3>2
    <3>4. Covers(x.req, n)
      BY <2>3, <3>3 DEF Covers
    <3>5. Len(queue) + 1 \in DOMAIN queue'
      BY <2>8
    <3>. QED  BY <2>3, <2>8, <3>1, <3>4, <3>5
  <2>12. \A q \in Run, n \in Nat :
           (\E i \in DOMAIN queue : queue[i].req.run = q /\ Covers(queue[i].req, n)) =>
              \E i \in DOMAIN queue' : queue'[i].req.run = q /\ Covers(queue'[i].req, n)
    BY <2>8
  <2>13. CoverInv'
    BY <1>3, <1>9, <2>11, <2>12 DEF DataInv, CoverInv
  <2>14. DroppedInv'
    BY <1>3, <2>11, <2>12 DEF DataInv, DroppedInv
  <2>15. NetInv'
    <3>1. \A q : Queued(q) => Queued(q)'
      BY <2>8 DEF Queued
    <3>. QED  BY <1>3, <3>1 DEF DataInv, NetInv, Served
  <2>16. Typed'
    <3>1. nextOp' \in Nat
      BY <1>11 DEF Typed, StoreTypes
    <3>. QED  BY <1>1, <1>5, <1>7, <2>8, <3>1 DEF Typed, StoreTypes
  <2>. QED  BY <1>6, <1>8, <2>7, <2>10, <2>13, <2>14, <2>15, <2>16 DEF DataInv
<1>. QED  BY <1>2, <1>10, <1>11

(* What repair_gap reads. *)
LEMMA GapRead ==
  ASSUME OutboxInv, RepairGap
  PROVE  LET q == daemon.upload
             r == q.run
             from == daemon.gap
             to == Lesser(q.first, from + BatchLimit)
         IN  /\ q \in Request /\ r \in Run /\ Sound(q)
             /\ from \in Nat /\ to \in Nat /\ from < to /\ to <= q.first
             /\ Position(server[r]) <= from
             /\ \E k \in DOMAIN queue : queue[k].req = q /\ Leads(queue, k)
<1>. DEFINE q == daemon.upload
<1>1. daemon.at = "answered" /\ daemon.answer = "gap"
  BY DEF RepairGap
<1>2. q # None /\ \E k \in DOMAIN queue : queue[k].req = q /\ Leads(queue, k)
  BY <1>1 DEF OutboxInv, PickedInv
<1>3. q \in Request /\ daemon.gap \in Nat
  BY <1>2 DEF OutboxInv, Typed, Daemon
<1>4. q.run \in Run /\ q.first \in Nat
  BY <1>3 DEF Request
<1>5. Sound(q)
  BY <1>2, <1>3 DEF OutboxInv, DataInv, KnownInv, Known, Queued
<1>6. Position(server[q.run]) <= daemon.gap /\ daemon.gap < q.first
  BY <1>1 DEF OutboxInv, AnswerInv
<1>7. LET to == Lesser(q.first, daemon.gap + BatchLimit)
      IN  to \in Nat /\ daemon.gap < to /\ to <= q.first
  <2>1. BatchLimit \in Nat \ {0}
    BY OutboxAssumption
  <2>. QED  BY <1>3, <1>4, <1>6, <2>1 DEF Lesser
<1>. QED  BY <1>2, <1>3, <1>4, <1>5, <1>6, <1>7

(* A request for events of the map that comes before the others of its run. *)
Requeues(r, from, to) ==
  /\ from < to /\ to <= Len(up[r].map)
  /\ \A i \in DOMAIN queue : queue[i].req.run = r => to <= queue[i].req.first
  /\ queue' = Append(queue, NewRow(r, from, SubSeq(up[r].map, from + 1, to)))
  /\ nextOp' = nextOp + 1 /\ Lowers /\ up'[r].acked <= from
  /\ UNCHANGED <<local, snapshot, net, server, high>>

LEMMA RequeueStep ==
  ASSUME Typed, DataInv, NEW r \in Run, NEW from \in Nat, NEW to \in Nat,
         Requeues(r, from, to), daemon' \in Daemon, faults' \in 0 .. MaxFaults
  PROVE  Typed' /\ DataInv'
<1>0. /\ nextOp' = nextOp + 1 /\ Lowers /\ up'[r].acked <= from /\ from < to
      /\ UNCHANGED <<local, snapshot, net, server, high>>
      /\ \A i \in DOMAIN queue : queue[i].req.run = r => to <= queue[i].req.first
  BY DEF Requeues
<1>1. up \in [Run -> UpRow] /\ up' \in [Run -> UpRow] /\ nextOp \in Nat
  BY <1>0 DEF Typed, StoreTypes, Lowers
<1>2. \A s \in Run :
        /\ up[s].map \in Seq(Nat) /\ up[s].acked \in Nat /\ up'[s].acked \in Nat
        /\ up'[s].map = up[s].map /\ up'[s].acked <= up[s].acked
  <2>1. \A u \in UpRow : u.map \in Seq(Nat) /\ u.acked \in Nat
    BY DEF UpRow
  <2>. QED  BY <1>0, <1>1, <2>1 DEF Lowers
<1>3. PICK p \in Seq(Nat) : /\ p = SubSeq(up[r].map, from + 1, to) /\ Len(p) = to - from
                            /\ queue' = Append(queue, NewRow(r, from, p))
  <2>1. PICK m \in Seq(Nat) : m = up[r].map
    BY <1>2
  <2>2. from < to /\ to <= Len(m)
    BY <2>1 DEF Requeues
  <2>3. SubSeq(m, from + 1, to) \in Seq(Nat) /\ Len(SubSeq(m, from + 1, to)) = to - from
    BY <2>2, SubSeqLength
  <2>. QED  BY <2>1, <2>3 DEF Requeues
<1>4. PICK x : x = NewRow(r, from, p)
  OBVIOUS
<1>5. /\ x \in Rows /\ x.req \in Request /\ x.req.op = nextOp /\ x.req.run = r
      /\ x.req.first = from /\ x.req.next = to /\ x.req.events = p
  <2>1. /\ x \in Rows /\ x.req \in Request /\ x.req.op = nextOp /\ x.req.run = r
        /\ x.req.first = from /\ x.req.next = from + Len(p) /\ x.req.events = p
    BY <1>4, NewRowType
  <2>. QED  BY <1>3, <2>1
<1>6. queue' = Append(queue, x)
  BY <1>3, <1>4
<1>7. /\ queue' \in Seq(Rows) /\ DOMAIN queue = 1 .. Len(queue) /\ Len(queue) \in Nat
      /\ DOMAIN queue' = 1 .. Len(queue) + 1 /\ queue'[Len(queue) + 1] = x
      /\ \A i \in DOMAIN queue : i \in DOMAIN queue' /\ queue'[i] = queue[i]
  BY <1>5, <1>6, Appended
<1>8. MapsExtend
  <2>1. ASSUME NEW s \in Run PROVE up'[s].map = up[s].map \o << >>
    BY <1>2
  <2>2. << >> \in Seq(Nat)
    OBVIOUS
  <2>. QED  BY <2>1, <2>2 DEF MapsExtend
<1>9. Sound(x.req)'
  <2>1. up'[r].map = up[r].map /\ to <= Len(up'[r].map) /\ from <= to /\ nextOp < nextOp'
    BY <1>0, <1>1, <1>2 DEF Requeues
  <2>. QED  BY <1>3, <1>5, <2>1 DEF Sound
<1>10. KnownInv'
  BY <1>0, <1>5, <1>6, <1>8, <1>9, KnownGrows DEF DataInv
<1>11. \A i \in DOMAIN queue : /\ queue[i].req \in Request /\ queue[i].req.run \in Run
                               /\ Sound(queue[i].req)
  BY StoredRow DEF DataInv, KnownInv, Known, Queued
<1>12. QueueInv'
  <2>1. ASSUME NEW i \in DOMAIN queue'
        PROVE  up'[queue'[i].req.run].acked <= queue'[i].req.first
    <3>1. CASE i \in DOMAIN queue
      <4>1. PICK s \in Run : s = queue[i].req.run
        BY <1>11, <3>1
      <4>2. PICK f \in Nat : f = queue[i].req.first
        BY <1>11, <3>1 DEF Request
      <4>3. up[s].acked <= f
        BY <3>1, <4>1, <4>2 DEF DataInv, QueueInv
      <4>4. up'[s].acked <= f
        BY <1>2, <4>3
      <4>. QED  BY <1>7, <3>1, <4>1, <4>2, <4>4
    <3>2. CASE i = Len(queue) + 1
      BY <1>0, <1>5, <1>7, <3>2
    <3>. QED  BY <1>7, <3>1, <3>2
  <2>2. ASSUME NEW i \in DOMAIN queue', NEW j \in DOMAIN queue', i < j
        PROVE  /\ queue'[i].req.op # queue'[j].req.op
               /\ queue'[i].req.run = queue'[j].req.run => InOrder(queue'[i].req, queue'[j].req)
    <3>1. i \in DOMAIN queue
      BY <1>7, <2>2
    <3>2. CASE j \in DOMAIN queue
      BY <1>7, <2>2, <3>1, <3>2 DEF DataInv, QueueInv
    <3>3. CASE j = Len(queue) + 1
      <4>1. queue[i].req.op < nextOp /\ queue[i].req.op \in Nat
        BY <1>11, <3>1 DEF Sound, Request
      <4>2. queue'[i] = queue[i] /\ queue'[j] = x
        BY <1>7, <3>1, <3>3
      <4>3. queue[i].req.run = r => InOrder(queue[i].req, x.req)
        BY <1>0, <1>5, <3>1 DEF InOrder
      <4>. QED  BY <1>1, <1>5, <4>1, <4>2, <4>3
    <3>. QED  BY <1>7, <3>2, <3>3
  <2>. QED  BY <2>1, <2>2 DEF QueueInv
<1>13. \A s \in Run, n \in Nat :
         (\E i \in DOMAIN queue : queue[i].req.run = s /\ Covers(queue[i].req, n)) =>
            \E i \in DOMAIN queue' : queue'[i].req.run = s /\ Covers(queue'[i].req, n)
  BY <1>7
<1>14. CoverInv'
  <2>. SUFFICES ASSUME NEW s \in Run, NEW n \in Nat, up'[s].acked <= n, n < Len(up[s].map)
                PROVE  \/ Position(server[s]) <= n
                       \/ \E i \in DOMAIN queue : queue[i].req.run = s /\ Covers(queue[i].req, n)
    BY <1>0, <1>2, <1>13 DEF CoverInv
  <2>1. up[s].acked <= n \/ Position(server[s]) <= n
    BY <1>0 DEF Lowers
  <2>. QED  BY <2>1 DEF DataInv, CoverInv
<1>15. DroppedInv'
  BY <1>0, <1>2, <1>13 DEF DataInv, DroppedInv
<1>16. NetInv' /\ ServerInv'
  <2>1. \A y : Queued(y) => Queued(y)'
    BY <1>7 DEF Queued
  <2>. QED  BY <1>0, <2>1 DEF DataInv, NetInv, Served, ServerInv
<1>17. MapInv'
  <2>1. ASSUME NEW s \in Run PROVE Lists(up'[s], local[s]) /\ Blank(up'[s])
    <3>1. Lists(up[s], local[s]) /\ Blank(up[s])
      BY DEF DataInv, MapInv
    <3>2. /\ up'[s].row = up[s].row /\ up'[s].origin = up[s].origin
          /\ up'[s].map = up[s].map /\ up'[s].last = up[s].last
          /\ up'[s].acked <= up[s].acked /\ up'[s].acked \in Nat /\ up[s].acked \in Nat
      BY <1>0, <1>2 DEF Lowers
    <3>3. PICK n \in Nat : n = Len(up[s].map)
      BY <1>2
    <3>4. Lists(up'[s], local[s])
      BY <3>1, <3>2, <3>3 DEF Lists
    <3>5. Blank(up'[s])
      <4>1. up[s].acked = 0 => up'[s].acked = 0
        BY <3>2
      <4>. QED  BY <3>1, <3>2, <4>1 DEF Blank
    <3>. QED  BY <3>4, <3>5
  <2>. QED  BY <1>0, <2>1 DEF MapInv
<1>18. Typed'
  <2>1. StoreTypes'
    <3>1. nextOp' \in Nat
      BY <1>0, <1>1
    <3>. QED  BY <1>0, <1>1, <1>7, <3>1 DEF Typed, StoreTypes
  <2>2. RemoteTypes'
    BY <1>0 DEF Typed, RemoteTypes
  <2>. QED  BY <2>1, <2>2 DEF Typed
<1>. QED  BY <1>10, <1>12, <1>14, <1>15, <1>16, <1>17, <1>18 DEF DataInv

LEMMA RepairStep ==
  ASSUME OutboxInv, RepairGap, daemon' \in Daemon, faults' \in 0 .. MaxFaults
  PROVE  Typed' /\ DataInv'
<1>. DEFINE q == daemon.upload
            r == q.run
            from == daemon.gap
            to == Lesser(q.first, from + BatchLimit)
<1>0. Typed /\ DataInv
  BY DEF OutboxInv
<1>1. /\ q \in Request /\ r \in Run /\ Sound(q)
      /\ from \in Nat /\ to \in Nat /\ from < to /\ to <= q.first
      /\ Position(server[r]) <= from
  BY GapRead
<1>2. \E k \in DOMAIN queue : queue[k].req = q /\ Leads(queue, k)
  BY GapRead
<1>3. UNCHANGED <<local, snapshot, net, server, high>>
  BY DEF RepairGap, remote
<1>4. up \in [Run -> UpRow] /\ queue \in Seq(Rows) /\ nextOp \in Nat /\ up[r] \in UpRow
  BY <1>0, <1>1 DEF Typed, StoreTypes
<1>5. Lowers /\ up'[r].acked <= from
  <2>. DEFINE a == Lesser(up[r].acked, from)
              v == [up[r] EXCEPT !.acked = a]
              w == [up[r] EXCEPT !.acked = a, !.incomplete = "outbox_overflow"]
  <2>1. up' = [up EXCEPT ![r] = v] \/ up' = [up EXCEPT ![r] = w]
    <3>1. \/ up' = [Lowered(r, from) EXCEPT ![r].incomplete = "outbox_overflow"]
          \/ up' = Lowered(r, from)
      BY DEF RepairGap
    <3>2. Lowered(r, from) = [up EXCEPT ![r] = v]
      BY DEF Lowered
    <3>3. [[up EXCEPT ![r] = v] EXCEPT ![r].incomplete = "outbox_overflow"] = [up EXCEPT ![r] = w]
      <4>1. [v EXCEPT !.incomplete = "outbox_overflow"] = w
        BY <1>4 DEF UpRow
      <4>. HIDE DEF v, w
      <4>. QED  BY <1>1, <1>4, <4>1
    <3>. QED  BY <3>1, <3>2, <3>3
  <2>2. a \in Nat /\ a <= up[r].acked /\ a <= from /\ (a = up[r].acked \/ a = from)
        /\ up[r].acked \in Nat
    BY <1>1, <1>4 DEF Lesser, UpRow
  <2>3. "outbox_overflow" \in Reasons
    BY DEF Reasons
  <2>. HIDE DEF a
  <2>4. /\ v \in UpRow /\ v.row = up[r].row /\ v.origin = up[r].origin /\ v.map = up[r].map
        /\ v.last = up[r].last /\ v.acked = a
    BY <1>4, <2>2 DEF UpRow
  <2>5. /\ w \in UpRow /\ w.row = up[r].row /\ w.origin = up[r].origin /\ w.map = up[r].map
        /\ w.last = up[r].last /\ w.acked = a
    BY <1>4, <2>2, <2>3 DEF UpRow
  <2>. HIDE DEF v, w, r, from
  <2>6. PICK x : /\ up' = [up EXCEPT ![r] = x] /\ x \in UpRow
                 /\ x.row = up[r].row /\ x.origin = up[r].origin /\ x.map = up[r].map
                 /\ x.last = up[r].last /\ x.acked = a
    BY <2>1, <2>4, <2>5
  <2>7. up' \in [Run -> UpRow] /\ up'[r] = x /\ \A s \in Run \ {r} : up'[s] = up[s]
    BY <1>1, <1>4, <2>6
  <2>8. \A n \in Nat : a <= n => up[r].acked <= n \/ Position(server[r]) <= n
    <3>1. Position(server[r]) \in Nat
      BY <1>0, <1>1, PositionType
    <3>. QED  BY <1>1, <2>2, <3>1
  <2>9. \A s \in Run \ {r} : up[s].acked \in Nat
    BY <1>4 DEF UpRow
  <2>. QED  BY <2>2, <2>6, <2>7, <2>8, <2>9 DEF Lowers
<1>6. CASE queue' = Later(daemon.upload.op) /\ nextOp' = nextOp
  <2>1. Keeps(queue, queue') /\ net' \subseteq Calls
    BY <1>0, <1>3, <1>6, LaterKeeps, KeepsSelf
  <2>2. TakesBack
    BY <1>3, <1>5, <1>6, <2>1 DEF TakesBack
  <2>. QED  BY <1>0, <2>2, TakeBackStep
<1>7. CASE /\ queue' = Append(queue, NewRow(r, from, Missing(r, from, to)))
           /\ nextOp' = nextOp + 1
  <2>. HIDE DEF r, from, to, q
  <2>1. PICK s \in Run, a \in Nat, b \in Nat : s = r /\ a = from /\ b = to
    BY <1>1
  <2>3. a < b /\ b <= Len(up[s].map)
    <3>1. /\ q.next <= Len(up[s].map) /\ q.first <= q.next /\ q.first \in Nat /\ q.next \in Nat
      BY <1>1, <2>1 DEF Sound, Request, r
    <3>2. Len(up[s].map) \in Nat
      BY <1>4, <2>1 DEF UpRow
    <3>. QED  BY <1>1, <2>1, <3>1, <3>2
  <2>4. queue' = Append(queue, NewRow(s, a, SubSeq(up[s].map, a + 1, b)))
    BY <1>7, <2>1 DEF Missing
  <2>5. ASSUME NEW i \in DOMAIN queue, queue[i].req.run = s PROVE b <= queue[i].req.first
    <3>1. queue[i].req.first \in Nat /\ q.first \in Nat
      BY <1>0, <1>1, StoredRow DEF Request
    <3>2. q.first <= queue[i].req.first
      BY <1>2, <2>1, <2>5, <3>1 DEF Leads, r
    <3>. QED  BY <1>1, <2>1, <3>1, <3>2
  <2>6. Requeues(s, a, b)
    BY <1>3, <1>5, <1>7, <2>1, <2>3, <2>4, <2>5 DEF Requeues
  <2>. QED  BY <1>0, <2>6, RequeueStep
<1>. QED  BY <1>6, <1>7 DEF RepairGap

-----------------------------------------------------------------------------
(* The step that removes a request.                                         *)

LEMMA RemoveAtRows ==
  ASSUME NEW S, NEW s \in Seq(S), NEW k \in DOMAIN s
  PROVE  LET t == RemoveAt(s, k)
         IN  /\ t \in Seq(S) /\ Len(t) = Len(s) - 1
             /\ \A i \in 1 .. Len(s) - 1 : t[i] = IF i < k THEN s[i] ELSE s[i + 1]
<1>1. Len(s) \in Nat /\ DOMAIN s = 1 .. Len(s) /\ k \in 1 .. Len(s)
  OBVIOUS
<1>. DEFINE a == SubSeq(s, 1, k - 1)
            b == SubSeq(s, k + 1, Len(s))
<1>2. a \in Seq(S) /\ Len(a) = k - 1 /\ \A i \in 1 .. k - 1 : a[i] = s[i]
  BY <1>1
<1>3. b \in Seq(S) /\ Len(b) = Len(s) - k /\ \A i \in 1 .. Len(s) - k : b[i] = s[k + i]
  BY <1>1
<1>4. RemoveAt(s, k) = a \o b
  BY DEF RemoveAt
<1>. HIDE DEF a, b
<1>5. a \o b \in Seq(S) /\ Len(a \o b) = Len(s) - 1
  <2>1. a \in Seq(S) /\ b \in Seq(S)
    BY <1>2, <1>3
  <2>2. a \o b \in Seq(S) /\ Len(a \o b) = Len(a) + Len(b)
    BY <2>1
  <2>. QED  BY <1>1, <1>2, <1>3, <2>2
<1>6. ASSUME NEW i \in 1 .. Len(s) - 1
      PROVE  (a \o b)[i] = IF i < k THEN s[i] ELSE s[i + 1]
  <2>1. CASE i < k
    BY <1>1, <1>2, <1>3, <2>1
  <2>2. CASE ~(i < k)
    <3>1. i - (k - 1) \in 1 .. Len(s) - k /\ k + (i - (k - 1)) = i + 1
      BY <1>1, <2>2
    <3>2. (a \o b)[i] = b[i - (k - 1)]
      BY <1>1, <1>2, <1>3, <2>2
    <3>. QED  BY <1>3, <2>2, <3>1, <3>2
  <2>. QED  BY <2>1, <2>2
<1>. QED  BY <1>4, <1>5, <1>6

(* The rows that stay keep their order. *)
LEMMA RowsThatStay ==
  ASSUME Typed, NEW k \in DOMAIN queue, queue' = RemoveAt(queue, k)
  PROVE  /\ queue' \in Seq(Rows)
         /\ \A i \in DOMAIN queue' : \E m \in DOMAIN queue \ {k} :
              queue'[i] = queue[m] /\ m = IF i < k THEN i ELSE i + 1
         /\ \A m \in DOMAIN queue \ {k} : \E i \in DOMAIN queue' :
              queue'[i] = queue[m] /\ m = IF i < k THEN i ELSE i + 1
<1>1. /\ queue \in Seq(Rows) /\ Len(queue) \in Nat /\ DOMAIN queue = 1 .. Len(queue)
      /\ k \in 1 .. Len(queue)
  BY DEF Typed, StoreTypes
<1>2. /\ queue' \in Seq(Rows) /\ Len(queue') = Len(queue) - 1
      /\ \A i \in 1 .. Len(queue) - 1 : queue'[i] = IF i < k THEN queue[i] ELSE queue[i + 1]
  <2>1. PICK s \in Seq(Rows) : s = queue
    BY <1>1
  <2>2. /\ RemoveAt(s, k) \in Seq(Rows) /\ Len(RemoveAt(s, k)) = Len(s) - 1
        /\ \A i \in 1 .. Len(s) - 1 : RemoveAt(s, k)[i] = IF i < k THEN s[i] ELSE s[i + 1]
    BY <2>1, RemoveAtRows
  <2>. QED  BY <2>1, <2>2
<1>3. DOMAIN queue' = 1 .. Len(queue) - 1
  BY <1>2
<1>4. ASSUME NEW i \in DOMAIN queue'
      PROVE  \E m \in DOMAIN queue \ {k} :
               queue'[i] = queue[m] /\ m = IF i < k THEN i ELSE i + 1
  <2>1. i \in 1 .. Len(queue) - 1
    BY <1>3
  <2>2. CASE i < k
    <3>1. i \in DOMAIN queue \ {k} /\ queue'[i] = queue[i]
      BY <1>1, <1>2, <2>1, <2>2
    <3>. QED  BY <2>2, <3>1
  <2>3. CASE ~(i < k)
    <3>1. i + 1 \in DOMAIN queue \ {k} /\ queue'[i] = queue[i + 1]
      BY <1>1, <1>2, <2>1, <2>3
    <3>. QED  BY <2>3, <3>1
  <2>. QED  BY <2>2, <2>3
<1>5. ASSUME NEW m \in DOMAIN queue \ {k}
      PROVE  \E i \in DOMAIN queue' :
               queue'[i] = queue[m] /\ m = IF i < k THEN i ELSE i + 1
  <2>1. m \in 1 .. Len(queue) /\ m # k
    BY <1>1
  <2>2. CASE m < k
    <3>1. m \in DOMAIN queue' /\ queue'[m] = queue[m]
      BY <1>1, <1>2, <1>3, <2>1, <2>2
    <3>. QED  BY <2>2, <3>1
  <2>3. CASE ~(m < k)
    <3>1. m - 1 \in 1 .. Len(queue) - 1 /\ ~(m - 1 < k) /\ m - 1 + 1 = m
      BY <1>1, <2>1, <2>3
    <3>2. queue'[m - 1] = queue[m]
      BY <1>2, <3>1
    <3>. QED  BY <1>3, <3>1, <3>2
  <2>. QED  BY <2>2, <2>3
<1>. QED  BY <1>2, <1>4, <1>5

(* What acknowledge does to the tables. *)
Acknowledges(k) ==
  LET q == queue[k].req IN
  /\ Leads(queue, k) /\ queue' = RemoveAt(queue, k)
  /\ up[q.run].acked = q.first /\ q.next <= high[q.run]
  /\ \A c \in net : c.req = q => Served(q)
  /\ up' \in [Run -> UpRow]
  /\ \A r \in Run :
       /\ up'[r].row = up[r].row /\ up'[r].origin = up[r].origin
       /\ up'[r].map = up[r].map /\ up'[r].last = up[r].last
       /\ up'[r].acked = IF r = q.run THEN q.next ELSE up[r].acked
  /\ UNCHANGED <<local, snapshot, nextOp, net, server, high>>

LEMMA AckRead ==
  ASSUME OutboxInv, Acknowledge
  PROVE  \E k \in DOMAIN queue : queue[k].req = daemon.upload /\ Acknowledges(k)
<1>. DEFINE q == daemon.upload
<1>1. daemon.at = "answered" /\ daemon.answer = "ack"
  BY DEF Acknowledge
<1>2. PICK k \in DOMAIN queue : queue[k].req = q /\ Leads(queue, k)
  BY <1>1 DEF OutboxInv, PickedInv
<1>3. /\ queue \in Seq(Rows) /\ up \in [Run -> UpRow] /\ DOMAIN queue = 1 .. Len(queue)
      /\ q \in Request /\ q.run \in Run /\ q.next \in Nat
  BY <1>2, StoredRow DEF OutboxInv, Typed, StoreTypes, Request
<1>4. /\ up[q.run].acked = q.first /\ q.next <= high[q.run]
      /\ \A c \in net : c.req = q => Served(q)
  BY <1>1 DEF OutboxInv, AnswerInv
<1>5. queue' = RemoveAt(queue, k)
  <2>1. PICK i \in Index(q.op) : queue' = RemoveAt(queue, i)
    BY DEF Acknowledge
  <2>2. i \in DOMAIN queue /\ queue[i].req.op = q.op
    BY <2>1 DEF Index
  <2>3. i < k => queue[i].req.op # queue[k].req.op
    BY <2>2 DEF OutboxInv, DataInv, QueueInv
  <2>4. k < i => queue[k].req.op # queue[i].req.op
    BY <2>2 DEF OutboxInv, DataInv, QueueInv
  <2>5. i = k
    BY <1>2, <1>3, <2>2, <2>3, <2>4
  <2>. QED  BY <2>1, <2>5
<1>6. /\ up' \in [Run -> UpRow]
      /\ \A r \in Run :
           /\ up'[r].row = up[r].row /\ up'[r].origin = up[r].origin
           /\ up'[r].map = up[r].map /\ up'[r].last = up[r].last
           /\ up'[r].acked = IF r = q.run THEN q.next ELSE up[r].acked
  <2>. DEFINE s == IF up[q.run].incomplete \in {"registration_denied",
                                                "needs_current_acceptance", "re-enroll"}
                   THEN "" ELSE up[q.run].incomplete
              v == [up[q.run] EXCEPT !.acked = q.next, !.incomplete = s]
  <2>1. up' = [up EXCEPT ![q.run] = v]
    <3>1. up' = [up EXCEPT ![q.run].acked = q.next,
                      ![q.run].incomplete =
                         IF @ \in {"registration_denied", "needs_current_acceptance", "re-enroll"}
                         THEN "" ELSE @]
      BY DEF Acknowledge
    <3>. QED  BY <1>3, <3>1
  <2>2. up[q.run] \in UpRow
    BY <1>3
  <2>3. s \in Reasons
    BY <2>2 DEF UpRow, Reasons
  <2>. HIDE DEF s, q
  <2>4. /\ v \in UpRow /\ v.row = up[q.run].row /\ v.origin = up[q.run].origin
        /\ v.map = up[q.run].map /\ v.last = up[q.run].last /\ v.acked = q.next
    BY <1>3, <2>2, <2>3 DEF UpRow
  <2>. HIDE DEF v
  <2>5. up' \in [Run -> UpRow] /\ up'[q.run] = v /\ \A r \in Run \ {q.run} : up'[r] = up[r]
    BY <1>3, <2>1, <2>4
  <2>. QED  BY <2>4, <2>5
<1>7. UNCHANGED <<local, snapshot, nextOp, net, server, high>>
  BY DEF Acknowledge, remote
<1>8. Acknowledges(k)
  BY <1>2, <1>4, <1>5, <1>6, <1>7 DEF Acknowledges
<1>. QED  BY <1>2, <1>8

LEMMA AckStep ==
  ASSUME Typed, DataInv, NEW k \in DOMAIN queue, Acknowledges(k),
         daemon' \in Daemon, faults' \in 0 .. MaxFaults
  PROVE  Typed' /\ DataInv'
<1>. DEFINE q == queue[k].req
<1>1. /\ q \in Request /\ q.run \in Run /\ q.first \in Nat /\ q.next \in Nat
      /\ Sound(q) /\ q.first <= q.next
  <2>1. q \in Request /\ q.run \in Run
    BY StoredRow
  <2>2. Sound(q)
    BY <2>1 DEF DataInv, KnownInv, Known, Queued
  <2>. QED  BY <2>1, <2>2 DEF Request, Sound
<1>2. /\ Leads(queue, k) /\ queue' = RemoveAt(queue, k)
      /\ up[q.run].acked = q.first /\ q.next <= high[q.run]
      /\ \A c \in net : c.req = q => Served(q)
      /\ UNCHANGED <<local, snapshot, nextOp, net, server, high>>
  BY DEF Acknowledges
<1>3. /\ up \in [Run -> UpRow] /\ up' \in [Run -> UpRow]
      /\ \A r \in Run :
           /\ up'[r].row = up[r].row /\ up'[r].origin = up[r].origin
           /\ up'[r].map = up[r].map /\ up'[r].last = up[r].last
           /\ up'[r].acked = IF r = q.run THEN q.next ELSE up[r].acked
           /\ up[r].acked \in Nat /\ Len(up[r].map) \in Nat
  <2>1. up \in [Run -> UpRow] /\ \A u \in UpRow : u.acked \in Nat /\ Len(u.map) \in Nat
    BY DEF UpRow, Typed, StoreTypes
  <2>. QED  BY <2>1 DEF Acknowledges
<1>4. /\ queue' \in Seq(Rows)
      /\ \A i \in DOMAIN queue' : \E m \in DOMAIN queue \ {k} :
           queue'[i] = queue[m] /\ m = IF i < k THEN i ELSE i + 1
      /\ \A m \in DOMAIN queue \ {k} : \E i \in DOMAIN queue' :
           queue'[i] = queue[m] /\ m = IF i < k THEN i ELSE i + 1
  BY <1>2, RowsThatStay
<1>5. \A m \in DOMAIN queue : /\ m \in Nat /\ queue[m].req \in Request
                              /\ queue[m].req.run \in Run /\ Sound(queue[m].req)
                              /\ queue[m].req.first \in Nat /\ queue[m].req.next \in Nat
                              /\ queue[m].req.first <= queue[m].req.next
  <2>1. \A m \in DOMAIN queue : m \in Nat
    BY DEF Typed, StoreTypes
  <2>2. \A m \in DOMAIN queue : queue[m].req \in Request /\ queue[m].req.run \in Run
    BY StoredRow
  <2>3. \A m \in DOMAIN queue : Sound(queue[m].req)
    BY <2>2 DEF DataInv, KnownInv, Known, Queued
  <2>. QED  BY <2>1, <2>2, <2>3 DEF Sound, Request
<1>6. ASSUME NEW m \in DOMAIN queue \ {k}, queue[m].req.run = q.run
      PROVE  q.next <= queue[m].req.first
  <2>1. \/ q.first < queue[m].req.first
        \/ q.first = queue[m].req.first /\ k <= m
    BY <1>2, <1>6 DEF Leads
  <2>2. k < m => InOrder(q, queue[m].req)
    BY <1>6 DEF DataInv, QueueInv
  <2>3. m < k => InOrder(queue[m].req, q)
    BY <1>6 DEF DataInv, QueueInv
  <2>4. m \in Nat /\ k \in Nat /\ m # k
    BY <1>5
  <2>5. /\ queue[m].req.first \in Nat /\ queue[m].req.next \in Nat
        /\ queue[m].req.first <= queue[m].req.next
    BY <1>5
  <2>. HIDE DEF q
  <2>6. CASE k < m
    BY <1>1, <2>1, <2>2, <2>5, <2>6 DEF InOrder
  <2>7. CASE m < k
    BY <1>1, <2>1, <2>3, <2>4, <2>5, <2>7 DEF InOrder
  <2>. QED  BY <2>4, <2>6, <2>7
<1>. HIDE DEF q
<1>7. \A x : Queued(x)' => Queued(x)
  BY <1>4 DEF Queued
<1>8. \A x : Queued(x) => Queued(x)' \/ x = q
  BY <1>4 DEF Queued, q
<1>9. \A x \in Request : Known(x)' => Known(x)
  BY <1>2, <1>7 DEF Known
<1>10. KnownInv'
  <2>1. \A x \in Request : Sound(x) => Sound(x)'
    <3>1. \A x \in Request : x.run \in Run
      BY DEF Request
    <3>. QED  BY <1>2, <1>3, <3>1 DEF Sound
  <2>. QED  BY <1>9, <2>1 DEF DataInv, KnownInv
<1>11. QueueInv'
  <2>1. ASSUME NEW i \in DOMAIN queue'
        PROVE  up'[queue'[i].req.run].acked <= queue'[i].req.first
    <3>1. PICK m \in DOMAIN queue \ {k} : queue'[i] = queue[m]
      BY <1>4
    <3>2. up[queue[m].req.run].acked <= queue[m].req.first
      BY DEF DataInv, QueueInv
    <3>3. PICK r \in Run : r = queue[m].req.run
      BY <1>5
    <3>4. up'[r].acked <= queue[m].req.first
      BY <1>3, <1>6, <3>2, <3>3
    <3>. QED  BY <3>1, <3>3, <3>4
  <2>2. ASSUME NEW i \in DOMAIN queue', NEW j \in DOMAIN queue', i < j
        PROVE  /\ queue'[i].req.op # queue'[j].req.op
               /\ queue'[i].req.run = queue'[j].req.run => InOrder(queue'[i].req, queue'[j].req)
    <3>1. PICK m \in DOMAIN queue \ {k} : queue'[i] = queue[m] /\ m = IF i < k THEN i ELSE i + 1
      BY <1>4
    <3>2. PICK n \in DOMAIN queue \ {k} : queue'[j] = queue[n] /\ n = IF j < k THEN j ELSE j + 1
      BY <1>4
    <3>3. i \in Nat /\ j \in Nat /\ k \in Nat
      <4>1. DOMAIN queue' = 1 .. Len(queue') /\ Len(queue') \in Nat
        BY <1>4
      <4>2. k \in Nat
        BY <1>5
      <4>. QED  BY <4>1, <4>2
    <3>4. m < n
      BY <2>2, <3>1, <3>2, <3>3
    <3>. QED  BY <3>1, <3>2, <3>4 DEF DataInv, QueueInv
  <2>. QED  BY <2>1, <2>2 DEF QueueInv
<1>12. \A r \in Run, n \in Nat :
         (\E i \in DOMAIN queue : queue[i].req.run = r /\ Covers(queue[i].req, n)) =>
            \/ r = q.run /\ n < q.next
            \/ \E i \in DOMAIN queue' : queue'[i].req.run = r /\ Covers(queue'[i].req, n)
  BY <1>4 DEF Covers, q
<1>13. CoverInv'
  <2>. SUFFICES ASSUME NEW r \in Run, NEW n \in Nat, up'[r].acked <= n, n < Len(up[r].map)
                PROVE  \/ Position(server[r]) <= n
                       \/ \E i \in DOMAIN queue' : queue'[i].req.run = r /\ Covers(queue'[i].req, n)
    BY <1>2, <1>3 DEF CoverInv
  <2>1. up[r].acked <= n /\ (r = q.run => ~(n < q.next))
    BY <1>1, <1>2, <1>3
  <2>. QED  BY <1>12, <2>1 DEF DataInv, CoverInv
<1>14. DroppedInv'
  <2>. SUFFICES ASSUME NEW r \in Run, NEW n \in Nat, high[r] <= n, n < Len(up[r].map)
                PROVE  \E i \in DOMAIN queue' : queue'[i].req.run = r /\ Covers(queue'[i].req, n)
    BY <1>2, <1>3 DEF DroppedInv
  <2>1. r = q.run => ~(n < q.next)
    <3>1. high[r] \in Nat
      BY DEF Typed, RemoteTypes
    <3>. QED  BY <1>1, <1>2, <3>1
  <2>. QED  BY <1>12, <2>1 DEF DataInv, DroppedInv
<1>15. NetInv'
  <2>1. \A c \in net : Queued(c.req)' \/ Served(c.req)
    BY <1>2, <1>8 DEF DataInv, NetInv
  <2>. QED  BY <1>2, <2>1 DEF NetInv, Served
<1>16. ServerInv'
  BY <1>2 DEF DataInv, ServerInv
<1>17. MapInv'
  <2>1. ASSUME NEW r \in Run PROVE Lists(up'[r], local[r]) /\ Blank(up'[r])
    <3>1. Lists(up[r], local[r]) /\ Blank(up[r])
      BY DEF DataInv, MapInv
    <3>2. up'[r].acked <= Len(up[r].map)
      BY <1>1, <1>3, <3>1 DEF Sound, Lists
    <3>3. Lists(up'[r], local[r])
      BY <1>3, <3>1, <3>2 DEF Lists
    <3>4. Blank(up'[r])
      <4>1. CASE r = q.run
        <5>1. ~up[r].row => q.next <= 0
          BY <1>1, <3>1, <4>1 DEF Sound, Blank
        <5>. QED  BY <1>1, <1>3, <3>1, <4>1, <5>1 DEF Blank
      <4>2. CASE r # q.run
        BY <1>3, <3>1, <4>2 DEF Blank
      <4>. QED  BY <4>1, <4>2
    <3>. QED  BY <3>3, <3>4
  <2>. QED  BY <1>2, <2>1 DEF MapInv
<1>18. Typed'
  <2>1. StoreTypes'
    BY <1>2, <1>3, <1>4 DEF Typed, StoreTypes
  <2>2. RemoteTypes'
    BY <1>2 DEF Typed, RemoteTypes
  <2>. QED  BY <2>1, <2>2 DEF Typed
<1>. QED  BY <1>10, <1>11, <1>13, <1>14, <1>15, <1>16, <1>17, <1>18 DEF DataInv

-----------------------------------------------------------------------------
(* The steps of the server.                                                 *)

Forward(s) == \A i \in DOMAIN s : s[i].first <= s[i].next

LEMMA ServedForward ==
  ASSUME Typed, KnownInv, NEW r \in Run
  PROVE  /\ server[r] \in Seq(Request) /\ Forward(server[r])
         /\ \A i \in DOMAIN server[r] : server[r][i] \in Request
<1>1. server[r] \in Seq(Request)
  BY DEF Typed, RemoteTypes
<1>2. ASSUME NEW i \in DOMAIN server[r]
      PROVE  server[r][i] \in Request /\ server[r][i].first <= server[r][i].next
  <2>1. server[r][i] \in Request
    BY <1>1
  <2>2. Known(server[r][i])
    BY DEF Known
  <2>. QED  BY <2>1, <2>2 DEF KnownInv, Sound
<1>. QED  BY <1>1, <1>2 DEF Forward

LEMMA LastPosition ==
  ASSUME NEW s \in Seq(Request)
  PROVE  /\ s = << >> => Position(s) = 0
         /\ s # << >> => /\ Len(s) \in DOMAIN s /\ Position(s) = s[Len(s)].next
                         /\ Position(s) \in Nat
<1>1. ASSUME s # << >> PROVE Len(s) \in DOMAIN s /\ s[Len(s)] \in Request
  BY <1>1
<1>. QED  BY <1>1 DEF Position, Last, Request

LEMMA ChainGrows ==
  ASSUME NEW r, NEW s \in Seq(Request), NEW q \in Request,
         Chain(s, r), Forward(s), q.run = r, q.first = Position(s), q.first <= q.next
  PROVE  Chain(Append(s, q), r) /\ Position(Append(s, q)) = q.next
<1>. DEFINE t == Append(s, q)
<1>1. /\ t \in Seq(Request) /\ Len(s) \in Nat /\ DOMAIN s = 1 .. Len(s)
      /\ Len(t) = Len(s) + 1 /\ DOMAIN t = 1 .. Len(s) + 1 /\ t[Len(s) + 1] = q
      /\ \A i \in 1 .. Len(s) : t[i] = s[i]
  OBVIOUS
<1>. HIDE DEF t
<1>2. /\ q.first \in Nat /\ q.next \in Nat
      /\ \A i \in 1 .. Len(s) : s[i].first \in Nat /\ s[i].next \in Nat
  <2>1. \A x \in Request : x.first \in Nat /\ x.next \in Nat
    BY DEF Request
  <2>2. \A i \in 1 .. Len(s) : s[i] \in Request
    OBVIOUS
  <2>. QED  BY <2>1, <2>2
<1>3. Position(t) = q.next
  <2>1. t # << >>
    BY <1>1
  <2>. QED  BY <1>1, <2>1, LastPosition
<1>4. \A i \in 1 .. Len(s) : s[i].next <= q.first
  <2>. SUFFICES ASSUME NEW i \in 1 .. Len(s)
                PROVE  s[i].next <= q.first
    OBVIOUS
  <2>1. Len(s) \in DOMAIN s /\ q.first = s[Len(s)].next
    <3>1. s # << >>
      BY <1>1
    <3>. QED  BY <3>1, LastPosition
  <2>2. CASE i = Len(s)
    BY <1>2, <2>1, <2>2
  <2>3. CASE i # Len(s)
    <3>1. s[i].next <= s[Len(s)].first
      <4>1. i \in DOMAIN s
        BY <1>1
      <4>2. PICK l \in Nat : l = Len(s)
        BY <1>1
      <4>3. i < Len(s)
        BY <2>3, <4>2
      <4>. QED  BY <2>1, <4>1, <4>3 DEF Chain
    <3>2. s[Len(s)].first <= s[Len(s)].next
      BY <2>1 DEF Forward
    <3>3. Len(s) \in 1 .. Len(s)
      BY <1>1, <2>1
    <3>. QED  BY <1>2, <2>1, <3>1, <3>2, <3>3
  <2>. QED  BY <2>2, <2>3
<1>5. \A i \in DOMAIN t : t[i].run = r
  BY <1>1 DEF Chain
<1>6. ASSUME NEW i \in DOMAIN t, NEW j \in DOMAIN t, i < j
      PROVE  t[i].next <= t[j].first
  <2>1. i \in 1 .. Len(s)
    BY <1>1, <1>6
  <2>2. CASE j \in 1 .. Len(s)
    BY <1>1, <1>6, <2>1, <2>2 DEF Chain
  <2>3. CASE j = Len(s) + 1
    BY <1>1, <1>4, <2>1, <2>3
  <2>. QED  BY <1>1, <2>2, <2>3
<1>7. ASSUME NEW m \in DOMAIN t, NEW n \in Nat, n < t[m].next
      PROVE  \E i \in 1 .. m : Covers(t[i], n)
  <2>1. CASE m \in 1 .. Len(s)
    <3>1. PICK i \in 1 .. m : Covers(s[i], n)
      BY <1>1, <1>7, <2>1 DEF Chain
    <3>2. i \in 1 .. Len(s)
      BY <1>1, <2>1, <3>1
    <3>. QED  BY <1>1, <3>1, <3>2
  <2>2. CASE m = Len(s) + 1 /\ q.first <= n
    <3>1. Covers(t[m], n)
      BY <1>1, <1>7, <2>2 DEF Covers
    <3>. QED  BY <1>1, <2>2, <3>1
  <2>3. CASE m = Len(s) + 1 /\ n < q.first
    <3>1. s # << >>
      BY <2>3, LastPosition
    <3>2. Len(s) \in DOMAIN s /\ n < s[Len(s)].next
      BY <2>3, <3>1, LastPosition
    <3>3. PICK i \in 1 .. Len(s) : Covers(s[i], n)
      BY <3>2 DEF Chain
    <3>4. i \in 1 .. m
      BY <1>1, <2>3, <3>3
    <3>. QED  BY <1>1, <3>3, <3>4
  <2>. QED  BY <1>1, <1>2, <2>1, <2>2, <2>3
<1>8. Chain(t, r)
  BY <1>5, <1>6, <1>7 DEF Chain
<1>. QED  BY <1>3, <1>8 DEF t

LEMMA ChainShrinks ==
  ASSUME NEW r, NEW s \in Seq(Request), NEW k \in 0 .. Len(s) - 1, Chain(s, r), Forward(s)
  PROVE  LET t == SubSeq(s, 1, k)
         IN  /\ t \in Seq(Request) /\ Chain(t, r) /\ Position(t) <= Position(s)
             /\ \A i \in DOMAIN t : i \in DOMAIN s /\ t[i] = s[i]
<1>. DEFINE t == SubSeq(s, 1, k)
<1>1. /\ t \in Seq(Request) /\ Len(s) \in Nat /\ DOMAIN s = 1 .. Len(s)
      /\ k \in Nat /\ k < Len(s) /\ Len(t) = k /\ DOMAIN t = 1 .. k
      /\ \A i \in 1 .. k : i \in 1 .. Len(s) /\ t[i] = s[i]
  OBVIOUS
<1>. HIDE DEF t
<1>2. \A i \in 1 .. Len(s) : s[i].first \in Nat /\ s[i].next \in Nat
  <2>1. \A x \in Request : x.first \in Nat /\ x.next \in Nat
    BY DEF Request
  <2>2. \A i \in 1 .. Len(s) : s[i] \in Request
    OBVIOUS
  <2>. QED  BY <2>1, <2>2
<1>3. s # << >> /\ Len(s) \in 1 .. Len(s) /\ Position(s) = s[Len(s)].next
  <2>1. s # << >>
    BY <1>1
  <2>. QED  BY <1>1, <2>1, LastPosition
<1>4. Position(t) <= Position(s)
  <2>1. CASE k = 0
    <3>1. t = << >>
      BY <1>1, <2>1
    <3>2. Position(t) = 0
      BY <3>1 DEF Position
    <3>. QED  BY <1>2, <1>3, <3>2
  <2>2. CASE k # 0
    <3>1. t # << >> /\ k \in 1 .. k /\ k \in 1 .. Len(s)
      BY <1>1, <2>2
    <3>2. Position(t) = s[k].next
      BY <1>1, <3>1, LastPosition
    <3>3. s[k].next <= s[Len(s)].first /\ s[Len(s)].first <= s[Len(s)].next
      BY <1>1, <1>3, <3>1 DEF Chain, Forward
    <3>. QED  BY <1>2, <1>3, <3>1, <3>2, <3>3
  <2>. QED  BY <2>1, <2>2
<1>5. Chain(t, r)
  <2>1. \A i \in DOMAIN t : t[i].run = r
    BY <1>1 DEF Chain
  <2>2. \A i, j \in DOMAIN t : i < j => t[i].next <= t[j].first
    BY <1>1 DEF Chain
  <2>3. ASSUME NEW m \in DOMAIN t, NEW n \in Nat, n < t[m].next
        PROVE  \E i \in 1 .. m : Covers(t[i], n)
    <3>1. PICK i \in 1 .. m : Covers(s[i], n)
      BY <1>1, <2>3 DEF Chain
    <3>2. i \in 1 .. k
      BY <1>1, <3>1
    <3>. QED  BY <1>1, <3>1, <3>2
  <2>. QED  BY <2>1, <2>2, <2>3 DEF Chain
<1>6. \A i \in DOMAIN t : i \in DOMAIN s /\ t[i] = s[i]
  BY <1>1
<1>7. t \in Seq(Request)
  BY <1>1
<1>. QED  BY <1>4, <1>5, <1>6, <1>7 DEF t

(* The server writes a request. *)
Serves(c) ==
  LET q == c.req
      r == q.run
  IN
  /\ \A i \in DOMAIN server[r] : server[r][i].op # q.op
  /\ q.first = Position(server[r])
  /\ server' = [server EXCEPT ![r] = Append(@, q)]
  /\ high' = [high EXCEPT ![r] = IF @ < q.next THEN q.next ELSE @]
  /\ net' = net \ {c}
  /\ UNCHANGED store

LEMMA ServesOrNot ==
  ASSUME Typed, NEW c \in net, Serve(c)
  PROVE  UNCHANGED <<server, high>> \/ Serves(c)
BY DEF Serve, Serves

LEMMA ServedRows ==
  ASSUME Typed, DataInv, NEW c \in net, Serves(c)
  PROVE  LET q == c.req
             r == q.run
         IN  /\ q \in Request /\ r \in Run /\ Sound(q) /\ Queued(q)
             /\ q.first \in Nat /\ q.next \in Nat /\ q.first <= q.next
             /\ server' \in [Run -> Seq(Request)] /\ high' \in [Run -> Nat]
             /\ server'[r] = Append(server[r], q)
             /\ Chain(server'[r], r) /\ Position(server'[r]) = q.next
             /\ \A s \in Run : s # r => server'[s] = server[s] /\ high'[s] = high[s]
             /\ \A s \in Run : high[s] <= high'[s]
             /\ q.next <= high'[r]
<1>. DEFINE q == c.req
            r == q.run
<1>1. q \in Request /\ r \in Run
  BY CalledRequest
<1>2. Sound(q)
  BY <1>1 DEF DataInv, KnownInv, Known
<1>3. q.first \in Nat /\ q.next \in Nat /\ q.first <= q.next
  BY <1>1, <1>2 DEF Request, Sound
<1>4. Queued(q)
  <2>1. ~Served(q)
    BY DEF Serves, Served
  <2>. QED  BY <2>1 DEF DataInv, NetInv
<1>5. server \in [Run -> Seq(Request)] /\ high \in [Run -> Nat]
  BY DEF Typed, RemoteTypes
<1>6. server' = [server EXCEPT ![r] = Append(server[r], q)]
  BY <1>1, <1>5 DEF Serves
<1>7. high' = [high EXCEPT ![r] = IF high[r] < q.next THEN q.next ELSE high[r]]
  BY <1>1, <1>5 DEF Serves
<1>8. /\ server[r] \in Seq(Request) /\ Forward(server[r]) /\ Chain(server[r], r)
      /\ q.first = Position(server[r])
  BY <1>1, ServedForward DEF DataInv, ServerInv, Serves
<1>9. Chain(Append(server[r], q), r) /\ Position(Append(server[r], q)) = q.next
  <2>. HIDE DEF r
  <2>1. PICK s \in Seq(Request) : s = server[r]
    BY <1>8
  <2>2. PICK x \in Request : x = q
    BY <1>1
  <2>3. Chain(Append(s, x), x.run) /\ Position(Append(s, x)) = x.next
    BY <1>3, <1>8, <2>1, <2>2, ChainGrows DEF r
  <2>. QED  BY <2>1, <2>2, <2>3 DEF r
<1>. HIDE DEF q, r
<1>10. /\ server' \in [Run -> Seq(Request)] /\ server'[r] = Append(server[r], q)
       /\ \A s \in Run : s # r => server'[s] = server[s]
  BY <1>1, <1>5, <1>6, <1>8
<1>11. /\ high' \in [Run -> Nat] /\ q.next <= high'[r]
       /\ \A s \in Run : (s # r => high'[s] = high[s]) /\ high[s] <= high'[s]
  <2>1. \A s \in Run : high[s] \in Nat
    BY <1>5
  <2>2. CASE high[r] < q.next
    BY <1>1, <1>3, <1>5, <1>7, <2>1, <2>2
  <2>3. CASE ~(high[r] < q.next)
    BY <1>1, <1>3, <1>5, <1>7, <2>1, <2>3
  <2>. QED  BY <2>2, <2>3
<1>. QED  BY <1>1, <1>2, <1>3, <1>4, <1>9, <1>10, <1>11 DEF q, r

LEMMA ServesStep ==
  ASSUME Typed, DataInv, NEW c \in net, Serves(c),
         daemon' \in Daemon, faults' \in 0 .. MaxFaults
  PROVE  Typed' /\ DataInv'
<1>. DEFINE q == c.req
            r == q.run
<1>1. /\ q \in Request /\ r \in Run /\ Queued(q)
      /\ q.first \in Nat /\ q.next \in Nat /\ q.first <= q.next
      /\ server' \in [Run -> Seq(Request)] /\ high' \in [Run -> Nat]
      /\ server'[r] = Append(server[r], q)
      /\ Chain(server'[r], r) /\ Position(server'[r]) = q.next
      /\ \A s \in Run : s # r => server'[s] = server[s] /\ high'[s] = high[s]
      /\ \A s \in Run : high[s] <= high'[s]
      /\ q.next <= high'[r]
  BY ServedRows
<1>2. /\ net' = net \ {c} /\ UNCHANGED <<local, snapshot, up, queue, nextOp>>
      /\ q.first = Position(server[r])
  BY DEF Serves, store
<1>3. server[r] \in Seq(Request) /\ high \in [Run -> Nat]
  BY <1>1 DEF Typed, RemoteTypes
<1>. HIDE DEF q, r
<1>4. /\ \A i \in DOMAIN server[r] : i \in DOMAIN server'[r] /\ server'[r][i] = server[r][i]
      /\ \A i \in DOMAIN server'[r] : \/ server'[r][i] = q
                                      \/ i \in DOMAIN server[r] /\ server'[r][i] = server[r][i]
  <2>1. PICK s \in Seq(Request) : s = server[r]
    BY <1>3
  <2>2. PICK x \in Request : x = q
    BY <1>1
  <2>3. /\ \A i \in DOMAIN s : i \in DOMAIN Append(s, x) /\ Append(s, x)[i] = s[i]
        /\ \A i \in DOMAIN Append(s, x) : \/ Append(s, x)[i] = x
                                          \/ i \in DOMAIN s /\ Append(s, x)[i] = s[i]
    OBVIOUS
  <2>. QED  BY <1>1, <2>1, <2>2, <2>3
<1>5. \A x \in Request : Known(x)' => Known(x)
  <2>1. Known(q)
    BY <1>1 DEF Known
  <2>2. \A s \in Run : \A i \in DOMAIN server'[s] :
          \/ server'[s][i] = q
          \/ i \in DOMAIN server[s] /\ server'[s][i] = server[s][i]
    <3>1. ASSUME NEW s \in Run, NEW i \in DOMAIN server'[s]
          PROVE  \/ server'[s][i] = q
                 \/ i \in DOMAIN server[s] /\ server'[s][i] = server[s][i]
      <4>1. CASE s = r
        BY <1>4, <4>1
      <4>2. CASE s # r
        <5>1. server'[s] = server[s]
          BY <1>1, <4>2
        <5>. QED  BY <5>1
      <4>. QED  BY <4>1, <4>2
    <3>. QED  BY <3>1
  <2>. QED  BY <1>2, <2>1, <2>2 DEF Known, Queued
<1>6. KnownInv'
  <2>1. \A x \in Request : Sound(x)' <=> Sound(x)
    BY <1>2 DEF Sound
  <2>. QED  BY <1>5, <2>1 DEF DataInv, KnownInv
<1>7. QueueInv' /\ MapInv'
  BY <1>2 DEF DataInv, QueueInv, MapInv
<1>8. CoverInv'
  <2>. SUFFICES ASSUME NEW s \in Run, NEW n \in Nat, up[s].acked <= n, n < Len(up[s].map)
                PROVE  \/ Position(server'[s]) <= n
                       \/ \E i \in DOMAIN queue : queue[i].req.run = s /\ Covers(queue[i].req, n)
    BY <1>2 DEF CoverInv
  <2>1. \/ Position(server[s]) <= n
        \/ \E i \in DOMAIN queue : queue[i].req.run = s /\ Covers(queue[i].req, n)
    BY DEF DataInv, CoverInv
  <2>2. CASE s = r /\ Position(server[s]) <= n
    <3>1. CASE n < q.next
      <4>1. Covers(q, n)
        BY <1>2, <2>2, <3>1 DEF Covers
      <4>. QED  BY <1>1, <2>2, <4>1 DEF Queued, r
    <3>2. CASE ~(n < q.next)
      <4>1. Position(server'[s]) = q.next /\ q.next \in Nat
        BY <1>1, <2>2
      <4>. QED  BY <3>2, <4>1
    <3>. QED  BY <3>1, <3>2
  <2>. QED  BY <1>1, <2>1, <2>2
<1>9. DroppedInv'
  <2>1. \A s \in Run : high[s] \in Nat /\ high'[s] \in Nat
    BY <1>1, <1>3
  <2>. QED  BY <1>1, <1>2, <2>1 DEF DataInv, DroppedInv
<1>10. NetInv'
  <2>1. ASSUME NEW d \in net', Served(d.req) PROVE Served(d.req)'
    <3>1. d.req.run \in Run
      BY <1>2, CalledRequest
    <3>. QED  BY <1>1, <1>4, <2>1, <3>1 DEF Served
  <2>2. \A x : Queued(x)' <=> Queued(x)
    BY <1>2 DEF Queued
  <2>. QED  BY <1>2, <2>1, <2>2 DEF DataInv, NetInv
<1>11. ServerInv'
  BY <1>1 DEF DataInv, ServerInv
<1>12. Typed'
  BY <1>1, <1>2 DEF Typed, StoreTypes, RemoteTypes
<1>. QED  BY <1>6, <1>7, <1>8, <1>9, <1>10, <1>11, <1>12 DEF DataInv

LEMMA LosesRows ==
  ASSUME Typed, DataInv, NEW r \in Run, ServerLoses(r)
  PROVE  /\ server' \in [Run -> Seq(Request)] /\ net' = {}
         /\ \A s \in Run :
              /\ Chain(server'[s], s) /\ Position(server'[s]) <= Position(server[s])
              /\ \A i \in DOMAIN server'[s] : i \in DOMAIN server[s] /\ server'[s][i] = server[s][i]
         /\ UNCHANGED <<local, snapshot, up, queue, nextOp, daemon, high>>
<1>1. server \in [Run -> Seq(Request)] /\ server[r] \in Seq(Request)
  BY DEF Typed, RemoteTypes
<1>2. PICK k \in 0 .. Len(server[r]) - 1 : server' = [server EXCEPT ![r] = SubSeq(server[r], 1, k)]
  BY <1>1 DEF ServerLoses
<1>3. PICK t : t = SubSeq(server[r], 1, k)
  OBVIOUS
<1>4. /\ t \in Seq(Request) /\ Chain(t, r) /\ Position(t) <= Position(server[r])
      /\ \A i \in DOMAIN t : i \in DOMAIN server[r] /\ t[i] = server[r][i]
  <2>1. PICK s \in Seq(Request) : s = server[r]
    BY <1>1
  <2>2. Chain(s, r) /\ Forward(s) /\ k \in 0 .. Len(s) - 1
    BY <1>2, <2>1, ServedForward DEF DataInv, ServerInv
  <2>3. /\ SubSeq(s, 1, k) \in Seq(Request) /\ Chain(SubSeq(s, 1, k), r)
        /\ Position(SubSeq(s, 1, k)) <= Position(s)
        /\ \A i \in DOMAIN SubSeq(s, 1, k) : i \in DOMAIN s /\ SubSeq(s, 1, k)[i] = s[i]
    BY <2>2, ChainShrinks
  <2>. QED  BY <1>3, <2>1, <2>3
<1>5. server' = [server EXCEPT ![r] = t]
  BY <1>2, <1>3
<1>6. server' \in [Run -> Seq(Request)] /\ server'[r] = t /\ \A s \in Run \ {r} : server'[s] = server[s]
  BY <1>1, <1>4, <1>5
<1>7. \A s \in Run : Chain(server[s], s) /\ Position(server[s]) <= Position(server[s])
  BY PositionType DEF DataInv, ServerInv
<1>8. net' = {} /\ UNCHANGED <<local, snapshot, up, queue, nextOp, daemon, high>>
  BY DEF ServerLoses, store
<1>. QED  BY <1>4, <1>6, <1>7, <1>8

LEMMA LosesStep ==
  ASSUME Typed, DataInv, NEW r \in Run, ServerLoses(r),
         daemon' \in Daemon, faults' \in 0 .. MaxFaults
  PROVE  Typed' /\ DataInv'
<1>1. /\ server' \in [Run -> Seq(Request)] /\ net' = {}
      /\ \A s \in Run :
           /\ Chain(server'[s], s) /\ Position(server'[s]) <= Position(server[s])
           /\ \A i \in DOMAIN server'[s] : i \in DOMAIN server[s] /\ server'[s][i] = server[s][i]
      /\ UNCHANGED <<local, snapshot, up, queue, nextOp, daemon, high>>
  BY LosesRows
<1>2. \A s \in Run : Position(server[s]) \in Nat /\ high[s] \in Nat
  BY PositionType DEF Typed, RemoteTypes
<1>3. Typed'
  BY <1>1 DEF Typed, StoreTypes, RemoteTypes
<1>4. \A s \in Run : Position(server'[s]) \in Nat
  <2>1. Typed' => \A s \in Run : Position(server'[s]) \in Nat
    <3>1. ASSUME NEW s \in Run, Typed' PROVE Position(server'[s]) \in Nat
      <4>1. server'[s] \in Seq(Request)
        BY <1>1
      <4>2. CASE server'[s] = << >>
        BY <4>2 DEF Position
      <4>3. CASE server'[s] # << >>
        BY <4>1, <4>3, LastPosition
      <4>. QED  BY <4>2, <4>3
    <3>. QED  BY <3>1
  <2>. QED  BY <1>3, <2>1
<1>5. \A x \in Request : Known(x)' => Known(x)
  BY <1>1 DEF Known, Queued
<1>6. KnownInv'
  <2>1. \A x \in Request : Sound(x)' <=> Sound(x)
    BY <1>1 DEF Sound
  <2>. QED  BY <1>5, <2>1 DEF DataInv, KnownInv
<1>7. QueueInv' /\ MapInv' /\ DroppedInv' /\ NetInv'
  BY <1>1 DEF DataInv, QueueInv, MapInv, DroppedInv, NetInv
<1>8. CoverInv'
  <2>. SUFFICES ASSUME NEW s \in Run, NEW n \in Nat, up[s].acked <= n, n < Len(up[s].map)
                PROVE  \/ Position(server'[s]) <= n
                       \/ \E i \in DOMAIN queue : queue[i].req.run = s /\ Covers(queue[i].req, n)
    BY <1>1 DEF CoverInv
  <2>1. \/ Position(server[s]) <= n
        \/ \E i \in DOMAIN queue : queue[i].req.run = s /\ Covers(queue[i].req, n)
    BY DEF DataInv, CoverInv
  <2>2. Position(server[s]) <= n => Position(server'[s]) <= n
    BY <1>1, <1>2, <1>4
  <2>. QED  BY <2>1, <2>2
<1>9. ServerInv'
  <2>1. ASSUME NEW s \in Run PROVE Position(server'[s]) <= high[s]
    <3>1. Position(server[s]) <= high[s]
      BY DEF DataInv, ServerInv
    <3>. QED  BY <1>1, <1>2, <1>4, <3>1
  <2>. QED  BY <1>1, <2>1 DEF ServerInv
<1>. QED  BY <1>3, <1>6, <1>7, <1>8, <1>9 DEF DataInv

-----------------------------------------------------------------------------
(* The request of the drain, and its answer.                                *)

LeadsStay ==
  \A k \in DOMAIN queue :
    /\ k \in DOMAIN queue' /\ queue'[k].req = queue[k].req
    /\ Leads(queue, k) => Leads(queue', k)

LEMMA KeepsLeads ==
  ASSUME Typed, Keeps(queue, queue')
  PROVE  LeadsStay
<1>1. /\ DOMAIN queue' = DOMAIN queue
      /\ \A i \in DOMAIN queue : queue'[i].req = queue[i].req
  BY DEF Keeps, Typed, StoreTypes
<1>. QED  BY <1>1, Zenon DEF LeadsStay, Leads

LEMMA ScanLeads ==
  ASSUME Typed, DataInv, NEW r \in Run, Scans(r)
  PROVE  LeadsStay /\ \A s \in Run : up'[s].acked = up[s].acked
<1>1. PICK u, v :
        /\ Enters(r, u)
        /\ up' = [up EXCEPT ![r] = v] /\ AppendsTo(r, u, v, local'[r]) /\ Blank(v)
        /\ v.acked = up[r].acked
        /\ \/ UNCHANGED <<queue, nextOp>> /\ v.map = up[r].map
           \/ /\ ~Full([up EXCEPT ![r] = u])
              /\ nextOp' = nextOp + 1
              /\ \E p \in Seq(Nat) :
                   /\ v.map = up[r].map \o p
                   /\ queue' = Append(queue, NewRow(r, Len(up[r].map), p))
  BY AppendStep DEF DataInv
<1>2. up \in [Run -> UpRow] /\ \A s \in Run : up'[s].acked = up[s].acked
  BY <1>1 DEF Typed, StoreTypes
<1>3. ASSUME queue' = queue PROVE LeadsStay
  <2>1. Keeps(queue, queue')
    BY <1>3, KeepsSelf
  <2>. QED  BY <2>1, KeepsLeads
<1>4. ASSUME NEW p \in Seq(Nat), queue' = Append(queue, NewRow(r, Len(up[r].map), p))
      PROVE  LeadsStay
  <2>1. PICK n \in Nat : n = Len(up[r].map)
    BY <1>2 DEF UpRow
  <2>2. PICK x : x = NewRow(r, n, p)
    OBVIOUS
  <2>3. x \in Rows /\ x.req.run = r /\ x.req.first = n
    <3>1. n \in Nat
      BY <2>1
    <3>2. x \in Rows
      BY <2>2, <3>1, NewRowType
    <3>3. x.req.run = r
      BY <2>2, <3>1, NewRowType
    <3>4. x.req.first = n
      BY <2>2, <3>1, NewRowType
    <3>. QED  BY <3>2, <3>3, <3>4
  <2>4. queue' = Append(queue, x)
    BY <1>4, <2>1, <2>2
  <2>5. /\ DOMAIN queue = 1 .. Len(queue) /\ Len(queue) \in Nat
        /\ DOMAIN queue' = 1 .. Len(queue) + 1 /\ queue'[Len(queue) + 1] = x
        /\ \A i \in DOMAIN queue : i \in DOMAIN queue' /\ queue'[i] = queue[i]
    BY <2>3, <2>4, Appended
  <2>6. ASSUME NEW k \in DOMAIN queue, queue[k].req.run = r
        PROVE  queue[k].req.first <= n /\ queue[k].req.first \in Nat
    <3>1. queue[k].req \in Request
      BY StoredRow
    <3>2. Sound(queue[k].req)
      BY <3>1 DEF DataInv, KnownInv, Known, Queued
    <3>. QED  BY <2>1, <2>6, <3>1, <3>2 DEF Sound, Request
  <2>7. ASSUME NEW k \in DOMAIN queue, Leads(queue, k)
        PROVE  Leads(queue', k)
    <3>. SUFFICES ASSUME NEW j \in DOMAIN queue', queue'[j].req.run = queue[k].req.run
                  PROVE  \/ queue[k].req.first < queue'[j].req.first
                         \/ queue[k].req.first = queue'[j].req.first /\ k <= j
      BY <2>5 DEF Leads
    <3>1. CASE j \in DOMAIN queue
      BY <2>5, <2>7, <3>1 DEF Leads
    <3>2. CASE j = Len(queue) + 1
      <4>1. queue'[j].req.run = r /\ queue'[j].req.first = n
        BY <2>3, <2>5, <3>2
      <4>2. queue[k].req.first <= n /\ queue[k].req.first \in Nat
        BY <2>6, <4>1
      <4>3. k <= j
        BY <2>5, <3>2
      <4>. QED  BY <4>1, <4>2, <4>3
    <3>. QED  BY <2>5, <3>1, <3>2
  <2>. QED  BY <2>5, <2>7 DEF LeadsStay
<1>. QED  BY <1>1, <1>2, <1>3, <1>4

(* Steps after which there is no request of the drain. *)
LEMMA PickedIdle ==
  ASSUME PickedInv, daemon'.at \in {"idle", "repair"},
         \/ daemon.at # "sent" /\ net' \subseteq net
         \/ net' = Abandoned /\ net \subseteq [req : Request, late : BOOLEAN]
  PROVE  PickedInv' /\ AnswerInv'
<1>1. \A c \in net' : c.late
  <2>1. CASE daemon.at # "sent" /\ net' \subseteq net
    BY <2>1 DEF PickedInv
  <2>2. CASE net' = Abandoned /\ net \subseteq [req : Request, late : BOOLEAN]
    BY <2>2 DEF Abandoned
  <2>. QED  BY <2>1, <2>2
<1>. QED  BY <1>1 DEF PickedInv, AnswerInv

(* Steps of others than the drain. *)
Waits ==
  /\ daemon' = daemon /\ net' \subseteq net /\ LeadsStay
  /\ \A r \in Run : up'[r].acked = up[r].acked /\ high[r] <= high'[r]
  /\ \A c \in net' : Served(c.req) => Served(c.req)'
  /\ daemon.at = "answered" /\ daemon.answer = "gap" =>
       Position(server'[daemon.upload.run]) <= daemon.gap

LEMMA WaitsStep ==
  ASSUME OutboxInv, Waits, Typed'
  PROVE  PickedInv' /\ AnswerInv'
<1>1. PickedInv'
  <2>1. \A q : (\E k \in DOMAIN queue : queue[k].req = q /\ Leads(queue, k)) =>
                  \E k \in DOMAIN queue' : queue'[k].req = q /\ Leads(queue', k)
    BY DEF Waits, LeadsStay
  <2>. QED  BY <2>1 DEF OutboxInv, PickedInv, Waits
<1>2. AnswerInv'
  <2>. DEFINE q == daemon.upload
  <2>. SUFFICES ASSUME daemon.at = "answered"
                PROVE  /\ daemon.answer = "ack" =>
                            /\ up'[q.run].acked = q.first /\ q.next <= high'[q.run]
                            /\ \A c \in net' : c.req = q => Served(q)'
                       /\ daemon.answer = "gap" =>
                            Position(server'[q.run]) <= daemon.gap /\ daemon.gap < q.first
    BY DEF AnswerInv, Waits
  <2>1. q # None
    BY DEF OutboxInv, PickedInv
  <2>2. q.run \in Run /\ q.next \in Nat
    BY <2>1 DEF OutboxInv, Typed, Daemon, Request
  <2>3. high[q.run] \in Nat /\ high'[q.run] \in Nat
    BY <2>2 DEF OutboxInv, Typed, RemoteTypes
  <2>4. CASE daemon.answer = "ack"
    <3>1. /\ up[q.run].acked = q.first /\ q.next <= high[q.run]
          /\ \A c \in net : c.req = q => Served(q)
      BY <2>4 DEF OutboxInv, AnswerInv
    <3>2. up'[q.run].acked = up[q.run].acked /\ high[q.run] <= high'[q.run]
      BY <2>2 DEF Waits
    <3>3. \A c \in net' : c.req = q => Served(q)'
      BY <3>1 DEF Waits
    <3>4. q.next <= high'[q.run]
      BY <2>2, <2>3, <3>1, <3>2
    <3>. QED  BY <2>4, <3>1, <3>2, <3>3, <3>4
  <2>5. CASE daemon.answer = "gap"
    BY <2>5 DEF OutboxInv, AnswerInv, Waits
  <2>. QED  BY <2>4, <2>5
<1>. QED  BY <1>1, <1>2

LEMMA ServedBehind ==
  ASSUME Typed, DataInv, NEW r \in Run, NEW i \in DOMAIN server[r]
  PROVE  server[r][i].next <= Position(server[r])
<1>1. /\ server[r] \in Seq(Request) /\ Forward(server[r]) /\ Chain(server[r], r)
      /\ \A j \in DOMAIN server[r] : server[r][j] \in Request
  BY ServedForward DEF DataInv, ServerInv
<1>2. \A x \in Request : x.first \in Nat /\ x.next \in Nat
  BY DEF Request
<1>3. PICK n \in Nat : n = Len(server[r]) /\ DOMAIN server[r] = 1 .. n
  BY <1>1
<1>4. n \in DOMAIN server[r] /\ Position(server[r]) = server[r][n].next
  <2>1. server[r] # << >>
    BY <1>1
  <2>2. PICK s \in Seq(Request) : s = server[r]
    BY <1>1
  <2>3. Len(s) \in DOMAIN s /\ Position(s) = s[Len(s)].next
    BY <2>1, <2>2, LastPosition
  <2>. QED  BY <1>3, <2>2, <2>3
<1>5. CASE i = n
  BY <1>1, <1>2, <1>4, <1>5
<1>6. CASE i # n
  <2>1. i < n
    BY <1>3, <1>6
  <2>2. server[r][i].next <= server[r][n].first
    BY <1>1, <1>4, <2>1 DEF Chain
  <2>3. server[r][n].first <= server[r][n].next
    BY <1>1, <1>4 DEF Forward
  <2>. QED  BY <1>1, <1>2, <1>4, <2>2, <2>3
<1>. QED  BY <1>5, <1>6

(* When the server has everything before the first queued request of a run, *)
(* that request begins at the acknowledged prefix.                          *)
LEMMA AckedIsFirst ==
  ASSUME Typed, DataInv, NEW k \in DOMAIN queue, Leads(queue, k),
         queue[k].req.first <= Position(server[queue[k].req.run])
  PROVE  up[queue[k].req.run].acked = queue[k].req.first
<1>. DEFINE q == queue[k].req
            r == q.run
<1>1. q \in Request /\ r \in Run /\ q.first \in Nat /\ q.next \in Nat
  BY StoredRow DEF Request
<1>2. Sound(q)
  BY <1>1 DEF DataInv, KnownInv, Known, Queued
<1>3. up[r].acked \in Nat /\ Len(up[r].map) \in Nat /\ Position(server[r]) \in Nat
  <2>1. Position(server[r]) \in Nat
    BY <1>1, PositionType
  <2>2. up[r].acked \in Nat /\ Len(up[r].map) \in Nat
    BY <1>1 DEF Typed, StoreTypes, UpRow
  <2>. QED  BY <2>1, <2>2
<1>4. up[r].acked <= q.first
  BY DEF DataInv, QueueInv
<1>5. ASSUME up[r].acked < q.first PROVE FALSE
  <2>1. up[r].acked < Len(up[r].map)
    <3>1. q.first <= q.next /\ q.next <= Len(up[r].map)
      BY <1>2 DEF Sound
    <3>. HIDE DEF q, r
    <3>. QED  BY <1>1, <1>3, <1>5, <3>1
  <2>2. \/ Position(server[r]) <= up[r].acked
        \/ \E i \in DOMAIN queue : queue[i].req.run = r /\ Covers(queue[i].req, up[r].acked)
    BY <1>1, <1>3, <2>1 DEF DataInv, CoverInv
  <2>3. PICK i \in DOMAIN queue : queue[i].req.run = r /\ queue[i].req.first <= up[r].acked
    BY <1>1, <1>3, <1>5, <2>2 DEF Covers
  <2>4. q.first <= queue[i].req.first /\ queue[i].req.first \in Nat
    <3>1. queue[i].req.first \in Nat
      BY StoredRow DEF Request
    <3>. QED  BY <1>1, <2>3, <3>1 DEF Leads
  <2>. QED  BY <1>1, <1>3, <1>5, <2>3, <2>4
<1>. QED  BY <1>1, <1>3, <1>4, <1>5

LEMMA ServedStays ==
  ASSUME Typed, DataInv, NEW c \in net, Serves(c)
  PROVE  \A x \in Request : Served(x) => Served(x)'
<1>. DEFINE q == c.req
            r == q.run
<1>1. /\ r \in Run /\ q \in Request /\ server'[r] = Append(server[r], q)
      /\ \A s \in Run : s # r => server'[s] = server[s]
  BY ServedRows
<1>2. server[r] \in Seq(Request)
  BY <1>1 DEF Typed, RemoteTypes
<1>. HIDE DEF q, r
<1>3. \A i \in DOMAIN server[r] : i \in DOMAIN server'[r] /\ server'[r][i] = server[r][i]
  <2>1. PICK s \in Seq(Request) : s = server[r]
    BY <1>2
  <2>2. PICK x \in Request : x = q
    BY <1>1
  <2>3. \A i \in DOMAIN s : i \in DOMAIN Append(s, x) /\ Append(s, x)[i] = s[i]
    BY <2>1, <2>2
  <2>. QED  BY <1>1, <2>1, <2>2, <2>3
<1>4. \A x \in Request : x.run \in Run
  BY DEF Request
<1>. QED  BY <1>1, <1>3, <1>4 DEF Served

LEMMA ServeWaits ==
  ASSUME OutboxInv, NEW c \in net, Serve(c), c.late
  PROVE  Waits
<1>0. Typed /\ DataInv
  BY DEF OutboxInv
<1>1. daemon' = daemon /\ net' \subseteq net /\ UNCHANGED <<up, queue>>
  BY DEF Serve, Answer, store
<1>2. LeadsStay
  <2>1. Keeps(queue, queue')
    BY <1>0, <1>1, KeepsSelf
  <2>. QED  BY <1>0, <2>1, KeepsLeads
<1>3. \A r \in Run : high[r] \in Nat
  BY <1>0 DEF Typed, RemoteTypes
<1>4. CASE UNCHANGED <<server, high>>
  <2>1. \A x : Served(x)' <=> Served(x)
    BY <1>4 DEF Served
  <2>2. daemon.at = "answered" /\ daemon.answer = "gap" =>
          Position(server'[daemon.upload.run]) <= daemon.gap
    BY <1>4 DEF OutboxInv, AnswerInv
  <2>. QED  BY <1>1, <1>2, <1>3, <1>4, <2>1, <2>2 DEF Waits
<1>5. CASE Serves(c)
  <2>1. \A x \in Request : Served(x) => Served(x)'
    BY <1>0, <1>5, ServedStays
  <2>2. \A d \in net' : d.req \in Request
    BY <1>0, <1>1, CalledRequest
  <2>3. /\ \A s \in Run : high[s] <= high'[s]
        /\ \A s \in Run : s # c.req.run => server'[s] = server[s]
        /\ c.req \in Request /\ Queued(c.req) /\ c.req.first \in Nat
    BY <1>0, <1>5, ServedRows
  <2>4. ASSUME daemon.at = "answered", daemon.answer = "gap"
        PROVE  Position(server'[daemon.upload.run]) <= daemon.gap
    <3>. DEFINE q == daemon.upload
    <3>1. q # None /\ \E k \in DOMAIN queue : queue[k].req = q /\ Leads(queue, k)
      BY <2>4 DEF OutboxInv, PickedInv
    <3>2. q.run \in Run /\ q.first \in Nat /\ daemon.gap \in Nat
      BY <1>0, <3>1 DEF Typed, Daemon, Request
    <3>3. Position(server[q.run]) <= daemon.gap /\ daemon.gap < q.first
      BY <2>4 DEF OutboxInv, AnswerInv
    <3>4. c.req.run # q.run
      <4>. SUFFICES ASSUME c.req.run = q.run PROVE FALSE
        OBVIOUS
      <4>1. q.first <= c.req.first
        <5>1. PICK j \in DOMAIN queue : queue[j].req = c.req
          BY <2>3 DEF Queued
        <5>. QED  BY <2>3, <3>1, <3>2, <5>1 DEF Leads
      <4>2. c.req.first = Position(server[q.run])
        BY <1>5 DEF Serves
      <4>. QED  BY <2>3, <3>2, <3>3, <4>1, <4>2
    <3>. QED  BY <2>3, <3>2, <3>3, <3>4
  <2>. QED  BY <1>1, <1>2, <2>1, <2>2, <2>3, <2>4 DEF Waits
<1>. QED  BY <1>0, <1>4, <1>5, ServesOrNot

(* The call that the drain waits for is answered. *)
LEMMA AnswerPicked ==
  ASSUME Typed, PickedInv, NEW c \in net, ~c.late, net' = net \ {c}, UNCHANGED queue,
         NEW a, NEW n, daemon' = [daemon EXCEPT !.at = "answered", !.answer = a, !.gap = n]
  PROVE  PickedInv' /\ daemon.upload = c.req
<1>1. daemon.at = "sent" /\ daemon.upload = c.req
  BY DEF PickedInv
<1>2. daemon'.at = "answered" /\ daemon'.upload = daemon.upload
  BY DEF Typed, Daemon
<1>3. \A d \in net' : d.late
  <2>. SUFFICES ASSUME NEW d \in net', ~d.late PROVE FALSE
    OBVIOUS
  <2>1. d.req = c.req
    BY <1>1 DEF PickedInv
  <2>2. /\ c \in [req : Request, late : BOOLEAN] /\ d \in [req : Request, late : BOOLEAN]
    BY DEF Typed, RemoteTypes
  <2>3. d = c
    BY <2>1, <2>2
  <2>. QED  BY <2>3
<1>. QED  BY <1>1, <1>2, <1>3 DEF PickedInv

LEMMA ServeAnswers ==
  ASSUME OutboxInv, NEW c \in net, Serve(c), ~c.late
  PROVE  PickedInv' /\ AnswerInv'
<1>. DEFINE q == c.req
            r == q.run
            have == Position(server[r])
<1>0. Typed /\ DataInv /\ PickedInv
  BY DEF OutboxInv
<1>1. net' = net \ {c} /\ UNCHANGED <<up, queue>>
  BY DEF Serve, store
<1>2. PICK a, n : daemon' = [daemon EXCEPT !.at = "answered", !.answer = a, !.gap = n]
  BY DEF Serve, Answer
<1>3. PickedInv' /\ daemon.upload = q
  BY <1>0, <1>1, <1>2, AnswerPicked
<1>4. PICK k \in DOMAIN queue : queue[k].req = q /\ Leads(queue, k)
  BY <1>0, <1>3 DEF PickedInv
<1>5. /\ q \in Request /\ r \in Run /\ q.first \in Nat /\ q.next \in Nat /\ have \in Nat
      /\ high[r] \in Nat
  <2>1. q \in Request /\ r \in Run
    BY <1>0, CalledRequest
  <2>. QED  BY <1>0, <2>1, PositionType DEF Request, Typed, RemoteTypes
<1>6. q.first <= q.next
  BY <1>0, <1>5 DEF DataInv, KnownInv, Known, Sound
<1>7. q.first <= have => up[r].acked = q.first
  BY <1>0, <1>4, AckedIsFirst
<1>8. daemon'.at = "answered" /\ daemon'.upload = q
  BY <1>0, <1>2, <1>3 DEF Typed, Daemon
<1>9. ASSUME Answer(c, "ack", 0), UNCHANGED <<server, high>>,
             NEW i \in DOMAIN server[r], server[r][i].op = q.op
      PROVE  AnswerInv'
  <2>1. daemon'.answer = "ack"
    BY <1>0, <1>9 DEF Answer, Typed, Daemon
  <2>2. server[r][i] = q
    <3>1. server[r][i] \in Request
      BY <1>0, <1>5, ServedForward DEF DataInv
    <3>2. Known(server[r][i]) /\ Known(q)
      BY <1>5 DEF Known
    <3>. QED  BY <1>0, <1>5, <1>9, <3>1, <3>2 DEF DataInv, KnownInv
  <2>3. q.next <= have
    BY <1>0, <1>5, <2>2, ServedBehind
  <2>4. have <= high[r]
    BY <1>0, <1>5 DEF DataInv, ServerInv
  <2>5. up[r].acked = q.first /\ q.next <= high[r]
    <3>. HIDE DEF q, r, have
    <3>. QED  BY <1>5, <1>6, <1>7, <2>3, <2>4
  <2>6. Served(q)'
    BY <1>9, <2>2 DEF Served
  <2>. QED  BY <1>1, <1>8, <1>9, <2>1, <2>5, <2>6 DEF AnswerInv
<1>10. ASSUME Answer(c, "ack", 0), Serves(c)
       PROVE  AnswerInv'
  <2>1. daemon'.answer = "ack"
    BY <1>0, <1>10 DEF Answer, Typed, Daemon
  <2>2. q.first = have
    BY <1>10 DEF Serves
  <2>3. server'[r] = Append(server[r], q) /\ q.next <= high'[r]
    BY <1>0, <1>10, ServedRows
  <2>4. Served(q)'
    <3>1. PICK s \in Seq(Request) : s = server[r]
      BY <1>0, <1>5, ServedForward DEF DataInv
    <3>2. PICK x \in Request : x = q
      BY <1>5
    <3>3. \E i \in DOMAIN Append(s, x) : Append(s, x)[i] = x
      <4>1. Len(s) + 1 \in DOMAIN Append(s, x) /\ Append(s, x)[Len(s) + 1] = x
        BY <3>1, <3>2
      <4>. QED  BY <4>1
    <3>. QED  BY <2>3, <3>1, <3>2, <3>3 DEF Served
  <2>5. up[r].acked = q.first
    BY <1>5, <1>7, <2>2
  <2>. QED  BY <1>1, <1>8, <2>1, <2>3, <2>4, <2>5 DEF AnswerInv
<1>11. ASSUME Answer(c, IF q.first > have THEN "gap" ELSE "conflict", have),
              UNCHANGED <<server, high>>, q.first # have
       PROVE  AnswerInv'
  <2>1. /\ daemon'.answer = (IF q.first > have THEN "gap" ELSE "conflict") /\ daemon'.gap = have
    BY <1>0, <1>11 DEF Answer, Typed, Daemon
  <2>2. daemon'.answer # "ack" /\ (daemon'.answer = "gap" => q.first > have)
    BY <2>1
  <2>3. have <= daemon'.gap /\ (q.first > have => daemon'.gap < q.first)
    BY <1>5, <2>1
  <2>. QED  BY <1>8, <1>11, <2>2, <2>3 DEF AnswerInv
<1>12. \/ /\ Answer(c, "ack", 0) /\ UNCHANGED <<server, high>>
          /\ \E i \in DOMAIN server[r] : server[r][i].op = q.op
       \/ Answer(c, "ack", 0) /\ Serves(c)
       \/ /\ Answer(c, IF q.first > have THEN "gap" ELSE "conflict", have)
          /\ UNCHANGED <<server, high>> /\ q.first # have
  BY DEF Serve, Serves
<1>. QED  BY <1>3, <1>9, <1>10, <1>11, <1>12

LEMMA RefuseAnswers ==
  ASSUME OutboxInv, NEW c \in net, Refuse(c), Typed'
  PROVE  PickedInv' /\ AnswerInv'
<1>0. Typed /\ DataInv /\ PickedInv /\ AnswerInv
  BY DEF OutboxInv
<1>1. net' = net \ {c} /\ UNCHANGED <<local, snapshot, up, queue, nextOp, server, high>>
  BY DEF Refuse, store
<1>2. CASE c.late
  <2>1. daemon' = daemon
    BY <1>2 DEF Refuse, Answer
  <2>2. LeadsStay
    <3>1. Keeps(queue, queue')
      BY <1>0, <1>1, KeepsSelf
    <3>. QED  BY <1>0, <3>1, KeepsLeads
  <2>3. \A r \in Run : high[r] \in Nat
    BY <1>0 DEF Typed, RemoteTypes
  <2>4. \A x : Served(x)' <=> Served(x)
    BY <1>1 DEF Served
  <2>5. daemon.at = "answered" /\ daemon.answer = "gap" =>
          Position(server'[daemon.upload.run]) <= daemon.gap
    BY <1>0, <1>1 DEF AnswerInv
  <2>6. Waits
    BY <1>1, <2>1, <2>2, <2>3, <2>4, <2>5 DEF Waits
  <2>. QED  BY <2>6, WaitsStep
<1>3. CASE ~c.late
  <2>1. PICK a \in {"denied", "gone", "conflict"} :
          daemon' = [daemon EXCEPT !.at = "answered", !.answer = a, !.gap = 0]
    BY <1>3 DEF Refuse, Answer
  <2>2. PickedInv'
    BY <1>0, <1>1, <1>3, <2>1, AnswerPicked
  <2>3. daemon'.answer = a
    BY <1>0, <2>1 DEF Typed, Daemon
  <2>4. daemon'.answer # "ack" /\ daemon'.answer # "gap"
    BY <2>1, <2>3
  <2>. QED  BY <2>2, <2>4 DEF AnswerInv
<1>4. c.late \in BOOLEAN
  BY <1>0, CalledRequest
<1>. QED  BY <1>2, <1>3, <1>4

-----------------------------------------------------------------------------
(* The invariant is inductive.                                              *)

LEMMA DataStep ==
  ASSUME OutboxInv, [Next]_vars
  PROVE  Typed' /\ DataInv'
<1>0. Typed /\ DataInv /\ PickedInv /\ daemon' \in Daemon /\ faults' \in 0 .. MaxFaults
  BY DaemonStep DEF OutboxInv
<1>1. CASE \/ \E i \in DOMAIN queue : AttachAcceptance(i)
           \/ \E r \in Run : DueUpload(r) \/ DueRegistration(r)
           \/ DrainBegin \/ DrainPick \/ Reenroll
  <2>1. Steady
    BY <1>0, <1>1, SteadyStore
  <2>. QED  BY <1>0, <2>1, SteadyStep
<1>2. CASE \/ ConnectFails \/ Register \/ SendUpload \/ UploadFails \/ Deny \/ Stop
           \/ \E c \in net : Refuse(c)
           \/ \E c \in net : Serve(c) /\ UNCHANGED <<server, high>>
  <2>1. Steady
    BY <1>0, <1>2, SteadyDrain
  <2>. QED  BY <1>0, <2>1, SteadyStep
<1>3. CASE \E r \in Run : Publish(r) \/ DrainRepair(r)
  BY <1>0, <1>3, ScanStep DEF Scans
<1>4. CASE ScanAfterAck
  <2>1. daemon.upload.run \in Run
    <3>1. daemon.upload # None
      BY <1>0, <1>4 DEF ScanAfterAck, PickedInv
    <3>. QED  BY <1>0, <3>1 DEF Typed, Daemon, Request
  <2>2. PICK r \in Run : r = daemon.upload.run
    BY <2>1
  <2>3. Scans(r)
    BY <1>4, <2>2 DEF Scans
  <2>. QED  BY <1>0, <2>2, <2>3, ScanStep
<1>5. CASE Acknowledge
  <2>1. PICK k \in DOMAIN queue : Acknowledges(k)
    BY <1>5, AckRead
  <2>. QED  BY <1>0, <2>1, AckStep
<1>6. CASE RepairGap
  BY <1>0, <1>6, RepairStep
<1>7. ASSUME NEW r \in Run, ServerLoses(r) PROVE Typed' /\ DataInv'
  BY <1>0, <1>7, LosesStep
<1>8. ASSUME NEW c \in net, Serves(c) PROVE Typed' /\ DataInv'
  BY <1>0, <1>8, ServesStep
<1>9. CASE UNCHANGED vars
  <2>1. Steady
    BY <1>0, <1>9, KeepsSelf DEF Steady, vars, store, remote
  <2>. QED  BY <1>0, <2>1, SteadyStep
<1>10. ASSUME NEW c \in net, Serve(c) PROVE Typed' /\ DataInv'
  <2>1. UNCHANGED <<server, high>> \/ Serves(c)
    BY <1>0, <1>10, ServesOrNot
  <2>. QED  BY <1>2, <1>8, <1>10, <2>1
<1>. QED  BY <1>1, <1>2, <1>3, <1>4, <1>5, <1>6, <1>7, <1>9, <1>10 DEF Next, Drain

(* A step that changes no answer. *)
LEMMA SteadyWaits ==
  ASSUME OutboxInv, Steady, Typed', daemon' = daemon, net' \subseteq net
  PROVE  PickedInv' /\ AnswerInv'
<1>0. Typed /\ AnswerInv
  BY DEF OutboxInv
<1>1. LeadsStay
  BY <1>0, KeepsLeads DEF Steady
<1>2. /\ UNCHANGED <<server, high>>
      /\ \A r \in Run : up'[r].acked = up[r].acked /\ high[r] <= high'[r]
  <2>1. \A r \in Run : high[r] \in Nat
    BY <1>0 DEF Typed, RemoteTypes
  <2>. QED  BY <2>1 DEF Steady, SameRow
<1>3. \A x : Served(x)' <=> Served(x)
  BY <1>2 DEF Served
<1>4. daemon.at = "answered" /\ daemon.answer = "gap" =>
        Position(server'[daemon.upload.run]) <= daemon.gap
  BY <1>0, <1>2 DEF AnswerInv
<1>5. Waits
  BY <1>1, <1>2, <1>3, <1>4 DEF Waits
<1>. QED  BY <1>5, WaitsStep

LEMMA PickStep ==
  ASSUME OutboxInv, Typed', DrainPick
  PROVE  PickedInv' /\ AnswerInv'
<1>0. Typed /\ PickedInv
  BY DEF OutboxInv
<1>1. daemon.at = "repair" /\ net' = net
  BY DEF DrainPick, remote
<1>2. CASE daemon' = Idle
  BY <1>0, <1>1, <1>2, PickedIdle DEF Idle
<1>3. CASE \E r \in IF Registrable = {} THEN {None} ELSE Registrable :
             daemon' = [daemon EXCEPT !.at = "connect", !.reg = r,
                          !.upload = IF Uploadable = {} THEN None
                                     ELSE queue[Min(Uploadable)].req]
  <2>1. PICK q : q = IF Uploadable = {} THEN None ELSE queue[Min(Uploadable)].req
    OBVIOUS
  <2>2. daemon'.at = "connect" /\ daemon'.upload = q
    BY <1>0, <1>3, <2>1 DEF Typed, Daemon
  <2>3. LeadsStay
    <3>1. Keeps(queue, queue')
      BY <1>0, PickKeeps DEF DrainPick
    <3>. QED  BY <1>0, <3>1, KeepsLeads
  <2>4. q # None => \E k \in DOMAIN queue' : queue'[k].req = q /\ Leads(queue', k)
    <3>. SUFFICES ASSUME Uploadable # {}
                  PROVE  \E k \in DOMAIN queue' : queue'[k].req = q /\ Leads(queue', k)
      BY <2>1
    <3>1. PICK k : k = Min(Uploadable)
      OBVIOUS
    <3>2. k \in DOMAIN queue /\ queue[k].req = q /\ Leads(queue, k)
      BY <1>0, <2>1, <3>1, FirstUploadable
    <3>. QED  BY <2>3, <3>2 DEF LeadsStay
  <2>5. \A c \in net' : c.late
    BY <1>0, <1>1 DEF PickedInv
  <2>. QED  BY <2>2, <2>4, <2>5 DEF PickedInv, AnswerInv
<1>. QED  BY <1>2, <1>3, Zenon DEF DrainPick

LEMMA AnswerStep ==
  ASSUME OutboxInv, Typed', [Next]_vars
  PROVE  PickedInv' /\ AnswerInv'
<1>0. Typed /\ DataInv /\ PickedInv /\ net \subseteq [req : Request, late : BOOLEAN]
  BY DEF OutboxInv, Typed, RemoteTypes
<1>1. CASE \/ \E i \in DOMAIN queue : AttachAcceptance(i)
           \/ \E r \in Run : DueUpload(r) \/ DueRegistration(r)
           \/ UNCHANGED vars
  <2>1. Steady
    BY <1>0, <1>1, SteadyStore, KeepsSelf DEF Steady, vars, store, remote
  <2>2. daemon' = daemon /\ net' = net
    BY <1>1 DEF AttachAcceptance, DueUpload, DueRegistration, vars, remote
  <2>. QED  BY <2>1, <2>2, SteadyWaits
<1>2. CASE DrainBegin \/ Reenroll \/ ConnectFails \/ ScanAfterAck \/ Deny \/ RepairGap
           \/ \E r \in Run : DrainRepair(r)
  <2>1. daemon'.at \in {"idle", "repair"}
    <3>1. CASE DrainBegin
      BY <1>0, <3>1 DEF DrainBegin, Typed, Daemon
    <3>2. CASE \E r \in Run : DrainRepair(r)
      BY <1>0, <3>2 DEF DrainRepair, Typed, Daemon
    <3>3. CASE Reenroll \/ ConnectFails \/ ScanAfterAck \/ Deny \/ RepairGap
      <4>1. daemon' = Idle
        BY <3>3, Zenon DEF Reenroll, ConnectFails, ScanAfterAck, Deny, RepairGap
      <4>. QED  BY <4>1 DEF Idle
    <3>. QED  BY <1>2, <3>1, <3>2, <3>3
  <2>2. daemon.at # "sent" /\ net' = net
    BY <1>2 DEF DrainBegin, Reenroll, ConnectFails, ScanAfterAck, Deny, RepairGap,
       DrainRepair, remote
  <2>. QED  BY <1>0, <2>1, <2>2, PickedIdle
<1>3. CASE UploadFails \/ Stop
  <2>1. daemon'.at \in {"idle", "repair"} /\ net' = Abandoned
    BY <1>3 DEF UploadFails, Stop, Idle
  <2>. QED  BY <1>0, <2>1, PickedIdle
<1>4. CASE DrainPick
  BY <1>4, PickStep
<1>5. CASE Register
  <2>1. daemon.at = "connect" /\ UNCHANGED <<queue, net>>
    BY <1>5 DEF Register, remote
  <2>2. CASE daemon.upload = None
    <3>1. daemon' = Idle
      BY <1>5, <2>2 DEF Register, Onward
    <3>. QED  BY <1>0, <2>1, <3>1, PickedIdle DEF Idle
  <2>3. CASE daemon.upload # None
    <3>1. daemon'.at = "upload" /\ daemon'.upload = daemon.upload
      BY <1>0, <1>5, <2>3 DEF Register, Onward, Typed, Daemon
    <3>. QED  BY <1>0, <2>1, <2>3, <3>1 DEF PickedInv, AnswerInv
  <2>. QED  BY <2>2, <2>3
<1>6. CASE SendUpload
  <2>1. /\ daemon.at = "upload" /\ daemon'.at = "sent" /\ daemon'.upload = daemon.upload
        /\ UNCHANGED queue /\ net' = net \union {[req |-> daemon.upload, late |-> FALSE]}
    BY <1>0, <1>6 DEF SendUpload, store, Typed, Daemon
  <2>. QED  BY <1>0, <2>1 DEF PickedInv, AnswerInv
<1>7. CASE Acknowledge
  <2>1. /\ daemon.at = "answered" /\ daemon'.at = "scan" /\ daemon'.upload = daemon.upload
        /\ net' = net
    BY <1>0, <1>7 DEF Acknowledge, remote, Typed, Daemon
  <2>. QED  BY <1>0, <2>1 DEF PickedInv, AnswerInv
<1>8. ASSUME NEW r \in Run, Publish(r) PROVE PickedInv' /\ AnswerInv'
  <2>1. LeadsStay /\ \A s \in Run : up'[s].acked = up[s].acked
    BY <1>0, <1>8, ScanLeads DEF Scans
  <2>2. daemon' = daemon /\ UNCHANGED <<net, server, high>>
    BY <1>8 DEF Publish, remote
  <2>3. \A s \in Run : high[s] <= high'[s]
    BY <1>0, <2>2 DEF Typed, RemoteTypes
  <2>4. \A x : Served(x)' <=> Served(x)
    BY <2>2 DEF Served
  <2>5. daemon.at = "answered" /\ daemon.answer = "gap" =>
          Position(server'[daemon.upload.run]) <= daemon.gap
    BY <2>2 DEF OutboxInv, AnswerInv
  <2>6. Waits
    BY <2>1, <2>2, <2>3, <2>4, <2>5 DEF Waits
  <2>. QED  BY <2>6, WaitsStep
<1>9. ASSUME NEW r \in Run, ServerLoses(r) PROVE PickedInv' /\ AnswerInv'
  <2>1. /\ \A s \in Run : Position(server'[s]) <= Position(server[s])
        /\ net' = {} /\ UNCHANGED <<up, queue, daemon, high>>
    BY <1>0, <1>9, LosesRows
  <2>2. LeadsStay
    <3>1. Keeps(queue, queue')
      BY <1>0, <2>1, KeepsSelf
    <3>. QED  BY <1>0, <3>1, KeepsLeads
  <2>3. \A s \in Run : high[s] <= high'[s]
    BY <1>0, <2>1 DEF Typed, RemoteTypes
  <2>4. ASSUME daemon.at = "answered", daemon.answer = "gap"
        PROVE  Position(server'[daemon.upload.run]) <= daemon.gap
    <3>1. daemon.upload # None
      BY <2>4 DEF OutboxInv, PickedInv
    <3>2. PICK s \in Run : s = daemon.upload.run
      BY <1>0, <3>1 DEF Typed, Daemon, Request
    <3>3. Position(server[s]) <= daemon.gap /\ daemon.gap \in Nat
      BY <1>0, <2>4, <3>2 DEF OutboxInv, AnswerInv, Typed, Daemon
    <3>4. Position(server'[s]) \in Nat /\ Position(server[s]) \in Nat
      <4>1. PICK t \in Seq(Request) : t = server'[s]
        BY <3>2 DEF Typed, RemoteTypes
      <4>2. Position(t) \in Nat
        BY <4>1, LastPosition
      <4>. QED  BY <1>0, <3>2, <4>1, <4>2, PositionType
    <3>. QED  BY <2>1, <3>2, <3>3, <3>4
  <2>5. Waits
    BY <2>1, <2>2, <2>3, <2>4 DEF Waits
  <2>. QED  BY <2>5, WaitsStep
<1>10. ASSUME NEW c \in net, Serve(c) PROVE PickedInv' /\ AnswerInv'
  <2>1. c.late \in BOOLEAN
    BY <1>0, CalledRequest
  <2>2. CASE c.late
    <3>1. Waits
      BY <1>10, <2>2, ServeWaits
    <3>. QED  BY <3>1, WaitsStep
  <2>3. CASE ~c.late
    BY <1>10, <2>3, ServeAnswers
  <2>. QED  BY <2>1, <2>2, <2>3
<1>11. ASSUME NEW c \in net, Refuse(c) PROVE PickedInv' /\ AnswerInv'
  BY <1>11, RefuseAnswers
<1>. QED  BY <1>1, <1>2, <1>3, <1>4, <1>5, <1>6, <1>7, <1>8, <1>9, <1>10, <1>11 DEF Next, Drain

LEMMA OutboxStep == OutboxInv /\ [Next]_vars => OutboxInv'
<1>. SUFFICES ASSUME OutboxInv, [Next]_vars PROVE OutboxInv'
  OBVIOUS
<1>1. Typed' /\ DataInv'
  BY DataStep
<1>2. PickedInv' /\ AnswerInv'
  BY <1>1, AnswerStep
<1>. QED  BY <1>1, <1>2 DEF OutboxInv

LEMMA OutboxInit == Init => OutboxInv
<1>. SUFFICES ASSUME Init PROVE OutboxInv
  OBVIOUS
<1>1. /\ local = [r \in Run |-> << >>] /\ up = [r \in Run |-> NoRow] /\ queue = << >>
      /\ snapshot = [r \in Run |-> 0] /\ nextOp = 1 /\ daemon = Idle /\ net = {}
      /\ server = [r \in Run |-> << >>] /\ high = [r \in Run |-> 0] /\ faults = 0
  BY DEF Init
<1>2. MaxFaults \in Nat /\ Idle \in Daemon /\ Idle.at = "idle"
  BY OutboxAssumption DEF Idle, Daemon
<1>3. /\ NoRow \in UpRow /\ NoRow.map = << >> /\ NoRow.last = 0 /\ NoRow.acked = 0
      /\ ~NoRow.origin
  BY NoRowType DEF NoRow
<1>4. Typed
  <2>1. StoreTypes
    BY <1>1, <1>3 DEF StoreTypes
  <2>2. RemoteTypes
    BY <1>1 DEF RemoteTypes
  <2>. QED  BY <1>1, <1>2, <2>1, <2>2 DEF Typed
<1>5. MapInv
  <2>1. Lists(NoRow, << >>)
    <3>1. << >> \in Seq(BOOLEAN) /\ 0 \in 0 .. Len(<< >>)
      OBVIOUS
    <3>2. Hosted(<< >>, 0) = {}
      BY DEF Hosted
    <3>3. Cardinality({}) = 0
      BY FS_EmptySet
    <3>4. \A s \in [1 .. 0 -> {}] : s = << >>
      OBVIOUS
    <3>5. << >> \in [1 .. 0 -> {}] /\ \A i, j \in DOMAIN << >> : i < j => << >>[i] < << >>[j]
      OBVIOUS
    <3>6. Ascending({}) = << >>
      BY <3>3, <3>4, <3>5 DEF Ascending
    <3>7. Len(<< >>) = 0
      OBVIOUS
    <3>8. NoRow.last <= Len(<< >>) /\ NoRow.acked <= Len(NoRow.map)
      BY <1>3, <3>7
    <3>9. NoRow.map = Ascending(Hosted(<< >>, NoRow.last))
      BY <1>3, <3>2, <3>6
    <3>. QED  BY <3>8, <3>9 DEF Lists
  <2>2. Blank(NoRow)
    BY <1>3 DEF Blank
  <2>. QED  BY <1>1, <2>1, <2>2 DEF MapInv
<1>6. /\ KnownInv /\ QueueInv /\ NetInv
  BY <1>1 DEF KnownInv, Known, Queued, QueueInv, NetInv
<1>7. CoverInv /\ DroppedInv
  <2>1. \A r \in Run : Len(up[r].map) = 0
    BY <1>1, <1>3
  <2>. QED  BY <2>1 DEF CoverInv, DroppedInv
<1>8. ServerInv
  <2>1. \A r \in Run : server[r] = << >> /\ high[r] = 0
    BY <1>1
  <2>2. \A r \in Run : Chain(<< >>, r)
    BY DEF Chain
  <2>. QED  BY <2>1, <2>2 DEF ServerInv, Position
<1>9. PickedInv /\ AnswerInv
  BY <1>1, <1>2 DEF PickedInv, AnswerInv
<1>. QED  BY <1>4, <1>5, <1>6, <1>7, <1>8, <1>9 DEF OutboxInv, DataInv

-----------------------------------------------------------------------------
(* What it implies.                                                         *)

LEMMA MapListed ==
  ASSUME Typed, MapInv, NEW r \in Run
  PROVE  \E p \in Seq(Nat) :
           Ascending({i \in DOMAIN local[r] : local[r][i]}) = up[r].map \o p
<1>1. /\ local[r] \in Seq(BOOLEAN) /\ up[r].last \in Nat /\ Lists(up[r], local[r])
  BY DEF Typed, StoreTypes, UpRow, MapInv
<1>2. PICK l \in Seq(BOOLEAN) : l = local[r]
  BY <1>1
<1>3. PICK n \in Nat : n = up[r].last
  BY <1>1
<1>4. n <= Len(l) /\ up[r].map = Ascending(Hosted(l, n))
  BY <1>1, <1>2, <1>3 DEF Lists
<1>5. DOMAIN l = 1 .. Len(l) /\ Len(l) \in Nat
  BY <1>2
<1>6. PICK k \in n .. Len(l) : k = Len(l)
  <2>1. n \in Nat
    BY <1>3
  <2>2. Len(l) \in n .. Len(l)
    BY <1>4, <1>5, <2>1
  <2>. QED  BY <2>2
<1>7. LET p == Ascending({i \in n + 1 .. k : l[i]})
      IN  p \in Seq(Nat) /\ Ascending(Hosted(l, k)) = Ascending(Hosted(l, n)) \o p
  BY <1>2, <1>3, <1>6, ProjectedList
<1>8. Hosted(l, k) = {i \in DOMAIN l : l[i]}
  BY <1>5, <1>6 DEF Hosted
<1>. QED  BY <1>2, <1>4, <1>7, <1>8

LEMMA PrefixOf ==
  ASSUME NEW m \in Seq(Nat), NEW p \in Seq(Nat), NEW n \in Nat, n <= Len(m)
  PROVE  IsPrefix([i \in 1 .. n |-> m[i]], m \o p)
<1>. DEFINE e == [i \in 1 .. n |-> m[i]]
            t == m \o p
<1>1. /\ t \in Seq(Nat) /\ Len(m) \in Nat /\ Len(p) \in Nat /\ Len(t) = Len(m) + Len(p)
      /\ \A i \in 1 .. Len(m) : t[i] = m[i]
  OBVIOUS
<1>2. e \in Seq(Nat) /\ Len(e) = n /\ \A i \in 1 .. n : e[i] = m[i]
  OBVIOUS
<1>. HIDE DEF e, t
<1>3. Len(e) <= Len(t)
  BY <1>1, <1>2
<1>4. SubSeq(e, 1, n) = SubSeq(t, 1, n)
  <2>0. \A i \in 1 .. n : i \in 1 .. Len(m)
    BY <1>1
  <2>1. \A i \in 1 .. n : i \in 1 .. Len(m) /\ e[i] = t[i]
    BY <1>1, <1>2, <2>0
  <2>2. /\ SubSeq(e, 1, n) = [i \in 1 .. n |-> e[i]]
        /\ SubSeq(t, 1, n) = [i \in 1 .. n |-> t[i]]
    BY <1>1, <1>2, <1>3
  <2>. QED  BY <2>1, <2>2
<1>5. IsPrefix(e, t)
  BY <1>2, <1>3, <1>4 DEF IsPrefix
<1>. QED  BY <1>5 DEF e, t

LEMMA SubSeqElement ==
  ASSUME NEW m \in Seq(Nat), NEW a \in Nat, NEW b \in Nat, a < b, b <= Len(m)
  PROVE  \A k \in 1 .. b - a : SubSeq(m, a + 1, b)[k] = m[a + k]
OBVIOUS

LEMMA ServedEvents ==
  ASSUME Typed, DataInv, NEW r \in Run
  PROVE  /\ Position(server[r]) <= Len(up[r].map)
         /\ Events(server[r]) = [n \in 1 .. Position(server[r]) |-> up[r].map[n]]
<1>. DEFINE s == server[r]
<1>1. /\ s \in Seq(Request) /\ Chain(s, r) /\ \A i \in DOMAIN s : s[i] \in Request
      /\ Position(s) \in Nat
  BY ServedForward, PositionType DEF DataInv, ServerInv
<1>2. \A i \in DOMAIN s : /\ Sound(s[i]) /\ s[i].run = r
                          /\ s[i].first \in Nat /\ s[i].next \in Nat
  <2>1. \A i \in DOMAIN s : Known(s[i])
    BY DEF Known
  <2>. QED  BY <1>1, <2>1 DEF DataInv, KnownInv, Chain, Request
<1>3. PICK m \in Seq(Nat) : m = up[r].map
  BY DEF Typed, StoreTypes, UpRow
<1>4. Len(m) \in Nat
  BY <1>3
<1>5. ASSUME s # << >>
      PROVE  Len(s) \in DOMAIN s /\ Position(s) = s[Len(s)].next
  <2>1. PICK t \in Seq(Request) : t = s
    BY <1>1
  <2>. QED  BY <1>5, <2>1, LastPosition
<1>6. Position(s) <= Len(m)
  <2>1. CASE s = << >>
    BY <1>4, <2>1 DEF Position
  <2>2. CASE s # << >>
    BY <1>2, <1>3, <1>5, <2>2 DEF Sound
  <2>. QED  BY <2>1, <2>2
<1>7. ASSUME NEW n \in 1 .. Position(s)
      PROVE  LET q == CHOOSE x \in Range(s) : x.first < n /\ n <= x.next
             IN  q.events[n - q.first] = m[n]
  <2>0. n \in Nat /\ n - 1 \in Nat /\ n - 1 < Position(s)
    BY <1>1
  <2>1. s # << >>
    <3>. SUFFICES ASSUME s = << >> PROVE FALSE
      OBVIOUS
    <3>1. Position(s) = 0
      BY DEF Position
    <3>. QED  BY <3>1
  <2>2. PICK i \in 1 .. Len(s) : Covers(s[i], n - 1)
    BY <1>1, <1>5, <2>0, <2>1 DEF Chain
  <2>3. i \in DOMAIN s /\ s[i] \in Range(s)
    BY <1>1, <2>2 DEF Range
  <2>4. s[i].first < n /\ n <= s[i].next
    BY <1>2, <2>0, <2>2, <2>3 DEF Covers
  <2>5. PICK q : q = CHOOSE x \in Range(s) : x.first < n /\ n <= x.next
    OBVIOUS
  <2>6. q \in Range(s) /\ q.first < n /\ n <= q.next
    BY <2>3, <2>4, <2>5
  <2>7. PICK j \in DOMAIN s : s[j] = q
    BY <2>6 DEF Range
  <2>8. /\ q.first \in Nat /\ q.next \in Nat /\ q.next <= Len(m)
        /\ q.events = SubSeq(m, q.first + 1, q.next)
    BY <1>2, <1>3, <2>7 DEF Sound
  <2>9. PICK a \in Nat, b \in Nat : a = q.first /\ b = q.next
    BY <2>8
  <2>10. a \in Nat /\ b \in Nat /\ a < n /\ n <= b /\ b <= Len(m)
    BY <2>6, <2>8, <2>9
  <2>11. n - a \in 1 .. b - a /\ a + (n - a) = n /\ a < b /\ b <= Len(m)
    BY <2>0, <2>10
  <2>12. SubSeq(m, a + 1, b)[n - a] = m[n]
    <3>1. \A k \in 1 .. b - a : SubSeq(m, a + 1, b)[k] = m[a + k]
      BY <1>3, <2>10, <2>11, SubSeqElement
    <3>. QED  BY <2>11, <3>1
  <2>. QED  BY <2>5, <2>8, <2>9, <2>12
<1>8. Events(s) = [n \in 1 .. Position(s) |-> m[n]]
  BY <1>7 DEF Events
<1>. QED  BY <1>3, <1>6, <1>8

LEMMA OutboxAlways == Spec => []OutboxInv
<1>1. Init => OutboxInv
  BY OutboxInit
<1>2. OutboxInv /\ [Next]_vars => OutboxInv'
  BY OutboxStep
<1>. QED  BY <1>1, <1>2, PTL DEF Spec

(* The tables, the daemon and the calls in flight always have their types,  *)
(* the scan of a run never passes its local events and acked_position never *)
(* passes its event map.                                                    *)
THEOREM TypesCorrect == Spec => []TypeOK
<1>1. OutboxInv => TypeOK
  <2>. SUFFICES ASSUME OutboxInv PROVE TypeOK
    OBVIOUS
  <2>1. Typed /\ MapInv
    BY DEF OutboxInv, DataInv
  <2>2. ASSUME NEW r \in Run
        PROVE  /\ up[r].registered \in {-1, 0, 1} /\ up[r].incomplete \in Reasons
               /\ up[r].last \in 0 .. Len(local[r]) /\ up[r].acked \in 0 .. Len(up[r].map)
    <3>1. up[r] \in UpRow /\ local[r] \in Seq(BOOLEAN)
      BY <2>1 DEF Typed, StoreTypes
    <3>2. /\ up[r].registered \in {-1, 0, 1} /\ up[r].incomplete \in Reasons
          /\ up[r].last \in Nat /\ up[r].acked \in Nat /\ up[r].map \in Seq(Nat)
      BY <3>1 DEF UpRow
    <3>3. up[r].last <= Len(local[r]) /\ up[r].acked <= Len(up[r].map)
      BY <2>1 DEF MapInv, Lists
    <3>4. Len(local[r]) \in Nat /\ Len(up[r].map) \in Nat
      BY <3>1, <3>2
    <3>. QED  BY <3>2, <3>3, <3>4
  <2>3. daemon.upload \in Request \union {None}
    BY <2>1 DEF Typed, Daemon
  <2>. QED  BY <2>1, <2>2, <2>3 DEF TypeOK, Typed, StoreTypes, RemoteTypes
<1>. QED  BY <1>1, OutboxAlways, PTL

(* The two ensures of acknowledge never fail: the answered request is in    *)
(* the outbox and begins where the acknowledged prefix ends, whatever was   *)
(* repaired, retried, refused, lost or scanned while its call was out.      *)
THEOREM AckFindsRequest == Spec => []AckContinues
<1>1. OutboxInv => AckContinues
  <2>. SUFFICES ASSUME OutboxInv, daemon.at = "answered", daemon.answer = "ack" PROVE AckFits
    BY DEF AckContinues
  <2>1. daemon.upload # None /\ \E k \in DOMAIN queue : queue[k].req = daemon.upload
    BY DEF OutboxInv, PickedInv
  <2>2. Index(daemon.upload.op) # {}
    BY <2>1 DEF Index
  <2>3. up[daemon.upload.run].acked = daemon.upload.first
    BY DEF OutboxInv, AnswerInv
  <2>. QED  BY <2>2, <2>3 DEF AckFits
<1>. QED  BY <1>1, OutboxAlways, PTL

(* A hosted position beyond what the server ever held is still covered by a *)
(* request in the outbox: no acknowledgement, refusal or repair drops it.   *)
THEOREM NothingIsDropped == Spec => []NothingDropped
<1>1. OutboxInv => NothingDropped
  <2>. SUFFICES ASSUME OutboxInv, NEW r \in Run, NEW n \in high[r] + 1 .. Len(up[r].map)
                PROVE  \E i \in DOMAIN queue : /\ queue[i].req.run = r
                                               /\ queue[i].req.first < n /\ n <= queue[i].req.next
    BY DEF NothingDropped
  <2>1. Typed /\ DroppedInv
    BY DEF OutboxInv, DataInv
  <2>2. high[r] \in Nat /\ Len(up[r].map) \in Nat
    <3>1. up[r].map \in Seq(Nat) /\ high[r] \in Nat
      BY <2>1 DEF Typed, StoreTypes, RemoteTypes, UpRow
    <3>. QED  BY <3>1
  <2>3. n - 1 \in Nat /\ high[r] <= n - 1 /\ n - 1 < Len(up[r].map)
    BY <2>2
  <2>4. PICK i \in DOMAIN queue : queue[i].req.run = r /\ Covers(queue[i].req, n - 1)
    BY <2>1, <2>3 DEF DroppedInv
  <2>5. queue[i].req.first \in Nat /\ queue[i].req.next \in Nat
    <3>1. queue[i] \in Rows
      BY <2>1, <2>4 DEF Typed, StoreTypes
    <3>. QED  BY <3>1 DEF Rows, Request
  <2>6. queue[i].req.first < n /\ n <= queue[i].req.next
    BY <2>2, <2>4, <2>5 DEF Covers
  <2>. QED  BY <2>4, <2>6
<1>. QED  BY <1>1, OutboxAlways, PTL

(* What the server shows of a run is a prefix of its local events that have *)
(* a hosted form, in their order: retries under one operation id, late      *)
(* calls, gap repairs and losses of the server never skip, repeat or swap   *)
(* an event.                                                                *)
THEOREM HostedIsLocal == Spec => []Faithful
<1>1. OutboxInv => Faithful
  <2>. SUFFICES ASSUME OutboxInv, NEW r \in Run
                PROVE  IsPrefix(Events(server[r]),
                                Ascending({i \in DOMAIN local[r] : local[r][i]}))
    BY DEF Faithful
  <2>1. Typed /\ DataInv /\ MapInv
    BY DEF OutboxInv, DataInv
  <2>2. /\ Position(server[r]) <= Len(up[r].map)
        /\ Events(server[r]) = [n \in 1 .. Position(server[r]) |-> up[r].map[n]]
    BY <2>1, ServedEvents
  <2>3. PICK m \in Seq(Nat) : m = up[r].map
    BY <2>1 DEF Typed, StoreTypes, UpRow
  <2>4. PICK p \in Seq(Nat) : Ascending({i \in DOMAIN local[r] : local[r][i]}) = up[r].map \o p
    BY <2>1, MapListed
  <2>5. PICK k \in Nat : k = Position(server[r])
    BY <2>1, PositionType
  <2>6. IsPrefix([n \in 1 .. k |-> m[n]], m \o p)
    <3>1. k \in Nat /\ k <= Len(m)
      BY <2>2, <2>3, <2>5
    <3>. QED  BY <2>3, <2>4, <3>1, PrefixOf
  <2>. QED  BY <2>2, <2>3, <2>4, <2>5, <2>6
<1>. QED  BY <1>1, OutboxAlways, PTL

-----------------------------------------------------------------------------
(* The budget.                                                              *)

(* What Usage counts *)
Open(q) == {i \in DOMAIN q : ~q[i].terminal}
Accepted(q) == {i \in DOMAIN q : ~q[i].terminal /\ q[i].accept}
Registering(u) == {r \in Run : u[r].origin /\ u[r].registered = 0}

LEMMA UsageCounts ==
  ASSUME NEW q \in Seq(Rows), NEW u
  PROVE  /\ IsFiniteSet(Open(q)) /\ Cardinality(Open(q)) \in Nat
         /\ IsFiniteSet(Accepted(q)) /\ Cardinality(Accepted(q)) \in Nat
         /\ IsFiniteSet(Registering(u)) /\ Cardinality(Registering(u)) \in Nat
         /\ Usage(q, u) = Cardinality(Open(q)) + Cardinality(Accepted(q))
                            + Cardinality(Registering(u))
<1>1. IsFiniteSet(DOMAIN q)
  <2>1. DOMAIN q = 1 .. Len(q) /\ Len(q) \in Int /\ 1 \in Int
    OBVIOUS
  <2>. QED  BY <2>1, FS_Interval
<1>2. Open(q) \in SUBSET DOMAIN q /\ Accepted(q) \in SUBSET DOMAIN q
  BY DEF Open, Accepted
<1>3. IsFiniteSet(Open(q)) /\ IsFiniteSet(Accepted(q))
  BY <1>1, <1>2, FS_Subset
<1>4. IsFiniteSet(Registering(u))
  <2>1. Registering(u) \in SUBSET Run /\ IsFiniteSet(Run)
    BY OutboxAssumption DEF Registering
  <2>. QED  BY <2>1, FS_Subset
<1>5. Usage(q, u) = Cardinality(Open(q)) + Cardinality(Accepted(q)) + Cardinality(Registering(u))
  BY DEF Usage, Open, Accepted, Registering
<1>. QED  BY <1>3, <1>4, <1>5, FS_CardinalityType

LEMMA UsageType ==
  ASSUME NEW q \in Seq(Rows), NEW u
  PROVE  Usage(q, u) \in Nat
BY UsageCounts

LEMMA OneMoreMember ==
  ASSUME NEW S, NEW T, IsFiniteSet(S), NEW x, T \subseteq S \union {x}
  PROVE  Cardinality(T) <= Cardinality(S) + 1
<1>1. IsFiniteSet(S \union {x}) /\ Cardinality(S \union {x}) <= Cardinality(S) + 1
  <2>1. Cardinality(S) \in Nat
    BY FS_CardinalityType
  <2>2. /\ IsFiniteSet(S \union {x})
        /\ Cardinality(S \union {x}) = IF x \in S THEN Cardinality(S) ELSE Cardinality(S) + 1
    BY FS_AddElement
  <2>. QED  BY <2>1, <2>2
<1>2. Cardinality(T) <= Cardinality(S \union {x}) /\ IsFiniteSet(T)
  BY <1>1, FS_Subset
<1>3. Cardinality(S) \in Nat /\ Cardinality(T) \in Nat /\ Cardinality(S \union {x}) \in Nat
  BY <1>1, <1>2, FS_CardinalityType
<1>. QED  BY <1>1, <1>2, <1>3

(* Nothing new counts. *)
LEMMA NoMoreUsage ==
  ASSUME NEW q \in Seq(Rows), NEW p \in Seq(Rows), NEW u, NEW v,
         Open(p) \subseteq Open(q), Accepted(p) \subseteq Accepted(q),
         Registering(v) \subseteq Registering(u)
  PROVE  Usage(p, v) <= Usage(q, u)
<1>1. /\ Cardinality(Open(p)) <= Cardinality(Open(q))
      /\ Cardinality(Accepted(p)) <= Cardinality(Accepted(q))
      /\ Cardinality(Registering(v)) <= Cardinality(Registering(u))
  BY UsageCounts, FS_Subset
<1>. QED  BY <1>1, UsageCounts

(* One registration, one acceptance, or one request counts that did not.    *)
LEMMA OneMoreRegistration ==
  ASSUME NEW q \in Seq(Rows), NEW u, NEW v, NEW r,
         Registering(v) \subseteq Registering(u) \union {r}
  PROVE  Usage(q, v) <= Usage(q, u) + 1
<1>1. Cardinality(Registering(v)) <= Cardinality(Registering(u)) + 1
  BY UsageCounts, OneMoreMember
<1>. QED  BY <1>1, UsageCounts

LEMMA OneMoreAcceptance ==
  ASSUME NEW q \in Seq(Rows), NEW p \in Seq(Rows), NEW u, NEW v, NEW i,
         Open(p) \subseteq Open(q), Accepted(p) \subseteq Accepted(q) \union {i},
         Registering(v) \subseteq Registering(u)
  PROVE  Usage(p, v) <= Usage(q, u) + 1
<1>1. /\ Cardinality(Open(p)) <= Cardinality(Open(q))
      /\ Cardinality(Accepted(p)) <= Cardinality(Accepted(q)) + 1
      /\ Cardinality(Registering(v)) <= Cardinality(Registering(u))
  BY UsageCounts, FS_Subset, OneMoreMember
<1>. QED  BY <1>1, UsageCounts

LEMMA AppendedRows ==
  ASSUME NEW S, NEW q \in Seq(S), NEW x \in S
  PROVE  LET p == Append(q, x)
         IN  /\ p \in Seq(S) /\ p[Len(q) + 1] = x
             /\ DOMAIN p = DOMAIN q \union {Len(q) + 1}
             /\ \A i \in DOMAIN q : p[i] = q[i]
OBVIOUS

LEMMA OneMoreRequest ==
  ASSUME NEW q \in Seq(Rows), NEW x \in Rows, ~x.accept, NEW u, NEW v,
         Registering(v) \subseteq Registering(u)
  PROVE  Usage(Append(q, x), v) <= Usage(q, u) + 1
<1>1. PICK p \in Seq(Rows) : p = Append(q, x)
  BY AppendedRows
<1>2. /\ DOMAIN p = DOMAIN q \union {Len(q) + 1} /\ p[Len(q) + 1] = x
      /\ \A i \in DOMAIN q : p[i] = q[i]
  BY <1>1, AppendedRows
<1>3. Open(p) \subseteq Open(q) \union {Len(q) + 1} /\ Accepted(p) \subseteq Accepted(q)
  BY <1>2 DEF Open, Accepted
<1>4. /\ Cardinality(Open(p)) <= Cardinality(Open(q)) + 1
      /\ Cardinality(Accepted(p)) <= Cardinality(Accepted(q))
      /\ Cardinality(Registering(v)) <= Cardinality(Registering(u))
  BY <1>3, UsageCounts, FS_Subset, OneMoreMember
<1>5. Usage(p, v) <= Usage(q, u) + 1
  BY <1>4, UsageCounts
<1>. QED  BY <1>1, <1>5

LEMMA RemovedUsage ==
  ASSUME Typed, NEW k \in DOMAIN queue, queue' = RemoveAt(queue, k),
         Registering(up') \subseteq Registering(up)
  PROVE  Usage(queue', up') <= Usage(queue, up)
<1>1. /\ queue' \in Seq(Rows)
      /\ \A i \in DOMAIN queue' : \E m \in DOMAIN queue \ {k} :
           queue'[i] = queue[m] /\ m = IF i < k THEN i ELSE i + 1
  BY RowsThatStay
<1>2. PICK q \in Seq(Rows), p \in Seq(Rows) : q = queue /\ p = queue'
  BY <1>1 DEF Typed, StoreTypes
<1>3. q \in Seq(Rows) /\ p \in Seq(Rows) /\ k \in DOMAIN q
  BY <1>2
<1>. DEFINE g(i) == IF i < k THEN i ELSE i + 1
<1>4. \A i \in DOMAIN p : g(i) \in DOMAIN q /\ p[i] = q[g(i)]
  BY <1>1, <1>2
<1>5. \A i, j \in DOMAIN p : g(i) = g(j) => i = j
  <2>1. DOMAIN p \subseteq Nat /\ k \in Nat
    BY <1>3
  <2>. QED  BY <2>1
<1>. HIDE DEF g
<1>6. ASSUME NEW S, NEW T, IsFiniteSet(T), S \subseteq DOMAIN p, \A i \in S : g(i) \in T
      PROVE  Cardinality(S) <= Cardinality(T)
  <2>. DEFINE f == [i \in S |-> g(i)]
  <2>1. f \in [S -> T] /\ \A i, j \in S : f[i] = f[j] => i = j
    BY <1>5, <1>6
  <2>2. f \in Injection(S, T)
    BY <2>1 DEF Injection, IsInjective
  <2>. QED  BY <1>6, <2>2, FS_Injection
<1>7. Cardinality(Open(p)) <= Cardinality(Open(q))
  <2>1. Open(p) \subseteq DOMAIN p /\ \A i \in Open(p) : g(i) \in Open(q)
    BY <1>4 DEF Open
  <2>2. IsFiniteSet(Open(q))
    BY <1>3, UsageCounts
  <2>. QED  BY <1>6, <2>1, <2>2
<1>8. Cardinality(Accepted(p)) <= Cardinality(Accepted(q))
  <2>1. Accepted(p) \subseteq DOMAIN p /\ \A i \in Accepted(p) : g(i) \in Accepted(q)
    BY <1>4 DEF Accepted
  <2>2. IsFiniteSet(Accepted(q))
    BY <1>3, UsageCounts
  <2>. QED  BY <1>6, <2>1, <2>2
<1>9. PICK u, v : u = up /\ v = up'
  OBVIOUS
<1>10. Cardinality(Registering(v)) <= Cardinality(Registering(u))
  BY <1>3, <1>9, UsageCounts, FS_Subset
<1>11. Usage(p, v) <= Usage(q, u)
  BY <1>3, <1>7, <1>8, <1>10, UsageCounts
<1>. QED  BY <1>2, <1>9, <1>11

(* Steps after which no row, acceptance or registration counts that did not *)
Relieves ==
  /\ Keeps(queue, queue')
  /\ \A i \in 1 .. Len(queue) : queue'[i].accept = queue[i].accept
  /\ \A r \in Run : up'[r].origin = up[r].origin /\ (up'[r].registered = 0 => up[r].registered = 0)

LEMMA RelievedUsage ==
  ASSUME Typed, Relieves
  PROVE  Usage(queue', up') <= Usage(queue, up)
<1>1. Registering(up') \subseteq Registering(up)
  BY DEF Relieves, Registering
<1>2. /\ queue \in Seq(Rows) /\ queue' \in Seq(Rows)
      /\ DOMAIN queue = 1 .. Len(queue) /\ DOMAIN queue' = 1 .. Len(queue)
      /\ \A i \in 1 .. Len(queue) : /\ ~queue'[i].terminal => ~queue[i].terminal
                                    /\ queue'[i].accept = queue[i].accept
  BY DEF Typed, StoreTypes, Relieves, Keeps
<1>3. Open(queue') \subseteq Open(queue) /\ Accepted(queue') \subseteq Accepted(queue)
  BY <1>2 DEF Open, Accepted
<1>4. PICK q, p, u, v : q = queue /\ p = queue' /\ u = up /\ v = up'
  OBVIOUS
<1>5. Usage(p, v) <= Usage(q, u)
  BY <1>1, <1>2, <1>3, <1>4, NoMoreUsage
<1>. QED  BY <1>4, <1>5

LEMMA AppendedUsage ==
  ASSUME Typed, NEW x \in Rows, ~x.accept, queue' = Append(queue, x),
         NEW u, ~Full(u), Registering(up') \subseteq Registering(u)
  PROVE  Usage(queue', up') <= MaxPending
<1>1. PICK q, v : q = queue /\ v = up' /\ q \in Seq(Rows)
  BY DEF Typed, StoreTypes
<1>2. Usage(Append(q, x), v) <= Usage(q, u) + 1
  BY <1>1, OneMoreRequest
<1>3. Usage(q, u) \in Nat /\ MaxPending \in Nat /\ Usage(Append(q, x), v) \in Nat
  <2>1. PICK p \in Seq(Rows) : p = Append(q, x)
    BY <1>1, AppendedRows
  <2>. QED  BY <1>1, <2>1, UsageType, OutboxAssumption
<1>4. ~(Usage(q, u) >= MaxPending)
  BY <1>1 DEF Full
<1>5. Usage(Append(q, x), v) <= MaxPending
  BY <1>2, <1>3, <1>4
<1>. QED  BY <1>1, <1>5

LEMMA RelievedSteps ==
  ASSUME Typed, PickedInv,
         \/ \E r \in Run : DueUpload(r) \/ DueRegistration(r)
         \/ DrainBegin \/ DrainPick \/ Reenroll
         \/ ConnectFails \/ Register \/ SendUpload \/ UploadFails \/ Deny \/ Stop
  PROVE  Relieves
<1>1. Steady
  BY SteadyStore, SteadyDrain
<1>2. \A r \in Run : up'[r].origin = up[r].origin /\ (up'[r].registered = 0 => up[r].registered = 0)
  BY <1>1 DEF Steady, SameRow
<1>3. \/ queue' = queue
      \/ \E i \in DOMAIN queue : queue' = [queue EXCEPT ![i].due = "now"]
      \/ \E op : queue' = Later(op) \/ queue' = Terminal(op)
      \/ DrainPick
  BY DEF DueUpload, DueRegistration, DrainBegin, Reenroll, ConnectFails, Register, SendUpload,
         UploadFails, Deny, Stop, store
<1>4. ASSUME NEW i \in 1 .. Len(queue)
      PROVE  queue'[i].accept = queue[i].accept
  <2>1. DOMAIN queue = 1 .. Len(queue) /\ queue[i] \in Rows
    BY DEF Typed, StoreTypes
  <2>2. ASSUME NEW k \in DOMAIN queue, queue' = [queue EXCEPT ![k].due = "now"]
        PROVE  queue'[i].accept = queue[i].accept
    <3>1. [queue[i] EXCEPT !.due = "now"].accept = queue[i].accept
      BY <2>1 DEF Rows
    <3>2. queue'[i] = IF i = k THEN [queue[i] EXCEPT !.due = "now"] ELSE queue[i]
      BY <2>1, <2>2
    <3>. QED  BY <3>1, <3>2
  <2>3. ASSUME NEW op, queue' = Later(op) \/ queue' = Terminal(op)
        PROVE  queue'[i].accept = queue[i].accept
    BY <2>3, LaterKeeps, TerminalKeeps
  <2>4. CASE DrainPick
    <3>1. queue' = [k \in DOMAIN queue |->
                      [queue[k] EXCEPT !.due = IF @ = "long" THEN "later" ELSE @]]
      BY <2>4 DEF DrainPick
    <3>. QED  BY <3>1, PickKeeps
  <2>. QED  BY <1>3, <2>2, <2>3, <2>4
<1>. QED  BY <1>1, <1>2, <1>4 DEF Steady, Relieves

(* Attaching an acceptance counts the request's own old one as free.        *)
LEMMA AttachBudget ==
  ASSUME Typed, PendingBounded, NEW i \in DOMAIN queue, AttachAcceptance(i)
  PROVE  PendingBounded'
<1>1. Steady
  BY SteadyStore
<1>2. /\ queue \in Seq(Rows) /\ queue' \in Seq(Rows)
      /\ DOMAIN queue = 1 .. Len(queue) /\ DOMAIN queue' = 1 .. Len(queue)
      /\ \A k \in 1 .. Len(queue) : ~queue'[k].terminal => ~queue[k].terminal
  BY <1>1 DEF Typed, StoreTypes, Steady, Keeps
<1>3. Registering(up') \subseteq Registering(up)
  BY <1>1 DEF Steady, SameRow, Registering
<1>4. PICK q, p, u, v : q = queue /\ p = queue' /\ u = up /\ v = up'
  OBVIOUS
<1>5. CASE queue' = [queue EXCEPT ![i].due = "never"]
  <2>1. \A k \in 1 .. Len(queue) : queue'[k].accept = queue[k].accept
    <3>1. [queue[i] EXCEPT !.due = "never"].accept = queue[i].accept
      BY StoredRow DEF Rows
    <3>2. \A k \in 1 .. Len(queue) :
            queue'[k] = IF k = i THEN [queue[i] EXCEPT !.due = "never"] ELSE queue[k]
      BY <1>2, <1>5
    <3>. QED  BY <3>1, <3>2
  <2>2. Relieves
    BY <1>1, <2>1 DEF Steady, SameRow, Relieves
  <2>3. /\ Usage(queue', up') <= Usage(queue, up)
    BY <2>2, RelievedUsage
  <2>4. Usage(p, v) \in Nat /\ Usage(q, u) \in Nat
    BY <1>2, <1>4, UsageType
  <2>. QED  BY <1>4, <2>3, <2>4, OutboxAssumption DEF PendingBounded
<1>6. CASE /\ Usage([queue EXCEPT ![i].accept = FALSE], up) + 1 <= MaxPending
           /\ queue' = [queue EXCEPT ![i].accept = TRUE, ![i].due = "now"]
  <2>. DEFINE x == [queue[i] EXCEPT !.accept = FALSE]
              y == [queue[i] EXCEPT !.accept = TRUE, !.due = "now"]
  <2>1. /\ queue[i] \in Rows /\ x \in Rows /\ x.terminal = queue[i].terminal
        /\ y.terminal = queue[i].terminal
    BY StoredRow DEF Rows
  <2>2. /\ [queue EXCEPT ![i].accept = FALSE] = [queue EXCEPT ![i] = x]
        /\ queue' = [queue EXCEPT ![i] = y]
    BY <1>6
  <2>. HIDE DEF x, y
  <2>3. PICK c : c = [queue EXCEPT ![i] = x]
    OBVIOUS
  <2>4. /\ c \in Seq(Rows) /\ DOMAIN c = DOMAIN queue
        /\ \A k \in DOMAIN queue : c[k] = IF k = i THEN x ELSE queue[k]
    BY <1>2, <2>1, <2>3
  <2>5. /\ DOMAIN queue' = DOMAIN queue
        /\ \A k \in DOMAIN queue : queue'[k] = IF k = i THEN y ELSE queue[k]
    BY <1>2, <2>2
  <2>6. Open(p) \subseteq Open(c) /\ Accepted(p) \subseteq Accepted(c) \union {i}
    BY <1>4, <2>1, <2>4, <2>5 DEF Open, Accepted
  <2>7. Usage(p, v) <= Usage(c, u) + 1
    BY <1>2, <1>3, <1>4, <2>4, <2>6, OneMoreAcceptance
  <2>8. Usage(p, v) \in Nat /\ Usage(c, u) \in Nat
    BY <1>2, <1>4, <2>4, UsageType
  <2>9. Usage(c, u) + 1 <= MaxPending
    BY <1>4, <1>6, <2>2, <2>3
  <2>10. Usage(p, v) <= MaxPending
    BY <2>7, <2>8, <2>9, OutboxAssumption
  <2>. QED  BY <1>4, <2>10 DEF PendingBounded
<1>. QED  BY <1>5, <1>6 DEF AttachAcceptance

(* A transaction counts one registration or one request, if there is room.  *)
LEMMA ScanBudget ==
  ASSUME Typed, MapInv, PendingBounded, NEW r \in Run, Scans(r)
  PROVE  PendingBounded'
<1>0. /\ up \in [Run -> UpRow] /\ queue \in Seq(Rows) /\ MaxPending \in Nat
  BY OutboxAssumption DEF Typed, StoreTypes
<1>1. PICK u, v : /\ Enters(r, u) /\ up' = [up EXCEPT ![r] = v]
                  /\ AppendsTo(r, u, v, local'[r])
                  /\ \/ UNCHANGED queue
                     \/ /\ ~Full([up EXCEPT ![r] = u])
                        /\ \E p \in Seq(Nat) : queue' = Append(queue, NewRow(r, Len(up[r].map), p))
  BY AppendStep, Zenon
<1>2. v.origin = u.origin /\ v.registered = u.registered
  BY <1>1 DEF AppendsTo
<1>3. PICK q, a, b, w : q = queue /\ a = up /\ b = up' /\ w = [up EXCEPT ![r] = u]
  OBVIOUS
<1>4. /\ \A s \in Run : a[s] \in UpRow
      /\ \A s \in Run : b[s] = IF s = r THEN v ELSE a[s]
      /\ \A s \in Run : w[s] = IF s = r THEN u ELSE a[s]
  BY <1>0, <1>1, <1>3
<1>5. Registering(b) \subseteq Registering(w)
  BY <1>2, <1>4 DEF Registering
<1>6. CASE /\ ~Full([up EXCEPT ![r] = u])
           /\ \E p \in Seq(Nat) : queue' = Append(queue, NewRow(r, Len(up[r].map), p))
  <2>1. PICK n \in Nat : n = Len(up[r].map)
    <3>1. up[r].map \in Seq(Nat)
      BY <1>0 DEF UpRow
    <3>. QED  BY <3>1
  <2>2. PICK p \in Seq(Nat) : queue' = Append(queue, NewRow(r, n, p))
    BY <1>6, <2>1
  <2>3. PICK x : x = NewRow(r, n, p)
    OBVIOUS
  <2>4. n \in Nat
    BY <2>1
  <2>5. x \in Rows /\ ~x.accept
    BY <2>3, <2>4, NewRowType
  <2>6. Usage(queue', up') <= MaxPending
    BY <1>3, <1>5, <1>6, <2>2, <2>3, <2>5, AppendedUsage
  <2>. QED  BY <2>6 DEF PendingBounded
<1>7. CASE UNCHANGED queue
  <2>1. CASE u = up[r]
    <3>1. Registering(b) \subseteq Registering(a)
      BY <1>4, <1>5, <2>1, <1>3 DEF Registering
    <3>2. Usage(q, b) <= Usage(q, a)
      BY <1>0, <1>3, <3>1, NoMoreUsage
    <3>3. Usage(q, b) \in Nat /\ Usage(q, a) \in Nat
      BY <1>0, <1>3, UsageType
    <3>. QED  BY <1>0, <1>3, <1>7, <3>2, <3>3 DEF PendingBounded
  <2>2. CASE \E origin \in BOOLEAN : u = Created(r, origin)
    <3>1. PICK origin \in BOOLEAN : u = Created(r, origin)
      BY <2>2
    <3>2. Usage(q, b) \in Nat /\ Usage(q, a) \in Nat
      BY <1>0, <1>3, UsageType
    <3>3. CASE ~origin \/ Full(up)
      <4>1. ~u.origin
        BY <3>1, <3>3, NoRowType DEF Created, NoRow
      <4>2. Registering(b) \subseteq Registering(a)
        BY <1>2, <1>4, <4>1 DEF Registering
      <4>3. Usage(q, b) <= Usage(q, a)
        BY <1>0, <1>3, <4>2, NoMoreUsage
      <4>. QED  BY <1>0, <1>3, <1>7, <3>2, <4>3 DEF PendingBounded
    <3>4. CASE ~Full(up)
      <4>1. Registering(b) \subseteq Registering(a) \union {r}
        BY <1>4 DEF Registering
      <4>2. Usage(q, b) <= Usage(q, a) + 1
        BY <1>0, <1>3, <4>1, OneMoreRegistration
      <4>3. ~(Usage(q, a) >= MaxPending)
        BY <1>3, <3>4 DEF Full
      <4>. QED  BY <1>0, <1>3, <1>7, <3>2, <4>2, <4>3 DEF PendingBounded
    <3>. QED  BY <3>3, <3>4
  <2>. QED  BY <1>1, <2>1, <2>2 DEF Enters
<1>. QED  BY <1>1, <1>6, <1>7

(* An acknowledgement frees a unit, a repaired gap uses one, if there is room. *)
LEMMA AnswerBudget ==
  ASSUME OutboxInv, PendingBounded, Acknowledge \/ RepairGap
  PROVE  PendingBounded'
<1>0. /\ up \in [Run -> UpRow] /\ queue \in Seq(Rows) /\ MaxPending \in Nat /\ Typed
  BY OutboxAssumption DEF OutboxInv, Typed, StoreTypes
<1>1. daemon.upload.run \in Run
  <2>1. daemon.upload # None
    BY DEF Acknowledge, RepairGap, OutboxInv, PickedInv
  <2>. QED  BY <1>0, <2>1 DEF Typed, Daemon, Request
<1>2. \A s \in Run : up'[s].origin = up[s].origin /\ up'[s].registered = up[s].registered
  <2>1. PICK r \in Run : r = daemon.upload.run
    BY <1>1
  <2>2. up[r] \in UpRow
    BY <1>0
  <2>3. \E n, c : \/ up' = [up EXCEPT ![r] = [up[r] EXCEPT !.acked = n, !.incomplete = c]]
                  \/ up' = [up EXCEPT ![r] = [up[r] EXCEPT !.acked = n]]
    <3>1. CASE Acknowledge
      <4>. DEFINE c == IF up[r].incomplete \in {"registration_denied",
                                                "needs_current_acceptance", "re-enroll"}
                       THEN "" ELSE up[r].incomplete
                  v == [up[r] EXCEPT !.acked = daemon.upload.next, !.incomplete = c]
      <4>1. up' = [up EXCEPT ![r].acked = daemon.upload.next,
                        ![r].incomplete =
                           IF @ \in {"registration_denied", "needs_current_acceptance", "re-enroll"}
                           THEN "" ELSE @]
        BY <2>1, <3>1 DEF Acknowledge
      <4>2. up' = [up EXCEPT ![r] = v]
        BY <1>0, <4>1
      <4>. HIDE DEF c
      <4>. QED  BY <4>2
    <3>2. CASE RepairGap
      <4>. DEFINE n == Lesser(up[r].acked, daemon.gap)
                  v == [up[r] EXCEPT !.acked = n]
                  w == [up[r] EXCEPT !.acked = n, !.incomplete = "outbox_overflow"]
      <4>1. \/ up' = [Lowered(r, daemon.gap) EXCEPT ![r].incomplete = "outbox_overflow"]
            \/ up' = Lowered(r, daemon.gap)
        BY <2>1, <3>2 DEF RepairGap
      <4>2. Lowered(r, daemon.gap) = [up EXCEPT ![r] = v]
        BY DEF Lowered
      <4>3. [v EXCEPT !.incomplete = "outbox_overflow"] = w
        BY <2>2 DEF UpRow
      <4>. HIDE DEF v
      <4>4. [[up EXCEPT ![r] = v] EXCEPT ![r].incomplete = "outbox_overflow"] = [up EXCEPT ![r] = w]
        <5>. HIDE DEF w
        <5>. QED  BY <1>0, <2>1, <4>3
      <4>5. up' = [up EXCEPT ![r] = v] \/ up' = [up EXCEPT ![r] = w]
        BY <4>1, <4>2, <4>4
      <4>. HIDE DEF n
      <4>. QED  BY <4>5 DEF v, w
    <3>. QED  BY <3>1, <3>2
  <2>4. PICK n, c : \/ up' = [up EXCEPT ![r] = [up[r] EXCEPT !.acked = n, !.incomplete = c]]
                    \/ up' = [up EXCEPT ![r] = [up[r] EXCEPT !.acked = n]]
    BY <2>3
  <2>5. /\ [up[r] EXCEPT !.acked = n, !.incomplete = c].origin = up[r].origin
        /\ [up[r] EXCEPT !.acked = n, !.incomplete = c].registered = up[r].registered
        /\ [up[r] EXCEPT !.acked = n].origin = up[r].origin
        /\ [up[r] EXCEPT !.acked = n].registered = up[r].registered
    BY <2>2 DEF UpRow
  <2>. QED  BY <1>0, <2>4, <2>5
<1>3. Registering(up') \subseteq Registering(up)
  BY <1>2 DEF Registering
<1>4. ASSUME queue' \in Seq(Rows), Usage(queue', up') <= Usage(queue, up) PROVE PendingBounded'
  <2>1. PICK q, p, u, v : q = queue /\ p = queue' /\ u = up /\ v = up'
    OBVIOUS
  <2>2. Usage(p, v) \in Nat /\ Usage(q, u) \in Nat
    BY <1>0, <1>4, <2>1, UsageType
  <2>. QED  BY <1>0, <1>4, <2>1, <2>2 DEF PendingBounded
<1>5. CASE Acknowledge
  <2>1. PICK k \in DOMAIN queue : Acknowledges(k)
    BY <1>5, AckRead
  <2>2. queue' = RemoveAt(queue, k)
    BY <2>1 DEF Acknowledges
  <2>3. Usage(queue', up') <= Usage(queue, up) /\ queue' \in Seq(Rows)
    BY <1>0, <1>3, <2>2, RemovedUsage, RowsThatStay
  <2>. QED  BY <1>4, <2>3
<1>6. CASE RepairGap /\ queue' = Later(daemon.upload.op)
  <2>1. PICK op : op = daemon.upload.op
    OBVIOUS
  <2>2. Keeps(queue, queue') /\ \A i \in 1 .. Len(queue) : queue'[i].accept = queue[i].accept
    BY <1>0, <1>6, <2>1, LaterKeeps
  <2>3. Relieves
    BY <1>2, <2>2 DEF Relieves
  <2>. QED  BY <1>0, <1>4, <2>2, <2>3, RelievedUsage DEF Keeps
<1>7. CASE RepairGap /\ queue' # Later(daemon.upload.op)
  <2>. DEFINE from == daemon.gap
              to == Lesser(daemon.upload.first, from + BatchLimit)
  <2>1. /\ ~Full(up)
        /\ queue' = Append(queue, NewRow(daemon.upload.run, from,
                                         Missing(daemon.upload.run, from, to)))
    BY <1>7 DEF RepairGap
  <2>2. /\ daemon.upload \in Request /\ Sound(daemon.upload)
        /\ from \in Nat /\ to \in Nat /\ from < to /\ to <= daemon.upload.first
    BY <1>7, GapRead
  <2>. HIDE DEF from, to
  <2>3. PICK r \in Run, a \in Nat, b \in Nat, m \in Seq(Nat) :
          r = daemon.upload.run /\ a = from /\ b = to /\ m = up[r].map
    <3>1. up[daemon.upload.run].map \in Seq(Nat)
      BY <1>0, <1>1 DEF UpRow
    <3>. QED  BY <1>1, <2>2, <3>1
  <2>4. a \in Nat /\ b \in Nat /\ m \in Seq(Nat) /\ a < b /\ b <= Len(m)
    <3>1. /\ daemon.upload.next <= Len(m) /\ daemon.upload.first <= daemon.upload.next
          /\ daemon.upload.first \in Nat /\ daemon.upload.next \in Nat
      BY <2>2, <2>3 DEF Sound, Request
    <3>2. Len(m) \in Nat /\ a \in Nat /\ b \in Nat /\ m \in Seq(Nat) /\ a = from /\ b = to
      BY <2>3
    <3>. QED  BY <2>2, <3>1, <3>2
  <2>5. PICK p \in Seq(Nat) : p = SubSeq(m, a + 1, b)
    BY <2>4, SubSeqLength
  <2>6. PICK x : x = NewRow(r, a, p)
    OBVIOUS
  <2>7. x \in Rows /\ ~x.accept
    <3>1. p \in Seq(Nat)
      BY <2>5
    <3>. QED  BY <1>0, <2>4, <2>6, <3>1, NewRowType
  <2>8. queue' = Append(queue, x)
    BY <2>1, <2>3, <2>5, <2>6 DEF Missing
  <2>9. PICK u : u = up
    OBVIOUS
  <2>10. Usage(queue', up') <= MaxPending
    BY <1>0, <1>3, <2>1, <2>7, <2>8, <2>9, AppendedUsage
  <2>. QED  BY <2>10 DEF PendingBounded
<1>. QED  BY <1>5, <1>6, <1>7

LEMMA BudgetStep == OutboxInv /\ PendingBounded /\ [Next]_vars => PendingBounded'
<1>. SUFFICES ASSUME OutboxInv, PendingBounded, [Next]_vars PROVE PendingBounded'
  OBVIOUS
<1>0. Typed /\ MapInv /\ PickedInv /\ Typed'
  BY OutboxStep DEF OutboxInv, DataInv
<1>1. ASSUME Relieves PROVE PendingBounded'
  <2>1. Usage(queue', up') <= Usage(queue, up)
    BY <1>0, <1>1, RelievedUsage
  <2>2. PICK q, p, u, v : q = queue /\ p = queue' /\ u = up /\ v = up'
    OBVIOUS
  <2>3. Usage(p, v) \in Nat /\ Usage(q, u) \in Nat
    BY <1>0, <2>2, UsageType DEF Typed, StoreTypes
  <2>. QED  BY <2>1, <2>2, <2>3, OutboxAssumption DEF PendingBounded
<1>2. CASE \/ \E r \in Run : DueUpload(r) \/ DueRegistration(r)
           \/ DrainBegin \/ DrainPick \/ Reenroll
           \/ ConnectFails \/ Register \/ SendUpload \/ UploadFails \/ Deny \/ Stop
  BY <1>0, <1>1, <1>2, RelievedSteps
<1>3. ASSUME NEW i \in DOMAIN queue, AttachAcceptance(i) PROVE PendingBounded'
  BY <1>0, <1>3, AttachBudget
<1>4. CASE \E r \in Run : Publish(r) \/ DrainRepair(r)
  BY <1>0, <1>4, ScanBudget DEF Scans
<1>5. CASE ScanAfterAck
  <2>1. daemon.upload.run \in Run
    <3>1. daemon.upload # None
      BY <1>0, <1>5 DEF ScanAfterAck, PickedInv
    <3>. QED  BY <1>0, <3>1 DEF Typed, Daemon, Request
  <2>2. PICK r \in Run : r = daemon.upload.run
    BY <2>1
  <2>3. Scans(r)
    BY <1>5, <2>2 DEF Scans
  <2>. QED  BY <1>0, <2>3, ScanBudget
<1>6. CASE Acknowledge \/ RepairGap
  BY <1>6, AnswerBudget
<1>7. CASE \/ \E r \in Run : ServerLoses(r)
           \/ \E c \in net : Serve(c) \/ Refuse(c)
           \/ UNCHANGED vars
  <2>1. UNCHANGED <<queue, up>>
    BY <1>7 DEF ServerLoses, Serve, Refuse, vars, store
  <2>. QED  BY <2>1 DEF PendingBounded, Usage
<1>. QED  BY <1>2, <1>3, <1>4, <1>5, <1>6, <1>7 DEF Next, Drain

(* The pending requests, acceptances and registrations never use more than  *)
(* the budget of the outbox, for any number of runs: the check before every *)
(* insert is enough, gap repairs and attached acceptances included.         *)
THEOREM BudgetHolds == Spec => []PendingBounded
<1>1. Init => PendingBounded
  <2>. SUFFICES ASSUME Init PROVE PendingBounded
    OBVIOUS
  <2>1. queue = << >> /\ \A r \in Run : ~up[r].origin
    BY DEF Init, NoRow
  <2>2. /\ {i \in DOMAIN queue : ~queue[i].terminal} = {}
        /\ {i \in DOMAIN queue : ~queue[i].terminal /\ queue[i].accept} = {}
        /\ {r \in Run : up[r].origin /\ up[r].registered = 0} = {}
    BY <2>1
  <2>3. Cardinality({}) = 0
    BY FS_EmptySet
  <2>4. Usage(queue, up) = 0
    BY <2>2, <2>3 DEF Usage
  <2>. QED  BY <2>4, OutboxAssumption DEF PendingBounded
<1>2. Init => OutboxInv
  BY OutboxInit
<1>3. OutboxInv /\ [Next]_vars => OutboxInv'
  BY OutboxStep
<1>4. OutboxInv /\ PendingBounded /\ [Next]_vars => PendingBounded'
  BY BudgetStep
<1>. QED  BY <1>1, <1>2, <1>3, <1>4, PTL DEF Spec
=============================================================================
