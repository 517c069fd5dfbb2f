---------------------------- MODULE BestPathProofs ----------------------------
(***************************************************************************)
(* The walk of an activation loses no best path, although it extends only  *)
(* the best path to each node with each number of hops.                    *)
(***************************************************************************)
EXTENDS RetrievalProofs

-----------------------------------------------------------------------------
(* Keys.  FirstLess is Smaller with a place where both sequences have an   *)
(* element; it survives what is appended to both.                          *)
FirstLess(s, t) ==
  \E i \in 1 .. Len(t) :
    i <= Len(s) /\ (\A j \in 1 .. i - 1 : s[j] = t[j]) /\ s[i] < t[i]

NotAfter(s, t) == s = t \/ FirstLess(s, t)

LEMMA SmallerTransitive ==
  ASSUME NEW s \in Seq(Nat), NEW t \in Seq(Nat), NEW u \in Seq(Nat), Smaller(s, t), Smaller(t, u)
  PROVE  Smaller(s, u)
<1>1. PICK i \in 1 .. Len(t) : /\ i <= Len(s) + 1
                               /\ \A j \in 1 .. i - 1 : s[j] = t[j]
                               /\ i = Len(s) + 1 \/ s[i] < t[i]
  BY DEF Smaller
<1>2. PICK k \in 1 .. Len(u) : /\ k <= Len(t) + 1
                               /\ \A j \in 1 .. k - 1 : t[j] = u[j]
                               /\ k = Len(t) + 1 \/ t[k] < u[k]
  BY DEF Smaller
<1>3. /\ Len(s) \in Nat /\ Len(t) \in Nat /\ Len(u) \in Nat
      /\ \A j \in 1 .. Len(s) : s[j] \in Nat
      /\ \A j \in 1 .. Len(t) : t[j] \in Nat
      /\ \A j \in 1 .. Len(u) : u[j] \in Nat
  OBVIOUS
<1>4. CASE i <= k
  <2>1. i \in 1 .. Len(u) /\ i <= Len(s) + 1
    BY <1>1, <1>2, <1>3, <1>4
  <2>2. \A j \in 1 .. i - 1 : s[j] = u[j]
    BY <1>1, <1>2, <1>3, <1>4
  <2>3. i = Len(s) + 1 \/ s[i] < u[i]
    <3>1. CASE i = Len(s) + 1
      BY <3>1
    <3>2. CASE i # Len(s) + 1
      <4>1. s[i] < t[i] /\ i \in 1 .. Len(s)
        BY <1>1, <1>3, <3>2
      <4>2. t[i] <= u[i]
        <5>1. CASE i < k
          BY <1>1, <1>2, <1>3, <5>1
        <5>2. CASE i = k
          BY <1>1, <1>2, <1>3, <5>2
        <5>. QED
          BY <1>4, <5>1, <5>2
      <4>. QED
        BY <1>3, <2>1, <4>1, <4>2
    <3>. QED
      BY <3>1, <3>2
  <2>. QED
    BY <2>1, <2>2, <2>3 DEF Smaller
<1>5. CASE k < i
  <2>1. k \in 1 .. Len(u) /\ k <= Len(s) + 1 /\ k # Len(t) + 1 /\ k \in 1 .. i - 1
    BY <1>1, <1>2, <1>3, <1>5
  <2>2. \A j \in 1 .. k - 1 : s[j] = u[j]
    BY <1>1, <1>2, <1>3, <1>5
  <2>3. s[k] < u[k]
    BY <1>1, <1>2, <2>1
  <2>. QED
    BY <2>1, <2>2, <2>3 DEF Smaller
<1>. QED
  BY <1>4, <1>5

LEMMA FirstLessTransitive ==
  ASSUME NEW s \in Seq(Nat), NEW t \in Seq(Nat), NEW u \in Seq(Nat), FirstLess(s, t), FirstLess(t, u)
  PROVE  FirstLess(s, u)
<1>1. PICK i \in 1 .. Len(t) : i <= Len(s) /\ (\A j \in 1 .. i - 1 : s[j] = t[j]) /\ s[i] < t[i]
  BY DEF FirstLess
<1>2. PICK k \in 1 .. Len(u) : k <= Len(t) /\ (\A j \in 1 .. k - 1 : t[j] = u[j]) /\ t[k] < u[k]
  BY DEF FirstLess
<1>3. /\ Len(s) \in Nat /\ Len(t) \in Nat /\ Len(u) \in Nat
      /\ \A j \in 1 .. Len(s) : s[j] \in Nat
      /\ \A j \in 1 .. Len(t) : t[j] \in Nat
      /\ \A j \in 1 .. Len(u) : u[j] \in Nat
  OBVIOUS
<1>4. CASE i <= k
  <2>1. i \in 1 .. Len(u) /\ i <= Len(s)
    BY <1>1, <1>2, <1>3, <1>4
  <2>2. \A j \in 1 .. i - 1 : s[j] = u[j]
    BY <1>1, <1>2, <1>3, <1>4
  <2>3. s[i] < u[i]
    <3>1. CASE i < k
      BY <1>1, <1>2, <1>3, <3>1
    <3>2. CASE i = k
      BY <1>1, <1>2, <1>3, <3>2
    <3>. QED
      BY <1>4, <3>1, <3>2
  <2>. QED
    BY <2>1, <2>2, <2>3 DEF FirstLess
<1>5. CASE k < i
  <2>1. k \in 1 .. Len(u) /\ k <= Len(s) /\ k \in 1 .. i - 1
    BY <1>1, <1>2, <1>3, <1>5
  <2>2. \A j \in 1 .. k - 1 : s[j] = u[j]
    BY <1>1, <1>2, <1>3, <1>5
  <2>3. s[k] < u[k]
    BY <1>1, <1>2, <2>1
  <2>. QED
    BY <2>1, <2>2, <2>3 DEF FirstLess
<1>. QED
  BY <1>4, <1>5

LEMMA NotAfterTransitive ==
  ASSUME NEW s \in Seq(Nat), NEW t \in Seq(Nat), NEW u \in Seq(Nat), NotAfter(s, t), NotAfter(t, u)
  PROVE  NotAfter(s, u)
BY FirstLessTransitive DEF NotAfter

(* What comes no later than a smaller one is smaller.                      *)
LEMMA NotAfterSmaller ==
  ASSUME NEW s \in Seq(Nat), NEW t \in Seq(Nat), NEW u \in Seq(Nat), NotAfter(s, t), Smaller(t, u)
  PROVE  Smaller(s, u)
<1>1. CASE s = t
  BY <1>1
<1>2. CASE FirstLess(s, t)
  <2>1. PICK i \in 1 .. Len(t) : i <= Len(s) /\ (\A j \in 1 .. i - 1 : s[j] = t[j]) /\ s[i] < t[i]
    BY <1>2 DEF FirstLess
  <2>2. i <= Len(s) + 1
    BY <2>1
  <2>3. Smaller(s, t)
    BY <2>1, <2>2, Zenon DEF Smaller
  <2>. QED
    BY <2>3, SmallerTransitive
<1>. QED
  BY <1>1, <1>2 DEF NotAfter

(* Of two keys of one length, one does not come after the other.           *)
LEMMA SameLengthOrdered ==
  ASSUME NEW s \in Seq(Nat), NEW t \in Seq(Nat), Len(s) = Len(t), ~Smaller(s, t)
  PROVE  NotAfter(t, s)
<1>. DEFINE n == Len(s)
            S == {i \in 0 .. n : \A j \in 1 .. i : s[j] = t[j]}
<1>1. n \in Nat /\ \A i \in 1 .. n : s[i] \in Nat /\ t[i] \in Nat
  OBVIOUS
<1>2. CASE Counted(n, S)
  <2>1. 0 .. n \subseteq S
    <3>. HIDE DEF S, n
    <3>. QED
      BY <1>1, <1>2, CountingUp
  <2>2. \A j \in 1 .. n : s[j] = t[j]
    BY <1>1, <2>1
  <2>3. s = t
    BY <2>2
  <2>. QED
    BY <2>3 DEF NotAfter
<1>3. CASE ~Counted(n, S)
  <2>1. 0 \in S
    BY <1>1
  <2>2. PICK i \in 1 .. n : i - 1 \in S /\ i \notin S
    BY <1>3, <2>1, Zenon DEF Counted
  <2>3. \A j \in 1 .. i - 1 : s[j] = t[j]
    BY <2>2
  <2>4. s[i] # t[i]
    <3>1. i \in 0 .. n /\ ~(\A j \in 1 .. i : s[j] = t[j])
      BY <1>1, <2>2
    <3>2. \A j \in 1 .. i : j = i \/ j \in 1 .. i - 1
      BY <1>1
    <3>. QED
      BY <2>3, <3>1, <3>2, Zenon
  <2>5. ~(s[i] < t[i])
    <3>1. i \in 1 .. Len(t) /\ i <= Len(s) + 1
      BY <1>1
    <3>. QED
      BY <2>3, <3>1, Zenon DEF Smaller
  <2>6. t[i] < s[i]
    BY <1>1, <2>4, <2>5
  <2>7. i \in 1 .. Len(s) /\ i <= Len(t) /\ \A j \in 1 .. i - 1 : t[j] = s[j]
    BY <1>1, <2>3
  <2>. QED
    BY <2>6, <2>7, Zenon DEF NotAfter, FirstLess
<1>. QED
  BY <1>2, <1>3


(* The key of a path.                                                      *)
Third(row, k) == <<row.source, row.target, row.name>>[k]

LEMMA KeyEntries ==
  ASSUME NEW seed \in MemoryNodes, NEW steps \in Seq(Row)
  PROVE  /\ DOMAIN PathKey(seed, steps) = 1 .. 1 + 3 * Len(steps)
         /\ PathKey(seed, steps)[1] = seed
         /\ \A i \in 2 .. 1 + 3 * Len(steps) :
              /\ (i - 2) \div 3 + 1 \in DOMAIN steps /\ ((i - 2) % 3) + 1 \in 1 .. 3
              /\ PathKey(seed, steps)[i] = Third(steps[(i - 2) \div 3 + 1], ((i - 2) % 3) + 1)
<1>. DEFINE n == Len(steps)
<1>1. n \in Nat /\ DOMAIN steps = 1 .. n
  OBVIOUS
<1>2. \A i \in 2 .. 1 + 3 * n : (i - 2) \div 3 + 1 \in 1 .. n /\ ((i - 2) % 3) + 1 \in 1 .. 3
  BY <1>1
<1>3. 1 \in 1 .. 1 + 3 * n /\ \A i \in 2 .. 1 + 3 * n : i \in 1 .. 1 + 3 * n /\ i # 1
  BY <1>1
<1>4. PathKey(seed, steps)[1] = seed
  BY <1>3 DEF PathKey
<1>5. ASSUME NEW i \in 2 .. 1 + 3 * n
      PROVE  PathKey(seed, steps)[i] = Third(steps[(i - 2) \div 3 + 1], ((i - 2) % 3) + 1)
  BY <1>3, Zenon DEF PathKey, Third
<1>6. DOMAIN PathKey(seed, steps) = 1 .. 1 + 3 * n
  BY Zenon DEF PathKey
<1>. QED
  BY <1>1, <1>2, <1>4, <1>5, <1>6

LEMMA ThirdTyped ==
  ASSUME NEW row \in Row, NEW k \in 1 .. 3
  PROVE  Third(row, k) \in Nat
<1>1. row.source \in Nat /\ row.target \in Nat /\ row.name \in Nat
  BY NodesValid DEF Row
<1>2. k = 1 \/ k = 2 \/ k = 3
  OBVIOUS
<1>. QED
  BY <1>1, <1>2 DEF Third

LEMMA KeyTyped ==
  ASSUME NEW seed \in MemoryNodes, NEW steps \in Seq(Row)
  PROVE  PathKey(seed, steps) \in Seq(Nat) /\ Len(PathKey(seed, steps)) = 1 + 3 * Len(steps)
<1>. DEFINE key == PathKey(seed, steps)
            n == Len(steps)
<1>1. n \in Nat /\ 1 + 3 * n \in Nat /\ DOMAIN key = 1 .. 1 + 3 * n
  BY KeyEntries
<1>2. \A i \in 1 .. 1 + 3 * n : key[i] \in Nat
  <2>1. key[1] \in Nat
    BY KeyEntries, NodesValid
  <2>2. ASSUME NEW i \in 2 .. 1 + 3 * n PROVE key[i] \in Nat
    <3>1. /\ (i - 2) \div 3 + 1 \in DOMAIN steps /\ ((i - 2) % 3) + 1 \in 1 .. 3
          /\ key[i] = Third(steps[(i - 2) \div 3 + 1], ((i - 2) % 3) + 1)
      BY KeyEntries
    <3>2. steps[(i - 2) \div 3 + 1] \in Row
      BY <3>1
    <3>. QED
      BY <3>1, <3>2, ThirdTyped, Zenon
  <2>3. \A i \in 1 .. 1 + 3 * n : i = 1 \/ i \in 2 .. 1 + 3 * n
    BY <1>1
  <2>. QED
    BY <2>1, <2>2, <2>3, Zenon
<1>3. key = [i \in 1 .. 1 + 3 * n |-> key[i]]
  BY <1>1, Zenon DEF PathKey
<1>. HIDE DEF key, n
<1>4. PICK m \in Nat : m = 1 + 3 * n
  BY <1>1
<1>5. key = [i \in 1 .. m |-> key[i]] /\ \A i \in 1 .. m : key[i] \in Nat
  BY <1>2, <1>3, <1>4, Zenon
<1>6. key \in [1 .. m -> Nat]
  BY <1>5, Zenon
<1>7. key \in Seq(Nat) /\ Len(key) = m
  BY <1>6
<1>. QED
  BY <1>4, <1>7 DEF key, n

(* The key of a longer path goes on with the thirds of the new step.       *)
LEMMA KeyGoesOn ==
  ASSUME NEW seed \in MemoryNodes, NEW steps \in Seq(Row), NEW row \in Row
  PROVE  /\ \A i \in 1 .. 1 + 3 * Len(steps) :
              PathKey(seed, Append(steps, row))[i] = PathKey(seed, steps)[i]
         /\ \A k \in 1 .. 3 : PathKey(seed, Append(steps, row))[1 + 3 * Len(steps) + k] = Third(row, k)
<1>. DEFINE n == Len(steps)
            longer == Append(steps, row)
<1>1. /\ n \in Nat /\ longer \in Seq(Row) /\ Len(longer) = n + 1 /\ longer[n + 1] = row
      /\ DOMAIN steps = 1 .. n /\ \A i \in 1 .. n : longer[i] = steps[i]
  OBVIOUS
<1>. HIDE DEF longer
<1>2. ASSUME NEW i \in 1 .. 1 + 3 * n
      PROVE  PathKey(seed, longer)[i] = PathKey(seed, steps)[i]
  <2>1. CASE i = 1
    BY <1>1, <2>1, KeyEntries
  <2>2. CASE i # 1
    <3>1. i \in 2 .. 1 + 3 * n /\ i \in 2 .. 1 + 3 * Len(longer)
      BY <1>1, <2>2
    <3>2. /\ (i - 2) \div 3 + 1 \in DOMAIN steps
          /\ PathKey(seed, steps)[i] = Third(steps[(i - 2) \div 3 + 1], ((i - 2) % 3) + 1)
      BY <3>1, KeyEntries
    <3>3. PathKey(seed, longer)[i] = Third(longer[(i - 2) \div 3 + 1], ((i - 2) % 3) + 1)
      BY <1>1, <3>1, KeyEntries
    <3>4. longer[(i - 2) \div 3 + 1] = steps[(i - 2) \div 3 + 1]
      BY <1>1, <3>2
    <3>. QED
      BY <3>2, <3>3, <3>4
  <2>. QED
    BY <2>1, <2>2
<1>3. ASSUME NEW k \in 1 .. 3
      PROVE  PathKey(seed, longer)[1 + 3 * n + k] = Third(row, k)
  <2>. DEFINE i == 1 + 3 * n + k
  <2>1. i \in 2 .. 1 + 3 * Len(longer)
    BY <1>1
  <2>2. (i - 2) \div 3 + 1 = n + 1 /\ ((i - 2) % 3) + 1 = k
    BY <1>1
  <2>. HIDE DEF i
  <2>3. PathKey(seed, longer)[i] = Third(longer[(i - 2) \div 3 + 1], ((i - 2) % 3) + 1)
    BY <1>1, <2>1, KeyEntries
  <2>4. PathKey(seed, longer)[i] = Third(row, k)
    BY <1>1, <2>2, <2>3
  <2>. QED
    BY <2>4 DEF i
<1>. QED
  BY <1>2, <1>3 DEF longer

LEMMA NotAfterGoesOn ==
  ASSUME NEW a \in MemoryNodes, NEW s \in Seq(Row), NEW b \in MemoryNodes, NEW t \in Seq(Row), NEW row \in Row,
         NotAfter(PathKey(a, s), PathKey(b, t))
  PROVE  NotAfter(PathKey(a, Append(s, row)), PathKey(b, Append(t, row)))
<1>. DEFINE k == PathKey(a, s)  l == PathKey(b, t)
            kk == PathKey(a, Append(s, row))  ll == PathKey(b, Append(t, row))
<1>1. PICK m \in Nat, n \in Nat : m = 1 + 3 * Len(s) /\ n = 1 + 3 * Len(t)
  OBVIOUS
<1>2. /\ k \in Seq(Nat) /\ Len(k) = m /\ l \in Seq(Nat) /\ Len(l) = n
      /\ kk \in Seq(Nat) /\ Len(kk) = m + 3 /\ ll \in Seq(Nat) /\ Len(ll) = n + 3
  <2>1. k \in Seq(Nat) /\ Len(k) = m /\ l \in Seq(Nat) /\ Len(l) = n
    BY <1>1, KeyTyped
  <2>2. /\ Append(s, row) \in Seq(Row) /\ 1 + 3 * Len(Append(s, row)) = m + 3
        /\ Append(t, row) \in Seq(Row) /\ 1 + 3 * Len(Append(t, row)) = n + 3
    BY <1>1
  <2>3. kk \in Seq(Nat) /\ Len(kk) = m + 3
    BY <2>2, KeyTyped, Zenon
  <2>4. ll \in Seq(Nat) /\ Len(ll) = n + 3
    BY <2>2, KeyTyped, Zenon
  <2>. QED
    BY <2>1, <2>3, <2>4
<1>3. /\ \A i \in 1 .. m : kk[i] = k[i]
      /\ \A j \in 1 .. 3 : kk[m + j] = Third(row, j)
      /\ \A i \in 1 .. n : ll[i] = l[i]
      /\ \A j \in 1 .. 3 : ll[n + j] = Third(row, j)
  BY <1>1, KeyGoesOn, Zenon
<1>4. k = l \/ FirstLess(k, l)
  BY DEF NotAfter
<1>. HIDE DEF k, l, kk, ll
<1>5. CASE k = l
  <2>1. m = n
    BY <1>2, <1>5
  <2>2. \A i \in 1 .. m + 3 : kk[i] = ll[i]
    <3>. TAKE i \in 1 .. m + 3
    <3>1. CASE i \in 1 .. m
      BY <1>3, <1>5, <2>1, <3>1
    <3>2. CASE i \notin 1 .. m
      <4>1. PICK j \in 1 .. 3 : i = m + j
        <5>1. i - m \in 1 .. 3 /\ i = m + (i - m)
          BY <3>2
        <5>. QED
          BY <5>1, Zenon
      <4>. QED
        BY <1>3, <2>1, <4>1, Zenon
    <3>. QED
      BY <3>1, <3>2
  <2>3. kk = ll
    BY <1>2, <2>1, <2>2
  <2>. QED
    BY <2>3 DEF kk, ll, NotAfter
<1>6. CASE FirstLess(k, l)
  <2>1. PICK i \in 1 .. n : i <= m /\ (\A j \in 1 .. i - 1 : k[j] = l[j]) /\ k[i] < l[i]
    BY <1>2, <1>6, Zenon DEF FirstLess
  <2>2. /\ i \in 1 .. n + 3 /\ i <= m + 3 /\ i \in 1 .. m
        /\ \A j \in 1 .. i - 1 : j \in 1 .. m /\ j \in 1 .. n
    BY <2>1
  <2>3. (\A j \in 1 .. i - 1 : kk[j] = ll[j]) /\ kk[i] < ll[i]
    BY <1>3, <2>1, <2>2
  <2>4. FirstLess(kk, ll)
    BY <1>2, <2>2, <2>3, Zenon DEF FirstLess
  <2>. QED
    BY <2>4 DEF kk, ll, NotAfter
<1>. QED
  BY <1>4, <1>5, <1>6


-----------------------------------------------------------------------------
(* Scores.  After each hop a propagation has room for the divisions of the *)
(* hops that are left, so that none of them rounds.                        *)
Exact(prop, h) ==
  /\ prop \in Nat
  /\ \/ h = 0 /\ \E k \in Nat : prop = Scale * k
     \/ h = 1 /\ \E k \in Nat : prop = 2500 * k
     \/ h = 2 /\ \E k \in Nat : prop = 50 * k
     \/ h = 3

LEMMA HopExact ==
  ASSUME NEW prop, NEW h \in 0 .. 2, Exact(prop, h), NEW w \in 0 .. Unit
  PROVE  50 * Propagated(prop, w) = prop * w /\ Exact(Propagated(prop, w), h + 1)
<1>. USE DEF Propagated, HopDivisor, Scale
<1>1. w \in Nat /\ prop \in Nat
  BY DEF Unit, Exact
<1>2. CASE h = 0
  <2>1. PICK k \in Nat : prop = 125000 * k
    BY <1>2 DEF Exact
  <2>2. PICK m \in Nat : m = k * w
    BY <1>1
  <2>3. prop * w = 125000 * m
    BY <1>1, <2>1, <2>2
  <2>4. Propagated(prop, w) = 2500 * m
    BY <2>3
  <2>. QED
    BY <1>2, <2>3, <2>4 DEF Exact
<1>3. CASE h = 1
  <2>1. PICK k \in Nat : prop = 2500 * k
    BY <1>3 DEF Exact
  <2>2. PICK m \in Nat : m = k * w
    BY <1>1
  <2>3. prop * w = 2500 * m
    BY <1>1, <2>1, <2>2
  <2>4. Propagated(prop, w) = 50 * m
    BY <2>3
  <2>. QED
    BY <1>3, <2>3, <2>4 DEF Exact
<1>4. CASE h = 2
  <2>1. PICK k \in Nat : prop = 50 * k
    BY <1>4 DEF Exact
  <2>2. PICK m \in Nat : m = k * w
    BY <1>1
  <2>3. prop * w = 50 * m
    BY <1>1, <2>1, <2>2
  <2>4. Propagated(prop, w) = m
    BY <2>3
  <2>. QED
    BY <1>4, <2>3, <2>4 DEF Exact
<1>. QED
  BY <1>2, <1>3, <1>4

(* A hop keeps the order of scores, strictly where anything is left, and   *)
(* takes something from each.                                              *)
LEMMA HopOrder ==
  ASSUME NEW x \in Nat, NEW y \in Nat, y <= x, NEW w \in 0 .. Unit,
         NEW p \in Nat, NEW q \in Nat, 50 * p = x * w, 50 * q = y * w
  PROVE  q <= p /\ (p = q /\ q > 0 => x = y)
<1>1. w \in Nat
  BY DEF Unit
<1>2. PICK d \in Nat : x = y + d
  <2>1. x - y \in Nat /\ x = y + (x - y)
    OBVIOUS
  <2>. QED
    BY <2>1, Zenon
<1>3. PICK m \in Nat : m = d * w
  BY <1>1
<1>4. x * w = y * w + m
  BY <1>1, <1>2, <1>3
<1>5. q <= p
  BY <1>1, <1>4
<1>6. ASSUME p = q, q > 0 PROVE x = y
  <2>1. m = 0
    BY <1>1, <1>4, <1>6
  <2>2. w # 0
    BY <1>6
  <2>3. d = 0
    BY <1>1, <1>3, <2>1, <2>2
  <2>. QED
    BY <1>2, <2>3
<1>. QED
  BY <1>5, <1>6

LEMMA HopDeclines ==
  ASSUME NEW x \in Nat, NEW w \in 0 .. Unit, NEW p \in Nat, 50 * p = x * w
  PROVE  p <= x /\ (x > 0 => p < x)
<1>1. w \in Nat /\ w <= 40
  BY DEF Unit
<1>2. PICK d \in Nat : w + d = 40
  <2>1. 40 - w \in Nat /\ w + (40 - w) = 40
    BY <1>1
  <2>. QED
    BY <2>1, Zenon
<1>3. PICK m \in Nat : m = x * d
  OBVIOUS
<1>4. x * w + m = 40 * x
  BY <1>1, <1>2, <1>3
<1>5. PICK k \in Nat : k = x * w
  BY <1>1
<1>. QED
  BY <1>3, <1>4, <1>5

LEMMA EffectiveTyped ==
  ASSUME StoreOK, CallOK, NEW row \in Row
  PROVE  EffectiveWeight(row) \in 0 .. Unit
<1>1. row.weight \in 0 .. Unit
  BY DEF Row
<1>2. \A x : Clamped(x, 0, Unit) \in Int => Clamped(x, 0, Unit) \in 0 .. Unit
  BY DEF Clamped, Unit
<1>3. AdjustedWeight(row) \in Int => AdjustedWeight(row) \in 0 .. Unit
  BY <1>2 DEF AdjustedWeight
<1>. QED
  BY <1>1, <1>3, AdjustedTyped DEF EffectiveWeight

-----------------------------------------------------------------------------
(* Best entries.  An entry is only replaced by one that beats it: what did *)
(* not beat it before does not beat it later, and its score only grows.    *)
Improves(d, c) == d = c \/ Beats(d.score, d.seed, d.steps, c)

Improved(f, g) == DOMAIN f \subseteq DOMAIN g /\ \A k \in DOMAIN f : Improves(g[k], f[k])

LEMMA UnbeatenStays ==
  ASSUME NEW c \in Found, NEW d \in Found, Improves(d, c)
  PROVE  /\ d.score >= c.score
         /\ \A score \in Int, seed \in MemoryNodes, steps \in Seq(Row) :
              ~Beats(score, seed, steps, c) => ~Beats(score, seed, steps, d)
<1>1. /\ c.score \in Int /\ c.seed \in MemoryNodes /\ c.steps \in Seq(Row)
      /\ d.score \in Int /\ d.seed \in MemoryNodes /\ d.steps \in Seq(Row)
  BY DEF Found
<1>2. d.score >= c.score
  BY <1>1 DEF Improves, Beats
<1>3. ASSUME NEW score \in Int, NEW seed \in MemoryNodes, NEW steps \in Seq(Row), Beats(score, seed, steps, d)
      PROVE  Beats(score, seed, steps, c)
  <2>1. CASE d = c
    BY <1>3, <2>1
  <2>2. CASE Beats(d.score, d.seed, d.steps, c)
    <3>. DEFINE k == PathKey(seed, steps)  l == PathKey(d.seed, d.steps)  m == PathKey(c.seed, c.steps)
    <3>1. k \in Seq(Nat) /\ l \in Seq(Nat) /\ m \in Seq(Nat)
      BY <1>1, KeyTyped
    <3>2. score > d.score \/ (score = d.score /\ Smaller(k, l))
      BY <1>3 DEF Beats
    <3>3. d.score > c.score \/ (d.score = c.score /\ Smaller(l, m))
      BY <2>2 DEF Beats
    <3>. HIDE DEF k, l, m
    <3>4. Smaller(k, l) /\ Smaller(l, m) => Smaller(k, m)
      BY <3>1, SmallerTransitive
    <3>5. score > c.score \/ (score = c.score /\ Smaller(k, m))
      BY <1>1, <3>2, <3>3, <3>4
    <3>. QED
      BY <3>5 DEF Beats, k, m
  <2>. QED
    BY <2>1, <2>2 DEF Improves
<1>. QED
  BY <1>2, <1>3

LEMMA NoneBeatsItself ==
  ASSUME NEW c \in Found
  PROVE  ~Beats(c.score, c.seed, c.steps, c)
<1>1. c.score \in Int /\ PathKey(c.seed, c.steps) \in Seq(Nat)
  BY KeyTyped DEF Found
<1>2. ASSUME NEW k \in Seq(Nat) PROVE ~Smaller(k, k)
  <2>1. Len(k) \in Nat /\ \A i \in 1 .. Len(k) : k[i] \in Nat
    OBVIOUS
  <2>. QED
    BY <2>1 DEF Smaller
<1>. QED
  BY <1>1, <1>2 DEF Beats

LEMMA PutImproves ==
  ASSUME NEW f, NEW k, NEW v, k \notin DOMAIN f \/ Beats(v.score, v.seed, v.steps, f[k])
  PROVE  /\ DOMAIN Put(f, k, v) = DOMAIN f \cup {k} /\ Put(f, k, v)[k] = v
         /\ \A l \in DOMAIN f : l # k => Put(f, k, v)[l] = f[l]
         /\ Improved(f, Put(f, k, v))
<1>1. /\ DOMAIN Put(f, k, v) = DOMAIN f \cup {k} /\ Put(f, k, v)[k] = v
      /\ \A l \in DOMAIN f : l # k => Put(f, k, v)[l] = f[l]
  BY DEF Put
<1>2. Improved(f, Put(f, k, v))
  BY <1>1, Zenon DEF Improved, Improves
<1>. QED
  BY <1>1, <1>2

-----------------------------------------------------------------------------
(* The inductive invariant.  The walk keeps a path for each seed and for   *)
(* each entry of best.                                                     *)
Keeps(b) ==
  \/ b \in Start
  \/ /\ <<b.node, Len(b.steps)>> \in DOMAIN best
     /\ best[<<b.node, Len(b.steps)>>] = [score |-> b.prop, seed |-> b.seed, steps |-> b.steps]

Stays(b) == Keeps(b) \/ b \in Pending

BestOK ==
  \A k \in DOMAIN best :
    k \in MemoryNodes \X (1 .. call.hops) /\ best[k] \in Found /\ Len(best[k].steps) = k[2]

(* No division of the scores has rounded.                                  *)
Exacts == \A b \in Path : Stays(b) => Exact(b.prop, Len(b.steps))

(* Wherever a path has been, what is kept of as many hops is no worse.     *)
Below(b) ==
  /\ \E i \in DOMAIN seeds : seeds[i].node = b.seed /\ seeds[i].score >= b.prop
  /\ \A i \in DOMAIN b.steps :
       <<b.steps[i].target, i>> \in DOMAIN best /\ best[<<b.steps[i].target, i>>].score >= b.prop

Above == \A b \in Path : Stays(b) => Below(b)

(* What is kept has been considered as a candidate.                        *)
Wanted(n) == call.includeSeeds \/ n \notin SeedNodes

Judged(b) ==
  Wanted(b.node) =>
    /\ b.node \in DOMAIN candidates
    /\ ~Beats(b.prop * ImportanceFactor(b.node), b.seed, b.steps, candidates[b.node])

Considered == \A b \in Path : Keeps(b) => Judged(b)

(* What is kept has been extended, or will be, unless a budget ends it.    *)
Covered(b, r) ==
  LET k == <<r.target, Len(b.steps) + 1>> IN
  k \in DOMAIN best /\ ~Beats(Propagated(b.prop, EffectiveWeight(r)), b.seed, Append(b.steps, r), best[k])

Open(b, r) == r.source = b.node /\ ~PathContains(b, r.target)

Expanded(b) == Len(b.steps) < call.hops => \A r \in Rows : Open(b, r) => Covered(b, r)

Doomed == Len(rows) + stats.visitedEdges >= call.maxEdges

Covers ==
  Unbounded =>
    /\ \A b \in Path : Keeps(b) => b \in Pending \/ Expanded(b)
    /\ phase = "admit" =>
         Doomed \/ \A r \in Rows : Open(current, r) => Covered(current, r) \/ r \in ElementsOf(rows)

(* The steps are stored relations.                                         *)
Real ==
  /\ \A n \in DOMAIN candidates : Wanted(n) /\ ElementsOf(candidates[n].steps) \subseteq Rows
  /\ \A b \in Path : b \in Pending => ElementsOf(b.steps) \subseteq Rows
  /\ phase = "admit" => ElementsOf(rows) \subseteq Rows
  /\ Walked => queue = <<>>

Seeding == phase \in {"build", "seed_query", "seed_read"}

WalkKept == BestOK /\ Exacts /\ Above /\ Considered /\ Covers /\ Real

WalkInv ==
  /\ Seeding => best = Nothing
  /\ Quiet /\ ~Seeding /\ reply # "Found" =>
       WalkKept

-----------------------------------------------------------------------------
(* What the walk has found and covered stays so while its entries improve. *)
LEMMA RowsAre ==
  ASSUME StoreOK
  PROVE  /\ Rows \subseteq Row
         /\ \A r \in Rows : r.target \in nodes /\ r \in RowsOf(r.source)
         /\ \A n : RowsOf(n) \subseteq Rows
<1>1. ASSUME NEW r \in DOMAIN weight
      PROVE  /\ r = [source |-> r.source, target |-> r.target, name |-> r.name]
             /\ r.source \in MemoryNodes /\ r.target \in MemoryNodes /\ r.name \in Nat
             /\ r.target \in nodes /\ weight[r] \in 0 .. Unit
  BY DEF StoreOK
<1>2. Rows \subseteq Row
  BY <1>1 DEF Rows, Row
<1>3. ASSUME NEW r \in Rows PROVE r.target \in nodes /\ r \in RowsOf(r.source)
  <2>1. PICK q \in DOMAIN weight :
          r = [source |-> q.source, target |-> q.target, name |-> q.name, weight |-> weight[q]]
    BY DEF Rows
  <2>2. r.source = q.source /\ r.target = q.target
    BY <2>1
  <2>. QED
    BY <1>1, <2>1, <2>2, Zenon DEF RowsOf
<1>4. \A n : RowsOf(n) \subseteq Rows
  BY Zenon DEF RowsOf, Rows
<1>. QED
  BY <1>2, <1>3, <1>4

LEMMA PropagatedTyped ==
  ASSUME StoreOK, CallOK, NEW prop \in Int, NEW r \in Row
  PROVE  Propagated(prop, EffectiveWeight(r)) \in Int
<1>1. EffectiveWeight(r) \in Int
  BY WeightTyped
<1>2. prop * EffectiveWeight(r) \in Int
  BY <1>1
<1>. QED
  BY <1>2 DEF Propagated, HopDivisor

SameReads == UNCHANGED <<call, nodes, weight, feedback, seeds>>

LEMMA ReadsSame ==
  ASSUME SameReads
  PROVE  /\ Rows' = Rows /\ Start' = Start /\ SeedNodes' = SeedNodes
         /\ \A n : Wanted(n)' = Wanted(n)
         /\ \A r : EffectiveWeight(r)' = EffectiveWeight(r)
<1>1. UNCHANGED <<call, nodes, weight, feedback, seeds>>
  BY DEF SameReads
<1>2. \A r : EffectiveWeight(r)' = EffectiveWeight(r)
  BY <1>1, WeightsKept
<1>3. SeedNodes' = SeedNodes
  BY <1>1 DEF SeedNodes
<1>. QED
  BY <1>1, <1>2, <1>3 DEF Rows, Start, Wanted

LEMMA GrowsOn ==
  ASSUME StoreOK, CallOK, SameReads, BestOK, BestOK', Improved(best, best')
  PROVE  /\ \A b \in Path : Below(b) => Below(b)'
         /\ \A b \in Path, r \in Row : Covered(b, r) => Covered(b, r)'
         /\ \A b \in Path : Expanded(b) => Expanded(b)'
<1>1. \A k \in DOMAIN best : /\ k \in DOMAIN best' /\ best[k] \in Found /\ best'[k] \in Found
                             /\ Improves(best'[k], best[k])
  BY DEF Improved, BestOK
<1>2. /\ call' = call /\ seeds' = seeds /\ Rows' = Rows
      /\ \A r : EffectiveWeight(r)' = EffectiveWeight(r)
  BY ReadsSame DEF SameReads
<1>3. ASSUME NEW b \in Path, Below(b) PROVE Below(b)'
  <2>1. b.prop \in Int
    BY DEF Path
  <2>2. \A i \in DOMAIN b.steps :
          <<b.steps[i].target, i>> \in DOMAIN best /\ best[<<b.steps[i].target, i>>].score >= b.prop
    BY <1>3 DEF Below
  <2>3. ASSUME NEW k \in DOMAIN best, best[k].score >= b.prop
        PROVE  k \in DOMAIN best' /\ best'[k].score >= b.prop
    <3>1. best'[k].score >= best[k].score
      BY <1>1, UnbeatenStays
    <3>2. best'[k].score \in Int /\ best[k].score \in Int
      BY <1>1 DEF Found
    <3>. QED
      BY <1>1, <2>1, <2>3, <3>1, <3>2
  <2>4. \A i \in DOMAIN b.steps :
          <<b.steps[i].target, i>> \in DOMAIN best' /\ best'[<<b.steps[i].target, i>>].score >= b.prop
    BY <2>2, <2>3, Zenon
  <2>. QED
    BY <1>2, <1>3, <2>4, Zenon DEF Below
<1>4. ASSUME NEW b \in Path, NEW r \in Row, Covered(b, r) PROVE Covered(b, r)'
  <2>. DEFINE k == <<r.target, Len(b.steps) + 1>>
              prop == Propagated(b.prop, EffectiveWeight(r))
              steps == Append(b.steps, r)
  <2>1. prop \in Int /\ b.seed \in MemoryNodes /\ steps \in Seq(Row)
    BY PropagatedTyped DEF Path
  <2>2. k \in DOMAIN best /\ ~Beats(prop, b.seed, steps, best[k])
    BY <1>4, Zenon DEF Covered
  <2>3. Propagated(b.prop, EffectiveWeight(r)') = prop
    BY <1>2
  <2>. HIDE DEF k, prop, steps
  <2>4. k \in DOMAIN best' /\ ~Beats(prop, b.seed, steps, best'[k])
    BY <1>1, <2>1, <2>2, UnbeatenStays
  <2>. QED
    BY <2>3, <2>4, Zenon DEF Covered, k, prop, steps
<1>5. ASSUME NEW b \in Path, Expanded(b) PROVE Expanded(b)'
  <2>1. \A r \in Rows : r \in Row
    BY RowsAre
  <2>2. \A r : Open(b, r)' = Open(b, r)
    BY DEF Open
  <2>. QED
    BY <1>2, <1>4, <1>5, <2>1, <2>2, Zenon DEF Expanded
<1>. QED
  BY <1>3, <1>4, <1>5

LEMMA FactorTyped ==
  \A n \in MemoryNodes : ImportanceFactor(n) \in Nat /\ ImportanceFactor(n) > 0
<1>1. \A n \in MemoryNodes : Importance[n] \in {0, 1}
  BY NodesValid
<1>. QED
  BY <1>1 DEF ImportanceFactor

LEMMA JudgedStays ==
  ASSUME CallOK, CallOK', SameReads, Improved(candidates, candidates'), NEW b \in Path, Judged(b)
  PROVE  Judged(b)'
<1>. DEFINE n == b.node  score == b.prop * ImportanceFactor(n)
<1>1. Wanted(n)' = Wanted(n)
  BY ReadsSame
<1>. SUFFICES ASSUME Wanted(n)
     PROVE  n \in DOMAIN candidates' /\ ~Beats(score, b.seed, b.steps, candidates'[n])
  BY <1>1, Zenon DEF Judged
<1>2. n \in DOMAIN candidates /\ ~Beats(score, b.seed, b.steps, candidates[n])
  BY Zenon DEF Judged
<1>3. n \in DOMAIN candidates' /\ Improves(candidates'[n], candidates[n])
  BY <1>2, Zenon DEF Improved
<1>4. candidates[n] \in Found /\ candidates'[n] \in Found
  BY <1>2, <1>3 DEF CallOK, Reached
<1>5. score \in Int /\ b.seed \in MemoryNodes /\ b.steps \in Seq(Row)
  <2>1. b.prop \in Int /\ n \in MemoryNodes
    BY DEF Path
  <2>2. ImportanceFactor(n) \in Nat
    BY <2>1, FactorTyped, Zenon
  <2>. HIDE DEF n
  <2>. QED
    BY <2>1, <2>2 DEF Path
<1>. HIDE DEF n, score
<1>. QED
  BY <1>2, <1>3, <1>4, <1>5, UnbeatenStays

-----------------------------------------------------------------------------
(* The path that admit_relation finds.                                     *)
Finds(new, row) ==
  /\ new.node = row.target /\ new.seed = current.seed
  /\ new.prop = Propagated(current.prop, EffectiveWeight(row))
  /\ new.steps = Append(current.steps, row)

EntryOf(b) == [score |-> b.prop, seed |-> b.seed, steps |-> b.steps]

Enters(new) ==
  LET key == <<new.node, Len(new.steps)>> IN
  \/ /\ key \notin DOMAIN best \/ Beats(new.prop, new.seed, new.steps, best[key])
     /\ best' = Put(best, key, EntryOf(new)) /\ queue' = Append(queue, new)
  \/ /\ key \in DOMAIN best /\ ~Beats(new.prop, new.seed, new.steps, best[key])
     /\ best' = best /\ queue' = queue

Offers(new) ==
  LET score == new.prop * ImportanceFactor(new.node) IN
  \/ /\ Wanted(new.node)
     /\ new.node \notin DOMAIN candidates \/ Beats(score, new.seed, new.steps, candidates[new.node])
     /\ candidates' = Put(candidates, new.node, [score |-> score, seed |-> new.seed, steps |-> new.steps])
  \/ /\ Wanted(new.node)
     /\ new.node \in DOMAIN candidates /\ ~Beats(score, new.seed, new.steps, candidates[new.node])
     /\ candidates' = candidates
  \/ ~Wanted(new.node) /\ candidates' = candidates

LEMMA ExtendFinds ==
  ASSUME StoreOK, CallOK, NEW row \in Row, current \in Path, Extend(row, row.target)
  PROVE  \E new \in Path : Finds(new, row) /\ Enters(new) /\ Offers(new)
<1>. DEFINE prop == Propagated(current.prop, EffectiveWeight(row))
            steps == Append(current.steps, row)
            target == row.target
            path == [node |-> target, seed |-> current.seed, prop |-> prop, steps |-> steps]
<1>1. /\ prop \in Int /\ steps \in Seq(Row) /\ current.seed \in MemoryNodes /\ target \in MemoryNodes
      /\ current.steps \in Seq(Row)
  BY PropagatedTyped DEF Path, Row
<1>2. /\ candidates' = IF call.includeSeeds \/ target \notin SeedNodes
                       THEN ConsiderCandidate(candidates, target, prop * ImportanceFactor(target), current.seed, steps)
                       ELSE candidates
      /\ IF ShouldReplaceState(current, target, prop, steps)
         THEN /\ best' = Put(best, <<target, Len(steps)>>, [score |-> prop, seed |-> current.seed, steps |-> steps])
              /\ queue' = Append(queue, path)
         ELSE UNCHANGED <<best, queue>>
  BY Zenon DEF Extend
<1>. HIDE DEF prop, steps, target
<1>3. path \in Path
  BY <1>1 DEF Path
<1>4. path.node = target /\ path.seed = current.seed /\ path.prop = prop /\ path.steps = steps
  OBVIOUS
<1>. HIDE DEF path
<1>5. Finds(path, row)
  BY <1>4, Zenon DEF Finds, prop, steps, target
<1>6. EntryOf(path) = [score |-> prop, seed |-> current.seed, steps |-> steps]
  BY <1>4, Zenon DEF EntryOf
<1>7. Enters(path)
  BY <1>2, <1>4, <1>6, Zenon DEF Enters, ShouldReplaceState
<1>8. Offers(path)
  BY <1>2, <1>4, Zenon DEF Offers, ConsiderCandidate, Wanted
<1>. QED
  BY <1>3, <1>5, <1>7, <1>8, Zenon

LEMMA EntersImproves ==
  ASSUME CallOK, BestOK, call' = call, NEW new \in Path, Len(new.steps) \in 1 .. call.hops, Enters(new)
  PROVE  /\ BestOK' /\ Improved(best, best')
         /\ <<new.node, Len(new.steps)>> \in DOMAIN best'
         /\ best'[<<new.node, Len(new.steps)>>].score >= new.prop
         /\ ~Beats(new.prop, new.seed, new.steps, best'[<<new.node, Len(new.steps)>>])
<1>. DEFINE key == <<new.node, Len(new.steps)>>
            v == EntryOf(new)
<1>1. /\ new.node \in MemoryNodes /\ new.prop \in Int /\ new.seed \in MemoryNodes /\ new.steps \in Seq(Row)
      /\ v \in Found /\ v.score = new.prop /\ v.seed = new.seed /\ v.steps = new.steps
  BY DEF Path, EntryOf, Found
<1>2. key \in MemoryNodes \X (1 .. call.hops) /\ key[2] = Len(new.steps)
  BY <1>1
<1>3. CASE /\ key \notin DOMAIN best \/ Beats(new.prop, new.seed, new.steps, best[key])
           /\ best' = Put(best, key, v)
  <2>. HIDE DEF key, v
  <2>1. key \notin DOMAIN best \/ Beats(v.score, v.seed, v.steps, best[key])
    BY <1>1, <1>3
  <2>2. /\ DOMAIN best' = DOMAIN best \cup {key} /\ best'[key] = v
        /\ \A l \in DOMAIN best : l # key => best'[l] = best[l]
        /\ Improved(best, best')
    <3>1. /\ DOMAIN Put(best, key, v) = DOMAIN best \cup {key} /\ Put(best, key, v)[key] = v
          /\ \A l \in DOMAIN best : l # key => Put(best, key, v)[l] = best[l]
          /\ Improved(best, Put(best, key, v))
      BY <2>1, PutImproves, Zenon
    <3>. QED
      BY <1>3, <3>1
  <2>3. BestOK'
    <3>. SUFFICES ASSUME NEW l \in DOMAIN best'
         PROVE  l \in MemoryNodes \X (1 .. call.hops) /\ best'[l] \in Found /\ Len(best'[l].steps) = l[2]
      BY Zenon DEF BestOK
    <3>1. CASE l = key
      BY <1>1, <1>2, <2>2, <3>1
    <3>2. CASE l # key
      BY <2>2, <3>2 DEF BestOK
    <3>. QED
      BY <3>1, <3>2
  <2>4. ~Beats(new.prop, new.seed, new.steps, v)
    BY <1>1, NoneBeatsItself
  <2>5. best'[key].score >= new.prop
    BY <1>1, <2>2
  <2>. QED
    BY <2>2, <2>3, <2>4, <2>5 DEF key
<1>4. CASE /\ key \in DOMAIN best /\ ~Beats(new.prop, new.seed, new.steps, best[key])
           /\ best' = best
  <2>1. BestOK'
    BY <1>4 DEF BestOK
  <2>2. Improved(best, best')
    BY <1>4 DEF Improved, Improves
  <2>. HIDE DEF key
  <2>3. best[key].score \in Int
    BY <1>4 DEF BestOK, Found
  <2>4. best[key].score >= new.prop
    BY <1>1, <1>4, <2>3 DEF Beats
  <2>. QED
    BY <1>4, <2>1, <2>2, <2>4 DEF key
<1>. QED
  BY <1>3, <1>4, Zenon DEF Enters

LEMMA OffersImproves ==
  ASSUME CallOK, SameReads, NEW new \in Path, Offers(new)
  PROVE  Improved(candidates, candidates') /\ Judged(new)'
<1>. DEFINE n == new.node
            score == new.prop * ImportanceFactor(n)
            v == [score |-> score, seed |-> new.seed, steps |-> new.steps]
<1>1. n \in MemoryNodes /\ new.prop \in Int /\ new.seed \in MemoryNodes /\ new.steps \in Seq(Row)
  BY DEF Path
<1>2. score \in Int
  <2>1. ImportanceFactor(n) \in Nat
    BY <1>1, FactorTyped, Zenon
  <2>. HIDE DEF n
  <2>. QED
    BY <1>1, <2>1
<1>. HIDE DEF score
<1>3. v \in Found /\ v.score = score /\ v.seed = new.seed /\ v.steps = new.steps
  BY <1>1, <1>2 DEF Found
<1>4. Wanted(n)' = Wanted(n)
  BY ReadsSame
<1>. HIDE DEF n, v
<1>5. CASE /\ Wanted(n)
           /\ n \notin DOMAIN candidates \/ Beats(score, new.seed, new.steps, candidates[n])
           /\ candidates' = Put(candidates, n, v)
  <2>1. n \notin DOMAIN candidates \/ Beats(v.score, v.seed, v.steps, candidates[n])
    BY <1>3, <1>5
  <2>2. /\ DOMAIN candidates' = DOMAIN candidates \cup {n} /\ candidates'[n] = v
        /\ Improved(candidates, candidates')
    <3>1. /\ DOMAIN Put(candidates, n, v) = DOMAIN candidates \cup {n} /\ Put(candidates, n, v)[n] = v
          /\ \A l \in DOMAIN candidates : l # n => Put(candidates, n, v)[l] = candidates[l]
          /\ Improved(candidates, Put(candidates, n, v))
      BY <2>1, PutImproves, Zenon
    <3>. QED
      BY <1>5, <3>1
  <2>3. ~Beats(score, new.seed, new.steps, v)
    BY <1>3, NoneBeatsItself
  <2>4. n \in DOMAIN candidates' /\ ~Beats(score, new.seed, new.steps, candidates'[n])
    BY <2>2, <2>3
  <2>. QED
    BY <2>2, <2>4, Zenon DEF Judged, n, score
<1>6. CASE /\ Wanted(n) => n \in DOMAIN candidates /\ ~Beats(score, new.seed, new.steps, candidates[n])
           /\ candidates' = candidates
  <2>1. Improved(candidates, candidates')
    BY <1>6 DEF Improved, Improves
  <2>2. Judged(new)'
    BY <1>4, <1>6, Zenon DEF Judged, n, score
  <2>. QED
    BY <2>1, <2>2
<1>7. \/ /\ Wanted(n)
         /\ n \notin DOMAIN candidates \/ Beats(score, new.seed, new.steps, candidates[n])
         /\ candidates' = Put(candidates, n, v)
      \/ /\ Wanted(n) => n \in DOMAIN candidates /\ ~Beats(score, new.seed, new.steps, candidates[n])
         /\ candidates' = candidates
  BY Zenon DEF Offers, n, score, v
<1>. QED
  BY <1>5, <1>6, <1>7

-----------------------------------------------------------------------------
(* Steps of the walk.                                                      *)
LEMMA Elements ==
  ASSUME NEW S, NEW s \in Seq(S)
  PROVE  /\ \A x \in S : ElementsOf(Append(s, x)) = ElementsOf(s) \cup {x}
         /\ s # <<>> => ElementsOf(s) = {Head(s)} \cup ElementsOf(Tail(s)) /\ Len(Tail(s)) = Len(s) - 1
<1>1. ASSUME NEW x \in S PROVE ElementsOf(Append(s, x)) = ElementsOf(s) \cup {x}
  <2>1. /\ DOMAIN Append(s, x) = DOMAIN s \cup {Len(s) + 1} /\ Append(s, x)[Len(s) + 1] = x
        /\ \A i \in DOMAIN s : Append(s, x)[i] = s[i]
    OBVIOUS
  <2>. QED
    BY <2>1 DEF ElementsOf
<1>2. ASSUME s # <<>> PROVE ElementsOf(s) = {Head(s)} \cup ElementsOf(Tail(s)) /\ Len(Tail(s)) = Len(s) - 1
  <2>1. /\ Head(s) = s[1] /\ 1 \in DOMAIN s /\ Len(s) \in Nat /\ Len(Tail(s)) = Len(s) - 1
        /\ \A i \in DOMAIN Tail(s) : i + 1 \in DOMAIN s /\ Tail(s)[i] = s[i + 1]
        /\ \A i \in DOMAIN s : i # 1 => i - 1 \in DOMAIN Tail(s) /\ (i - 1) + 1 = i
    BY <1>2
  <2>2. \A i \in DOMAIN s : s[i] = Head(s) \/ s[i] \in ElementsOf(Tail(s))
    BY <2>1 DEF ElementsOf
  <2>3. \A i \in DOMAIN Tail(s) : Tail(s)[i] \in ElementsOf(s)
    BY <2>1 DEF ElementsOf
  <2>4. Head(s) \in ElementsOf(s)
    BY <2>1 DEF ElementsOf
  <2>. QED
    BY <2>1, <2>2, <2>3, <2>4, Zenon DEF ElementsOf
<1>. QED
  BY <1>1, <1>2

LEMMA BestGoesOn ==
  ASSUME StoreOK, CallOK, CallOK', SameReads, BestOK, BestOK',
         Improved(best, best'), Improved(candidates, candidates'), Exacts, Above, Considered,
         \A b \in Path : Stays(b)' => Stays(b) \/ (Exact(b.prop, Len(b.steps)) /\ Below(b)'),
         \A b \in Path : Keeps(b)' => Keeps(b) \/ Judged(b)'
  PROVE  Exacts' /\ Above' /\ Considered'
<1>1. \A b \in Path : Below(b) => Below(b)'
  BY GrowsOn
<1>2. \A b \in Path : Judged(b) => Judged(b)'
  BY JudgedStays
<1>3. Exacts'
  BY Zenon DEF Exacts
<1>4. Above'
  BY <1>1, Zenon DEF Above
<1>5. Considered'
  BY <1>2, Zenon DEF Considered
<1>. QED
  BY <1>3, <1>4, <1>5

(* What considering a row comes to.                                        *)
Progress(row) ==
  /\ BestOK' /\ Improved(best, best') /\ Improved(candidates, candidates')
  /\ \A b \in Path : Keeps(b)' => Keeps(b) \/ (b \in ElementsOf(queue') /\ Judged(b)')
  /\ \A b \in Path : b \in ElementsOf(queue') =>
       \/ b \in ElementsOf(queue)
       \/ Exact(b.prop, Len(b.steps)) /\ Below(b)' /\ ElementsOf(b.steps) \subseteq Rows
  /\ ElementsOf(queue) \subseteq ElementsOf(queue')
  /\ \A b \in Path : b = current /\ Open(b, row) => Covered(b, row)'
  /\ \A n \in DOMAIN candidates' : Wanted(n) /\ ElementsOf(candidates'[n].steps) \subseteq Rows

LEMMA CycleProgresses ==
  ASSUME SameReads, BestOK, Real, NEW row, PathContains(current, row.target), UNCHANGED <<queue, best, candidates>>
  PROVE  Progress(row)
<1>1. BestOK' /\ Improved(best, best') /\ Improved(candidates, candidates')
  BY DEF BestOK, Improved, Improves, SameReads
<1>2. \A b : Keeps(b)' = Keeps(b)
  BY ReadsSame DEF Keeps
<1>3. \A b \in Path : b = current => ~Open(b, row)
  BY DEF Open
<1>. QED
  BY <1>1, <1>2, <1>3, Zenon DEF Progress, Real

LEMMA ExtendProgresses ==
  ASSUME StoreOK, CallOK, BudgetOK, SameReads, phase = "admit", BestOK, Exacts, Above, Real,
         NEW row \in Rows, ~PathContains(current, row.target), Extend(row, row.target)
  PROVE  Progress(row)
<1>1. row \in Row /\ call' = call
  BY RowsAre DEF SameReads
<1>2. PICK old \in Path : old = current
  BY DEF CallOK
<1>3. PICK new \in Path : Finds(new, row) /\ Enters(new) /\ Offers(new)
  BY <1>1, <1>2, ExtendFinds
<1>. DEFINE w == EffectiveWeight(row)
            h == Len(old.steps)
<1>4. /\ new.node = row.target /\ new.seed = old.seed /\ new.prop = Propagated(old.prop, w)
      /\ new.steps = Append(old.steps, row)
  BY <1>2, <1>3, Zenon DEF Finds
<1>5. /\ old.steps \in Seq(Row) /\ new.steps \in Seq(Row) /\ Len(new.steps) = h + 1 /\ h \in Nat
      /\ DOMAIN new.steps = 1 .. h + 1 /\ DOMAIN old.steps = 1 .. h
      /\ new.steps[h + 1] = row /\ \A i \in 1 .. h : new.steps[i] = old.steps[i]
      /\ ElementsOf(new.steps) = ElementsOf(old.steps) \cup {row}
  <2>1. old.steps \in Seq(Row)
    BY DEF Path
  <2>2. ElementsOf(new.steps) = ElementsOf(old.steps) \cup {row}
    BY <1>1, <1>4, <2>1, Elements
  <2>. QED
    BY <1>1, <1>4, <2>1, <2>2
<1>6. h \in 0 .. 2 /\ Len(new.steps) \in 1 .. call.hops
  <2>1. h < call.hops
    BY <1>2 DEF BudgetOK
  <2>2. call.hops \in 0 .. 3
    BY DEF CallOK, Valid, ActivationValid, MaxHops
  <2>3. Len(new.steps) = h + 1 /\ h \in Nat
    BY <1>5
  <2>. HIDE DEF h
  <2>. QED
    BY <2>1, <2>2, <2>3
<1>7. Stays(old) /\ old \in Pending
  BY <1>2 DEF Stays, Pending
<1>8. Exact(new.prop, h + 1) /\ new.prop <= old.prop /\ new.prop \in Nat /\ old.prop \in Nat
  <2>1. w \in 0 .. Unit
    BY <1>1, EffectiveTyped
  <2>2. Exact(old.prop, h)
    BY <1>7 DEF Exacts
  <2>3. 50 * new.prop = old.prop * w /\ Exact(new.prop, h + 1)
    BY <1>4, <1>6, <2>1, <2>2, HopExact
  <2>4. new.prop \in Nat /\ old.prop \in Nat
    BY <2>2, <2>3 DEF Exact
  <2>. HIDE DEF w
  <2>. QED
    BY <2>1, <2>3, <2>4, HopDeclines
<1>9. /\ BestOK' /\ Improved(best, best')
      /\ <<new.node, Len(new.steps)>> \in DOMAIN best'
      /\ best'[<<new.node, Len(new.steps)>>].score >= new.prop
      /\ ~Beats(new.prop, new.seed, new.steps, best'[<<new.node, Len(new.steps)>>])
  BY <1>1, <1>3, <1>6, EntersImproves
<1>10. Improved(candidates, candidates') /\ Judged(new)'
  BY <1>3, OffersImproves
<1>11. Below(new)'
  <2>1. Below(old)'
    BY <1>7, <1>9, GrowsOn DEF Above
  <2>2. ASSUME NEW i \in 1 .. h
        PROVE  /\ <<new.steps[i].target, i>> \in DOMAIN best'
               /\ best'[<<new.steps[i].target, i>>].score >= new.prop
    <3>1. /\ <<new.steps[i].target, i>> \in DOMAIN best'
          /\ best'[<<new.steps[i].target, i>>].score >= old.prop
      BY <1>5, <2>1, Zenon DEF Below
    <3>2. best'[<<new.steps[i].target, i>>].score \in Int
      BY <1>9, <3>1 DEF BestOK, Found
    <3>. QED
      BY <1>8, <3>1, <3>2
  <2>3. /\ <<new.steps[h + 1].target, h + 1>> \in DOMAIN best'
        /\ best'[<<new.steps[h + 1].target, h + 1>>].score >= new.prop
    BY <1>4, <1>5, <1>9, Zenon
  <2>4. \E i \in DOMAIN seeds' : seeds'[i].node = new.seed /\ seeds'[i].score >= new.prop
    <3>1. PICK i \in DOMAIN seeds : seeds[i].node = old.seed /\ seeds[i].score >= old.prop
      BY <1>7 DEF Above, Below
    <3>2. seeds[i].score \in Int /\ seeds' = seeds
      <4>1. seeds[i] \in Seed
        BY DEF CallOK
      <4>. QED
        BY <4>1 DEF Seed, SameReads
    <3>3. seeds[i].score >= new.prop
      BY <1>8, <3>1, <3>2
    <3>. QED
      BY <1>4, <3>1, <3>2, <3>3, Zenon
  <2>5. \A i \in DOMAIN new.steps : i \in 1 .. h \/ i = h + 1
    BY <1>5
  <2>. QED
    BY <2>2, <2>3, <2>4, <2>5, Zenon DEF Below
<1>12. ElementsOf(new.steps) \subseteq Rows
  BY <1>5, <1>7 DEF Real
<1>13. \A b \in Path : Keeps(b)' => Keeps(b) \/ (b \in ElementsOf(queue') /\ Judged(b)')
  <2>. SUFFICES ASSUME NEW b \in Path, Keeps(b)', ~Keeps(b) PROVE b \in ElementsOf(queue') /\ Judged(b)'
    OBVIOUS
  <2>. DEFINE key == <<b.node, Len(b.steps)>>
              newKey == <<new.node, Len(new.steps)>>
  <2>1. key \in DOMAIN best' /\ best'[key] = EntryOf(b) /\ ~(key \in DOMAIN best /\ best[key] = EntryOf(b))
    BY ReadsSame, Zenon DEF Keeps, EntryOf
  <2>2. best' = Put(best, newKey, EntryOf(new)) /\ queue' = Append(queue, new)
    BY <1>3, <2>1, Zenon DEF Enters
  <2>3. key = newKey /\ EntryOf(b) = EntryOf(new)
    <3>. HIDE DEF key, newKey
    <3>. QED
      BY <2>1, <2>2 DEF Put
  <2>4. b.node = new.node /\ b.prop = new.prop /\ b.seed = new.seed /\ b.steps = new.steps
    BY <2>3 DEF EntryOf
  <2>5. b = new
    BY <2>4 DEF Path
  <2>6. new \in ElementsOf(queue')
    <3>1. queue \in Seq(Path)
      BY DEF CallOK
    <3>. QED
      BY <2>2, <3>1, Elements
  <2>. QED
    BY <1>10, <2>5, <2>6
<1>14. /\ ElementsOf(queue) \subseteq ElementsOf(queue')
       /\ \A b \in ElementsOf(queue') : b \in ElementsOf(queue) \/ b = new
  <2>1. queue \in Seq(Path) /\ (queue' = queue \/ queue' = Append(queue, new))
    BY <1>3 DEF CallOK, Enters
  <2>2. ElementsOf(Append(queue, new)) = ElementsOf(queue) \cup {new}
    BY <2>1, Elements
  <2>. QED
    BY <2>1, <2>2
<1>15. ASSUME NEW b \in Path, b = current, Open(b, row) PROVE Covered(b, row)'
  <2>1. b = old /\ EffectiveWeight(row)' = w
    BY <1>2, <1>15, ReadsSame
  <2>2. /\ <<row.target, Len(b.steps) + 1>> = <<new.node, Len(new.steps)>>
        /\ Propagated(b.prop, EffectiveWeight(row)') = new.prop
        /\ b.seed = new.seed /\ Append(b.steps, row) = new.steps
    BY <1>4, <1>5, <2>1
  <2>. QED
    BY <1>9, <2>2, Zenon DEF Covered
<1>16. ASSUME NEW n \in DOMAIN candidates'
       PROVE  Wanted(n) /\ ElementsOf(candidates'[n].steps) \subseteq Rows
  <2>1. CASE n \in DOMAIN candidates /\ candidates'[n] = candidates[n]
    BY <2>1 DEF Real
  <2>2. CASE ~(n \in DOMAIN candidates /\ candidates'[n] = candidates[n])
    <3>1. n = new.node /\ Wanted(n) /\ candidates'[n].steps = new.steps
      BY <1>3, <2>2 DEF Offers, Put
    <3>. QED
      BY <1>12, <3>1
  <2>. QED
    BY <2>1, <2>2
<1>. HIDE DEF h, w
<1>17. \A b \in Path : b \in ElementsOf(queue') =>
         \/ b \in ElementsOf(queue)
         \/ Exact(b.prop, Len(b.steps)) /\ Below(b)' /\ ElementsOf(b.steps) \subseteq Rows
  BY <1>5, <1>8, <1>11, <1>12, <1>14, Zenon
<1>. QED
  BY <1>9, <1>10, <1>13, <1>14, <1>15, <1>16, <1>17, Zenon DEF Progress

(* Without a budget reached now, none was reached before.                  *)
LEMMA UnboundedBefore ==
  ASSUME CallOK, BudgetOK, BudgetOK', SameReads,
         stats'.visitedEdges >= stats.visitedEdges, stats'.visitedNodes >= stats.visitedNodes,
         Unbounded'
  PROVE  Unbounded
<1>1. Rows' = Rows /\ call' = call /\ nodes' = nodes
  BY ReadsSame DEF SameReads
<1>2. /\ stats'.visitedEdges < call.maxEdges /\ stats'.visitedNodes < call.maxNodes
      /\ call.kind \in {"feedback", "community"} =>
           \A n \in nodes : Cardinality({r \in Rows : r.source = n}) <= call.scanLimit
  BY <1>1, Zenon DEF Unbounded
<1>3. /\ stats.visitedEdges \in Nat /\ stats.visitedNodes \in Nat
      /\ stats'.visitedEdges \in Nat /\ stats'.visitedNodes \in Nat
      /\ call.maxEdges \in Nat /\ call.maxNodes \in Nat
  BY CallFields DEF BudgetOK, Counts
<1>4. stats.visitedEdges < call.maxEdges /\ stats.visitedNodes < call.maxNodes
  BY <1>2, <1>3
<1>. QED
  BY <1>2, <1>4, Zenon DEF Unbounded

LEMMA RowKeepsWalk ==
  ASSUME StoreOK, CallOK, CallOK', BudgetOK, BudgetOK', SameReads, WalkKept, phase = "admit",
         NEW row \in Rows, row = Head(rows), Progress(row), Continue(Edges), current' = current,
         stats'.visitedEdges = Edges, stats'.visitedNodes >= stats.visitedNodes
  PROVE  WalkKept'
<1>1. BestOK /\ Exacts /\ Above /\ Considered /\ Covers /\ Real
  BY DEF WalkKept
<1>2. /\ BestOK' /\ Improved(best, best') /\ Improved(candidates, candidates')
      /\ \A b \in Path : Keeps(b)' => Keeps(b) \/ (b \in ElementsOf(queue') /\ Judged(b)')
      /\ \A b \in Path : b \in ElementsOf(queue') =>
           \/ b \in ElementsOf(queue)
           \/ Exact(b.prop, Len(b.steps)) /\ Below(b)' /\ ElementsOf(b.steps) \subseteq Rows
      /\ ElementsOf(queue) \subseteq ElementsOf(queue')
      /\ \A b \in Path : b = current /\ Open(b, row) => Covered(b, row)'
      /\ \A n \in DOMAIN candidates' : Wanted(n) /\ ElementsOf(candidates'[n].steps) \subseteq Rows
  BY DEF Progress
<1>3. /\ Pending = ElementsOf(queue) \cup {current}
      /\ Pending' = ElementsOf(queue') \cup (IF phase' = "admit" THEN {current} ELSE {})
  BY DEF Pending, ElementsOf
<1>4. rows \in Seq(Row) /\ rows # <<>> /\ current \in Path
  BY DEF CallOK
<1>5. ElementsOf(rows) = {row} \cup ElementsOf(Tail(rows)) /\ Len(Tail(rows)) = Len(rows) - 1 /\ Len(rows) \in Nat
  BY <1>4, Elements
<1>6. /\ rows' = IF EdgeLeft(Edges) THEN Tail(rows) ELSE <<>>
      /\ phase' = IF rows' = <<>> THEN "next" ELSE "admit"
  BY DEF Continue
<1>7. Exacts' /\ Above' /\ Considered'
  <2>1. \A b \in Path : Stays(b)' => Stays(b) \/ (Exact(b.prop, Len(b.steps)) /\ Below(b)')
    <3>. SUFFICES ASSUME NEW b \in Path, Stays(b)', ~Stays(b) PROVE Exact(b.prop, Len(b.steps)) /\ Below(b)'
      OBVIOUS
    <3>1. b \in ElementsOf(queue') /\ b \notin ElementsOf(queue)
      <4>1. ~Keeps(b) /\ b \notin Pending
        BY DEF Stays
      <4>2. Keeps(b)' \/ b \in Pending'
        BY DEF Stays
      <4>. QED
        BY <1>2, <1>3, <4>1, <4>2
    <3>. QED
      BY <1>2, <3>1
  <2>2. \A b \in Path : Keeps(b)' => Keeps(b) \/ Judged(b)'
    BY <1>2
  <2>. QED
    BY <1>1, <1>2, <2>1, <2>2, BestGoesOn, Zenon
<1>8. Covers'
  <2>. SUFFICES ASSUME Unbounded'
       PROVE  /\ \A b \in Path : Keeps(b)' => b \in Pending' \/ Expanded(b)'
              /\ phase' = "admit" =>
                   \/ Doomed'
                   \/ \A b \in Path : b = current => 
                        \A r \in Rows : Open(b, r) => Covered(b, r)' \/ r \in ElementsOf(rows')
    <3>1. Rows' = Rows /\ \A b, r : Open(b, r)' = Open(b, r)
      BY ReadsSame DEF Open
    <3>2. current \in Path /\ current' = current
      BY <1>4
    <3>3. \A b, r : b = current => (Covered(b, r)' <=> Covered(current, r)') /\ (Open(b, r)' <=> Open(current, r)')
      BY DEF Covered, Open
    <3>. QED
      BY <3>1, <3>2, <3>3, Zenon DEF Covers
  <2>0. /\ Edges \in Nat /\ stats.visitedEdges \in Nat /\ Edges = stats.visitedEdges + 1
        /\ call.maxEdges \in Nat /\ call' = call
    BY CallFields DEF BudgetOK, Counts, Edges, SameReads
  <2>1. Unbounded
    <3>1. stats'.visitedEdges >= stats.visitedEdges
      BY <2>0
    <3>. QED
      BY <3>1, UnboundedBefore
  <2>2. EdgeLeft(Edges) /\ Edges < call.maxEdges /\ rows' = Tail(rows)
    <3>1. Edges < call.maxEdges
      BY <2>0 DEF Unbounded
    <3>. QED
      BY <1>6, <3>1 DEF EdgeLeft
  <2>3. \A b \in Path, r \in Rows : Covered(b, r) => Covered(b, r)'
    BY <1>1, <1>2, GrowsOn, RowsAre
  <2>4. ASSUME NEW b \in Path, b = current, ~Doomed, NEW r \in Rows, Open(b, r)
        PROVE  Covered(b, r)' \/ r \in ElementsOf(rows')
    <3>1. Covered(b, r) \/ r \in ElementsOf(rows)
      BY <1>1, <2>1, <2>4, Zenon DEF Covers
    <3>2. CASE Covered(b, r)
      BY <2>3, <3>2
    <3>3. CASE r = row
      BY <1>2, <2>4, <3>3
    <3>. QED
      BY <1>5, <2>2, <3>1, <3>2, <3>3
  <2>5. ASSUME NEW b \in Path, Keeps(b)' PROVE b \in Pending' \/ Expanded(b)'
    <3>1. CASE ~Keeps(b)
      BY <1>2, <1>3, <2>5, <3>1
    <3>2. CASE Keeps(b)
      <4>1. b \in Pending \/ Expanded(b)
        BY <1>1, <2>1, <3>2 DEF Covers
      <4>2. CASE Expanded(b)
        BY <1>1, <1>2, <4>2, GrowsOn
      <4>3. CASE b \in ElementsOf(queue)
        BY <1>2, <1>3, <4>3
      <4>4. CASE b = current /\ phase' = "admit"
        BY <1>3, <4>4
      <4>5. CASE b = current /\ phase' # "admit"
        <5>1. rows' = <<>>
          BY <1>6, <4>5
        <5>2. Len(rows) = 1 /\ ElementsOf(rows') = {}
          <6>1. Tail(rows) = <<>> /\ Len(<<>>) = 0
            BY <2>2, <5>1
          <6>2. Len(Tail(rows)) = 0
            BY <6>1, Zenon
          <6>3. Len(rows) = 1
            <7>. DEFINE n == Len(rows)  m == Len(Tail(rows))
            <7>1. m = n - 1 /\ n \in Nat /\ m = 0
              BY <1>5, <6>2
            <7>. HIDE DEF n, m
            <7>2. n = 1
              BY <7>1
            <7>. QED
              BY <7>2 DEF n
          <6>. QED
            BY <5>1, <6>3 DEF ElementsOf
        <5>3. ~Doomed
          BY <2>0, <2>2, <5>2 DEF Doomed
        <5>4. \A r \in Rows : Open(b, r) => Covered(b, r)'
          BY <2>4, <4>5, <5>2, <5>3
        <5>5. Rows' = Rows /\ \A r : Open(b, r)' = Open(b, r)
          BY ReadsSame DEF Open
        <5>. QED
          BY <5>4, <5>5, Zenon DEF Expanded
      <4>. QED
        BY <1>3, <4>1, <4>2, <4>3, <4>4, <4>5
    <3>. QED
      BY <3>1, <3>2
  <2>6. Doomed => Doomed'
    BY <1>5, <2>0, <2>2 DEF Doomed
  <2>. QED
    BY <2>4, <2>5, <2>6, Zenon
<1>9. Real'
  <2>1. Rows' = Rows /\ \A n : Wanted(n)' = Wanted(n)
    BY ReadsSame
  <2>2. \A b \in Path : b \in Pending' => ElementsOf(b.steps) \subseteq Rows
    <3>1. \A b \in Path : b \in Pending => ElementsOf(b.steps) \subseteq Rows
      BY <1>1 DEF Real
    <3>2. \A b \in Path : b \in Pending' => b \in Pending \/ ElementsOf(b.steps) \subseteq Rows
      BY <1>2, <1>3
    <3>. QED
      BY <3>1, <3>2, Zenon
  <2>3. ElementsOf(rows') \subseteq Rows
    <3>1. ElementsOf(rows) \subseteq Rows /\ ElementsOf(<<>>) = {}
      BY <1>1 DEF Real, ElementsOf
    <3>. QED
      BY <1>5, <1>6, <3>1
  <2>4. ~Walked'
    BY <1>6 DEF Walked
  <2>5. \A n \in DOMAIN candidates' : Wanted(n)' /\ ElementsOf(candidates'[n].steps) \subseteq Rows
    BY <1>2, <2>1, Zenon
  <2>6. /\ ElementsOf(rows)' = ElementsOf(rows')
        /\ \A n : ElementsOf(candidates[n].steps)' = ElementsOf(candidates'[n].steps)
    BY DEF ElementsOf
  <2>. QED
    BY <2>1, <2>2, <2>3, <2>4, <2>5, <2>6 DEF Real
<1>. QED
  BY <1>2, <1>7, <1>8, <1>9 DEF WalkKept

(* All rows of a node are read, or as many as there are edges left.        *)
LEMMA RowsWhole ==
  ASSUME StoreOK, CallOK, NEW source \in MemoryNodes,
         stats.visitedEdges \in Nat, stats.visitedEdges <= call.maxEdges,
         call.kind \in {"feedback", "community"} =>
           \A n \in nodes : Cardinality({r \in Rows : r.source = n}) <= call.scanLimit
  PROVE  \/ ElementsOf(OrderedRelations(source)) = RowsOf(source)
         \/ Len(OrderedRelations(source)) + stats.visitedEdges >= call.maxEdges
<1>. DEFINE S == RowsOf(source)
            sorted == Sorted(S, RowBefore)
            first == FirstRows(source)
            read == OrderedRelations(source)
<1>1. /\ RowLimit \in Nat /\ first \in Seq(S) /\ read \in Seq(S)
      /\ \/ read = first
         \/ call.kind \in {"feedback", "community"} /\ ElementsOf(read) = ElementsOf(first)
  BY RowsArranged
<1>2. Arranged(sorted, S) /\ IsFiniteSet(S) /\ Cardinality(S) \in Nat
  BY RowsSorted, RowsTyped, FS_CardinalityType
<1>3. sorted \in Seq(S) /\ Len(sorted) = Cardinality(S) /\ ElementsOf(sorted) = S
  BY <1>2, ArrangedWhole DEF Arranged
<1>4. /\ Len(first) = Least(RowLimit, Len(sorted))
      /\ \A i \in DOMAIN first : i \in DOMAIN sorted /\ first[i] = sorted[i]
  BY <1>1, <1>3, SelectionArranged DEF FirstRows
<1>5. call.kind \in {"feedback", "community"} => Cardinality(S) <= RowLimit
  <2>. SUFFICES ASSUME call.kind \in {"feedback", "community"} PROVE Cardinality(S) <= RowLimit
    OBVIOUS
  <2>1. RowLimit = call.scanLimit
    BY DEF RowLimit
  <2>2. CASE S = {}
    BY <1>1, <2>2, FS_EmptySet
  <2>3. CASE S # {}
    <3>1. source \in nodes
      BY <2>3 DEF RowsOf, StoreOK
    <3>2. S = {r \in Rows : r.source = source}
      BY RowsAre, RowsTyped
    <3>. QED
      BY <2>1, <3>1, <3>2
  <2>. QED
    BY <2>2, <2>3
<1>6. CASE Len(sorted) <= RowLimit
  <2>. HIDE DEF sorted, first, S, read
  <2>1. Len(first) = Len(sorted)
    BY <1>1, <1>3, <1>4, <1>6 DEF Least
  <2>2. \A i \in DOMAIN sorted : i \in DOMAIN first
    BY <1>1, <1>3, <2>1
  <2>3. ElementsOf(first) = ElementsOf(sorted)
    BY <1>4, <2>2, Zenon DEF ElementsOf
  <2>4. ElementsOf(read) = S
    BY <1>1, <1>3, <2>3
  <2>. QED
    BY <2>4 DEF read, S
<1>7. CASE ~(Len(sorted) <= RowLimit)
  <2>. HIDE DEF sorted, first, S, read
  <2>1. call.kind \notin {"feedback", "community"}
    BY <1>3, <1>5, <1>7
  <2>2. read = first /\ RowLimit = call.maxEdges - stats.visitedEdges
    BY <1>1, <2>1 DEF RowLimit
  <2>3. Len(read) = RowLimit
    BY <1>1, <1>3, <1>4, <1>7, <2>2 DEF Least
  <2>4. call.maxEdges \in Nat
    BY CallFields
  <2>5. Len(read) + stats.visitedEdges >= call.maxEdges
    BY <2>2, <2>3, <2>4
  <2>. QED
    BY <2>5 DEF read
<1>. QED
  BY <1>6, <1>7

LEMMA NextKeepsWalk ==
  ASSUME StoreOK, CallOK, CallOK', BudgetOK, BudgetOK', SameReads, WalkKept, NextPath
  PROVE  WalkKept'
<1>1. BestOK /\ Exacts /\ Above /\ Considered /\ Covers /\ Real
  BY DEF WalkKept
<1>2. /\ queue # <<>> /\ queue' = Tail(queue) /\ current' = Head(queue) /\ phase = "next"
      /\ UNCHANGED <<best, candidates>>
      /\ \/ Exhausted(current') /\ UNCHANGED <<phase, rows, stats>>
         \/ /\ ~Exhausted(current')
            /\ rows' = OrderedRelations(current'.node)
            /\ phase' = IF rows' = <<>> THEN "next" ELSE "admit"
            /\ stats' = [stats EXCEPT !.adjacencyQueries = @ + 1]
  BY Zenon DEF NextPath
<1>3. queue \in Seq(Path) /\ current' \in Path
  BY <1>2 DEF CallOK
<1>4. PICK head \in Path : head = current'
  BY <1>3, Zenon
<1>5. ElementsOf(queue) = {head} \cup ElementsOf(Tail(queue))
  BY <1>2, <1>3, <1>4, Elements
<1>6. /\ Pending = ElementsOf(queue)
      /\ Pending' = ElementsOf(Tail(queue)) \cup (IF phase' = "admit" THEN {head} ELSE {})
  BY <1>2, <1>4 DEF Pending, ElementsOf
<1>7. /\ BestOK' /\ Improved(best, best') /\ Improved(candidates, candidates')
      /\ \A b : Keeps(b)' = Keeps(b)
  BY <1>1, <1>2, ReadsSame DEF BestOK, Improved, Improves, SameReads, Keeps
<1>8. Exacts' /\ Above' /\ Considered'
  <2>1. \A b : Stays(b)' => Stays(b)
    BY <1>5, <1>6, <1>7 DEF Stays
  <2>. QED
    BY <1>1, <1>7, <2>1, BestGoesOn, Zenon
<1>9. /\ stats'.visitedEdges = stats.visitedEdges /\ stats'.visitedNodes = stats.visitedNodes
      /\ stats.visitedEdges \in Nat /\ stats.visitedNodes \in Nat /\ stats.visitedEdges <= call.maxEdges
      /\ call.maxEdges \in Nat /\ call' = call
  BY <1>2, CallFields DEF BudgetOK, Counts, SameReads
<1>10. head.node \in MemoryNodes /\ Len(head.steps) \in Nat
  BY DEF Path
<1>11. Rows' = Rows /\ \A b, r : Open(b, r)' = Open(b, r)
  BY ReadsSame DEF Open
<1>12. Covers'
  <2>. SUFFICES ASSUME Unbounded'
       PROVE  /\ \A b \in Path : Keeps(b)' => b \in Pending' \/ Expanded(b)'
              /\ phase' = "admit" => Doomed' \/ \A r \in Rows : Open(head, r) => r \in ElementsOf(rows')
    <3>1. \A r : Open(head, r) <=> Open(current, r)'
      BY <1>4 DEF Open
    <3>2. ElementsOf(rows)' = ElementsOf(rows')
      BY DEF ElementsOf
    <3>. QED
      BY <1>11, <3>1, <3>2, Zenon DEF Covers
  <2>1. Unbounded
    BY <1>9, UnboundedBefore
  <2>2. stats.visitedEdges < call.maxEdges /\ stats.visitedNodes < call.maxNodes
    BY <2>1 DEF Unbounded
  <2>3. CASE Exhausted(head)
    <3>1. phase' = "next"
      BY <1>2, <1>4, <2>3
    <3>2. ~(Len(head.steps) < call.hops)
      <4>1. ~(stats.visitedEdges >= call.maxEdges) /\ ~(stats.visitedNodes >= call.maxNodes)
        BY <1>9, <2>2, CallFields
      <4>2. Len(head.steps) >= call.hops
        BY <2>3, <4>1, Zenon DEF Exhausted
      <4>. QED
        BY <1>10, <4>2, CallFields
    <3>3. Expanded(head)'
      BY <1>9, <3>2 DEF Expanded
    <3>4. \A b \in Path : Expanded(b) => Expanded(b)'
      BY <1>1, <1>7, GrowsOn
    <3>5. \A b \in Path : Keeps(b) => b \in Pending \/ Expanded(b)
      BY <1>1, <2>1 DEF Covers
    <3>. QED
      BY <1>5, <1>6, <1>7, <3>1, <3>3, <3>4, <3>5
  <2>4. CASE ~Exhausted(head)
    <3>1. rows' = OrderedRelations(head.node) /\ phase' = IF rows' = <<>> THEN "next" ELSE "admit"
      BY <1>2, <1>4, <2>4
    <3>2. \/ ElementsOf(rows') = RowsOf(head.node)
          \/ Len(rows') + stats.visitedEdges >= call.maxEdges
      BY <1>9, <1>10, <2>1, <3>1, RowsWhole DEF Unbounded
    <3>3. \A r \in Rows : Open(head, r) => r \in RowsOf(head.node)
      BY RowsAre DEF Open
    <3>4. Doomed' \/ \A r \in Rows : Open(head, r) => r \in ElementsOf(rows')
      BY <1>9, <3>2, <3>3 DEF Doomed
    <3>5. rows' = <<>> => Expanded(head)'
      <4>. SUFFICES ASSUME rows' = <<>> PROVE \A r \in Rows : ~Open(head, r)
        BY <1>11, Zenon DEF Expanded
      <4>1. Len(rows') = 0 /\ ElementsOf(rows') = {}
        BY DEF ElementsOf
      <4>2. ~(Len(rows') + stats.visitedEdges >= call.maxEdges)
        BY <1>9, <2>2, <4>1
      <4>. QED
        BY <3>2, <3>3, <4>1, <4>2
    <3>6. \A b \in Path : Expanded(b) => Expanded(b)'
      BY <1>1, <1>7, GrowsOn
    <3>7. \A b \in Path : Keeps(b) => b \in Pending \/ Expanded(b)
      BY <1>1, <2>1 DEF Covers
    <3>8. ASSUME NEW b \in Path, Keeps(b)' PROVE b \in Pending' \/ Expanded(b)'
      <4>1. CASE b = head
        BY <1>6, <3>1, <3>5, <4>1
      <4>2. CASE b # head
        BY <1>5, <1>6, <1>7, <3>6, <3>7, <3>8, <4>2
      <4>. QED
        BY <4>1, <4>2
    <3>. QED
      BY <3>4, <3>8
  <2>. QED
    BY <2>3, <2>4
<1>13. Real'
  <2>1. \A n : Wanted(n)' = Wanted(n)
    BY ReadsSame
  <2>2. \A b \in Path : b \in Pending' => ElementsOf(b.steps) \subseteq Rows
    BY <1>1, <1>5, <1>6 DEF Real
  <2>3. phase' = "admit" => ElementsOf(rows') \subseteq Rows
    <3>. SUFFICES ASSUME phase' = "admit" PROVE ElementsOf(rows') \subseteq Rows
      OBVIOUS
    <3>1. rows' = OrderedRelations(head.node)
      BY <1>2, <1>4
    <3>2. rows' \in Seq(RowsOf(head.node))
      BY <1>9, <1>10, <3>1, RowsOrdered
    <3>3. RowsOf(head.node) \subseteq Rows
      BY RowsAre
    <3>. QED
      BY <3>2, <3>3 DEF ElementsOf
  <2>4. ~Walked'
    BY <1>2 DEF Walked
  <2>5. \A n \in DOMAIN candidates : Wanted(n) /\ ElementsOf(candidates[n].steps) \subseteq Rows
    BY <1>1 DEF Real
  <2>6. /\ ElementsOf(rows)' = ElementsOf(rows')
        /\ \A n : ElementsOf(candidates[n].steps)' = ElementsOf(candidates'[n].steps)
    BY DEF ElementsOf
  <2>. QED
    BY <1>2, <1>11, <2>1, <2>2, <2>3, <2>4, <2>5, <2>6 DEF Real
<1>. QED
  BY <1>7, <1>8, <1>12, <1>13 DEF WalkKept

LEMMA SpentKeepsWalk ==
  ASSUME StoreOK, CallOK, CallOK', SameReads, WalkKept, phase = "admit", phase' = "next",
         UNCHANGED <<queue, best, candidates>>, ~Unbounded'
  PROVE  WalkKept'
<1>1. BestOK /\ Exacts /\ Above /\ Considered /\ Real
  BY DEF WalkKept
<1>2. Pending' \subseteq Pending
  BY DEF Pending, ElementsOf
<1>3. /\ BestOK' /\ Improved(best, best') /\ Improved(candidates, candidates')
      /\ \A b : Keeps(b)' = Keeps(b)
  BY <1>1, ReadsSame DEF BestOK, Improved, Improves, SameReads, Keeps
<1>4. Exacts' /\ Above' /\ Considered'
  <2>1. \A b : Stays(b)' => Stays(b)
    BY <1>2, <1>3 DEF Stays
  <2>. QED
    BY <1>1, <1>3, <2>1, BestGoesOn, Zenon
<1>5. Covers'
  BY Zenon DEF Covers
<1>6. Real'
  <2>1. Rows' = Rows /\ \A n : Wanted(n)' = Wanted(n)
    BY ReadsSame
  <2>2. \A b \in Path : b \in Pending' => ElementsOf(b.steps) \subseteq Rows
    BY <1>1, <1>2 DEF Real
  <2>3. \A n \in DOMAIN candidates : Wanted(n) /\ ElementsOf(candidates[n].steps) \subseteq Rows
    BY <1>1 DEF Real
  <2>4. \A n : ElementsOf(candidates[n].steps)' = ElementsOf(candidates'[n].steps)
    BY DEF ElementsOf
  <2>5. ~Walked'
    BY DEF Walked
  <2>. QED
    BY <2>1, <2>2, <2>3, <2>4, <2>5 DEF Real
<1>. QED
  BY <1>3, <1>4, <1>5, <1>6 DEF WalkKept

(* Steps that leave the walk alone.                                        *)
LEMMA SameWalk ==
  ASSUME StoreOK, CallOK, CallOK', SameReads, WalkKept, UNCHANGED <<queue, current, rows, best, candidates, stats>>,
         phase' # phase => phase # "admit" /\ phase' # "admit" /\ queue = <<>>
  PROVE  WalkKept'
<1>1. BestOK /\ Exacts /\ Above /\ Considered /\ Covers /\ Real
  BY DEF WalkKept
<1>2. Pending' = Pending
  BY DEF Pending, ElementsOf
<1>3. /\ BestOK' /\ Improved(best, best') /\ Improved(candidates, candidates')
      /\ \A b : Keeps(b)' = Keeps(b)
  BY <1>1, ReadsSame DEF BestOK, Improved, Improves, SameReads, Keeps
<1>4. Exacts' /\ Above' /\ Considered'
  <2>1. \A b : Stays(b)' => Stays(b)
    BY <1>2, <1>3 DEF Stays
  <2>. QED
    BY <1>1, <1>3, <2>1, BestGoesOn, Zenon
<1>5. phase' = "admit" <=> phase = "admit"
  OBVIOUS
<1>6. /\ Rows' = Rows /\ \A b, r : Open(b, r)' = Open(b, r)
      /\ \A n : Wanted(n)' = Wanted(n)
  BY ReadsSame DEF Open
<1>7. /\ ElementsOf(rows)' = ElementsOf(rows)
      /\ \A n : ElementsOf(candidates[n].steps)' = ElementsOf(candidates[n].steps)
  BY DEF ElementsOf
<1>8. Covers'
  <2>1. /\ \A b \in Path : Expanded(b) => Expanded(b)'
        /\ \A b \in Path, r \in Row : Covered(b, r) => Covered(b, r)'
    BY <1>1, <1>3, GrowsOn
  <2>2. Unbounded' = Unbounded
    BY <1>6 DEF Unbounded, SameReads
  <2>3. Doomed' = Doomed
    BY DEF Doomed, SameReads
  <2>4. phase = "admit" =>
          \A r \in Rows : (Covered(current, r) => Covered(current, r)') /\ Open(current, r)' = Open(current, r)
    <3>. SUFFICES ASSUME phase = "admit", NEW r \in Rows
                  PROVE  (Covered(current, r) => Covered(current, r)') /\ Open(current, r)' = Open(current, r)
      OBVIOUS
    <3>1. PICK b \in Path : b = current
      BY DEF CallOK
    <3>2. r \in Row
      BY RowsAre
    <3>3. Covered(b, r) => Covered(b, r)'
      BY <2>1, <3>2
    <3>4. (Covered(b, r) <=> Covered(current, r)) /\ (Covered(b, r)' <=> Covered(current, r)')
      BY <3>1 DEF Covered
    <3>. QED
      BY <3>3, <3>4 DEF Open
  <2>. QED
    BY <1>1, <1>2, <1>3, <1>5, <1>6, <1>7, <2>1, <2>2, <2>3, <2>4, Zenon DEF Covers
<1>9. Real'
  <2>1. \A b \in Path : b \in Pending' => ElementsOf(b.steps) \subseteq Rows
    BY <1>1, <1>2 DEF Real
  <2>2. \A n \in DOMAIN candidates : Wanted(n) /\ ElementsOf(candidates[n].steps) \subseteq Rows
    BY <1>1 DEF Real
  <2>3. phase' = "admit" => ElementsOf(rows) \subseteq Rows
    BY <1>1, <1>5 DEF Real
  <2>4. Walked' => queue' = <<>>
    BY <1>1 DEF Real, Walked
  <2>. QED
    BY <1>6, <1>7, <2>1, <2>2, <2>3, <2>4 DEF Real
<1>. QED
  BY <1>3, <1>4, <1>8, <1>9 DEF WalkKept

LEMMA StartKeepsWalk ==
  ASSUME StoreOK, CallOK, CallOK', BudgetOK, PathsOK, SameReads, best = Nothing, phase = "seed_read", StartWalk
  PROVE  WalkKept'
<1>1. /\ queue = <<>> /\ candidates = Nothing
      /\ \A i, j \in DOMAIN seeds : seeds[i].node = seeds[j].node => i = j
  BY DEF BudgetOK
<1>2. best' = Nothing /\ seeds' = seeds /\ Start' = Start /\ phase' # "admit"
  BY ReadsSame DEF StartWalk, ReportDone, Answer, walk, SameReads
<1>3. BestOK' /\ \A b : Keeps(b)' => b \in Start
  BY <1>2 DEF BestOK, Keeps, Nothing
<1>4. ASSUME NEW b \in Path, b \in Start
      PROVE  Exact(b.prop, Len(b.steps)) /\ Below(b)' /\ ElementsOf(b.steps) = {} /\ b.steps = <<>>
  <2>1. PICK i \in DOMAIN seeds : b = [node |-> seeds[i].node, seed |-> seeds[i].node,
                                       prop |-> seeds[i].score, steps |-> <<>>]
    BY <1>4 DEF Start
  <2>2. b.seed = seeds[i].node /\ b.prop = seeds[i].score /\ b.steps = <<>>
    BY <2>1
  <2>3. b.prop \in Nat /\ \E k \in Nat : b.prop = Scale * k
    <3>1. seeds[i] \in Seed
      BY DEF CallOK
    <3>2. call.matches[seeds[i].node] \in Nat
      BY <3>1, CallFields DEF Seed
    <3>3. b.prop = Scale * call.matches[seeds[i].node]
      BY <2>2 DEF PathsOK
    <3>. QED
      BY <3>2, <3>3 DEF Scale, HopDivisor
  <2>4. DOMAIN b.steps = {} /\ Len(b.steps) = 0
    BY <2>2
  <2>5. Exact(b.prop, Len(b.steps))
    BY <2>3, <2>4 DEF Exact
  <2>6. seeds[i].score >= b.prop
    BY <2>2, <2>3
  <2>7. Below(b)'
    BY <1>2, <2>2, <2>4, <2>6, Zenon DEF Below
  <2>. QED
    BY <2>2, <2>4, <2>5, <2>7 DEF ElementsOf
<1>5. CASE seeds = <<>>
  <2>1. Start = {}
    BY <1>5 DEF Start
  <2>2. queue' = <<>> /\ candidates' = Nothing
    BY <1>1, <1>5 DEF StartWalk, walk
  <2>3. Pending' = {}
    BY <1>2, <2>2 DEF Pending, ElementsOf
  <2>4. \A b : ~Stays(b)' /\ ~Keeps(b)'
    BY <1>3, <2>1, <2>3 DEF Stays
  <2>5. Exacts' /\ Above' /\ Considered' /\ Covers'
    BY <1>2, <2>4, Zenon DEF Exacts, Above, Considered, Covers
  <2>6. Real'
    BY <1>2, <2>2, <2>3 DEF Real, Nothing
  <2>. QED
    BY <1>3, <2>5, <2>6 DEF WalkKept
<1>6. CASE seeds # <<>>
  <2>1. /\ phase' = "next"
        /\ queue' = [i \in DOMAIN seeds |-> [node |-> seeds[i].node, seed |-> seeds[i].node,
                                            prop |-> seeds[i].score, steps |-> <<>>]]
        /\ candidates' = IF ~call.includeSeeds THEN Nothing
                         ELSE [n \in SeedNodes |->
                                 LET i == CHOOSE j \in DOMAIN seeds : seeds[j].node = n IN
                                 [score |-> seeds[i].score * ImportanceFactor(n),
                                  seed |-> n, steps |-> <<>>]]
    BY <1>6, Zenon DEF StartWalk
  <2>2. Pending' = Start
    <3>1. ElementsOf(queue') = Start
      BY <2>1 DEF ElementsOf, Start
    <3>. QED
      BY <1>2, <3>1 DEF Pending, ElementsOf
  <2>3. \A b : Stays(b)' => b \in Start
    BY <1>3, <2>2 DEF Stays
  <2>4. Exacts' /\ Above'
    BY <1>4, <2>3, Zenon DEF Exacts, Above
  <2>5. Covers'
    BY <1>2, <1>3, <2>2, Zenon DEF Covers
  <2>6. ASSUME NEW b \in Path, b \in Start PROVE Judged(b)'
    <3>1. PICK i \in DOMAIN seeds : b = [node |-> seeds[i].node, seed |-> seeds[i].node,
                                         prop |-> seeds[i].score, steps |-> <<>>]
      BY <2>6 DEF Start
    <3>. DEFINE n == b.node
                c == candidates'[n]
                at == CHOOSE j \in DOMAIN seeds : seeds[j].node = n
    <3>2. b.node = seeds[i].node /\ b.seed = seeds[i].node /\ b.prop = seeds[i].score /\ b.steps = <<>>
      BY <3>1
    <3>3. n \in SeedNodes /\ at = i
      BY <1>1, <3>2 DEF SeedNodes
    <3>4. Wanted(n)' => call.includeSeeds
      BY <3>3, ReadsSame DEF Wanted
    <3>5. call.includeSeeds =>
            /\ n \in DOMAIN candidates'
            /\ c = [score |-> seeds[at].score * ImportanceFactor(n), seed |-> n, steps |-> <<>>]
      <4>. HIDE DEF n
      <4>. QED
        BY <2>1, <3>3
    <3>. HIDE DEF n, c, at
    <3>6. call.includeSeeds =>
            /\ n \in DOMAIN candidates' /\ c.score = b.prop * ImportanceFactor(n)
            /\ c.seed = b.seed /\ c.steps = b.steps
      BY <3>2, <3>3, <3>5 DEF n
    <3>7. call.includeSeeds => ~Beats(c.score, c.seed, c.steps, c)
      <4>1. call.includeSeeds => c \in Found
        BY <3>6 DEF CallOK, Reached, c
      <4>. QED
        BY <4>1, NoneBeatsItself
    <3>. QED
      BY <3>4, <3>6, <3>7, Zenon DEF Judged, n, c
  <2>7. Considered'
    BY <1>3, <2>6, Zenon DEF Considered
  <2>8. Real'
    <3>1. \A b \in Path : b \in Pending' => ElementsOf(b.steps) = {}
      BY <1>4, <2>2
    <3>2. ASSUME NEW n \in DOMAIN candidates' PROVE Wanted(n)' /\ ElementsOf(candidates'[n].steps) = {}
      <4>1. call.includeSeeds /\ candidates'[n].steps = <<>>
        BY <2>1, <3>2 DEF Nothing
      <4>. QED
        BY <4>1 DEF Wanted, ElementsOf, SameReads
    <3>3. ~Walked'
      BY <2>1 DEF Walked
    <3>4. \A n : ElementsOf(candidates[n].steps)' = ElementsOf(candidates'[n].steps)
      BY DEF ElementsOf
    <3>. QED
      BY <1>2, <3>1, <3>2, <3>3, <3>4 DEF Real
  <2>. QED
    BY <1>3, <2>4, <2>5, <2>7, <2>8 DEF WalkKept
<1>. QED
  BY <1>5, <1>6

(* Steps of the walk over a row, while nothing else is committed.          *)
LEMMA RowsKeepWalk ==
  ASSUME StoreOK, CallOK, CallOK', BudgetOK, BudgetOK', WalkKept, reply' # "InvalidDatabase",
         CycleClosed \/ NodeBudgetSpent \/ TargetVisited \/ TargetRevisited
  PROVE  WalkKept'
<1>1. PICK row \in ElementsOf(rows) :
        /\ Considering(row)
        /\ \/ /\ PathContains(current, row.target) /\ Continue(Edges)
              /\ stats' = [stats EXCEPT !.visitedEdges = Edges]
              /\ UNCHANGED <<queue, best, candidates>>
           \/ /\ stats.visitedNodes = call.maxNodes /\ phase' = "next"
              /\ stats' = [stats EXCEPT !.visitedEdges = Edges]
              /\ UNCHANGED <<queue, best, candidates>>
           \/ /\ ~PathContains(current, row.target) /\ Continue(Edges) /\ Extend(row, row.target)
              /\ \/ stats' = [stats EXCEPT !.visitedEdges = Edges, !.visitedNodes = @ + 1, !.nodeReads = @ + 1]
                 \/ stats' = [stats EXCEPT !.visitedEdges = Edges]
           \/ Answer("InvalidDatabase")
  BY Zenon DEF CycleClosed, NodeBudgetSpent, TargetVisited, TargetRevisited
<1>2. /\ phase = "admit" /\ row = Head(rows) /\ current' = current /\ SameReads
  BY <1>1 DEF Considering, SameReads, stored
<1>3. row \in Rows /\ BestOK /\ Exacts /\ Above /\ Real
  BY <1>1, <1>2 DEF WalkKept, Real
<1>4. stats \in Counts /\ stats.visitedNodes \in Nat
  BY DEF BudgetOK, Counts
<1>5. CASE /\ PathContains(current, row.target) /\ Continue(Edges)
           /\ stats' = [stats EXCEPT !.visitedEdges = Edges]
           /\ UNCHANGED <<queue, best, candidates>>
  <2>1. Progress(row)
    BY <1>2, <1>3, <1>5, CycleProgresses
  <2>2. stats'.visitedEdges = Edges /\ stats'.visitedNodes >= stats.visitedNodes
    BY <1>4, <1>5 DEF Counts
  <2>. QED
    BY <1>2, <1>3, <1>5, <2>1, <2>2, RowKeepsWalk
<1>6. CASE /\ stats.visitedNodes = call.maxNodes /\ phase' = "next"
           /\ stats' = [stats EXCEPT !.visitedEdges = Edges]
           /\ UNCHANGED <<queue, best, candidates>>
  <2>1. ~Unbounded'
    <3>1. stats'.visitedNodes = call'.maxNodes /\ call'.maxNodes \in Nat
      BY <1>2, <1>4, <1>6, CallFields DEF Counts, SameReads
    <3>. QED
      BY <3>1 DEF Unbounded
  <2>. QED
    BY <1>2, <1>6, <2>1, SpentKeepsWalk
<1>7. CASE /\ ~PathContains(current, row.target) /\ Continue(Edges) /\ Extend(row, row.target)
           /\ \/ stats' = [stats EXCEPT !.visitedEdges = Edges, !.visitedNodes = @ + 1, !.nodeReads = @ + 1]
              \/ stats' = [stats EXCEPT !.visitedEdges = Edges]
  <2>1. Progress(row)
    BY <1>2, <1>3, <1>7, ExtendProgresses
  <2>2. stats'.visitedEdges = Edges /\ stats'.visitedNodes >= stats.visitedNodes
    <3>1. CASE stats' = [stats EXCEPT !.visitedEdges = Edges]
      BY <1>4, <3>1 DEF Counts
    <3>2. CASE stats' = [stats EXCEPT !.visitedEdges = Edges, !.visitedNodes = @ + 1, !.nodeReads = @ + 1]
      <4>1. stats'.visitedEdges = Edges /\ stats'.visitedNodes = stats.visitedNodes + 1
        BY <1>4, <3>2 DEF Counts
      <4>. QED
        BY <1>4, <4>1
    <3>. QED
      BY <1>7, <3>1, <3>2
  <2>. QED
    BY <1>2, <1>3, <1>7, <2>1, <2>2, RowKeepsWalk
<1>8. ~Answer("InvalidDatabase")
  BY DEF Answer
<1>. QED
  BY <1>1, <1>5, <1>6, <1>7, <1>8

LEMMA WalkStep ==
  ASSUME StoreOK, CallOK, BudgetOK, PathsOK, WalkInv, StoreOK', CallOK', BudgetOK', RaceOK', [Next]_vars
  PROVE  WalkInv'
<1>1. CASE BuildStarts \/ BuildContinues \/ BuildEnds
  <2>1. UNCHANGED <<call, stored, seeds, walk, stats, reply>>
    BY <1>1, Zenon DEF BuildStarts, BuildContinues, BuildEnds, BuildUnchanged
  <2>2. phase' = phase \/ (phase = "build" /\ phase' = "seed_query")
    BY <1>1, BuildOutside
  <2>3. SameReads /\ UNCHANGED <<queue, current, rows, best, candidates, stats, revision, reply>>
    BY <2>1 DEF SameReads, stored, walk
  <2>4. phase' = phase /\ WalkKept => WalkKept'
    BY <2>3, SameWalk
  <2>. QED
    BY <2>2, <2>3, <2>4 DEF WalkInv, Quiet, Seeding
<1>2. ASSUME Quiet' PROVE reply' # "InvalidDatabase"
  <2>1. ~Gone'
    <3>1. revision' = 0 /\ rolledBack' \in Nat /\ rolledBack' <= revision' /\ began' \in Nat
      BY <1>2 DEF Quiet, StoreOK
    <3>. QED
      BY <3>1 DEF Gone
  <2>. QED
    BY <2>1 DEF RaceOK
<1>3. CASE SeedQuery \/ SeedRead \/ SearchFound
  <2>1. best' = best /\ Seeding
    BY <1>3 DEF SeedQuery, SeedRead, SearchFound, walk, Seeding
  <2>2. Seeding' \/ reply' = "Found" \/ reply' = "InvalidDatabase"
    BY <1>3 DEF SeedQuery, SeedRead, SearchFound, Seeding, Answer
  <2>. QED
    BY <1>2, <2>1, <2>2 DEF WalkInv
<1>4. CASE SeedsFound \/ (RoutingIndex /\ revision = 0)
  <2>1. phase = "seed_read" /\ StartWalk /\ SameReads
    BY <1>4 DEF SeedsFound, RoutingIndex, SameReads, stored
  <2>2. best = Nothing
    BY <2>1 DEF WalkInv, Seeding
  <2>3. WalkKept'
    BY <2>1, <2>2, StartKeepsWalk
  <2>4. best' = Nothing
    BY <2>1, <2>2 DEF StartWalk, walk
  <2>. QED
    BY <2>3, <2>4 DEF WalkInv
<1>5. CASE RoutingIndex /\ revision # 0
  <2>1. ~Quiet' /\ ~Seeding'
    BY <1>5 DEF RoutingIndex, Quiet, Seeding, Answer, stored
  <2>. QED
    BY <2>1 DEF WalkInv
<1>6. CASE NextPath \/ CycleClosed \/ NodeBudgetSpent \/ TargetVisited \/ TargetRevisited \/ FinishActivation
  <2>1. ~Seeding /\ ~Seeding' /\ reply = "none" /\ SameReads /\ revision' = revision
    <3>1. phase \in {"next", "admit"} /\ SameReads /\ revision' = revision
      BY <1>6 DEF NextPath, CycleClosed, NodeBudgetSpent, TargetVisited, TargetRevisited, FinishActivation,
         Considering, SameReads, stored
    <3>2. reply = "none"
      BY <3>1 DEF CallOK
    <3>3. phase' \notin {"build", "seed_query", "seed_read"}
      BY <1>6 DEF NextPath, CycleClosed, NodeBudgetSpent, TargetVisited, TargetRevisited, FinishActivation,
         Considering, Continue, Answer, ReportDone
    <3>. QED
      BY <3>1, <3>2, <3>3 DEF Seeding
  <2>. SUFFICES ASSUME Quiet' PROVE WalkKept'
    BY <2>1 DEF WalkInv
  <2>2. WalkKept
    BY <2>1 DEF WalkInv, Quiet
  <2>3. CASE NextPath
    BY <2>1, <2>2, <2>3, NextKeepsWalk
  <2>4. CASE CycleClosed \/ NodeBudgetSpent \/ TargetVisited \/ TargetRevisited
    BY <1>2, <2>2, <2>4, RowsKeepWalk
  <2>5. CASE FinishActivation
    <3>1. /\ phase # "admit" /\ phase' # "admit" /\ queue = <<>>
          /\ UNCHANGED <<queue, current, rows, best, candidates, stats>>
      BY <2>5 DEF FinishActivation, ReportDone, Answer, walk
    <3>. QED
      BY <2>1, <2>2, <3>1, SameWalk
  <2>. QED
    BY <1>6, <2>3, <2>4, <2>5
<1>7. CASE ContextStep
  <2>1. /\ UNCHANGED <<call, stored, seeds, walk, stats>>
        /\ phase \in {"candidate", "item"} \cup Read
    BY <1>7, Assembles
  <2>2. phase' \in {"candidate", "item", "done"} \cup Read
    BY <1>7, Assembles
  <2>3. SameReads /\ UNCHANGED <<queue, current, rows, best, candidates, stats>> /\ revision' = revision
    BY <2>1 DEF SameReads, stored, walk
  <2>4. ~Seeding /\ ~Seeding' /\ reply = "none"
    BY <2>1, <2>2 DEF Seeding, CallOK, Read
  <2>. SUFFICES ASSUME Quiet' PROVE WalkKept'
    BY <2>4 DEF WalkInv
  <2>5. WalkKept
    BY <2>3, <2>4 DEF WalkInv, Quiet
  <2>6. queue = <<>>
    BY <2>1, <2>5 DEF WalkKept, Real, Walked, Read
  <2>. QED
    BY <2>1, <2>2, <2>3, <2>5, <2>6, SameWalk DEF Read
<1>8. CASE OtherConnection
  <2>1. UNCHANGED <<phase, best>> /\ revision' = revision + 1 /\ revision \in Nat
    BY <1>8 DEF OtherConnection, walk, StoreOK
  <2>. QED
    BY <2>1 DEF WalkInv, Quiet, Seeding
<1>9. CASE UNCHANGED vars
  <2>1. UNCHANGED <<call, phase, stored, seeds, walk, stats, reply>>
    BY <1>9, Zenon DEF vars, contextVars, activationVars
  <2>2. SameReads /\ UNCHANGED <<queue, current, rows, best, candidates, stats, revision, phase, reply>>
    BY <2>1 DEF SameReads, stored, walk
  <2>3. WalkKept => WalkKept'
    BY <2>2, SameWalk
  <2>. QED
    BY <2>2, <2>3 DEF WalkInv, Quiet, Seeding
<1>. QED
  BY <1>1, <1>3, <1>4, <1>5, <1>6, <1>7, <1>8, <1>9, Zenon DEF Next, CallStep, ActivationStep

(* While nothing is committed by another connection, what is kept of the   *)
(* paths is as the walk needs it: each entry only improves, each path kept *)
(* is a candidate, and is extended before the walk ends                    *)
(* (retrieval.rs:653-695, 743-796).                                        *)
THEOREM WalkInvariant == Spec => []WalkInv
<1>1. Init => WalkInv
  <2>. SUFFICES ASSUME Init PROVE WalkInv
    OBVIOUS
  <2>1. /\ phase = IF call.kind = "community" THEN "build" ELSE "seed_query"
        /\ best = Nothing
    BY Zenon DEF Init, ContextInit, ActivationInit
  <2>. QED
    BY <2>1 DEF WalkInv, Seeding
<1>2. RetrievalInv /\ PathsOK /\ WalkInv /\ RetrievalInv' /\ [Next]_vars => WalkInv'
  BY WalkStep DEF RetrievalInv
<1>. QED
  BY <1>1, <1>2, RetrievalInvariant, PathsInvariant, PTL DEF Spec

-----------------------------------------------------------------------------
(* Best paths.  Of every simple path, one is kept that ends at its node    *)
(* after no more hops and is no worse.                                     *)
Ahead(b, p) ==
  \/ b.prop > p.prop
  \/ /\ b.prop = p.prop
     /\ p.prop = 0 \/ NotAfter(PathKey(b.seed, b.steps), PathKey(p.seed, p.steps))

Leader(b, p) == Keeps(b) /\ b.node = p.node /\ Len(b.steps) <= Len(p.steps) /\ Ahead(b, p)

Led(p, h) ==
  /\ p \in Path /\ Len(p.steps) = h /\ Exact(p.prop, h)
  /\ \E b \in Path : Leader(b, p)

LEMMA StartLed ==
  ASSUME CallOK, WalkKept, NEW p \in Start
  PROVE  Led(p, 0)
<1>1. PICK i \in DOMAIN seeds : p = [node |-> seeds[i].node, seed |-> seeds[i].node,
                                     prop |-> seeds[i].score, steps |-> <<>>]
  BY DEF Start
<1>2. p \in Path /\ Len(p.steps) = 0
  <2>1. seeds[i] \in Seed /\ <<>> \in Seq(Row)
    BY DEF CallOK
  <2>. QED
    BY <1>1, <2>1 DEF Seed, Path
<1>3. Keeps(p)
  BY DEF Keeps
<1>4. Exact(p.prop, 0)
  BY <1>2, <1>3 DEF WalkKept, Exacts, Stays
<1>5. Leader(p, p)
  BY <1>2, <1>3 DEF Leader, Ahead, NotAfter
<1>. QED
  BY <1>2, <1>4, <1>5, Zenon DEF Led

LEMMA LedFurther ==
  ASSUME StoreOK, CallOK, WalkKept, Unbounded, Pending = {},
         NEW p, NEW h \in Nat, h < call.hops, Led(p, h), NEW r \in Rows, r.source = p.node
  PROVE  Led(Extended(p, r), h + 1)
<1>0. BestOK /\ Exacts /\ Above /\ Covers
  BY DEF WalkKept
<1>1. p \in Path /\ p.steps \in Seq(Row) /\ Len(p.steps) = h /\ Exact(p.prop, h) /\ r \in Row
  BY RowsAre DEF Led, Path
<1>2. PICK b \in Path : Leader(b, p)
  BY DEF Led
<1>3. h \in 0 .. 2
  BY DEF CallOK, Valid, ActivationValid, MaxHops
<1>. DEFINE w == EffectiveWeight(r)
            q == Extended(p, r)
<1>4. w \in 0 .. Unit
  BY <1>1, EffectiveTyped
<1>5. /\ 50 * q.prop = p.prop * w /\ Exact(q.prop, h + 1) /\ q.prop \in Nat /\ p.prop \in Nat
      /\ q.node = r.target /\ q.seed = p.seed /\ q.steps = Append(p.steps, r)
      /\ q.prop = Propagated(p.prop, w)
  <2>1. /\ q.node = r.target /\ q.seed = p.seed /\ q.steps = Append(p.steps, r)
        /\ q.prop = Propagated(p.prop, w)
    BY DEF Extended
  <2>2. 50 * q.prop = p.prop * w /\ Exact(q.prop, h + 1)
    BY <1>1, <1>3, <1>4, <2>1, HopExact
  <2>. QED
    BY <1>1, <2>1, <2>2 DEF Exact
<1>6. q \in Path /\ Len(q.steps) = h + 1
  BY <1>1, <1>5 DEF Path, Row, Extended
<1>7. q.prop <= p.prop /\ (p.prop > 0 => q.prop < p.prop)
  <2>. HIDE DEF w, q
  <2>. QED
    BY <1>4, <1>5, HopDeclines
<1>8. /\ Keeps(b) /\ b.node = p.node /\ Len(b.steps) <= h /\ Ahead(b, p) /\ Len(b.steps) \in Nat
      /\ Exact(b.prop, Len(b.steps)) /\ Below(b) /\ b.prop \in Nat /\ b.steps \in Seq(Row) /\ b.seed \in MemoryNodes
  <2>1. Keeps(b) /\ b.node = p.node /\ Len(b.steps) <= h /\ Ahead(b, p)
    BY <1>1, <1>2 DEF Leader
  <2>2. Exact(b.prop, Len(b.steps)) /\ Below(b)
    BY <1>0, <2>1 DEF Exacts, Above, Stays
  <2>. QED
    BY <2>1, <2>2 DEF Path, Exact
<1>9. b.prop >= p.prop
  BY <1>5, <1>8 DEF Ahead
<1>14. Len(b.steps) \in 0 .. 2 /\ Len(b.steps) < call.hops
  <2>1. call.hops \in Nat
    BY DEF CallOK, Valid, ActivationValid
  <2>2. PICK m \in Nat : m = Len(b.steps)
    BY <1>8
  <2>3. m <= h
    BY <1>8, <2>2
  <2>4. PICK n \in Nat : n = call.hops
    BY <2>1
  <2>5. h < n
    BY <2>4
  <2>6. m \in 0 .. 2 /\ m < n
    BY <1>3, <2>3, <2>5
  <2>. QED
    BY <2>2, <2>4, <2>6
<1>. HIDE DEF w, q
<1>10. ASSUME NEW a \in Path, Keeps(a), a.node = r.target, Len(a.steps) <= h, a.prop >= b.prop
       PROVE  Leader(a, q)
  <2>1. Exact(a.prop, Len(a.steps))
    BY <1>0, <1>10 DEF Exacts, Stays
  <2>2. a.prop \in Nat /\ a.prop >= p.prop
    BY <1>5, <1>8, <1>9, <1>10, <2>1 DEF Exact
  <2>3. a.prop > q.prop \/ (a.prop = q.prop /\ q.prop = 0)
    BY <1>5, <1>7, <2>2
  <2>4. Len(a.steps) <= Len(q.steps)
    <3>1. Len(a.steps) \in Nat
      BY DEF Path
    <3>. QED
      BY <1>6, <1>10, <3>1
  <2>. QED
    BY <1>5, <1>10, <2>3, <2>4 DEF Leader, Ahead
<1>11. ASSUME NEW k \in DOMAIN best
       PROVE  \E a \in Path : /\ Keeps(a) /\ a.node = k[1] /\ Len(a.steps) = k[2]
                              /\ a.prop = best[k].score /\ a.seed = best[k].seed /\ a.steps = best[k].steps
  <2>1. k \in MemoryNodes \X (1 .. call.hops) /\ best[k] \in Found /\ Len(best[k].steps) = k[2]
    BY <1>0 DEF BestOK
  <2>. DEFINE a == [node |-> k[1], seed |-> best[k].seed, prop |-> best[k].score, steps |-> best[k].steps]
  <2>2. a \in Path
    BY <2>1 DEF Path, Found
  <2>3. /\ a.node = k[1] /\ Len(a.steps) = k[2]
        /\ a.prop = best[k].score /\ a.seed = best[k].seed /\ a.steps = best[k].steps
    BY <2>1
  <2>4. k = <<a.node, Len(a.steps)>> /\ best[k] = EntryOf(a)
    BY <2>1, <2>3 DEF Found, EntryOf
  <2>. HIDE DEF a
  <2>5. Keeps(a)
    BY <2>4, Zenon DEF Keeps, EntryOf
  <2>. QED
    BY <2>2, <2>3, <2>5, Zenon
<1>12. CASE PathContains(b, r.target)
  <2>1. CASE b.seed = r.target
    <3>1. PICK i \in DOMAIN seeds : seeds[i].node = b.seed /\ seeds[i].score >= b.prop
      BY <1>8 DEF Below
    <3>. DEFINE a == [node |-> seeds[i].node, seed |-> seeds[i].node, prop |-> seeds[i].score, steps |-> <<>>]
    <3>2. a \in Path
      <4>1. seeds[i] \in Seed /\ <<>> \in Seq(Row)
        BY DEF CallOK
      <4>. QED
        BY <4>1 DEF Seed, Path
    <3>3. Keeps(a)
      BY DEF Keeps, Start
    <3>4. a.node = r.target /\ Len(a.steps) <= h /\ a.prop >= b.prop
      BY <2>1, <3>1
    <3>. HIDE DEF a
    <3>5. Leader(a, q)
      BY <1>10, <3>2, <3>3, <3>4
    <3>. QED
      BY <1>5, <1>6, <3>2, <3>5, Zenon DEF Led, q
  <2>2. CASE b.seed # r.target
    <3>1. PICK i \in DOMAIN b.steps : b.steps[i].target = r.target
      BY <1>12, <2>2 DEF PathContains
    <3>2. <<r.target, i>> \in DOMAIN best /\ best[<<r.target, i>>].score >= b.prop /\ i <= h
      BY <1>3, <1>8, <3>1 DEF Below
    <3>3. PICK a \in Path : /\ Keeps(a) /\ a.node = <<r.target, i>>[1] /\ Len(a.steps) = <<r.target, i>>[2]
                            /\ a.prop = best[<<r.target, i>>].score
      BY <1>11, <3>2, Zenon
    <3>4. Leader(a, q)
      BY <1>10, <3>2, <3>3
    <3>. QED
      BY <1>5, <1>6, <3>4, Zenon DEF Led, q
  <2>. QED
    BY <2>1, <2>2
<1>13. CASE ~PathContains(b, r.target)
  <2>. DEFINE k == <<r.target, Len(b.steps) + 1>>
              prop == Propagated(b.prop, w)
              steps == Append(b.steps, r)
  <2>1. k \in DOMAIN best /\ ~Beats(prop, b.seed, steps, best[k])
    <3>1. Expanded(b)
      BY <1>0, <1>8 DEF Covers
    <3>3. Open(b, r)
      BY <1>8, <1>13 DEF Open
    <3>4. Covered(b, r)
      BY <1>14, <3>1, <3>3, Zenon DEF Expanded
    <3>. QED
      BY <3>4, Zenon DEF Covered, w
  <2>2. 50 * prop = b.prop * w /\ prop \in Nat
    <3>2. 50 * prop = b.prop * w /\ Exact(prop, Len(b.steps) + 1)
      BY <1>4, <1>8, <1>14, HopExact
    <3>. QED
      BY <3>2 DEF Exact
  <2>3. q.prop <= prop /\ (prop = q.prop /\ q.prop > 0 => b.prop = p.prop)
    <3>. HIDE DEF prop
    <3>1. b.prop \in Nat /\ p.prop \in Nat /\ q.prop \in Nat /\ b.prop >= p.prop /\ 50 * q.prop = p.prop * w
      BY <1>5, <1>8, <1>9
    <3>. QED
      BY <1>4, <2>2, <3>1, HopOrder
  <2>4. PICK a \in Path : /\ Keeps(a) /\ a.node = k[1] /\ Len(a.steps) = k[2]
                          /\ a.prop = best[k].score /\ a.seed = best[k].seed /\ a.steps = best[k].steps
    BY <1>11, <2>1, Zenon
  <2>5. steps \in Seq(Row) /\ Len(steps) = Len(b.steps) + 1 /\ a.steps \in Seq(Row) /\ a.seed \in MemoryNodes
    BY <1>1, <1>8 DEF Path
  <2>6. a.node = r.target /\ Len(a.steps) = Len(b.steps) + 1
    BY <2>4
  <2>. DEFINE ka == PathKey(a.seed, a.steps)  kb == PathKey(b.seed, steps)  kq == PathKey(q.seed, q.steps)
  <2>7. ka \in Seq(Nat) /\ kb \in Seq(Nat) /\ kq \in Seq(Nat) /\ Len(ka) = Len(kb)
    <3>1. ka \in Seq(Nat) /\ Len(ka) = 1 + 3 * Len(a.steps)
      BY <2>5, KeyTyped
    <3>2. kb \in Seq(Nat) /\ Len(kb) = 1 + 3 * Len(steps)
      BY <1>8, <2>5, KeyTyped
    <3>3. kq \in Seq(Nat)
      BY <1>6, KeyTyped DEF Path
    <3>. QED
      BY <2>5, <2>6, <3>1, <3>2, <3>3
  <2>8. prop < a.prop \/ (prop = a.prop /\ ~Smaller(kb, ka))
    <3>1. a.prop \in Int
      BY DEF Path
    <3>2. ~(prop > a.prop) /\ ~(prop = a.prop /\ Smaller(kb, ka))
      BY <2>1, <2>4, Zenon DEF Beats
    <3>. HIDE DEF prop, ka, kb
    <3>. QED
      BY <2>2, <3>1, <3>2
  <2>9. prop = q.prop /\ q.prop > 0 => NotAfter(kb, kq)
    <3>. SUFFICES ASSUME prop = q.prop, q.prop > 0 PROVE NotAfter(kb, kq)
      OBVIOUS
    <3>1. b.prop = p.prop /\ p.prop # 0
      BY <1>5, <1>7, <2>3
    <3>2. NotAfter(PathKey(b.seed, b.steps), PathKey(p.seed, p.steps))
      BY <1>5, <1>8, <3>1 DEF Ahead
    <3>3. p.seed \in MemoryNodes
      BY <1>1 DEF Path
    <3>4. NotAfter(PathKey(b.seed, Append(b.steps, r)), PathKey(p.seed, Append(p.steps, r)))
      BY <1>1, <1>8, <3>2, <3>3, NotAfterGoesOn, Zenon
    <3>. QED
      BY <1>5, <3>4, Zenon
  <2>. HIDE DEF ka, kb, kq, prop, steps
  <2>10. a.prop > q.prop \/ (a.prop = q.prop /\ (q.prop = 0 \/ NotAfter(ka, kq)))
    <3>1. CASE prop < a.prop
      <4>1. a.prop \in Int
        BY DEF Path
      <4>. QED
        BY <1>5, <2>2, <2>3, <3>1, <4>1
    <3>2. CASE prop = a.prop /\ ~Smaller(kb, ka)
      <4>1. NotAfter(ka, kb)
        BY <2>7, <3>2, SameLengthOrdered
      <4>2. prop = q.prop /\ q.prop > 0 => NotAfter(ka, kq)
        BY <2>7, <2>9, <4>1, NotAfterTransitive
      <4>. QED
        BY <1>5, <2>2, <2>3, <3>2, <4>2
    <3>. QED
      BY <2>8, <3>1, <3>2
  <2>11. Leader(a, q)
    <3>1. Len(a.steps) <= Len(q.steps)
      BY <1>3, <1>6, <1>8, <2>6
    <3>. QED
      BY <1>5, <2>4, <2>6, <2>10, <3>1, Zenon DEF Leader, Ahead, ka, kq
  <2>. QED
    BY <1>5, <1>6, <2>11, Zenon DEF Led, q
<1>. QED
  BY <1>12, <1>13


-----------------------------------------------------------------------------
(* The simple paths, one hop after another.                                *)
OneOn(S) ==
  UNION {{Extended(p, r) : r \in {q \in Rows : q.source = p.node /\
           q.target \notin {p.seed} \cup {p.steps[i].target : i \in DOMAIN p.steps}}} :
         p \in S}

HopByHop(f) == f[0] = Start /\ \A h \in 1 .. call.hops : f[h] = OneOn(f[h - 1])

LEMMA HopsAre ==
  ASSUME CallOK
  PROVE  \E f : /\ HopByHop(f)
                /\ SimplePaths = {p \in UNION {f[h] : h \in 0 .. call.hops} :
                                    call.includeSeeds \/ p.node \notin SeedNodes}
<1>. DEFINE n == call.hops
            Recurrence(f) == f = [h \in 0 .. n |-> IF h = 0 THEN Start ELSE OneOn(f[h - 1])]
            hop0[h \in 0 .. n] == IF h = 0 THEN Start ELSE OneOn(hop0[h - 1])
            one == OneOn(Start)
            two == OneOn(one)
            f0 == [h \in 0 .. n |->
                     IF h = 0 THEN Start ELSE IF h = 1 THEN one ELSE IF h = 2 THEN two ELSE OneOn(two)]
<1>1. n \in 0 .. 3
  BY DEF CallOK, Valid, ActivationValid, SearchValid, MaxHops
<1>2. Recurrence(f0)
  <2>. SUFFICES \A h \in 0 .. n : f0[h] = IF h = 0 THEN Start ELSE OneOn(f0[h - 1])
    BY Zenon
  <2>. HIDE DEF one, two
  <2>. SUFFICES ASSUME NEW h \in 0 .. n PROVE f0[h] = IF h = 0 THEN Start ELSE OneOn(f0[h - 1])
    OBVIOUS
  <2>. HIDE DEF n
  <2>1. CASE h = 0
    BY <2>1
  <2>2. CASE h = 1
    <3>1. f0[h] = one /\ f0[0] = Start /\ h - 1 = 0 /\ h # 0
      BY <1>1, <2>2
    <3>. QED
      BY <3>1, Zenon DEF one
  <2>3. CASE h = 2
    <3>1. f0[h] = two /\ f0[1] = one /\ h - 1 = 1 /\ h # 0
      BY <1>1, <2>3
    <3>. QED
      BY <3>1, Zenon DEF two
  <2>4. CASE h = 3
    <3>1. f0[h] = OneOn(two) /\ f0[2] = two /\ h - 1 = 2 /\ h # 0
      BY <1>1, <2>4
    <3>. QED
      BY <3>1, Zenon
  <2>. QED
    BY <1>1, <2>1, <2>2, <2>3, <2>4
<1>3. Recurrence(hop0)
  <2>1. hop0 = CHOOSE g : Recurrence(g)
    BY Zenon
  <2>. HIDE DEF Recurrence, hop0, f0
  <2>. QED
    BY <1>2, <2>1, Zenon
<1>4. HopByHop(hop0)
  <2>. HIDE DEF hop0
  <2>1. \A h \in 0 .. n : hop0[h] = IF h = 0 THEN Start ELSE OneOn(hop0[h - 1])
    BY <1>3, Zenon
  <2>2. 0 \in 0 .. n /\ \A h \in 1 .. n : h \in 0 .. n /\ h # 0
    BY <1>1
  <2>. QED
    BY <2>1, <2>2, Zenon DEF HopByHop
<1>5. SimplePaths = {p \in UNION {hop0[h] : h \in 0 .. call.hops} :
                       call.includeSeeds \/ p.node \notin SeedNodes}
  BY Zenon DEF SimplePaths, OneOn
<1>. QED
  BY <1>4, <1>5, Zenon


Hop(p, x) ==
  \E r \in Rows : /\ r.source = p.node
                  /\ r.target \notin {p.seed} \cup {p.steps[i].target : i \in DOMAIN p.steps}
                  /\ x = Extended(p, r)

LEMMA OneMore ==
  \A S : \A x : x \in OneOn(S) <=> \E p \in S : Hop(p, x)
<1>. SUFFICES ASSUME NEW S, NEW x PROVE x \in OneOn(S) <=> \E p \in S : Hop(p, x)
  OBVIOUS
<1>. DEFINE From(p) == {q \in Rows : q.source = p.node /\
                          q.target \notin {p.seed} \cup {p.steps[i].target : i \in DOMAIN p.steps}}
            Ends(p) == {Extended(p, r) : r \in From(p)}
<1>1. OneOn(S) = UNION {Ends(p) : p \in S}
  BY Zenon DEF OneOn
<1>2. ASSUME NEW p PROVE x \in Ends(p) <=> \E r \in From(p) : x = Extended(p, r)
  BY Zenon
<1>3. ASSUME NEW p, NEW r
      PROVE  r \in From(p) <=> /\ r \in Rows /\ r.source = p.node
                              /\ r.target \notin {p.seed} \cup {p.steps[i].target : i \in DOMAIN p.steps}
  BY Zenon
<1>. HIDE DEF From, Ends
<1>4. x \in OneOn(S) <=> \E p \in S : x \in Ends(p)
  BY <1>1, Zenon
<1>5. \A p : x \in Ends(p) <=> Hop(p, x)
  BY <1>2, <1>3, Zenon DEF Hop
<1>. QED
  BY <1>4, <1>5, Zenon

LEMMA HopsLed ==
  ASSUME StoreOK, CallOK, WalkKept, Unbounded, Pending = {}, NEW f, HopByHop(f)
  PROVE  \A h \in 0 .. call.hops : \A p \in f[h] : Led(p, h)
<1>. DEFINE S == {h \in 0 .. call.hops : \A p \in f[h] : Led(p, h)}
<1>1. PICK n \in Nat : n = call.hops
  BY DEF CallOK, Valid, ActivationValid
<1>2. 0 \in S
  <2>1. \A p \in f[0] : Led(p, 0)
    BY StartLed, Zenon DEF HopByHop
  <2>. QED
    BY <1>1, <2>1
<1>3. ASSUME NEW i \in 1 .. n, i - 1 \in S PROVE i \in S
  <2>1. i - 1 \in Nat /\ i - 1 < call.hops /\ i \in 0 .. call.hops /\ i - 1 + 1 = i
    BY <1>1
  <2>2. f[i] = OneOn(f[i - 1])
    BY <1>1 DEF HopByHop
  <2>3. ASSUME NEW q \in f[i] PROVE Led(q, i)
    <3>1. PICK p \in f[i - 1], r \in Rows : r.source = p.node /\ q = Extended(p, r)
      <4>1. q \in OneOn(f[i - 1])
        BY <2>2, <2>3, Zenon
      <4>. HIDE DEF S
      <4>2. PICK T : T = f[i - 1]
        OBVIOUS
      <4>3. \E p \in T : Hop(p, q)
        BY <4>1, <4>2, OneMore, Zenon
      <4>. QED
        BY <4>2, <4>3, Zenon DEF Hop
    <3>2. Led(p, i - 1)
      BY <1>3
    <3>. HIDE DEF S
    <3>3. Led(Extended(p, r), i - 1 + 1)
      BY <2>1, <3>1, <3>2, LedFurther, Zenon
    <3>. QED
      BY <2>1, <3>1, <3>3, Zenon
  <2>. QED
    BY <2>1, <2>3
<1>4. 0 .. n \subseteq S
  <2>. HIDE DEF S
  <2>. QED
    BY <1>2, <1>3, CountingUp DEF Counted
<1>. QED
  BY <1>1, <1>4

LEMMA Multiplied ==
  ASSUME NEW x \in Int, NEW y \in Int, NEW k \in Nat, k > 0, x > y
  PROVE  x * k > y * k
<1>1. PICK d \in Nat : x = y + d /\ d > 0
  <2>1. x - y \in Nat /\ x = y + (x - y) /\ x - y > 0
    OBVIOUS
  <2>. QED
    BY <2>1
<1>2. (y + d) * k = y * k + d * k
  OBVIOUS
<1>3. d * k \in Nat /\ d * k > 0
  BY <1>1
<1>4. y * k \in Int
  OBVIOUS
<1>. QED
  BY <1>1, <1>2, <1>3, <1>4

(* A candidate is no worse than any path that one kept is ahead of.        *)
LEMMA LedOutdone ==
  ASSUME CallOK, WalkKept, NEW p, NEW h, Led(p, h), Wanted(p.node)
  PROVE  p.node \in DOMAIN candidates /\ (p.prop = 0 \/ Outdone(p))
<1>1. p \in Path /\ Exact(p.prop, h)
  BY DEF Led
<1>2. PICK b \in Path : Leader(b, p)
  BY DEF Led
<1>. DEFINE c == candidates[p.node]
            k == ImportanceFactor(p.node)
<1>3. Keeps(b) /\ b.node = p.node /\ Ahead(b, p)
  BY <1>2 DEF Leader
<1>4. p.node \in DOMAIN candidates /\ ~Beats(b.prop * k, b.seed, b.steps, c)
  BY <1>3, Zenon DEF WalkKept, Considered, Judged
<1>5. c \in Found
  BY <1>4 DEF CallOK, Reached
<1>6. k \in Nat /\ k > 0
  BY <1>1, FactorTyped DEF Path
<1>7. /\ b.prop \in Int /\ p.prop \in Int /\ c.score \in Int
      /\ p.seed \in MemoryNodes /\ p.steps \in Seq(Row) /\ b.seed \in MemoryNodes /\ b.steps \in Seq(Row)
      /\ c.seed \in MemoryNodes /\ c.steps \in Seq(Row)
  BY <1>1, <1>5 DEF Path, Found
<1>. HIDE DEF c, k
<1>8. b.prop * k \in Int /\ p.prop * k \in Int
  BY <1>6, <1>7
<1>9. ~(b.prop * k > c.score)
      /\ ~(b.prop * k = c.score /\ Smaller(PathKey(b.seed, b.steps), PathKey(c.seed, c.steps)))
  BY <1>4, Zenon DEF Beats
<1>. SUFFICES ASSUME p.prop # 0 PROVE ~Beats(p.prop * k, p.seed, p.steps, c)
  BY <1>4, Zenon DEF Outdone, c, k
<1>10. CASE b.prop > p.prop
  <2>1. b.prop * k > p.prop * k
    BY <1>6, <1>7, <1>10, Multiplied
  <2>2. ~(p.prop * k > c.score) /\ p.prop * k # c.score
    BY <1>7, <1>8, <1>9, <2>1
  <2>. QED
    BY <2>2, Zenon DEF Beats
<1>11. CASE b.prop = p.prop /\ NotAfter(PathKey(b.seed, b.steps), PathKey(p.seed, p.steps))
  <2>1. /\ PathKey(b.seed, b.steps) \in Seq(Nat) /\ PathKey(p.seed, p.steps) \in Seq(Nat)
        /\ PathKey(c.seed, c.steps) \in Seq(Nat)
    BY <1>7, KeyTyped
  <2>2. Smaller(PathKey(p.seed, p.steps), PathKey(c.seed, c.steps))
          => Smaller(PathKey(b.seed, b.steps), PathKey(c.seed, c.steps))
    BY <1>11, <2>1, NotAfterSmaller
  <2>. QED
    BY <1>9, <1>11, <2>2, Zenon DEF Beats
<1>. QED
  BY <1>3, <1>10, <1>11 DEF Ahead


(* What can be walked over the stored relations is one of the simple       *)
(* paths: each of its prefixes goes one hop on from the one before.        *)
LEMMA PrefixesHop ==
  ASSUME CallOK, PathsOK, NEW f, HopByHop(f), NEW n, NEW c \in Found, Walkable(c, n),
         NEW prop \in Int, Carried(c, prop), ElementsOf(c.steps) \subseteq Rows, Len(c.steps) <= call.hops
  PROVE  [node |-> n, seed |-> c.seed, prop |-> prop, steps |-> c.steps] \in f[Len(c.steps)]
<1>1. PICK m \in Nat : m = Len(c.steps) /\ DOMAIN c.steps = 1 .. m /\ c.steps \in Seq(Row)
  BY DEF Found
<1>2. PICK g : CarriedBy(g, c) /\ g[m] = prop
  BY <1>1, Zenon DEF Carried
<1>3. PICK hops \in Nat : hops = call.hops /\ m <= hops
  <2>1. PICK hops \in Nat : hops = call.hops
    BY DEF CallOK, Valid, ActivationValid
  <2>2. m <= hops
    BY <1>1, <2>1
  <2>. QED
    BY <2>1, <2>2
<1>. DEFINE walked == Nodes(c)
            Prefix(i) == [node |-> walked[i + 1], seed |-> c.seed, prop |-> g[i], steps |-> SubSeq(c.steps, 1, i)]
            S == {i \in 0 .. m : Prefix(i) \in f[i]}
<1>4. /\ DOMAIN walked = 1 .. m + 1 /\ Len(walked) = m + 1
      /\ walked[1] = c.seed /\ \A i \in 1 .. m : walked[i + 1] = c.steps[i].target
  <2>1. walked = [i \in 1 .. m + 1 |-> IF i = 1 THEN c.seed ELSE c.steps[i - 1].target]
    BY <1>1 DEF Nodes
  <2>2. \A i \in 1 .. m : i + 1 \in 1 .. m + 1 /\ i + 1 # 1 /\ i + 1 - 1 = i
    BY <1>1
  <2>3. \A i \in 1 .. m : walked[i + 1] = c.steps[i].target
    <3>. HIDE DEF walked
    <3>. QED
      BY <2>1, <2>2
  <2>4. walked[1] = c.seed /\ DOMAIN walked = 1 .. m + 1
    <3>. HIDE DEF walked
    <3>. QED
      BY <1>1, <2>1
  <2>5. Len(walked) = m + 1
    <3>. HIDE DEF walked
    <3>. QED
      BY <1>1, <2>1
  <2>. QED
    BY <2>3, <2>4, <2>5
<1>5. /\ c.seed \in SeedNodes /\ walked[m + 1] = n
      /\ \A i \in 1 .. m : c.steps[i].source = walked[i]
      /\ \A i, j \in 1 .. m + 1 : walked[i] = walked[j] => i = j
  BY <1>1, <1>4, Zenon DEF Walkable
<1>. HIDE DEF walked
<1>6. 0 \in S
  <2>1. PICK j \in DOMAIN seeds : seeds[j].node = c.seed
    BY <1>5 DEF SeedNodes
  <2>2. seeds[j].score = Scale * call.matches[c.seed]
    BY <2>1 DEF PathsOK
  <2>3. g[0] = seeds[j].score
    BY <1>2, <2>2, Zenon DEF CarriedBy
  <2>4. SubSeq(c.steps, 1, 0) = <<>>
    BY <1>1
  <2>5. walked[0 + 1] = c.seed
    BY <1>4
  <2>6. Prefix(0) \in Start
    BY <2>1, <2>3, <2>4, <2>5 DEF Start
  <2>7. f[0] = Start
    BY Zenon DEF HopByHop
  <2>. QED
    BY <1>1, <2>6, <2>7
<1>7. ASSUME NEW i \in 1 .. m, i - 1 \in S PROVE i \in S
  <2>. DEFINE r == c.steps[i]
              p == Prefix(i - 1)
  <2>1. /\ i - 1 + 1 = i /\ i \in 0 .. m /\ i \in 1 .. hops /\ i - 1 \in 0 .. m
        /\ i + 1 \in 1 .. m + 1 /\ i \in DOMAIN c.steps
    <3>1. m <= hops /\ DOMAIN c.steps = 1 .. m
      BY <1>1, <1>3
    <3>2. i - 1 + 1 = i /\ i \in 0 .. m /\ i \in 1 .. hops /\ i - 1 \in 0 .. m /\ i + 1 \in 1 .. m + 1
      BY <3>1
    <3>. QED
      BY <3>1, <3>2
  <2>2. r \in Rows /\ r.source = walked[i] /\ r.target = walked[i + 1]
    BY <1>1, <1>4, <1>5, <2>1 DEF ElementsOf
  <2>3. p.node = walked[i] /\ p.seed = c.seed /\ p.prop = g[i - 1] /\ p.steps = SubSeq(c.steps, 1, i - 1)
    BY <2>1
  <2>4. DOMAIN p.steps = 1 .. i - 1 /\ \A j \in 1 .. i - 1 : p.steps[j] = c.steps[j]
    BY <1>1, <2>3
  <2>. HIDE DEF r, p
  <2>5. r.target # c.seed
    <3>1. 1 \in 1 .. m + 1 /\ i + 1 # 1
      BY <1>1
    <3>. QED
      BY <1>4, <1>5, <2>1, <2>2, <3>1, Zenon
  <2>6. ASSUME NEW j \in 1 .. i - 1 PROVE p.steps[j].target # r.target
    <3>1. j \in 1 .. m /\ j + 1 \in 1 .. m + 1 /\ j + 1 # i + 1
      BY <1>1
    <3>2. p.steps[j].target = walked[j + 1]
      <4>1. p.steps[j] = c.steps[j]
        BY <2>4
      <4>2. c.steps[j].target = walked[j + 1]
        BY <1>4, <3>1
      <4>. QED
        BY <4>1, <4>2
    <3>3. walked[j + 1] # walked[i + 1]
      BY <1>5, <2>1, <3>1, Zenon
    <3>. QED
      BY <2>2, <3>2, <3>3, Zenon
  <2>7. Append(SubSeq(c.steps, 1, i - 1), c.steps[i]) = SubSeq(c.steps, 1, i)
    BY <1>1
  <2>8. g[i] = Propagated(g[i - 1], EffectiveWeight(r))
    BY <1>1, <1>2, Zenon DEF CarriedBy, r
  <2>9. Extended(p, r) = Prefix(i)
    BY <2>2, <2>3, <2>7, <2>8, Zenon DEF Extended, r
  <2>10. Hop(p, Prefix(i))
    <3>1. r.target \notin {p.seed} \cup {p.steps[j].target : j \in DOMAIN p.steps}
      BY <2>3, <2>4, <2>5, <2>6, Zenon
    <3>. HIDE DEF Prefix
    <3>. QED
      BY <2>2, <2>3, <2>9, <3>1, Zenon DEF Hop
  <2>11. p \in f[i - 1]
    BY <1>7 DEF p
  <2>12. Prefix(i) \in OneOn(f[i - 1])
    <3>. HIDE DEF Prefix
    <3>1. PICK T : T = f[i - 1]
      OBVIOUS
    <3>2. Prefix(i) \in OneOn(T)
      BY <2>10, <2>11, <3>1, OneMore, Zenon
    <3>. QED
      BY <3>1, <3>2, Zenon
  <2>13. f[i] = OneOn(f[i - 1])
    BY <1>3, <2>1 DEF HopByHop
  <2>. QED
    BY <2>1, <2>12, <2>13
<1>8. m \in S
  <2>. HIDE DEF S
  <2>1. 0 .. m \subseteq S
    BY <1>6, <1>7, CountingUp DEF Counted
  <2>. QED
    BY <1>1, <2>1
<1>9. SubSeq(c.steps, 1, m) = c.steps
  BY <1>1
<1>. QED
  BY <1>1, <1>2, <1>5, <1>8, <1>9, Zenon


LEMMA WalkEnds ==
  ASSUME StoreOK, CallOK, BudgetOK, PathsOK, WalkKept, Walked, Unbounded
  PROVE  /\ DOMAIN candidates = {p.node : p \in SimplePaths}
         /\ \A p \in SimplePaths : p.prop = 0 \/ Outdone(p)
<1>1. Pending = {}
  <2>1. queue = <<>> /\ phase # "admit"
    BY DEF WalkKept, Real, Walked
  <2>2. ElementsOf(<<>>) = {}
    BY DEF ElementsOf
  <2>. QED
    BY <2>1, <2>2 DEF Pending
<1>2. PICK f : /\ HopByHop(f)
               /\ SimplePaths = {p \in UNION {f[h] : h \in 0 .. call.hops} :
                                   call.includeSeeds \/ p.node \notin SeedNodes}
  BY HopsAre, Zenon
<1>3. \A p : p \in SimplePaths <=> Wanted(p.node) /\ \E h \in 0 .. call.hops : p \in f[h]
  BY <1>2, Zenon DEF Wanted
<1>4. ASSUME NEW p \in SimplePaths
      PROVE  p.node \in DOMAIN candidates /\ (p.prop = 0 \/ Outdone(p))
  <2>1. PICK h \in 0 .. call.hops : p \in f[h]
    BY <1>3, Zenon
  <2>2. Wanted(p.node)
    BY <1>3, Zenon
  <2>3. Led(p, h)
    BY <1>1, <1>2, <2>1, HopsLed, Zenon
  <2>. QED
    BY <2>2, <2>3, LedOutdone, Zenon
<1>5. ASSUME NEW n \in DOMAIN candidates
      PROVE  \E p \in SimplePaths : p.node = n
  <2>. DEFINE c == candidates[n]
  <2>1. n \in MemoryNodes /\ c \in Found /\ Len(c.steps) <= call.hops
    BY DEF CallOK, Reached, BudgetOK
  <2>2. Wanted(n) /\ ElementsOf(c.steps) \subseteq Rows
    BY DEF WalkKept, Real
  <2>3. Scored(c, n)
    BY <2>1, Zenon DEF PathsOK
  <2>4. PICK prop \in Int : Carried(c, prop)
    BY <2>3, Zenon DEF Scored
  <2>5. Walkable(c, n)
    BY <2>3, Zenon DEF Scored
  <2>6. Len(c.steps) \in 0 .. call.hops
    <3>1. PICK l \in Nat : l = Len(c.steps)
      BY <2>1 DEF Found
    <3>2. PICK hops \in Nat : hops = call.hops
      BY DEF CallOK, Valid, ActivationValid
    <3>3. l <= hops
      BY <2>1, <3>1, <3>2
    <3>4. l \in 0 .. hops
      BY <3>3
    <3>. QED
      BY <3>1, <3>2, <3>4
  <2>. DEFINE p == [node |-> n, seed |-> c.seed, prop |-> prop, steps |-> c.steps]
  <2>. HIDE DEF c
  <2>7. p \in f[Len(c.steps)]
    BY <1>2, <2>1, <2>2, <2>4, <2>5, PrefixesHop, Zenon
  <2>8. p.node = n
    BY Zenon
  <2>. HIDE DEF p
  <2>9. p \in SimplePaths
    BY <1>3, <2>2, <2>6, <2>7, <2>8, Zenon
  <2>. QED
    BY <2>8, <2>9, Zenon
<1>6. DOMAIN candidates = {p.node : p \in SimplePaths}
  BY <1>4, <1>5, Zenon
<1>. QED
  BY <1>4, <1>6, Zenon

(* Without a budget in the way, and while nothing is committed by another  *)
(* connection, the candidates of a walk that has ended are the nodes the   *)
(* simple paths reach, and none of these paths is better than the one its  *)
(* node is reported with: the pruning of states, of the same node after    *)
(* the same hops, loses nothing, and a walk of fewer hops that is ahead    *)
(* stays ahead (retrieval.rs:423-428, 459-463, 653-695, 743-796).          *)
THEOREM BestPathsWin == Spec => []BestPathWins
<1>1. RetrievalInv /\ PathsOK /\ WalkInv => BestPathWins
  <2>. SUFFICES ASSUME StoreOK, CallOK, BudgetOK, PathsOK, WalkInv, Walked, Quiet, Unbounded, reply # "Found"
                PROVE  /\ DOMAIN candidates = {p.node : p \in SimplePaths}
                       /\ \A p \in SimplePaths : p.prop = 0 \/ Outdone(p)
    BY Zenon DEF RetrievalInv, BestPathWins
  <2>1. ~Seeding
    BY DEF Walked, Seeding
  <2>2. WalkKept
    BY <2>1 DEF WalkInv
  <2>. QED
    BY <2>2, WalkEnds
<1>. QED
  BY <1>1, RetrievalInvariant, PathsInvariant, WalkInvariant, PTL
=============================================================================
