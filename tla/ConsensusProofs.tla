-------------------------- MODULE ConsensusProofs --------------------------
(***************************************************************************)
(* The exponent of the difficulty, for every schedule error; and the       *)
(* verification caches of the proof of work with the gate in front of      *)
(* them, for every epoch length, number of slots and length of message.    *)
(***************************************************************************)
EXTENDS MetalDAG, Difficulty, FiniteSetTheorems, WellFoundedInduction, TLAPS

-----------------------------------------------------------------------------
(* The exponent of AsertGetNextWorkRequired, for every half-life and every *)
(* schedule error, ahead of the schedule and behind it.                    *)

\* Rounding down a quotient: q is the one integer with q * d <= n < q * d + d.
LEMMA FloorUnique ==
  ASSUME NEW n \in Int, NEW d \in Nat \ {0}, NEW q \in Int, q * d <= n, n < q * d + d
  PROVE  n \div d = q
<1>1. n \div d \in Int /\ (n \div d) * d <= n /\ n < (n \div d) * d + d
  BY Z3
<1>2. ASSUME NEW a \in Int, NEW b \in Int, a < b PROVE a * d + d <= b * d
  BY <1>2, Z3
<1>3. QED
  BY <1>1, <1>2, Z3

\* One half-life of schedule error moves the exponent by exactly one doubling, on
\* either side of the schedule and across it: the division rounds down for negative
\* errors too ("Floor division is required").  The fraction, and with it the factor
\* of the target, is the same, so the two targets differ by one shift.
THEOREM HalfLifeDoubles ==
  ASSUME NEW error \in Int
  PROVE  /\ Exponent(error + HalfLife) = Exponent(error) + 65536
         /\ Eased(error + HalfLife) = Eased(error)
<1>1. HalfLife \in Nat \ {0}
  BY DifficultyAssumption
<1> DEFINE q == (error * 65536) \div HalfLife
<1>2. q \in Int /\ q * HalfLife <= error * 65536 /\ error * 65536 < q * HalfLife + HalfLife
  BY <1>1, Z3
<1>3. (q + 65536) * HalfLife = q * HalfLife + 65536 * HalfLife
  BY <1>1, <1>2, Z3
<1>4. Exponent(error + HalfLife) = q + 65536
  <2>1. (error + HalfLife) * 65536 = error * 65536 + 65536 * HalfLife
    BY <1>1, Z3
  <2> HIDE DEF q
  <2>2. QED
    BY <1>1, <1>2, <1>3, <2>1, FloorUnique DEF Exponent
<1>5. (q + 65536) % 65536 = q % 65536
  BY <1>2, Z3
<1>6. QED
  BY <1>4, <1>5 DEF Exponent, Eased

\* A block that comes later, for its height, never has a smaller exponent.
THEOREM LaterIsEasier ==
  ASSUME NEW e \in Int, NEW f \in Int, e <= f
  PROVE  Exponent(e) <= Exponent(f)
<1>1. HalfLife \in Nat \ {0}
  BY DifficultyAssumption
<1> DEFINE p == (e * 65536) \div HalfLife
           q == (f * 65536) \div HalfLife
<1>2. p \in Int /\ p * HalfLife <= e * 65536
  BY <1>1, Z3
<1>3. q \in Int /\ f * 65536 < q * HalfLife + HalfLife
  BY <1>1, Z3
<1> HIDE DEF p, q
<1>4. SUFFICES ASSUME q < p PROVE FALSE
  BY <1>2, <1>3 DEF Exponent, p, q
<1>5. q * HalfLife + HalfLife <= p * HalfLife
  BY <1>1, <1>2, <1>3, <1>4, Z3
<1>6. QED
  BY <1>1, <1>2, <1>3, <1>5, Z3

-----------------------------------------------------------------------------
(* Induction over the natural numbers.                                     *)

\* Every set of natural numbers that has a member has a least one.
LEMMA LeastMember ==
  ASSUME NEW T \in SUBSET Nat, T # {}
  PROVE  \E x \in T : \A y \in T : x <= y
<1> DEFINE R == {ss \in Nat \X Nat : ss[1] < ss[2]}
<1>1. IsWellFoundedOn(R, Nat)
  BY NatLessThanWellFounded DEF OpToRel
<1> HIDE DEF R
<1>2. PICK x \in T : \A y \in T : ~(<<y, x>> \in R)
  BY <1>1, WFMin, Zenon
<1>3. \A y \in Nat : <<y, x>> \in R <=> y < x
  BY DEF R
<1>4. \A y \in T : x \in Nat /\ y \in Nat /\ ~(y < x)
  BY <1>2, <1>3, Zenon
<1> QED
  BY <1>4

\* A set that holds zero and with every number the next one holds them all.
LEMMA Induction ==
  ASSUME NEW S \in SUBSET Nat, 0 \in S, \A n \in S : n + 1 \in S
  PROVE  S = Nat
<1> SUFFICES ASSUME Nat \ S # {} PROVE FALSE
  BY Zenon
<1>1. PICK x \in Nat \ S : \A y \in Nat \ S : x <= y
  BY LeastMember, Zenon
<1>2. x - 1 \in Nat /\ x - 1 \notin Nat \ S
  BY <1>1
<1> QED
  BY <1>1, <1>2

-----------------------------------------------------------------------------
(* The order of use.                                                       *)

\* The slots used after e's.
After(s, e) == {f \in DOMAIN s : s[f] > s[e]}

\* How many slots were used after e's.
Rank(s, e) == Cardinality(After(s, e))

\* The slots, the one used last first: ByUse for any stamps.
Order(s) == [i \in 1..Cardinality(DOMAIN s) |-> CHOOSE e \in DOMAIN s : Rank(s, e) = i - 1]

\* The slots have stamps of their own, none above u.
Stamped(s, u) ==
  /\ IsFiniteSet(DOMAIN s)
  /\ \A e \in DOMAIN s : s[e] \in Nat /\ s[e] <= u
  /\ \A e, f \in DOMAIN s : s[e] = s[f] => e = f

\* A slot used later has the lower rank.
LEMMA RankFalls ==
  ASSUME NEW s, NEW u, Stamped(s, u), NEW e \in DOMAIN s, NEW f \in DOMAIN s, s[f] > s[e]
  PROVE  Rank(s, f) < Rank(s, e) /\ Rank(s, f) \in Nat /\ Rank(s, e) \in Nat
<1>1. After(s, f) \in SUBSET After(s, e) /\ f \in After(s, e) /\ f \notin After(s, f)
  <2>1. \A x \in DOMAIN s : s[x] \in Nat
    BY DEF Stamped
  <2>2. \A x \in DOMAIN s : s[x] > s[f] => s[x] > s[e]
    BY <2>1
  <2>3. ~(s[f] > s[f])
    BY <2>1
  <2> QED
    BY <2>2, <2>3 DEF After
<1>2. IsFiniteSet(After(s, e)) /\ IsFiniteSet(After(s, f))
  BY FS_Subset DEF After, Stamped
<1>3. /\ Cardinality(After(s, f)) <= Cardinality(After(s, e))
      /\ Cardinality(After(s, e)) = Cardinality(After(s, f)) => After(s, e) = After(s, f)
  BY <1>1, <1>2, FS_Subset
<1>4. Cardinality(After(s, e)) \in Nat /\ Cardinality(After(s, f)) \in Nat
  BY <1>2, FS_CardinalityType
<1> QED
  BY <1>1, <1>3, <1>4 DEF Rank

\* A slot's rank is below the number of slots.
LEMMA RankIs ==
  ASSUME NEW s, NEW u, Stamped(s, u), NEW e \in DOMAIN s
  PROVE  Rank(s, e) \in 0..(Cardinality(DOMAIN s) - 1) /\ Cardinality(DOMAIN s) \in Nat
<1>1. After(s, e) \in SUBSET DOMAIN s /\ e \notin After(s, e)
  <2>1. s[e] \in Nat
    BY DEF Stamped
  <2>2. ~(s[e] > s[e])
    BY <2>1
  <2> QED
    BY <2>2 DEF After
<1>2. IsFiniteSet(DOMAIN s)
  BY DEF Stamped
<1>3. /\ IsFiniteSet(After(s, e)) /\ Cardinality(After(s, e)) <= Cardinality(DOMAIN s)
      /\ Cardinality(DOMAIN s) = Cardinality(After(s, e)) => DOMAIN s = After(s, e)
  BY <1>1, <1>2, FS_Subset
<1>4. Cardinality(After(s, e)) \in Nat /\ Cardinality(DOMAIN s) \in Nat
  BY <1>2, <1>3, FS_CardinalityType
<1> QED
  BY <1>1, <1>3, <1>4 DEF Rank

\* No two slots have one rank.
LEMMA RanksDiffer ==
  ASSUME NEW s, NEW u, Stamped(s, u), NEW e \in DOMAIN s, NEW f \in DOMAIN s, Rank(s, e) = Rank(s, f)
  PROVE  e = f
<1>1. s[e] \in Nat /\ s[f] \in Nat
  BY DEF Stamped
<1>2. CASE s[e] > s[f]
  <2>1. Rank(s, e) < Rank(s, f) /\ Rank(s, f) \in Nat
    BY <1>2, RankFalls
  <2> QED
    BY <2>1
<1>3. CASE s[f] > s[e]
  <2>1. Rank(s, f) < Rank(s, e) /\ Rank(s, f) \in Nat
    BY <1>3, RankFalls
  <2> QED
    BY <2>1
<1>4. CASE s[e] = s[f]
  BY <1>4 DEF Stamped
<1> QED
  BY <1>1, <1>2, <1>3, <1>4

\* Every place has its slot: ranks are as many as slots.
LEMMA RanksAll ==
  ASSUME NEW s, NEW u, Stamped(s, u), NEW i \in 1..Cardinality(DOMAIN s)
  PROVE  \E e \in DOMAIN s : Rank(s, e) = i - 1
<1> DEFINE n == Cardinality(DOMAIN s)
           T == 0..(n - 1)
           r == [e \in DOMAIN s |-> Rank(s, e)]
<1>1. IsFiniteSet(DOMAIN s) /\ n \in Nat
  BY FS_CardinalityType DEF Stamped
<1>2. IsFiniteSet(T) /\ Cardinality(T) = n
  <2>1. IsFiniteSet(0..(n - 1)) /\ Cardinality(0..(n - 1)) = IF 0 > n - 1 THEN 0 ELSE (n - 1) - 0 + 1
    <3>1. 0 \in Int /\ n - 1 \in Int
      BY <1>1
    <3> HIDE DEF n
    <3> QED
      BY <3>1, FS_Interval
  <2> HIDE DEF n
  <2> QED
    BY <1>1, <2>1
<1>3. r \in [DOMAIN s -> T]
  BY RankIs
<1>4. \A e, f \in DOMAIN s : r[e] = r[f] => e = f
  BY RanksDiffer
<1>5. r \in Injection(DOMAIN s, T)
  BY <1>3, <1>4 DEF Injection, IsInjective
<1>6. r \in Surjection(DOMAIN s, T)
  BY <1>2, <1>5, FS_Injection
<1>7. i - 1 \in T
  BY <1>1
<1> QED
  BY <1>6, <1>7, Zenon DEF Surjection

\* Order lists the slots, each at the place its rank gives it.
LEMMA OrderIs ==
  ASSUME NEW s, NEW u, Stamped(s, u)
  PROVE  /\ \A i \in 1..Cardinality(DOMAIN s) :
              Order(s)[i] \in DOMAIN s /\ Rank(s, Order(s)[i]) = i - 1
         /\ \A e \in DOMAIN s :
              /\ Rank(s, e) + 1 \in 1..Cardinality(DOMAIN s)
              /\ Order(s)[Rank(s, e) + 1] = e
<1>1. ASSUME NEW i \in 1..Cardinality(DOMAIN s)
      PROVE  Order(s)[i] \in DOMAIN s /\ Rank(s, Order(s)[i]) = i - 1
  BY RanksAll DEF Order
<1>2. ASSUME NEW e \in DOMAIN s
      PROVE  Rank(s, e) + 1 \in 1..Cardinality(DOMAIN s) /\ Order(s)[Rank(s, e) + 1] = e
  <2> DEFINE n == Cardinality(DOMAIN s)
             k == Rank(s, e)
  <2>1. k \in 0..(n - 1) /\ n \in Nat
    BY RankIs
  <2> HIDE DEF n, k
  <2>2. k + 1 \in 1..n /\ (k + 1) - 1 = k
    BY <2>1
  <2>3. Order(s)[k + 1] \in DOMAIN s /\ Rank(s, Order(s)[k + 1]) = k
    BY <1>1, <2>2 DEF n
  <2> QED
    BY <2>2, <2>3, RanksDiffer DEF n, k
<1> QED
  BY <1>1, <1>2

\* k at the front, and what was before place p one place further back.
Front(s, D, k, p) ==
  [i \in D |-> IF i = 1 THEN k ELSE IF i <= p THEN Order(s)[i - 1] ELSE Order(s)[i]]

\* A use of k that moves back what is before place p.
LEMMA FrontIs ==
  ASSUME NEW s, NEW u, Stamped(s, u), NEW r, NEW v, Stamped(r, v), NEW p \in Nat \ {0},
         NEW k \in DOMAIN r, Rank(r, k) = 0,
         \A e \in DOMAIN r \ {k} :
           /\ e \in DOMAIN s /\ Rank(s, e) + 1 # p
           /\ Rank(r, e) = IF Rank(s, e) + 1 < p THEN Rank(s, e) + 1 ELSE Rank(s, e)
  PROVE  Order(r) = Front(s, 1..Cardinality(DOMAIN r), k, p)
<1> DEFINE m == Cardinality(DOMAIN r)
           g == [i \in 1..m |-> IF i = 1 THEN k ELSE IF i <= p THEN Order(s)[i - 1] ELSE Order(s)[i]]
<1>1. ASSUME NEW i \in 1..m PROVE Order(r)[i] = g[i]
  <2> DEFINE e == Order(r)[i]
  <2>1. e \in DOMAIN r /\ Rank(r, e) = i - 1
    BY OrderIs
  <2>2. i \in Nat \ {0}
    <3>1. m \in Nat
      BY FS_CardinalityType DEF Stamped
    <3> QED
      BY <3>1
  <2> HIDE DEF e
  <2>3. CASE i = 1
    <3>1. Rank(r, e) = Rank(r, k)
      BY <2>1, <2>3
    <3> QED
      BY <2>1, <2>3, <3>1, RanksDiffer DEF e
  <2>4. CASE i # 1
    <3>1. e # k
      BY <2>1, <2>2, <2>4
    <3>2. /\ e \in DOMAIN s /\ Rank(s, e) + 1 # p
          /\ Rank(r, e) = IF Rank(s, e) + 1 < p THEN Rank(s, e) + 1 ELSE Rank(s, e)
      BY <2>1, <3>1
    <3>3. Rank(s, e) \in Nat /\ Order(s)[Rank(s, e) + 1] = e
      BY <3>2, RankIs, OrderIs
    <3>4. CASE Rank(s, e) + 1 < p
      <4>1. Rank(s, e) + 1 = i - 1 /\ i <= p
        BY <2>1, <2>2, <3>2, <3>3, <3>4
      <4> QED
        BY <2>4, <3>3, <4>1 DEF e
    <3>5. CASE ~(Rank(s, e) + 1 < p)
      <4>1. Rank(s, e) + 1 = i /\ ~(i <= p)
        BY <2>1, <2>2, <3>2, <3>3, <3>5
      <4> QED
        BY <2>4, <3>3, <4>1 DEF e
    <3> QED
      BY <3>4, <3>5
  <2> QED
    BY <2>3, <2>4
<1>2. Order(r) = [i \in 1..m |-> Order(r)[i]]
  BY DEF Order
<1> QED
  BY <1>1, <1>2 DEF Front

\* One element more.
LEMMA CardAdd ==
  ASSUME NEW S, IsFiniteSet(S), NEW x
  PROVE  /\ IsFiniteSet(S \cup {x}) /\ Cardinality(S) \in Nat
         /\ Cardinality(S \cup {x}) = IF x \in S THEN Cardinality(S) ELSE Cardinality(S) + 1
  BY FS_AddElement, FS_CardinalityType

\* A use of a resident slot.
LEMMA TouchIs ==
  ASSUME NEW s, NEW u \in Nat, Stamped(s, u), NEW k \in DOMAIN s, NEW r,
         DOMAIN r = DOMAIN s, r[k] = u + 1, \A e \in DOMAIN s \ {k} : r[e] = s[e],
         NEW p, p = Rank(s, k) + 1
  PROVE  /\ Stamped(r, u + 1)
         /\ Order(r) = Front(s, 1..Cardinality(DOMAIN r), k, p)
<1>1. DOMAIN r = DOMAIN s /\ r[k] = u + 1 /\ \A e \in DOMAIN s \ {k} : r[e] = s[e]
  OBVIOUS
<1>2. /\ IsFiniteSet(DOMAIN s)
      /\ \A e \in DOMAIN s : s[e] \in Nat /\ s[e] <= u
      /\ \A e, f \in DOMAIN s : s[e] = s[f] => e = f
  BY DEF Stamped
<1>3. Stamped(r, u + 1)
  <2>1. \A e \in DOMAIN r : r[e] \in Nat /\ r[e] <= u + 1 /\ (e # k => r[e] < u + 1)
    <3> SUFFICES ASSUME NEW e \in DOMAIN r PROVE r[e] \in Nat /\ r[e] <= u + 1 /\ (e # k => r[e] < u + 1)
      OBVIOUS
    <3>1. CASE e = k
      BY <3>1
    <3>2. CASE e # k
      BY <1>1, <1>2, <3>2
    <3> QED
      BY <3>1, <3>2
  <2>2. \A e, f \in DOMAIN r : r[e] = r[f] => e = f
    <3> SUFFICES ASSUME NEW e \in DOMAIN r, NEW f \in DOMAIN r, r[e] = r[f] PROVE e = f
      OBVIOUS
    <3>1. ASSUME NEW x \in DOMAIN r, r[x] = u + 1 PROVE x = k
      <4>1. x # k => r[x] \in Nat /\ r[x] < u + 1
        BY <2>1
      <4> QED
        BY <3>1, <4>1
    <3>2. CASE e = k \/ f = k
      BY <3>1, <3>2
    <3>3. CASE e # k /\ f # k
      BY <1>1, <1>2, <3>3
    <3> QED
      BY <3>2, <3>3
  <2> QED
    BY <1>1, <1>2, <2>1, <2>2 DEF Stamped
<1>4. Rank(r, k) = 0
  <2>1. After(r, k) = {}
    <3>1. \A f \in DOMAIN r : ~(r[f] > u + 1)
      BY <1>3 DEF Stamped
    <3> QED
      BY <1>1, <3>1 DEF After
  <2> QED
    BY <2>1, FS_EmptySet DEF Rank
<1>5. Rank(s, k) \in Nat
  BY RankIs
<1>6. ASSUME NEW e \in DOMAIN r \ {k}
      PROVE  /\ e \in DOMAIN s /\ Rank(s, e) + 1 # p
             /\ Rank(r, e) = IF Rank(s, e) + 1 < p THEN Rank(s, e) + 1 ELSE Rank(s, e)
  <2>1. e \in DOMAIN s /\ e # k /\ r[e] = s[e] /\ s[e] \in Nat /\ s[k] \in Nat /\ s[e] <= u /\ s[e] # s[k]
    BY <1>1, <1>2
  <2>2. After(r, e) = After(s, e) \cup {k}
    <3>1. r[k] > r[e]
      BY <1>1, <2>1
    <3>2. \A f \in DOMAIN s \ {k} : r[f] > r[e] <=> s[f] > s[e]
      BY <1>1, <2>1
    <3> QED
      BY <1>1, <3>1, <3>2 DEF After
  <2>3. IsFiniteSet(After(s, e))
    BY <1>2, FS_Subset DEF After
  <2>4. Rank(s, e) \in Nat /\ Rank(r, e) = IF k \in After(s, e) THEN Rank(s, e) ELSE Rank(s, e) + 1
    BY <2>2, <2>3, CardAdd DEF Rank
  <2>5. CASE s[k] > s[e]
    <3>1. k \in After(s, e)
      BY <2>5 DEF After
    <3>2. Rank(s, k) < Rank(s, e)
      BY <2>1, <2>5, RankFalls
    <3> QED
      BY <1>5, <2>1, <2>4, <3>1, <3>2
  <2>6. CASE s[e] > s[k]
    <3>1. ~(s[k] > s[e])
      BY <2>1, <2>6
    <3>2. k \notin After(s, e)
      BY <3>1 DEF After
    <3>3. Rank(s, e) < Rank(s, k)
      BY <2>1, <2>6, RankFalls
    <3> QED
      BY <1>5, <2>1, <2>4, <3>2, <3>3
  <2> QED
    BY <2>1, <2>5, <2>6
<1>7. p \in Nat \ {0}
  BY <1>5
<1> QED
  BY <1>3, <1>4, <1>6, <1>7, FrontIs

\* A use of a slot that is new, whether all the others stay or those used last.
LEMMA AddIs ==
  ASSUME NEW s, NEW u \in Nat, Stamped(s, u), NEW k, k \notin DOMAIN s, NEW r,
         k \in DOMAIN r, DOMAIN r \in SUBSET (DOMAIN s \cup {k}),
         r[k] = u + 1, \A e \in DOMAIN r \ {k} : r[e] = s[e],
         \A e \in DOMAIN r \ {k}, f \in DOMAIN s : s[f] > s[e] => f \in DOMAIN r,
         NEW p \in Nat \ {0}, \A e \in DOMAIN r \ {k} : Rank(s, e) + 1 < p
  PROVE  /\ Stamped(r, u + 1)
         /\ Order(r) = Front(s, 1..Cardinality(DOMAIN r), k, p)
<1>1. /\ IsFiniteSet(DOMAIN s)
      /\ \A e \in DOMAIN s : s[e] \in Nat /\ s[e] <= u
      /\ \A e, f \in DOMAIN s : s[e] = s[f] => e = f
  BY DEF Stamped
<1>2. Stamped(r, u + 1)
  <2>1. \A e \in DOMAIN r : r[e] \in Nat /\ r[e] <= u + 1 /\ (e # k => e \in DOMAIN s /\ r[e] < u + 1)
    <3> SUFFICES ASSUME NEW e \in DOMAIN r
                 PROVE  r[e] \in Nat /\ r[e] <= u + 1 /\ (e # k => e \in DOMAIN s /\ r[e] < u + 1)
      OBVIOUS
    <3>1. CASE e = k
      BY <3>1
    <3>2. CASE e # k
      <4>1. e \in DOMAIN s /\ r[e] = s[e]
        BY <3>2
      <4> QED
        BY <1>1, <4>1
    <3> QED
      BY <3>1, <3>2
  <2>2. \A e, f \in DOMAIN r : r[e] = r[f] => e = f
    <3> SUFFICES ASSUME NEW e \in DOMAIN r, NEW f \in DOMAIN r, r[e] = r[f] PROVE e = f
      OBVIOUS
    <3>1. CASE e = k
      BY <2>1, <3>1
    <3>2. CASE f = k
      BY <2>1, <3>2
    <3>3. CASE e # k /\ f # k
      BY <1>1, <2>1, <3>3
    <3> QED
      BY <3>1, <3>2, <3>3
  <2>3. IsFiniteSet(DOMAIN r)
    <3>1. IsFiniteSet(DOMAIN s \cup {k})
      BY <1>1, CardAdd
    <3> QED
      BY <3>1, FS_Subset
  <2> QED
    BY <2>1, <2>2, <2>3 DEF Stamped
<1>3. Rank(r, k) = 0
  <2>1. After(r, k) = {}
    <3>1. \A f \in DOMAIN r : ~(r[f] > u + 1)
      BY <1>2 DEF Stamped
    <3> QED
      BY <3>1 DEF After
  <2> QED
    BY <2>1, FS_EmptySet DEF Rank
<1>4. ASSUME NEW e \in DOMAIN r \ {k}
      PROVE  /\ e \in DOMAIN s /\ Rank(s, e) + 1 # p
             /\ Rank(r, e) = IF Rank(s, e) + 1 < p THEN Rank(s, e) + 1 ELSE Rank(s, e)
  <2>1. e \in DOMAIN s /\ r[e] = s[e] /\ s[e] \in Nat /\ s[e] <= u
    BY <1>1
  <2>2. After(r, e) = After(s, e) \cup {k}
    <3>1. r[k] > r[e]
      BY <2>1
    <3>2. \A f \in DOMAIN r \ {k} : r[f] > r[e] <=> s[f] > s[e]
      BY <2>1
    <3> QED
      BY <3>1, <3>2 DEF After
  <2>3. IsFiniteSet(After(s, e)) /\ k \notin After(s, e)
    BY <1>1, FS_Subset DEF After
  <2>4. Rank(s, e) \in Nat /\ Rank(r, e) = Rank(s, e) + 1
    BY <2>2, <2>3, CardAdd DEF Rank
  <2> QED
    BY <2>1, <2>4
<1> QED
  BY <1>2, <1>3, <1>4, FrontIs

\* What get_cache leaves in the slots.
Used(s, e, u) ==
  IF e \in DOMAIN s THEN [s EXCEPT ![e] = u]
  ELSE Evict([f \in DOMAIN s \cup {e} |-> IF f = e THEN u ELSE s[f]])

\* The place that the use of k gives up, among the slots in their order of use.
Given(s, k, p) ==
  IF \E i \in DOMAIN Order(s) : Order(s)[i] = k
  THEN p \in DOMAIN Order(s) /\ Order(s)[p] = k
  ELSE p = IF Len(Order(s)) < Entries THEN Len(Order(s)) + 1 ELSE Entries

\* A use is a move to the front.
MovesUp(s, r, k) ==
  \E p \in 1..Entries :
    /\ Given(s, k, p)
    /\ Order(r) = Front(s, DOMAIN Order(s) \cup {p}, k, p)

\* The slot with the lowest stamp.
LEMMA LeastUsed ==
  ASSUME NEW s, NEW u, Stamped(s, u), DOMAIN s # {}
  PROVE  \E e \in DOMAIN s : \A f \in DOMAIN s : s[e] <= s[f]
<1> DEFINE T == {s[e] : e \in DOMAIN s}
<1>1. T \in SUBSET Nat /\ T # {}
  BY DEF Stamped
<1>2. PICK x \in T : \A y \in T : x <= y
  BY <1>1, LeastMember, Zenon
<1> QED
  BY <1>2

\* Order is as long as there are slots, and lists those and no others.
LEMMA OrderLen ==
  ASSUME NEW s, NEW u, Stamped(s, u)
  PROVE  /\ Cardinality(DOMAIN s) \in Nat
         /\ DOMAIN Order(s) = 1..Cardinality(DOMAIN s)
         /\ Len(Order(s)) = Cardinality(DOMAIN s)
         /\ \A k : (\E i \in DOMAIN Order(s) : Order(s)[i] = k) <=> k \in DOMAIN s
<1>1. Cardinality(DOMAIN s) \in Nat
  BY FS_CardinalityType DEF Stamped
<1>2. DOMAIN Order(s) = 1..Cardinality(DOMAIN s)
  BY DEF Order
<1>3. Len(Order(s)) = Cardinality(DOMAIN s)
  BY <1>1, <1>2
<1>4. \A k : (\E i \in DOMAIN Order(s) : Order(s)[i] = k) <=> k \in DOMAIN s
  BY <1>2, OrderIs, Zenon
<1> QED
  BY <1>1, <1>2, <1>3, <1>4

\* A use of a slot keeps the stamps apart and the slots within Entries, and moves
\* the slot to the front of the order of use.
LEMMA UseIs ==
  ASSUME NEW s, NEW u \in Nat, Stamped(s, u), Cardinality(DOMAIN s) <= Entries, NEW k,
         NEW r, r = Used(s, k, u + 1)
  PROVE  /\ Stamped(r, u + 1) /\ Cardinality(DOMAIN r) <= Entries
         /\ DOMAIN r \in SUBSET (DOMAIN s \cup {k})
         /\ MovesUp(s, r, k)
<1> DEFINE n == Cardinality(DOMAIN s)
<1>1. /\ n \in Nat /\ DOMAIN Order(s) = 1..n /\ Len(Order(s)) = n
      /\ (\E i \in DOMAIN Order(s) : Order(s)[i] = k) <=> k \in DOMAIN s
  BY OrderLen
<1>2. n <= Entries /\ Entries \in Nat \ {0}
  BY MetalDAGAssumption
<1> HIDE DEF n
<1>3. CASE k \in DOMAIN s
  <2>1. DOMAIN r = DOMAIN s /\ r[k] = u + 1 /\ \A e \in DOMAIN s \ {k} : r[e] = s[e]
    BY <1>3 DEF Used
  <2> DEFINE p == Rank(s, k) + 1
  <2>2. p \in 1..n /\ Order(s)[p] = k
    BY <1>3, OrderIs DEF n
  <2> HIDE DEF p
  <2>3. /\ Stamped(r, u + 1)
        /\ Order(r) = Front(s, 1..n, k, p)
    <3>1. p = Rank(s, k) + 1 /\ Cardinality(DOMAIN r) = n
      BY <2>1 DEF p, n
    <3>2. Stamped(r, u + 1) /\ Order(r) = Front(s, 1..Cardinality(DOMAIN r), k, p)
      BY <1>3, <2>1, <3>1, TouchIs
    <3> QED
      BY <3>1, <3>2
  <2>4. 1..n = (1..n) \cup {p} /\ p \in 1..Entries
    BY <1>1, <1>2, <2>2
  <2>5. Given(s, k, p)
    BY <1>1, <1>3, <2>2 DEF Given
  <2>6. MovesUp(s, r, k)
    BY <1>1, <2>3, <2>4, <2>5, Zenon DEF MovesUp
  <2> QED
    BY <1>2, <2>1, <2>3, <2>6 DEF n
<1>4. CASE k \notin DOMAIN s
  <2> DEFINE q == [f \in DOMAIN s \cup {k} |-> IF f = k THEN u + 1 ELSE s[f]]
  <2>1. r = Evict(q)
    BY <1>4 DEF Used
  <2>2. DOMAIN q = DOMAIN s \cup {k} /\ q[k] = u + 1 /\ \A e \in DOMAIN s : q[e] = s[e]
    BY <1>4
  <2>3. IsFiniteSet(DOMAIN q) /\ Cardinality(DOMAIN q) = n + 1
    BY <1>4, <2>2, CardAdd DEF n, Stamped
  <2> HIDE DEF q
  <2>4. ASSUME NEW e \in DOMAIN s PROVE Rank(s, e) + 1 < n + 1 /\ Rank(s, e) \in Nat
    <3>1. Rank(s, e) \in 0..(n - 1)
      BY RankIs DEF n
    <3> QED
      BY <1>1, <3>1
  <2>5. CASE n < Entries
    <3>1. r = q
      BY <1>1, <1>2, <2>1, <2>3, <2>5 DEF Evict
    <3>2. n + 1 \in Nat \ {0} /\ n + 1 \in 1..Entries /\ 1..(n + 1) = (1..n) \cup {n + 1}
      BY <1>1, <1>2, <2>5
    <3>3. /\ k \in DOMAIN r /\ DOMAIN r \in SUBSET (DOMAIN s \cup {k})
          /\ r[k] = u + 1 /\ \A e \in DOMAIN r \ {k} : r[e] = s[e]
          /\ \A e \in DOMAIN r \ {k}, f \in DOMAIN s : s[f] > s[e] => f \in DOMAIN r
          /\ \A e \in DOMAIN r \ {k} : Rank(s, e) + 1 < n + 1
      BY <2>2, <2>4, <3>1
    <3>4. /\ Stamped(r, u + 1)
          /\ Order(r) = Front(s, 1..(n + 1), k, n + 1)
      <4> DEFINE p == n + 1
      <4>1. p \in Nat \ {0} /\ \A e \in DOMAIN r \ {k} : Rank(s, e) + 1 < p
        BY <3>2, <3>3
      <4>2. Cardinality(DOMAIN r) = p
        BY <2>3, <3>1
      <4> HIDE DEF p
      <4>3. /\ Stamped(r, u + 1)
            /\ Order(r) = Front(s, 1..p, k, p)
        <5>1. Stamped(r, u + 1) /\ Order(r) = Front(s, 1..Cardinality(DOMAIN r), k, p)
          BY <1>4, <3>3, <4>1, AddIs
        <5> QED
          BY <4>2, <5>1
      <4> QED
        BY <4>3 DEF p
    <3>5. Given(s, k, n + 1)
      BY <1>1, <1>4, <2>5 DEF Given
    <3>6. MovesUp(s, r, k)
      BY <1>1, <3>2, <3>4, <3>5, Zenon DEF MovesUp
    <3>7. Cardinality(DOMAIN r) <= Entries
      BY <1>1, <1>2, <2>3, <2>5, <3>1
    <3> QED
      BY <3>3, <3>4, <3>6, <3>7
  <2>6. CASE n = Entries
    <3> DEFINE v == CHOOSE e \in DOMAIN q : \A f \in DOMAIN q : q[e] <= q[f]
    <3>1. \A e \in DOMAIN s : s[e] \in Nat /\ s[e] <= u
      BY DEF Stamped
    <3>2. DOMAIN s # {}
      BY <1>2, <2>6, FS_EmptySet DEF n
    <3>3. \E e \in DOMAIN q : \A f \in DOMAIN q : q[e] <= q[f]
      <4>1. PICK e \in DOMAIN s : \A f \in DOMAIN s : s[e] <= s[f]
        BY <3>2, LeastUsed
      <4>2. \A f \in DOMAIN q : q[e] <= q[f]
        <5> SUFFICES ASSUME NEW f \in DOMAIN q PROVE q[e] <= q[f]
          OBVIOUS
        <5>1. CASE f = k
          BY <2>2, <3>1, <5>1
        <5>2. CASE f # k
          BY <2>2, <4>1, <5>2
        <5> QED
          BY <5>1, <5>2
      <4> QED
        BY <2>2, <4>2
    <3>4. v \in DOMAIN q /\ \A f \in DOMAIN q : q[v] <= q[f]
      BY <3>3
    <3>5. r = [e \in DOMAIN q \ {v} |-> q[e]]
      <4>1. ~(Cardinality(DOMAIN q) <= Entries)
        BY <1>2, <2>3, <2>6
      <4> QED
        BY <2>1, <4>1 DEF Evict
    <3> HIDE DEF v
    <3>6. v # k
      <4>1. PICK e \in DOMAIN s : TRUE
        BY <3>2
      <4>2. q[v] <= s[e] /\ s[e] \in Nat /\ s[e] <= u
        BY <2>2, <3>1, <3>4
      <4> QED
        BY <2>2, <4>2
    <3>7. v \in DOMAIN s /\ \A f \in DOMAIN s : s[v] <= s[f]
      BY <2>2, <3>4, <3>6
    <3>8. DOMAIN r = (DOMAIN s \cup {k}) \ {v} /\ r[k] = u + 1 /\ \A e \in DOMAIN r \ {k} : e \in DOMAIN s /\ r[e] = s[e]
      BY <2>2, <3>5, <3>6
    <3>9. Cardinality(DOMAIN r) = n
      <4>1. Cardinality(DOMAIN q \ {v}) = Cardinality(DOMAIN q) - 1
        BY <2>3, <3>4, FS_RemoveElement
      <4> QED
        BY <1>1, <2>3, <3>5, <4>1
    <3>10. \A e \in DOMAIN r \ {k} : Rank(s, e) + 1 < n
      <4> SUFFICES ASSUME NEW e \in DOMAIN r \ {k} PROVE Rank(s, e) + 1 < n
        OBVIOUS
      <4>1. e \in DOMAIN s /\ e # v /\ s[e] > s[v]
        <5>1. e \in DOMAIN s /\ e # v
          BY <3>8
        <5>2. s[e] # s[v] /\ s[v] <= s[e] /\ s[e] \in Nat /\ s[v] \in Nat
          BY <3>1, <3>7, <5>1 DEF Stamped
        <5> QED
          BY <5>1, <5>2
      <4>2. Rank(s, e) < Rank(s, v)
        BY <3>7, <4>1, RankFalls
      <4>3. Rank(s, v) + 1 < n + 1 /\ Rank(s, v) \in Nat /\ Rank(s, e) \in Nat
        BY <2>4, <3>7, <4>1
      <4> QED
        BY <1>1, <4>2, <4>3
    <3>11. \A e \in DOMAIN r \ {k}, f \in DOMAIN s : s[f] > s[e] => f \in DOMAIN r
      <4> SUFFICES ASSUME NEW e \in DOMAIN r \ {k}, NEW f \in DOMAIN s, s[f] > s[e] PROVE f \in DOMAIN r
        OBVIOUS
      <4>1. f # v
        BY <3>1, <3>7, <3>8
      <4> QED
        BY <3>8, <4>1
    <3>12. n \in Nat \ {0} /\ n \in 1..Entries /\ 1..n = (1..n) \cup {n}
      BY <1>1, <1>2, <2>6
    <3>13. k \in DOMAIN r /\ DOMAIN r \in SUBSET (DOMAIN s \cup {k})
      BY <3>6, <3>8
    <3>14. /\ Stamped(r, u + 1)
           /\ Order(r) = Front(s, 1..n, k, n)
      <4>1. Stamped(r, u + 1) /\ Order(r) = Front(s, 1..Cardinality(DOMAIN r), k, n)
        BY <1>4, <3>8, <3>10, <3>11, <3>12, <3>13, AddIs
      <4> QED
        BY <3>9, <4>1
    <3>15. Given(s, k, n)
      BY <1>1, <1>2, <1>4, <2>6 DEF Given
    <3>16. MovesUp(s, r, k)
      BY <1>1, <3>12, <3>14, <3>15, Zenon DEF MovesUp
    <3> QED
      BY <1>2, <3>9, <3>13, <3>14, <3>16
  <2> QED
    BY <1>1, <1>2, <2>5, <2>6
<1> QED
  BY <1>3, <1>4

-----------------------------------------------------------------------------
(* The gate.                                                               *)

\* An epoch is EpochLen ticks long.
LEMMA EpochIs ==
  ASSUME NEW t \in Nat
  PROVE  Epoch(t) \in Nat /\ Epoch(t) * EpochLen <= t /\ t < Epoch(t) * EpochLen + EpochLen
<1>1. EpochLen \in Nat \ {0}
  BY MetalDAGAssumption
<1>2. t \div EpochLen \in Nat /\ (t \div EpochLen) * EpochLen <= t /\ t < (t \div EpochLen) * EpochLen + EpochLen
  BY <1>1, Z3
<1> QED
  BY <1>2 DEF Epoch

\* A later time is in no earlier epoch.
LEMMA EpochGrows ==
  ASSUME NEW t \in Nat, NEW w \in Nat, t <= w
  PROVE  Epoch(t) <= Epoch(w)
<1> DEFINE a == Epoch(t)
           b == Epoch(w)
           d == EpochLen
<1>1. d \in Nat \ {0}
  BY MetalDAGAssumption
<1>2. a \in Nat /\ a * d <= t /\ b \in Nat /\ w < b * d + d
  BY EpochIs
<1> HIDE DEF a, b, d
<1>3. SUFFICES ASSUME b < a PROVE FALSE
  BY <1>2 DEF a, b
<1> DEFINE x == a * d
           y == b * d
<1>4. y + d <= x /\ x \in Int /\ y \in Int
  BY <1>1, <1>2, <1>3, Z3
<1>5. x <= t /\ w < y + d
  BY <1>2
<1> HIDE DEF x, y
<1> QED
  BY <1>1, <1>4, <1>5

\* What MayVerifyFromNetwork returns.
Verdicts == [ok : BOOLEAN, last : Int]

\* The equation MayVerifyHeadersNow defines its verdicts by.
IsVerdict(f, hs, n) ==
  f = [i \in 0..n |->
         IF i = 0 THEN [ok |-> TRUE, last |-> last]
         ELSE IF ~f[i - 1].ok THEN f[i - 1]
         ELSE MayVerifyFromNetwork(hs[i], f[i - 1].last)]

\* A header the gate lets through, and one it does not.
Within(t) == Resident(Epoch(t)) \/ Epoch(t) <= Hi

Refused(t) == ~Resident(Epoch(t)) /\ (Epoch(t) > Hi \/ Epoch(t) < Lo)

\* MayVerifyFromNetwork lets a header through only when its epoch is resident or no
\* more than one ahead of the clock, and refuses only one that is not resident and
\* ahead of the clock or behind the best header's epoch.
LEMMA NetworkIs ==
  ASSUME now \in Nat, best \in Nat, NEW t \in Nat, NEW prev \in Int
  PROVE  LET v == MayVerifyFromNetwork(t, prev)
         IN  v \in Verdicts /\ (v.ok => Within(t)) /\ (~v.ok => Refused(t))
<1> DEFINE e == Epoch(t)
<1>1. e \in Nat /\ Lo \in Nat /\ Hi \in Nat
  <2>1. Epoch(t) \in Nat /\ Epoch(now) \in Nat /\ Epoch(best) \in Nat
    BY EpochIs
  <2> QED
    BY <2>1 DEF Lo, Hi
<1> HIDE DEF e
<1>2. CASE Resident(e) \/ (Lo <= e /\ e <= Hi)
  <2>1. MayVerifyFromNetwork(t, prev) = [ok |-> TRUE, last |-> prev]
    BY <1>2 DEF MayVerifyFromNetwork, e
  <2> QED
    BY <1>2, <2>1 DEF Verdicts, Within, e
<1>3. CASE ~(Resident(e) \/ (Lo <= e /\ e <= Hi)) /\ e > Hi
  <2>1. MayVerifyFromNetwork(t, prev) = [ok |-> FALSE, last |-> prev]
    BY <1>3 DEF MayVerifyFromNetwork, e
  <2> QED
    BY <1>3, <2>1 DEF Verdicts, Refused, e
<1>4. CASE ~(Resident(e) \/ (Lo <= e /\ e <= Hi)) /\ ~(e > Hi)
  <2>1. e <= Hi /\ e < Lo
    BY <1>1, <1>4
  <2>2. \/ MayVerifyFromNetwork(t, prev) = [ok |-> TRUE, last |-> now]
        \/ MayVerifyFromNetwork(t, prev) = [ok |-> FALSE, last |-> prev]
    BY <1>4 DEF MayVerifyFromNetwork, e
  <2>3. Within(t) /\ Refused(t)
    BY <1>4, <2>1 DEF Within, Refused, e
  <2>4. [ok |-> TRUE, last |-> now] \in Verdicts /\ [ok |-> FALSE, last |-> prev] \in Verdicts
    BY DEF Verdicts
  <2> QED
    BY <2>2, <2>3, <2>4, Zenon
<1> QED
  BY <1>2, <1>3, <1>4

\* The recursion of MayVerifyHeadersNow has a solution.
LEMMA VerdictExists ==
  ASSUME now \in Nat, best \in Nat, last \in Int, NEW hs \in Seq(Nat), NEW n \in 0..Len(hs)
  PROVE  \E f \in [0..n -> Verdicts] : IsVerdict(f, hs, n)
<1> DEFINE S == {m \in Nat : m <= Len(hs) => \E f \in [0..m -> Verdicts] : IsVerdict(f, hs, m)}
<1>1. 0 \in S
  <2> DEFINE f == [i \in 0..0 |-> [ok |-> TRUE, last |-> last]]
  <2>1. f \in [0..0 -> Verdicts] /\ IsVerdict(f, hs, 0)
    BY DEF IsVerdict, Verdicts
  <2> QED
    BY <2>1, Zenon
<1>2. ASSUME NEW m \in S PROVE m + 1 \in S
  <2> SUFFICES ASSUME m + 1 <= Len(hs) PROVE \E f \in [0..(m + 1) -> Verdicts] : IsVerdict(f, hs, m + 1)
    OBVIOUS
  <2>1. PICK f \in [0..m -> Verdicts] : IsVerdict(f, hs, m)
    OBVIOUS
  <2> DEFINE w == IF ~f[m].ok THEN f[m] ELSE MayVerifyFromNetwork(hs[m + 1], f[m].last)
             g == [i \in 0..(m + 1) |-> IF i = m + 1 THEN w ELSE f[i]]
  <2>2. w \in Verdicts
    <3>1. f[m] \in Verdicts /\ hs[m + 1] \in Nat
      OBVIOUS
    <3>2. f[m].last \in Int
      BY <3>1 DEF Verdicts
    <3>3. MayVerifyFromNetwork(hs[m + 1], f[m].last) \in Verdicts
      BY <3>1, <3>2, NetworkIs
    <3> QED
      BY <3>1, <3>3
  <2>3. \A i \in 0..m : f[i] = IF i = 0 THEN [ok |-> TRUE, last |-> last]
                               ELSE IF ~f[i - 1].ok THEN f[i - 1]
                               ELSE MayVerifyFromNetwork(hs[i], f[i - 1].last)
    BY <2>1, Zenon DEF IsVerdict
  <2>4. ASSUME NEW i \in 0..(m + 1)
        PROVE  g[i] = IF i = 0 THEN [ok |-> TRUE, last |-> last]
                      ELSE IF ~g[i - 1].ok THEN g[i - 1]
                      ELSE MayVerifyFromNetwork(hs[i], g[i - 1].last)
    <3>1. CASE i = m + 1
      <4>1. i # 0 /\ i - 1 = m /\ i - 1 \in 0..(m + 1) /\ i - 1 # m + 1
        BY <3>1
      <4>2. g[i] = w /\ g[i - 1] = f[m]
        BY <3>1, <4>1
      <4> HIDE DEF g
      <4> QED
        BY <3>1, <4>1, <4>2, Zenon
    <3>2. CASE i # m + 1
      <4>1. i \in 0..m /\ (i # 0 => i - 1 \in 0..(m + 1) /\ i - 1 # m + 1)
        BY <3>2
      <4>2. g[i] = f[i] /\ (i # 0 => g[i - 1] = f[i - 1])
        BY <3>2, <4>1
      <4> HIDE DEF g
      <4> QED
        BY <2>3, <4>1, <4>2, Zenon
    <3> QED
      BY <3>1, <3>2
  <2>5. IsVerdict(g, hs, m + 1)
    BY <2>4, Zenon DEF IsVerdict
  <2>6. g \in [0..(m + 1) -> Verdicts]
    BY <2>2
  <2> QED
    BY <2>5, <2>6
<1> HIDE DEF S
<1>3. S = Nat
  BY <1>1, <1>2, Induction, Zenon DEF S
<1> QED
  BY <1>3 DEF S

\* A message passes when all its headers do, and is refused for one of them.
LEMMA HeadersNow ==
  ASSUME now \in Nat, best \in Nat, last \in Int, NEW hs \in Seq(Nat)
  PROVE  LET v == MayVerifyHeadersNow(hs)
         IN  /\ v \in Verdicts
             /\ v.ok => \A i \in 1..Len(hs) : Within(hs[i])
             /\ ~v.ok => \E i \in 1..Len(hs) : Refused(hs[i])
<1> DEFINE f == CHOOSE f : IsVerdict(f, hs, Len(hs))
<1>1. MayVerifyHeadersNow(hs) = f[Len(hs)]
  BY DEF MayVerifyHeadersNow, IsVerdict
<1>2. IsVerdict(f, hs, Len(hs))
  <2>1. \E g : IsVerdict(g, hs, Len(hs))
    BY VerdictExists
  <2> QED
    BY <2>1
<1> HIDE DEF f
<1>3. \A i \in 0..Len(hs) : f[i] = IF i = 0 THEN [ok |-> TRUE, last |-> last]
                                   ELSE IF ~f[i - 1].ok THEN f[i - 1]
                                   ELSE MayVerifyFromNetwork(hs[i], f[i - 1].last)
  BY <1>2, Zenon DEF IsVerdict
<1> DEFINE Good(m) == /\ f[m] \in Verdicts
                      /\ f[m].ok => \A i \in 1..m : Within(hs[i])
                      /\ ~f[m].ok => \E i \in 1..Len(hs) : Refused(hs[i])
           S == {m \in Nat : m <= Len(hs) => Good(m)}
<1>4. 0 \in S
  <2>1. 0 \in 0..Len(hs) /\ ~(\E i \in 1..0 : TRUE)
    OBVIOUS
  <2>2. f[0] = [ok |-> TRUE, last |-> last]
    BY <1>3, <2>1, Zenon
  <2>3. f[0] \in Verdicts /\ f[0].ok
    BY <2>2 DEF Verdicts
  <2>4. Good(0)
    BY <2>1, <2>3, Zenon
  <2> HIDE DEF Good
  <2> QED
    BY <2>4
<1>5. ASSUME NEW m \in S PROVE m + 1 \in S
  <2> SUFFICES ASSUME m + 1 <= Len(hs) PROVE Good(m + 1)
    OBVIOUS
  <2>1. Good(m) /\ m \in Nat
    OBVIOUS
  <2>2. f[m + 1] = IF ~f[m].ok THEN f[m] ELSE MayVerifyFromNetwork(hs[m + 1], f[m].last)
    <3>1. m + 1 \in 0..Len(hs) /\ m + 1 # 0 /\ (m + 1) - 1 = m
      BY <2>1
    <3> QED
      BY <1>3, <3>1
  <2>3. CASE ~f[m].ok
    BY <2>1, <2>2, <2>3
  <2>4. CASE f[m].ok
    <3>1. hs[m + 1] \in Nat /\ f[m].last \in Int
      BY <2>1 DEF Verdicts
    <3>2. /\ f[m + 1] \in Verdicts
          /\ f[m + 1].ok => Within(hs[m + 1])
          /\ ~f[m + 1].ok => Refused(hs[m + 1])
      BY <2>2, <2>4, <3>1, NetworkIs
    <3>3. \A i \in 1..(m + 1) : i \in 1..m \/ i = m + 1
      BY <2>1
    <3>4. m + 1 \in 1..Len(hs)
      BY <2>1
    <3> QED
      BY <2>1, <2>4, <3>2, <3>3, <3>4
  <2> QED
    BY <2>3, <2>4
<1> HIDE DEF S
<1>6. S = Nat
  BY <1>4, <1>5, Induction, Zenon DEF S
<1> QED
  BY <1>1, <1>6 DEF S

-----------------------------------------------------------------------------
(* The caches and the gate together.                                       *)

\* No slot, and no header the message thread has still to hash, lies more than an
\* epoch ahead of the clock.
DagInv ==
  /\ now \in Nat /\ best \in Nat /\ uses \in Nat /\ last \in Int /\ asked \in Nat /\ left \in Seq(Times)
  /\ Stamped(slots, uses) /\ Cardinality(DOMAIN slots) <= Entries
  /\ \A e \in DOMAIN slots : e \in Nat /\ e <= Epoch(now) + 1
  /\ asked <= Epoch(now)
  /\ \A i \in 1..Len(left) : Epoch(left[i]) <= asked + 1
  /\ NeverBuiltAhead
  /\ OnlyColdRefused

\* A use of a cache no more than an epoch ahead of the clock.
LEMMA GetCache ==
  ASSUME DagInv, NEW e \in Nat, e <= Epoch(now) + 1, get_cache(e)
  PROVE  /\ uses' \in Nat /\ Stamped(slots', uses') /\ Cardinality(DOMAIN slots') <= Entries
         /\ \A x \in DOMAIN slots' : x \in Nat /\ x <= Epoch(now) + 1
         /\ MovesUp(slots, slots', e)
<1>1. uses \in Nat /\ Stamped(slots, uses) /\ Cardinality(DOMAIN slots) <= Entries
  BY DEF DagInv
<1>2. uses' = uses + 1 /\ slots' = Used(slots, e, uses + 1)
  BY DEF get_cache, Used, Resident
<1>3. /\ Stamped(slots', uses + 1) /\ Cardinality(DOMAIN slots') <= Entries
      /\ DOMAIN slots' \in SUBSET (DOMAIN slots \cup {e})
      /\ MovesUp(slots, slots', e)
  BY <1>1, <1>2, UseIs
<1>4. \A x \in DOMAIN slots : x \in Nat /\ x <= Epoch(now) + 1
  BY DEF DagInv
<1> QED
  BY <1>1, <1>2, <1>3, <1>4

\* At the start nothing is resident and nothing is left to hash.
LEMMA DagInit ==
  ASSUME Init
  PROVE  DagInv
<1>1. /\ now \in Nat /\ best \in Nat /\ uses \in Nat /\ last \in Int /\ asked \in Nat
      /\ left = <<>> /\ left \in Seq(Times) /\ Len(left) = 0
  BY MetalDAGAssumption DEF Init
<1>2. DOMAIN slots = {}
  BY DEF Init
<1>3. Stamped(slots, uses) /\ Cardinality(DOMAIN slots) <= Entries
  BY <1>2, FS_EmptySet, MetalDAGAssumption DEF Stamped
<1>4. asked <= Epoch(now)
  <2>1. asked = 0 /\ Epoch(now) \in Nat
    BY <1>1, EpochIs DEF Init
  <2> QED
    BY <2>1
<1>5. NeverBuiltAhead /\ OnlyColdRefused
  BY DEF Init, NeverBuiltAhead, OnlyColdRefused, NoBuild, NoVerdict
<1> QED
  BY <1>1, <1>2, <1>3, <1>4, <1>5 DEF DagInv

\* A message is a sequence of times.
LEMMA MessageIs ==
  ASSUME NEW hs \in Messages
  PROVE  hs \in Seq(Times) /\ hs \in Seq(Nat) /\ DOMAIN hs = 1..Len(hs)
<1>1. PICK n \in 1..MaxHeaders : hs \in [1..n -> Times]
  BY DEF Messages
<1>2. n \in Nat /\ Times \subseteq Nat
  BY MetalDAGAssumption
<1>3. hs \in Seq(Times)
  BY <1>1, <1>2
<1>4. hs \in [1..n -> Nat]
  BY <1>1, <1>2, Zenon
<1>5. hs \in Seq(Nat)
  BY <1>2, <1>4
<1> QED
  BY <1>3, <1>5

\* A message passes the gate whole, or leaves nothing to hash.
LEMMA DagMessage ==
  ASSUME DagInv, NEW hs \in Messages, Message(hs)
  PROVE  DagInv'
<1> DEFINE v == MayVerifyHeadersNow(hs)
<1>1. now \in Nat /\ best \in Nat /\ last \in Int
  BY DEF DagInv
<1>2. /\ hs \in Seq(Times) /\ hs \in Seq(Nat) /\ DOMAIN hs = 1..Len(hs)
      /\ Len(hs) \in Nat /\ \A i \in 1..Len(hs) : hs[i] \in Nat
  BY MessageIs
<1>3. /\ v \in Verdicts
      /\ v.ok => \A i \in 1..Len(hs) : Within(hs[i])
      /\ ~v.ok => \E i \in 1..Len(hs) : Refused(hs[i])
  BY <1>1, <1>2, HeadersNow
<1>4. /\ last' = v.last /\ left' = (IF v.ok THEN hs ELSE <<>>) /\ asked' = (IF v.ok THEN Epoch(now) ELSE 0)
      /\ gate' = Seen(hs, v.ok) /\ built' = NoBuild
      /\ now' = now /\ best' = best /\ slots' = slots /\ uses' = uses
  BY DEF Message
<1> HIDE DEF v
<1>5. Epoch(now) \in Nat /\ Epoch(best) \in Nat /\ \A i \in 1..Len(hs) : Epoch(hs[i]) \in Nat
  BY <1>1, <1>2, EpochIs, Zenon
<1>6. /\ last' \in Int /\ left' \in Seq(Times) /\ asked' \in Nat /\ asked' <= Epoch(now)
  <2>1. v.last \in Int /\ <<>> \in Seq(Times)
    BY <1>3 DEF Verdicts
  <2> QED
    BY <1>2, <1>4, <1>5, <2>1
<1>7. \A i \in 1..Len(left') : Epoch(left'[i]) <= asked' + 1
  <2>1. CASE v.ok
    <3>1. \A i \in 1..Len(hs) : Epoch(hs[i]) <= Epoch(now) + 1
      BY <1>3, <2>1 DEF Within, Resident, Hi, DagInv
    <3> QED
      BY <1>4, <2>1, <3>1
  <2>2. CASE ~v.ok
    BY <1>4, <2>2
  <2> QED
    BY <2>1, <2>2
<1>8. OnlyColdRefused'
  <2> DEFINE absent == {Epoch(hs[i]) : i \in DOMAIN hs} \ DOMAIN slots
             cold == \E e \in absent : e + 1 < Epoch(best)
             ahead == \E e \in absent : e > Epoch(now) + 1
  <2>1. gate'.ok = v.ok /\ gate'.cold = cold /\ gate'.ahead = ahead
    BY <1>4 DEF Seen
  <2>2. ~v.ok => cold \/ ahead
    <3> SUFFICES ASSUME ~v.ok PROVE cold \/ ahead
      OBVIOUS
    <3>1. PICK i \in 1..Len(hs) : Refused(hs[i])
      BY <1>3
    <3> DEFINE e == Epoch(hs[i])
    <3>2. e \in absent /\ e \in Nat
      BY <1>2, <1>5, <3>1 DEF Refused, Resident
    <3>3. e > Hi \/ e < Lo
      BY <3>1 DEF Refused
    <3> HIDE DEF e, absent
    <3>4. e > Epoch(now) + 1 \/ e + 1 < Epoch(best)
      BY <1>5, <3>2, <3>3 DEF Hi, Lo
    <3> QED
      BY <3>2, <3>4
  <2> HIDE DEF cold, ahead
  <2> QED
    BY <2>1, <2>2 DEF OnlyColdRefused
<1>9. NeverBuiltAhead'
  BY <1>4 DEF NeverBuiltAhead, NoBuild
<1>10. Epoch(now)' = Epoch(now)
  BY <1>4 DEF Epoch
<1> QED
  BY <1>4, <1>6, <1>7, <1>8, <1>9, <1>10 DEF DagInv

\* The next header to hash, and those after it.
LEMMA NextHeader ==
  ASSUME DagInv, left # <<>>
  PROVE  /\ Head(left) \in Times /\ Epoch(Head(left)) \in Nat
         /\ Epoch(Head(left)) <= asked + 1 /\ Epoch(Head(left)) <= Epoch(now) + 1
         /\ Tail(left) \in Seq(Times)
         /\ \A i \in 1..Len(Tail(left)) : Epoch(Tail(left)[i]) <= asked + 1
<1>1. left \in Seq(Times) /\ Times \subseteq Nat
  BY MetalDAGAssumption DEF DagInv
<1>2. /\ 1 \in 1..Len(left) /\ Head(left) = left[1] /\ Head(left) \in Times /\ Head(left) \in Nat
      /\ Tail(left) \in Seq(Times)
      /\ \A i \in 1..Len(Tail(left)) : i + 1 \in 1..Len(left) /\ Tail(left)[i] = left[i + 1]
  <2>1. Len(left) \in Nat /\ Len(left) # 0 /\ Len(Tail(left)) = Len(left) - 1 /\ Tail(left) \in Seq(Times)
    BY <1>1
  <2>2. 1 \in 1..Len(left) /\ Head(left) = left[1] /\ left[1] \in Times
    BY <1>1, <2>1
  <2>3. \A i \in 1..Len(Tail(left)) : Tail(left)[i] = left[i + 1]
    BY <1>1, <2>1
  <2>4. \A i \in 1..Len(Tail(left)) : i + 1 \in 1..Len(left)
    BY <2>1
  <2> QED
    BY <1>1, <2>1, <2>2, <2>3, <2>4, Zenon
<1>3. \A i \in 1..Len(left) : Epoch(left[i]) <= asked + 1
  BY DEF DagInv
<1>4. asked \in Nat /\ asked <= Epoch(now) /\ Epoch(now) \in Nat
  BY EpochIs DEF DagInv
<1>5. Epoch(Head(left)) \in Nat /\ Epoch(Head(left)) <= asked + 1
  BY <1>2, <1>3, EpochIs
<1>6. Epoch(Head(left)) <= Epoch(now) + 1
  BY <1>4, <1>5
<1>7. \A i \in 1..Len(Tail(left)) : Epoch(Tail(left)[i]) <= asked + 1
  BY <1>2, <1>3
<1> QED
  BY <1>2, <1>5, <1>6, <1>7

\* The message thread hashes its next header.
LEMMA DagHash ==
  ASSUME DagInv, HashNext
  PROVE  DagInv'
<1> DEFINE e == Epoch(Head(left))
<1>1. /\ left # <<>> /\ get_cache(e)
      /\ built' = (IF Resident(e) THEN NoBuild ELSE [epoch |-> e, asked |-> asked])
      /\ left' = Tail(left) \/ left' = <<>>
      /\ asked' = (IF left' = <<>> THEN 0 ELSE asked)
      /\ gate' = NoVerdict /\ now' = now /\ best' = best /\ last' = last
  BY DEF HashNext
<1>2. /\ e \in Nat /\ e <= asked + 1 /\ e <= Epoch(now) + 1 /\ Tail(left) \in Seq(Times)
      /\ \A i \in 1..Len(Tail(left)) : Epoch(Tail(left)[i]) <= asked + 1
  BY <1>1, NextHeader
<1> HIDE DEF e
<1>3. /\ uses' \in Nat /\ Stamped(slots', uses') /\ Cardinality(DOMAIN slots') <= Entries
      /\ \A x \in DOMAIN slots' : x \in Nat /\ x <= Epoch(now) + 1
  BY <1>1, <1>2, GetCache
<1>4. asked \in Nat /\ asked <= Epoch(now) /\ Epoch(now) \in Nat /\ now \in Nat /\ best \in Nat /\ last \in Int
  BY EpochIs DEF DagInv
<1>5. asked' \in Nat /\ asked' <= Epoch(now)
  BY <1>1, <1>4
<1>6. left' \in Seq(Times) /\ \A i \in 1..Len(left') : Epoch(left'[i]) <= asked' + 1
  <2>1. CASE left' = <<>>
    BY <2>1
  <2>2. CASE left' # <<>>
    <3>1. left' = Tail(left) /\ asked' = asked
      BY <1>1, <2>2
    <3> QED
      BY <1>2, <3>1
  <2> QED
    BY <2>1, <2>2
<1>7. NeverBuiltAhead'
  BY <1>1, <1>2 DEF NeverBuiltAhead, NoBuild
<1>8. OnlyColdRefused'
  BY <1>1 DEF OnlyColdRefused, NoVerdict
<1>9. Epoch(now)' = Epoch(now)
  BY <1>1 DEF Epoch
<1> QED
  BY <1>1, <1>3, <1>4, <1>5, <1>6, <1>7, <1>8, <1>9 DEF DagInv

\* Another thread hashes a header that is not too new.
LEMMA DagLocal ==
  ASSUME DagInv, NEW t \in Times, LocalHash(t)
  PROVE  DagInv'
<1>1. /\ Epoch(t) <= Epoch(now) + 1 /\ get_cache(Epoch(t)) /\ now' = now /\ best' = best /\ last' = last
      /\ left' = left /\ asked' = asked /\ gate' = gate /\ built' = built
  BY DEF LocalHash, Hi
<1>2. Epoch(t) \in Nat
  BY EpochIs, MetalDAGAssumption
<1>3. /\ uses' \in Nat /\ Stamped(slots', uses') /\ Cardinality(DOMAIN slots') <= Entries
      /\ \A x \in DOMAIN slots' : x \in Nat /\ x <= Epoch(now) + 1
  BY <1>1, <1>2, GetCache
<1>4. Epoch(now)' = Epoch(now)
  BY <1>1 DEF Epoch
<1>5. NeverBuiltAhead' /\ OnlyColdRefused'
  BY <1>1 DEF DagInv, NeverBuiltAhead, OnlyColdRefused
<1> QED
  BY <1>1, <1>3, <1>4, <1>5 DEF DagInv

\* Every step keeps the invariant.
LEMMA DagStep ==
  ASSUME DagInv, [Next]_vars
  PROVE  DagInv'
<1>1. CASE Tick
  <2>1. /\ now' = now + 1 /\ best' = best /\ slots' = slots /\ uses' = uses /\ last' = last
        /\ left' = left /\ asked' = asked /\ gate' = gate /\ built' = built
    BY <1>1 DEF Tick
  <2>2. now \in Nat /\ now' \in Nat /\ now <= now'
    BY <2>1 DEF DagInv
  <2>3. Epoch(now) <= Epoch(now') /\ Epoch(now) \in Nat /\ Epoch(now') \in Nat
    BY <2>2, EpochGrows, EpochIs
  <2>4. Epoch(now)' = Epoch(now')
    BY DEF Epoch
  <2>5. \A e \in DOMAIN slots : e \in Nat /\ e <= Epoch(now') + 1
    BY <2>3 DEF DagInv
  <2>6. asked <= Epoch(now')
    BY <2>3 DEF DagInv
  <2>7. NeverBuiltAhead' /\ OnlyColdRefused'
    BY <2>1 DEF DagInv, NeverBuiltAhead, OnlyColdRefused
  <2>8. \A i \in 1..Len(left) : Epoch(left[i]) <= asked + 1
    BY DEF DagInv
  <2> QED
    BY <2>1, <2>2, <2>4, <2>5, <2>6, <2>7, <2>8 DEF DagInv
<1>2. CASE BestHeader
  <2>1. /\ now' = now /\ best' \in Times /\ slots' = slots /\ uses' = uses /\ last' = last
        /\ left' = left /\ asked' = asked /\ gate' = gate /\ built' = built
    BY <1>2 DEF BestHeader
  <2>2. best' \in Nat /\ Epoch(now)' = Epoch(now)
    BY <2>1, MetalDAGAssumption DEF Epoch
  <2>3. NeverBuiltAhead' /\ OnlyColdRefused'
    BY <2>1 DEF DagInv, NeverBuiltAhead, OnlyColdRefused
  <2> QED
    BY <2>1, <2>2, <2>3 DEF DagInv
<1>3. CASE HashNext
  BY <1>3, DagHash
<1>4. CASE \E hs \in Messages : Message(hs)
  BY <1>4, DagMessage
<1>5. CASE \E t \in Times : LocalHash(t)
  BY <1>5, DagLocal
<1>6. CASE UNCHANGED vars
  <2>1. /\ now' = now /\ best' = best /\ slots' = slots /\ uses' = uses /\ last' = last
        /\ left' = left /\ asked' = asked /\ gate' = gate /\ built' = built
    BY <1>6 DEF vars
  <2>2. NeverBuiltAhead' /\ OnlyColdRefused' /\ Epoch(now)' = Epoch(now)
    BY <2>1 DEF DagInv, NeverBuiltAhead, OnlyColdRefused, Epoch
  <2> QED
    BY <2>1, <2>2 DEF DagInv
<1> QED
  BY <1>1, <1>2, <1>3, <1>4, <1>5, <1>6 DEF Next

\* MayVerifyHeadersNow and the caches, for every epoch length, number of slots and
\* length of message: no header of a peer makes the message thread build a cache
\* more than one epoch ahead of the clock the gate read.
THEOREM NothingBuiltAhead == Spec => []NeverBuiltAhead
<1>1. DagInv => NeverBuiltAhead
  BY DEF DagInv
<1> QED
  BY <1>1, DagInit, DagStep, PTL DEF Spec

\* And a message is refused only for a header of an epoch behind the best header's
\* or ahead of the clock, whatever is resident.
THEOREM OnlyColdIsRefused == Spec => []OnlyColdRefused
<1>1. DagInv => OnlyColdRefused
  BY DEF DagInv
<1> QED
  BY <1>1, DagInit, DagStep, PTL DEF Spec

\* g_cache_by_key with its last_use stamps implements a list of the last Entries
\* epochs used: a use moves its epoch to the front, and only the last one drops out.
THEOREM EvictionByUse == Spec => EvictsLeastRecent
<1>1. Init => Recency!Init
  <2> SUFFICES ASSUME Init PROVE ByUse = <<>>
    BY DEF Recency!Init
  <2>1. DOMAIN slots = {}
    BY DEF Init
  <2>2. Cardinality(DOMAIN slots) = 0
    BY <2>1, FS_EmptySet
  <2>3. ByUse = Order(slots)
    BY DEF ByUse, Order, Rank, After
  <2>4. DOMAIN Order(slots) = 1..0 /\ Order(slots) = [i \in 1..0 |-> Order(slots)[i]]
    BY <2>2 DEF Order
  <2> QED
    BY <2>3, <2>4
<1>2. ASSUME DagInv, [Next]_vars PROVE [Recency!Next]_ByUse
  <2> DEFINE after == ByUse'
  <2>1. ByUse = Order(slots) /\ after = Order(slots')
    BY DEF ByUse, Order, Rank, After
  <2>2. CASE slots' = slots
    BY <2>1, <2>2
  <2>3. ASSUME NEW t \in Times, get_cache(Epoch(t)), Epoch(t) <= Epoch(now) + 1 PROVE Recency!Next
    <3> DEFINE k == Epoch(t)
    <3>1. k \in Nat /\ k \in Epochs
      BY EpochIs, MetalDAGAssumption DEF Epochs
    <3>2. MovesUp(slots, slots', k)
      BY <1>2, <2>3, <3>1, GetCache
    <3> HIDE DEF k
    <3>3. Recency!Use(k)
      BY <2>1, <3>2 DEF Recency!Use, Recency!Place, MovesUp, Given, Front
    <3> QED
      BY <3>1, <3>3 DEF Recency!Next
  <2>4. CASE HashNext
    <3>1. left # <<>> /\ get_cache(Epoch(Head(left)))
      BY <2>4 DEF HashNext
    <3>2. Head(left) \in Times /\ Epoch(Head(left)) <= Epoch(now) + 1
      BY <1>2, <3>1, NextHeader
    <3> QED
      BY <2>3, <3>1, <3>2
  <2>5. CASE \E t \in Times : LocalHash(t)
    <3>1. PICK t \in Times : LocalHash(t)
      BY <2>5
    <3>2. get_cache(Epoch(t)) /\ Epoch(t) <= Epoch(now) + 1
      BY <3>1 DEF LocalHash, Hi
    <3> QED
      BY <2>3, <3>2
  <2>6. \/ slots' = slots \/ HashNext \/ \E t \in Times : LocalHash(t)
    BY <1>2 DEF Next, Tick, BestHeader, Message, vars
  <2> QED
    BY <2>2, <2>4, <2>5, <2>6
<1> QED
  BY <1>1, <1>2, DagInit, DagStep, PTL DEF Spec, EvictsLeastRecent, Recency!Spec
=============================================================================
