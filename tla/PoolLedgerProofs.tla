-------------------------- MODULE PoolLedgerProofs -------------------------
(***************************************************************************)
(* What the pool remembers, for every set of scripts, difficulties and     *)
(* window sizes and any number of shares, wins, sessions, failed writes    *)
(* and crashes.                                                            *)
(***************************************************************************)
EXTENDS PoolLedger, WellFoundedInduction, TLAPS

-----------------------------------------------------------------------------
(* Induction over the natural numbers, and the sums of a sequence.         *)

\* Every set of natural numbers that has a member has a least one.
LEMMA LeastMember ==
  ASSUME NEW T \in SUBSET Nat, T # {}
  PROVE  \E x \in T : \A y \in T : x <= y
<1> DEFINE R == {ss \in Nat \X Nat : ss[1] < ss[2]}
<1>1. IsWellFoundedOn(R, Nat)
  BY NatLessThanWellFounded DEF OpToRel
<1> HIDE DEF R
<1>2. PICK x \in T : \A y \in T : ~(<<y, x>> \in R)
  BY <1>1, WFMin, Zenon
<1>3. \A y \in Nat : <<y, x>> \in R <=> y < x
  BY DEF R
<1>4. \A y \in T : x \in Nat /\ y \in Nat /\ ~(y < x)
  BY <1>2, <1>3, Zenon
<1> QED
  BY <1>4

\* A set that holds zero and with every number the next one holds them all.
LEMMA Induction ==
  ASSUME NEW S \in SUBSET Nat, 0 \in S, \A n \in S : n + 1 \in S
  PROVE  S = Nat
<1> SUFFICES ASSUME Nat \ S # {} PROVE FALSE
  BY Zenon
<1>1. PICK x \in Nat \ S : \A y \in Nat \ S : x <= y
  BY LeastMember, Zenon
<1>2. x - 1 \in Nat /\ x - 1 \notin Nat \ S
  BY <1>1
<1> QED
  BY <1>1, <1>2

IsSums(f, ns, n) == f = [i \in 0..n |-> IF i = 0 THEN 0 ELSE f[i - 1] + ns[i]]

\* The recursion of Sums has a solution.
LEMMA SumsExist ==
  ASSUME NEW ns \in Seq(Int), NEW n \in 0..Len(ns)
  PROVE  \E f \in [0..n -> Int] : IsSums(f, ns, n)
<1> DEFINE S == {m \in Nat : m <= Len(ns) => \E f \in [0..m -> Int] : IsSums(f, ns, m)}
<1>1. 0 \in S
  <2>1. [i \in 0..0 |-> 0] \in [0..0 -> Int] /\ IsSums([i \in 0..0 |-> 0], ns, 0)
    BY DEF IsSums
  <2> QED
    BY <2>1
<1>2. ASSUME NEW m \in S PROVE m + 1 \in S
  <2> SUFFICES ASSUME m + 1 <= Len(ns) PROVE \E f \in [0..(m + 1) -> Int] : IsSums(f, ns, m + 1)
    OBVIOUS
  <2>1. PICK f \in [0..m -> Int] : IsSums(f, ns, m)
    OBVIOUS
  <2> DEFINE g == [i \in 0..(m + 1) |-> IF i = m + 1 THEN f[m] + ns[m + 1] ELSE f[i]]
  <2>2. g \in [0..(m + 1) -> Int]
    OBVIOUS
  <2>3. \A i \in 0..m : f[i] = IF i = 0 THEN 0 ELSE f[i - 1] + ns[i]
    BY <2>1 DEF IsSums
  <2>4. ASSUME NEW i \in 0..(m + 1) PROVE g[i] = IF i = 0 THEN 0 ELSE g[i - 1] + ns[i]
    <3>1. CASE i = m + 1
      <4>1. i # 0 /\ i - 1 = m /\ i - 1 \in 0..(m + 1) /\ i - 1 # m + 1
        BY <3>1
      <4> QED
        BY <3>1, <4>1
    <3>2. CASE i # m + 1
      <4>1. i \in 0..m /\ (i # 0 => i - 1 \in 0..(m + 1) /\ i - 1 # m + 1)
        BY <3>2
      <4> QED
        BY <2>3, <3>2, <4>1
    <3> QED
      BY <3>1, <3>2
  <2>5. IsSums(g, ns, m + 1)
    BY <2>4, Zenon DEF IsSums
  <2> QED
    BY <2>2, <2>5, Zenon
<1> HIDE DEF S
<1>3. S = Nat
  BY <1>1, <1>2, Induction, Zenon DEF S
<1> QED
  BY <1>3 DEF S

\* Sums is a solution of its recursion, and a sequence of integers has integer sums.
LEMMA SumsAre ==
  ASSUME NEW ns \in Seq(Int)
  PROVE  /\ Sums(ns) \in [0..Len(ns) -> Int]
         /\ Sums(ns)[0] = 0
         /\ \A i \in 1..Len(ns) : Sums(ns)[i] = Sums(ns)[i - 1] + ns[i]
<1>1. Sums(ns) = CHOOSE f : IsSums(f, ns, Len(ns))
  BY DEF Sums, IsSums
<1>2. \E f : IsSums(f, ns, Len(ns))
  BY SumsExist
<1>3. IsSums(Sums(ns), ns, Len(ns))
  BY <1>1, <1>2
<1> DEFINE f == Sums(ns)
<1>4. DOMAIN f = 0..Len(ns) /\ \A i \in 0..Len(ns) : f[i] = IF i = 0 THEN 0 ELSE f[i - 1] + ns[i]
  BY <1>3, Zenon DEF IsSums
<1>5. f = [i \in 0..Len(ns) |-> f[i]]
  BY <1>3 DEF IsSums
<1> HIDE DEF f
<1> DEFINE S == {m \in Nat : m <= Len(ns) => f[m] \in Int}
<1>6. 0 \in S
  BY <1>4
<1>7. \A m \in S : m + 1 \in S
  BY <1>4
<1> HIDE DEF S
<1>8. S = Nat
  BY <1>6, <1>7, Induction, Zenon DEF S
<1>9. \A i \in 0..Len(ns) : f[i] \in Int
  BY <1>8 DEF S
<1>10. f \in [0..Len(ns) -> Int]
  BY <1>5, <1>9
<1>11. f[0] = 0 /\ \A i \in 1..Len(ns) : f[i] = f[i - 1] + ns[i]
  BY <1>4
<1> QED
  BY <1>10, <1>11 DEF f

\* A run of a sequence sums to the difference of the sums at its ends.
LEMMA SumsOfRun ==
  ASSUME NEW ns \in Seq(Int), NEW ms \in Seq(Int), NEW d \in Nat,
         d + Len(ms) <= Len(ns), \A i \in 1..Len(ms) : ms[i] = ns[d + i]
  PROVE  \A i \in 0..Len(ms) : Sums(ms)[i] = Sums(ns)[d + i] - Sums(ns)[d]
<1>1. PICK N \in Nat : N = Len(ns) /\ ns \in [1..N -> Int]
  OBVIOUS
<1>2. PICK M \in Nat : M = Len(ms) /\ ms \in [1..M -> Int]
  OBVIOUS
<1>3. PICK f \in [0..N -> Int] : f = Sums(ns) /\ \A i \in 1..N : f[i] = f[i - 1] + ns[i]
  BY <1>1, SumsAre, Zenon
<1>4. PICK g \in [0..M -> Int] :
        g = Sums(ms) /\ g[0] = 0 /\ \A i \in 1..M : g[i] = g[i - 1] + ms[i]
  BY <1>2, SumsAre, Zenon
<1>5. d + M <= N /\ \A i \in 1..M : ms[i] = ns[d + i]
  BY <1>1, <1>2
<1> DEFINE S == {m \in Nat : m <= M => g[m] = f[d + m] - f[d]}
<1>6. 0 \in S
  <2>1. f[d] \in Int /\ d + 0 = d
    BY <1>5
  <2> QED
    BY <1>4, <2>1
<1>7. ASSUME NEW m \in Nat, m \in S PROVE m + 1 \in S
  <2> SUFFICES ASSUME m + 1 <= M PROVE g[m + 1] = f[d + (m + 1)] - f[d]
    OBVIOUS
  <2>1. g[m] = f[d + m] - f[d]
    BY <1>7
  <2>2. m + 1 \in 1..M /\ d + (m + 1) \in 1..N
    BY <1>5
  <2>3. ms[m + 1] = ns[d + (m + 1)]
    BY <1>5, <2>2, Zenon
  <2>4. g[m + 1] = g[(m + 1) - 1] + ms[m + 1]
    BY <1>4, <2>2, Zenon
  <2>5. f[d + (m + 1)] = f[(d + (m + 1)) - 1] + ns[d + (m + 1)]
    BY <1>3, <2>2, Zenon
  <2>6. (m + 1) - 1 = m /\ (d + (m + 1)) - 1 = d + m /\ d + m \in 0..N /\ d \in 0..N
    BY <1>5
  <2>7. ns[d + (m + 1)] \in Int /\ f[d + m] \in Int /\ f[d] \in Int
    BY <1>1, <2>2, <2>6, Zenon
  <2>8. \A a, b, c \in Int : (a - b) + c = (a + c) - b
    OBVIOUS
  <2>9. (f[d + m] - f[d]) + ns[d + (m + 1)] = (f[d + m] + ns[d + (m + 1)]) - f[d]
    BY <2>7, <2>8, Zenon
  <2> QED
    BY <2>1, <2>3, <2>4, <2>5, <2>6, <2>9, Zenon
<1> HIDE DEF S
<1>8. S = Nat
  BY <1>6, <1>7, Induction, Zenon DEF S
<1>9. \A m \in Nat : m <= M => g[m] = f[d + m] - f[d]
  BY <1>8, Zenon DEF S
<1> QED
  BY <1>1, <1>2, <1>3, <1>4, <1>9

-----------------------------------------------------------------------------
(* The window.                                                             *)

ShareRecords == [spk : Scripts, diff : Diffs]

DiffsOf(js) == [i \in DOMAIN js |-> js[i].diff]

\* The difficulties of a window are integers, and its weight is their last sum.
LEMMA DiffsAre ==
  ASSUME NEW js \in Seq(ShareRecords)
  PROVE  /\ DiffsOf(js) \in Seq(Int) /\ Len(DiffsOf(js)) = Len(js)
         /\ \A i \in 1..Len(js) : DiffsOf(js)[i] = js[i].diff
         /\ Weight(js) = Sums(DiffsOf(js))[Len(js)]
<1>1. \A i \in 1..Len(js) : js[i] \in ShareRecords
  OBVIOUS
<1>2. \A i \in 1..Len(js) : js[i].diff \in Int
  <2>1. \A x \in Diffs : x \in Int
    BY PplnsAssumption
  <2>2. \A r \in ShareRecords : r.diff \in Diffs
    BY DEF ShareRecords
  <2> QED
    BY <1>1, <2>1, <2>2, Zenon
<1>3. DiffsOf(js) = [i \in 1..Len(js) |-> js[i].diff]
  BY DEF DiffsOf
<1>4. DiffsOf(js) \in Seq(Int) /\ Len(DiffsOf(js)) = Len(js)
  BY <1>2, <1>3
<1>5. Weight(js) = Sums(DiffsOf(js))[Len(DiffsOf(js))]
  BY DEF Weight, Total, DiffsOf
<1> QED
  BY <1>3, <1>4, <1>5

\* The weight of a run of shares is the difference of the sums at its ends.
LEMMA WeightOfRun ==
  ASSUME NEW js \in Seq(ShareRecords), NEW d \in Nat, NEW e \in Nat, d <= e, e <= Len(js)
  PROVE  Weight(SubSeq(js, d + 1, e)) = Sums(DiffsOf(js))[e] - Sums(DiffsOf(js))[d]
<1> DEFINE run == SubSeq(js, d + 1, e)
<1>1. /\ run \in Seq(ShareRecords) /\ Len(run) = e - d
      /\ \A i \in 1..(e - d) : run[i] = js[d + i]
  OBVIOUS
<1> HIDE DEF run
<1>2. /\ DiffsOf(run) \in Seq(Int) /\ Len(DiffsOf(run)) = e - d
      /\ \A i \in 1..(e - d) : DiffsOf(run)[i] = run[i].diff
      /\ Weight(run) = Sums(DiffsOf(run))[e - d]
  BY <1>1, DiffsAre
<1>3. /\ DiffsOf(js) \in Seq(Int) /\ Len(DiffsOf(js)) = Len(js)
      /\ \A i \in 1..Len(js) : DiffsOf(js)[i] = js[i].diff
  BY DiffsAre
<1>4. ASSUME NEW i \in 1..Len(DiffsOf(run)) PROVE DiffsOf(run)[i] = DiffsOf(js)[d + i]
  <2>1. i \in 1..(e - d) /\ d + i \in 1..Len(js)
    BY <1>2
  <2> QED
    BY <1>1, <1>2, <1>3, <2>1, Zenon
<1>5. d + Len(DiffsOf(run)) <= Len(DiffsOf(js))
  BY <1>2, <1>3
<1>6. \A i \in 0..Len(DiffsOf(run)) :
        Sums(DiffsOf(run))[i] = Sums(DiffsOf(js))[d + i] - Sums(DiffsOf(js))[d]
  BY <1>2, <1>3, <1>4, <1>5, SumsOfRun, Zenon
<1>7. e - d \in 0..Len(DiffsOf(run)) /\ d + (e - d) = e
  BY <1>2
<1> QED
  BY <1>2, <1>6, <1>7 DEF run

\* The weight of the first d shares and of the rest make up the whole.
LEMMA WeightSplits ==
  ASSUME NEW js \in Seq(ShareRecords), NEW d \in 0..Len(js)
  PROVE  /\ Weight(js) \in Int
         /\ Weight(SubSeq(js, 1, d)) \in Int
         /\ Weight(SubSeq(js, d + 1, Len(js))) = Weight(js) - Weight(SubSeq(js, 1, d))
<1> DEFINE f == Sums(DiffsOf(js))
<1>1. f \in [0..Len(js) -> Int] /\ f[0] = 0 /\ Weight(js) = f[Len(js)]
  BY DiffsAre, SumsAre
<1>2. Weight(SubSeq(js, d + 1, Len(js))) = f[Len(js)] - f[d]
  BY WeightOfRun
<1>3. Weight(SubSeq(js, 0 + 1, d)) = f[d] - f[0]
  BY WeightOfRun
<1> HIDE DEF f
<1>4. f[d] \in Int /\ f[Len(js)] \in Int
  BY <1>1
<1> QED
  BY <1>1, <1>2, <1>3, <1>4

\* The window a start finds without a file.
LEMMA EmptyWindow == <<>> \in Seq(ShareRecords) /\ Weight(<<>>) = 0
<1>1. <<>> \in Seq(ShareRecords) /\ Len(<<>>) = 0
  OBVIOUS
<1> DEFINE js == <<>>
<1> HIDE DEF js
<1>2. js \in Seq(ShareRecords) /\ Len(js) = 0
  BY <1>1 DEF js
<1>3. DiffsOf(js) \in Seq(Int) /\ Weight(js) = Sums(DiffsOf(js))[0]
  BY <1>2, DiffsAre, Zenon
<1>4. Weight(js) = 0
  BY <1>3, SumsAre
<1> QED
  BY <1>1, <1>4 DEF js

\* The loop of add stops, and before the last share.
LEMMA DropStops ==
  ASSUME NEW js \in Seq(ShareRecords), js # <<>>, NEW tot, NEW lim
  PROVE  /\ Drop(js, tot, lim) \in 0..(Len(js) - 1)
         /\ ~MayDrop(js, tot, lim, Drop(js, tot, lim))
<1> DEFINE T == {d \in 0..(Len(js) - 1) : ~MayDrop(js, tot, lim, d)}
<1>1. Len(js) - 1 \in 0..(Len(js) - 1) /\ ~(Len(js) - 1 < Len(js) - 1)
  OBVIOUS
<1>2. Len(js) - 1 \in T
  BY <1>1 DEF MayDrop
<1>3. T \in SUBSET Nat /\ T # {}
  BY <1>2
<1>4. PICK d \in T : \A e \in T : d <= e
  BY <1>3, LeastMember, Zenon
<1>5. \A e \in 0..(d - 1) : e \in 0..(Len(js) - 1) /\ ~(d <= e)
  OBVIOUS
<1>6. \A e \in 0..(d - 1) : MayDrop(js, tot, lim, e)
  BY <1>4, <1>5
<1>7. \E x \in 0..(Len(js) - 1) :
        ~MayDrop(js, tot, lim, x) /\ \A e \in 0..(x - 1) : MayDrop(js, tot, lim, e)
  BY <1>6
<1> QED
  BY <1>7 DEF Drop

\* A share that is added leaves the shortest window, and its weight as the total.
LEMMA AddKeeps ==
  ASSUME shares \in Seq(ShareRecords), total = Weight(shares),
         NEW spk \in Scripts, NEW diff \in Diffs, NEW lim \in Limits, Add(spk, diff, lim)
  PROVE  /\ shares' \in Seq(ShareRecords) /\ total' = Weight(shares') /\ limit' \in Nat
         /\ ShortestWindow'
<1> DEFINE sh == [spk |-> spk, diff |-> diff]
           js == Append(shares, sh)
           tot == total + diff
           drop == Drop(js, tot, lim)
<1>1. sh \in ShareRecords /\ sh.diff = diff /\ diff \in Int /\ lim \in Nat
  BY PplnsAssumption DEF ShareRecords
<1>2. /\ shares' = SubSeq(js, drop + 1, Len(js))
      /\ total' = total + (diff - Weight(SubSeq(js, 1, drop)))
      /\ limit' = lim
  BY Zenon DEF Add
<1>3. total \in Int
  <2>1. Len(shares) \in 0..Len(shares)
    OBVIOUS
  <2> QED
    BY <2>1, WeightSplits
<1> HIDE DEF sh
<1>4. /\ js \in Seq(ShareRecords) /\ js # <<>> /\ Len(js) = Len(shares) + 1
      /\ js[Len(js)] = sh /\ SubSeq(js, 1, Len(js) - 1) = shares
  BY <1>1
<1> HIDE DEF js
<1>5. drop \in 0..(Len(js) - 1) /\ ~MayDrop(js, tot, lim, drop)
  BY <1>4, DropStops
<1>6. tot = Weight(js)
  <2> DEFINE f == Sums(DiffsOf(js))
             n == Len(js)
  <2>1. /\ DiffsOf(js) \in Seq(Int) /\ Len(DiffsOf(js)) = n
        /\ DiffsOf(js)[n] = diff /\ Weight(js) = f[n]
    BY <1>1, <1>4, DiffsAre
  <2>2. n \in 1..n /\ n - 1 \in 0..n /\ n - 1 \in Nat /\ n - 1 <= n /\ 0 <= n - 1 /\ 0 + 1 = 1
    BY <1>4
  <2>3. /\ f \in [0..n -> Int] /\ f[0] = 0
        /\ \A i \in 1..n : f[i] = f[i - 1] + DiffsOf(js)[i]
    BY <2>1, SumsAre
  <2> HIDE DEF n
  <2>4. f[0] = 0 /\ f[n] = f[n - 1] + DiffsOf(js)[n] /\ f[n - 1] \in Int
    BY <2>2, <2>3, Zenon
  <2>5. Weight(SubSeq(js, 0 + 1, n - 1)) = f[n - 1] - f[0]
    BY <1>4, <2>2, WeightOfRun DEF n
  <2>6. SubSeq(js, 0 + 1, n - 1) = shares
    BY <1>4, <2>2 DEF n
  <2> HIDE DEF f
  <2>7. Weight(shares) = f[n - 1] - f[0]
    BY <2>5, <2>6, Zenon
  <2>8. Weight(shares) = f[n - 1]
    BY <2>4, <2>7
  <2> QED
    BY <2>1, <2>4, <2>8
<1> HIDE DEF drop, tot
<1>7. /\ Weight(js) \in Int /\ Weight(SubSeq(js, 1, drop)) \in Int
      /\ Weight(SubSeq(js, drop + 1, Len(js))) = Weight(js) - Weight(SubSeq(js, 1, drop))
  BY <1>4, <1>5, WeightSplits
<1>8. /\ shares' \in Seq(ShareRecords) /\ Len(shares') = Len(js) - drop
      /\ limit' \in Nat
  BY <1>2, <1>1, <1>4, <1>5
<1>9. total' = Weight(shares')
  <2>1. PICK w \in Int : w = Weight(SubSeq(js, 1, drop))
    BY <1>7, Zenon
  <2>2. total' = total + (diff - w) /\ Weight(shares') = Weight(js) - w
    BY <1>2, <1>7, <2>1, Zenon
  <2>3. total \in Int /\ total + diff = Weight(js)
    BY <1>6, <1>3 DEF tot
  <2> QED
    BY <1>1, <1>7, <2>2, <2>3
<1>10. ASSUME Len(shares') # 1 PROVE Weight(Tail(shares')) < lim
  <2>1. drop < Len(js) - 1
    BY <1>4, <1>5, <1>8, <1>10
  <2>2. ~(tot - Weight(SubSeq(js, 1, drop + 1)) >= lim)
    BY <1>5, <2>1 DEF MayDrop
  <2>3. drop + 1 \in 0..Len(js) /\ Len(js) \in Nat
    BY <1>4, <1>5, <2>1
  <2>4. /\ Weight(SubSeq(js, 1, drop + 1)) \in Int
        /\ Weight(SubSeq(js, (drop + 1) + 1, Len(js))) = Weight(js) - Weight(SubSeq(js, 1, drop + 1))
    BY <1>4, <2>3, WeightSplits
  <2>5. Tail(shares') = SubSeq(js, (drop + 1) + 1, Len(js))
    BY <1>2, <1>4, <1>5, <2>1, <2>3
  <2>6. Weight(Tail(shares')) = Weight(js) - Weight(SubSeq(js, 1, drop + 1))
    BY <2>4, <2>5, Zenon
  <2>7. PICK w \in Int : w = Weight(SubSeq(js, 1, drop + 1))
    BY <2>4, Zenon
  <2>8. Weight(Tail(shares')) = Weight(js) - w /\ ~(tot - w >= lim)
    BY <2>2, <2>6, <2>7, Zenon
  <2> QED
    BY <1>1, <1>6, <1>7, <2>8
<1> QED
  BY <1>2, <1>8, <1>10, <1>9 DEF ShortestWindow

-----------------------------------------------------------------------------
(* The files.                                                              *)

\* There are three files, and a process that is down saves nothing.
FilesInv ==
  /\ DOMAIN disk = Files /\ DOMAIN tmp = Files
  /\ saving \in Files \cup {"none"}
  /\ ~up => (saving = "none" /\ limit = 0)

LEMMA FilesStep == FilesInv /\ [Next]_vars => FilesInv'
<1> SUFFICES ASSUME FilesInv, [Next]_vars PROVE FilesInv'
  OBVIOUS
<1> USE DEF FilesInv, Files
<1>1. CASE Share
  BY <1>1 DEF Share
<1>2. CASE Win
  BY <1>2 DEF Win
<1>3. CASE StatsLoop
  BY <1>3 DEF StatsLoop, memory
<1>4. CASE WebSession
  BY <1>4 DEF WebSession, memory
<1>5. CASE Open
  BY <1>5 DEF Open, memory
<1>6. CASE Write
  BY <1>6 DEF Write, memory
<1>7. CASE Rename
  BY <1>7 DEF Rename, After
<1>8. CASE WriteFails
  BY <1>8 DEF WriteFails, After, memory
<1>9. CASE Crash
  BY <1>9 DEF Crash
<1>10. CASE Restart
  BY <1>10 DEF Restart
<1>11. CASE UNCHANGED vars
  BY <1>11 DEF vars
<1> QED
  BY <1>1, <1>2, <1>3, <1>4, <1>5, <1>6, <1>7, <1>8, <1>9, <1>10, <1>11 DEF Next

\* What is about to be renamed over the window's file is the window.
CleanInv ==
  /\ dirty \in BOOLEAN
  /\ CleanIsSaved
  /\ (saving = "pplns" /\ at = "rename") => tmp["pplns"] = <<shares>>

LEMMA CleanStep == FilesInv /\ CleanInv /\ [Next]_vars => CleanInv'
<1> SUFFICES ASSUME FilesInv, CleanInv, [Next]_vars PROVE CleanInv'
  OBVIOUS
<1> USE DEF FilesInv, CleanInv, CleanIsSaved, Loaded, Files
<1>1. CASE Share
  BY <1>1 DEF Share
<1>2. CASE Win
  BY <1>2 DEF Win
<1>3. CASE StatsLoop
  BY <1>3 DEF StatsLoop, memory
<1>4. CASE WebSession
  BY <1>4 DEF WebSession, memory
<1>5. CASE Open
  BY <1>5 DEF Open, memory
<1>6. CASE Write
  BY <1>6 DEF Write, Content, memory
<1>7. CASE Rename
  BY <1>7 DEF Rename, Torn
<1>8. CASE WriteFails
  BY <1>8 DEF WriteFails, memory
<1>9. CASE Crash
  BY <1>9, Zenon DEF Crash
<1>10. CASE Restart
  BY <1>10 DEF Restart
<1>11. CASE UNCHANGED vars
  BY <1>11 DEF vars
<1> QED
  BY <1>1, <1>2, <1>3, <1>4, <1>5, <1>6, <1>7, <1>8, <1>9, <1>10, <1>11 DEF Next

\* A block that is not on disk is being written, or writing it failed.
WinInv ==
  /\ up => (Loaded("miners") = blocks \/ saving = "miners" \/ "miners" \in failed)
  /\ (saving = "miners" /\ at = "rename") => tmp["miners"] = <<blocks>>

LEMMA WinStep == FilesInv /\ WinInv /\ [Next]_vars => WinInv'
<1> SUFFICES ASSUME FilesInv, WinInv, [Next]_vars PROVE WinInv'
  OBVIOUS
<1> USE DEF FilesInv, WinInv, Loaded, Files
<1>1. CASE Share
  BY <1>1 DEF Share
<1>2. CASE Win
  BY <1>2 DEF Win
<1>3. CASE StatsLoop
  BY <1>3 DEF StatsLoop, memory
<1>4. CASE WebSession
  BY <1>4 DEF WebSession, memory
<1>5. CASE Open
  BY <1>5 DEF Open, memory
<1>6. CASE Write
  BY <1>6 DEF Write, Content, memory
<1>7. CASE Rename
  BY <1>7 DEF Rename, Torn
<1>8. CASE WriteFails
  BY <1>8 DEF WriteFails, memory
<1>9. CASE Crash
  BY <1>9 DEF Crash
<1>10. CASE Restart
  BY <1>10 DEF Restart
<1>11. CASE UNCHANGED vars
  BY <1>11 DEF vars
<1> QED
  BY <1>1, <1>2, <1>3, <1>4, <1>5, <1>6, <1>7, <1>8, <1>9, <1>10, <1>11 DEF Next

\* No number that was given is above the one on disk, and the next one is.
NumberInv ==
  /\ given \in Seq(Nat) /\ Loaded("seq") \in Nat
  /\ \A i \in DOMAIN given : given[i] <= Loaded("seq")
  /\ NumbersNeverRepeat
  /\ (saving = "seq" /\ at = "rename") => tmp["seq"] = <<Loaded("seq") + 1>>

LEMMA NumberStep == FilesInv /\ NumberInv /\ [Next]_vars => NumberInv'
<1> SUFFICES ASSUME FilesInv, NumberInv, [Next]_vars PROVE NumberInv'
  OBVIOUS
<1> USE DEF FilesInv, NumberInv, NumbersNeverRepeat, Loaded, Files
<1>1. CASE Share
  BY <1>1 DEF Share
<1>2. CASE Win
  BY <1>2 DEF Win
<1>3. CASE StatsLoop
  BY <1>3 DEF StatsLoop, memory
<1>4. CASE WebSession
  BY <1>4 DEF WebSession, memory
<1>5. CASE Open
  BY <1>5 DEF Open, memory
<1>6. CASE Write
  BY <1>6 DEF Write, Content, memory
<1>7. CASE Rename
  BY <1>7 DEF Rename, Torn, After
<1>8. CASE WriteFails
  BY <1>8 DEF WriteFails, memory
<1>9. CASE Crash
  BY <1>9 DEF Crash
<1>10. CASE Restart
  BY <1>10 DEF Restart
<1>11. CASE UNCHANGED vars
  BY <1>11 DEF vars
<1> QED
  BY <1>1, <1>2, <1>3, <1>4, <1>5, <1>6, <1>7, <1>8, <1>9, <1>10, <1>11, Zenon DEF Next

\* What is saved, and loaded after a crash, is a window.
WindowInv ==
  /\ shares \in Seq(ShareRecords) /\ total = Weight(shares) /\ limit \in Nat
  /\ ShortestWindow
  /\ Loaded("pplns") \in Seq(ShareRecords)

LEMMA WindowStep == FilesInv /\ CleanInv /\ WindowInv /\ [Next]_vars => WindowInv'
<1> SUFFICES ASSUME FilesInv, CleanInv, WindowInv, [Next]_vars PROVE WindowInv'
  OBVIOUS
<1>1. CASE Share
  BY <1>1, AddKeeps DEF Share, WindowInv, Loaded
<1>2. CASE Win
  BY <1>2 DEF Win, WindowInv, ShortestWindow, Loaded
<1>3. CASE StatsLoop
  BY <1>3 DEF StatsLoop, memory, WindowInv, ShortestWindow, Loaded
<1>4. CASE WebSession
  BY <1>4 DEF WebSession, memory, WindowInv, ShortestWindow, Loaded
<1>5. CASE Open
  BY <1>5 DEF Open, memory, WindowInv, ShortestWindow, Loaded
<1>6. CASE Write
  BY <1>6 DEF Write, memory, WindowInv, ShortestWindow, Loaded
<1>7. CASE Rename
  <2>1. UNCHANGED <<shares, total, limit>>
    BY <1>7 DEF Rename
  <2>2. disk'["pplns"] = disk["pplns"] \/ disk'["pplns"] = <<shares>>
    BY <1>7 DEF Rename, FilesInv, CleanInv, Files
  <2>3. Loaded("pplns")' \in Seq(ShareRecords)
    BY <2>2 DEF Loaded, Torn, WindowInv
  <2> QED
    BY <2>1, <2>3 DEF WindowInv, ShortestWindow
<1>8. CASE WriteFails
  BY <1>8 DEF WriteFails, memory, WindowInv, ShortestWindow, Loaded
<1>9. CASE Crash
  <2>1. shares' = <<>> /\ total' = 0 /\ limit' = 0 /\ UNCHANGED disk
    BY <1>9 DEF Crash
  <2> QED
    BY <2>1, EmptyWindow DEF WindowInv, ShortestWindow, Loaded
<1>10. CASE Restart
  BY <1>10 DEF Restart, WindowInv, ShortestWindow, Loaded, FilesInv
<1>11. CASE UNCHANGED vars
  BY <1>11 DEF vars, WindowInv, ShortestWindow, Loaded
<1> QED
  BY <1>1, <1>2, <1>3, <1>4, <1>5, <1>6, <1>7, <1>8, <1>9, <1>10, <1>11 DEF Next

-----------------------------------------------------------------------------
(* The theorems.                                                           *)

LedgerInv == FilesInv /\ CleanInv /\ WinInv /\ NumberInv /\ WindowInv

\* The first start finds no files.
LEMMA LedgerInit == Init => LedgerInv
<1> SUFFICES ASSUME Init PROVE LedgerInv
  OBVIOUS
<1> USE DEF Init, WindowInit
<1>1. \A f \in Files : disk[f] = <<Empty(f)>>
  OBVIOUS
<1>2. Loaded("pplns") = <<>> /\ Loaded("seq") = 0 /\ Loaded("miners") = 0
  BY <1>1 DEF Loaded, Torn, Empty, Files
<1>3. FilesInv
  BY DEF FilesInv, Files
<1>4. CleanInv
  BY <1>2, Zenon DEF CleanInv, CleanIsSaved
<1>5. WinInv
  BY <1>2 DEF WinInv
<1>6. NumberInv
  BY <1>2 DEF NumberInv, NumbersNeverRepeat
<1>7. WindowInv
  BY <1>2, EmptyWindow, Zenon DEF WindowInv, ShortestWindow
<1> QED
  BY <1>3, <1>4, <1>5, <1>6, <1>7 DEF LedgerInv

\* The parts together are inductive.
LEMMA LedgerStep == Spec => []LedgerInv
<1>1. LedgerInv /\ [Next]_vars => LedgerInv'
  BY FilesStep, CleanStep, WinStep, NumberStep, WindowStep DEF LedgerInv
<1> QED
  BY <1>1, LedgerInit, PTL DEF Spec

\* However many shares, crashes and failed writes came before, what add leaves is
\* the shortest run of last shares that reaches the limit.
THEOREM WindowIsShortest == Spec => []ShortestWindow
<1>1. LedgerInv => ShortestWindow
  BY DEF LedgerInv, WindowInv
<1> QED
  BY <1>1, LedgerStep, PTL

\* The running total of the window is always the weight of its shares: load sums up
\* what add keeps by adding and subtracting.
THEOREM TotalIsWeight == Spec => [](total = Weight(shares))
<1>1. LedgerInv => total = Weight(shares)
  BY DEF LedgerInv, WindowInv
<1> QED
  BY <1>1, LedgerStep, PTL

\* Whenever save has nothing to do, the window's file holds the window: neither a crash
\* between the steps of a save nor a write that fails leaves dirty cleared and the file
\* behind.
THEOREM CleanWindowIsOnDisk == Spec => []CleanIsSaved
<1>1. LedgerInv => CleanIsSaved
  BY DEF LedgerInv, CleanInv
<1> QED
  BY <1>1, LedgerStep, PTL

\* A block save_stats has finished with is on disk unless writing it failed.
THEOREM WinsAreOnDisk == Spec => []WinsSaved
<1>1. LedgerInv => WinsSaved
  BY DEF LedgerInv, WinInv, WinsSaved
<1> QED
  BY <1>1, LedgerStep, PTL

\* next_web_session never returns a number twice, over any number of restarts.
THEOREM NumbersAreFresh == Spec => []NumbersNeverRepeat
<1>1. LedgerInv => NumbersNeverRepeat
  BY DEF LedgerInv, NumberInv
<1> QED
  BY <1>1, LedgerStep, PTL
=============================================================================
