------------------------- MODULE StratumPoolProofs -------------------------
(***************************************************************************)
(* Proofs about StratumPool, for every set of connections and every cap:   *)
(* the miner slots never overflow, and a block is credited to the miner    *)
(* whose block the node took, once.                                        *)
(***************************************************************************)
EXTENDS StratumPool, FiniteSetTheorems, TLAPS

Slots == {m \in Sessions : spk[m]}

SlotTypes ==
  /\ conn \in [Miners -> {"new", "open", "lost", "closed"}]
  /\ spk \in [Miners -> BOOLEAN]

\* A connection has no slot before it is open, and the slots are within the cap.
SlotInv ==
  /\ SlotTypes
  /\ \A m \in Miners : conn[m] = "new" => ~spk[m]
  /\ Cap > 0 => Cardinality(Slots) <= Cap

slotvars == <<conn, spk>>

\* A step that takes no slot keeps the invariant: connections break and end, new
\* ones open, the payout scripts stay or go.
LEMMA NoNewSlot ==
  ASSUME SlotInv, SlotTypes',
         \A m \in Miners : conn'[m] = "new" => conn[m] = "new",
         \A m \in Miners : spk'[m] => spk[m],
         \A m \in Miners : (conn'[m] \in {"open", "lost"} /\ spk'[m]) => conn[m] \in {"open", "lost"}
  PROVE  SlotInv'
<1>1. Slots' \subseteq Slots
  BY Zenon DEF Slots, Sessions
<1>2. IsFiniteSet(Slots)
  BY MinersAssumption, FS_Subset, Slots \subseteq Miners, Zenon DEF Slots, Sessions
<1>3. Cardinality(Slots') <= Cardinality(Slots) /\ Cardinality(Slots) \in Nat /\ Cardinality(Slots') \in Nat
  BY <1>1, <1>2, FS_Subset, FS_CardinalityType, Zenon
<1>4. (Cap > 0 => Cardinality(Slots) <= Cap)'
  BY <1>3, SeatedAssumption DEF SlotInv
<1>5. (\A m \in Miners : conn[m] = "new" => ~spk[m])'
  BY Zenon DEF SlotInv
<1> QED
  BY <1>4, <1>5, Zenon DEF SlotInv

\* The connection of a task that raised is closed, or, for the poll loop, nothing
\* changes.
LEMMA RaiseKeeps ==
  ASSUME SlotInv, NEW c \in Tasks, Raise(c), UNCHANGED spk
  PROVE  SlotInv'
<1>1. SlotTypes'
  BY Zenon DEF SlotInv, SlotTypes, Raise, Tasks
<1>2. \A m \in Miners : conn'[m] = conn[m] \/ conn'[m] = "closed"
  BY Zenon DEF SlotInv, SlotTypes, Raise, Tasks
<1> QED
  BY <1>1, <1>2, NoNewSlot, Zenon

\* mining.authorize takes a slot only if the others leave one.
LEMMA AuthorizeKeeps ==
  ASSUME SlotInv, NEW m \in Miners, Authorize(m)
  PROVE  SlotInv'
<1>1. CASE pool_full(m)
  <2>1. conn' = [conn EXCEPT ![m] = "lost"] /\ spk' = spk /\ conn[m] = "open"
    BY <1>1, Zenon DEF Authorize
  <2>2. SlotTypes'
    BY <2>1, Zenon DEF SlotInv, SlotTypes
  <2>3. \A n \in Miners : conn'[n] = conn[n] \/ (n = m /\ conn'[n] = "lost" /\ conn[n] = "open")
    BY <2>1, Zenon DEF SlotInv, SlotTypes
  <2> QED
    BY <2>1, <2>2, <2>3, NoNewSlot, Zenon
<1>2. CASE ~pool_full(m)
  <2>1. PICK good \in BOOLEAN : spk' = [spk EXCEPT ![m] = good]
    BY <1>2, Zenon DEF Authorize
  <2>2. conn' = conn /\ conn[m] = "open"
    BY <1>2, Zenon DEF Authorize
  <2>3. SlotTypes'
    BY <2>1, <2>2, Zenon DEF SlotInv, SlotTypes
  <2> DEFINE Others == {s \in Sessions \ {m} : spk[s]}
  <2>4. Slots' \subseteq Others \cup {m}
    BY <2>1, <2>2, Zenon DEF Slots, Sessions, SlotInv, SlotTypes
  <2>5. IsFiniteSet(Others) /\ m \notin Others
    BY MinersAssumption, FS_Subset, Others \subseteq Miners, Zenon DEF Sessions
  <2>6. /\ IsFiniteSet(Others \cup {m})
        /\ Cardinality(Others \cup {m}) = Cardinality(Others) + 1
    BY <2>5, FS_AddElement, Zenon
  <2>7. /\ Cardinality(Slots') <= Cardinality(Others) + 1
        /\ Cardinality(Slots') \in Nat /\ Cardinality(Others) \in Nat
    BY <2>4, <2>5, <2>6, FS_Subset, FS_CardinalityType
  <2>8. Cap > 0 => Cardinality(Others) < Cap
    <3>1. Cap > 0 => ~(Cardinality(Others) >= Cap)
      BY <1>2, Zenon DEF pool_full, connected_miners
    <3> HIDE DEF Others
    <3> QED
      BY <3>1, <2>7, SeatedAssumption
  <2>9. (Cap > 0 => Cardinality(Slots) <= Cap)'
    <3> HIDE DEF Others
    <3> QED
      BY <2>7, <2>8, SeatedAssumption
  <2>10. (\A n \in Miners : conn[n] = "new" => ~spk[n])'
    BY <2>1, <2>2, Zenon DEF SlotInv, SlotTypes
  <2> QED
    BY <2>3, <2>9, <2>10, Zenon DEF SlotInv
<1> QED
  BY <1>1, <1>2, Zenon

\* The sessions at the start are within the cap.
LEMMA SlotInit == Init => SlotInv
<1> SUFFICES ASSUME Init PROVE SlotInv
  BY Zenon
<1>1. /\ conn = [m \in Miners |-> IF m \in Seated THEN "open" ELSE "new"]
      /\ spk = [m \in Miners |-> m \in Seated]
  BY Zenon DEF Init
<1>2. SlotTypes
  BY <1>1 DEF SlotTypes
<1>3. Slots = Seated
  BY <1>1, SeatedAssumption, Zenon DEF Slots, Sessions
<1>4. \A m \in Miners : conn[m] = "new" => ~spk[m]
  BY <1>1, Zenon
<1> QED
  BY <1>2, <1>3, <1>4, SeatedAssumption, Zenon DEF SlotInv

\* Every step of the pool keeps the invariant.
LEMMA SlotStep == SlotInv /\ [Next]_vars => SlotInv'
<1> SUFFICES ASSUME SlotInv, [Next]_vars PROVE SlotInv'
  BY Zenon
<1>1. CASE UNCHANGED slotvars
  BY <1>1, Zenon DEF slotvars, SlotInv, SlotTypes, Slots, Sessions
<1>2. CASE \E m \in Miners : Connect(m)
  <2>1. PICK m \in Miners : Connect(m)
    BY <1>2, Zenon
  <2>2. conn' = [conn EXCEPT ![m] = "open"] /\ conn[m] = "new" /\ spk' = spk
    BY <2>1, Zenon DEF Connect
  <2>3. SlotTypes'
    BY <2>2, Zenon DEF SlotInv, SlotTypes
  <2>4. ~spk[m] /\ \A n \in Miners \ {m} : conn'[n] = conn[n]
    BY <2>2, Zenon DEF SlotInv, SlotTypes
  <2>5. \A n \in Miners : conn'[n] = "new" => conn[n] = "new"
    BY <2>2, <2>4, Zenon
  <2> QED
    BY <2>2, <2>3, <2>4, <2>5, NoNewSlot, Zenon
<1>3. CASE \E m \in Miners : ConnectionLost(m) \/ EndSession(m)
  <2>1. PICK m \in Miners : ConnectionLost(m) \/ EndSession(m)
    BY <1>3, Zenon
  <2>2. /\ conn' = [conn EXCEPT ![m] = "lost"] \/ conn' = [conn EXCEPT ![m] = "closed"]
        /\ conn[m] \in {"open", "lost"}
        /\ spk' = spk
    BY <2>1, Zenon DEF ConnectionLost, EndSession
  <2>3. SlotTypes'
    BY <2>2, Zenon DEF SlotInv, SlotTypes
  <2>4. \A n \in Miners : conn'[n] = conn[n] \/ (n = m /\ conn'[n] \in {"lost", "closed"})
    BY <2>2, Zenon DEF SlotInv, SlotTypes
  <2> QED
    BY <2>2, <2>3, <2>4, NoNewSlot, Zenon
<1>4. CASE \E m \in Miners : Authorize(m)
  BY <1>4, AuthorizeKeeps, Zenon
<1>5. CASE \E c \in Tasks : Drain(c) \/ (c \in Miners /\ Reply(c))
  <2>1. PICK c \in Tasks : Drain(c) \/ (c \in Miners /\ Reply(c))
    BY <1>5, Zenon
  <2>2. UNCHANGED spk /\ (Raise(c) \/ UNCHANGED conn)
    BY <2>1, Zenon DEF Drain, Reply
  <2> QED
    BY <1>1, <2>2, RaiseKeeps, Zenon DEF slotvars
<1>6. CASE \E c \in Tasks, s \in Miners : NotifyRead(c, s) \/ Retune(c, s)
  BY <1>1, <1>6, ZenonT(30) DEF NotifyRead, Retune, slotvars
<1>7. CASE \E c \in Tasks : Fetch(c) \/ Compare(c) \/ SetBranch(c) \/ SetTmpl(c) \/ AfterRefresh(c)
                              \/ NotifyBuild(c) \/ NotifyEnd(c)
  BY <1>1, <1>7, ZenonT(30) DEF Fetch, Compare, SetBranch, SetTmpl, AfterRefresh, NotifyBuild,
     NotifyEnd, slotvars
<1>8. CASE \E m \in Miners : PowHash(m) \/ SubmitBlock(m) \/ GetBest(m) \/ StopsReading(m) \/ Submit(m)
  BY <1>1, <1>8, Zenon DEF PowHash, SubmitBlock, GetBest, StopsReading, Submit, slotvars
<1>9. CASE Poll \/ NodeMoves \/ UNCHANGED vars
  BY <1>1, <1>9, Zenon DEF Poll, NodeMoves, vars, slotvars
<1> QED
  BY <1>2, <1>3, <1>4, <1>5, <1>6, <1>7, <1>8, <1>9, Zenon DEF Next, TaskStep

\* However many connections there are and whatever the cap, the authorized
\* sessions never outnumber XCOIN_POOL_MAX_MINERS.
THEOREM SlotsWithinCap == Spec => []SlotCap
<1>1. SlotInv => SlotCap
  BY Zenon DEF SlotInv, SlotCap, Slots
<1> QED
  BY <1>1, SlotInit, SlotStep, PTL DEF Spec

-----------------------------------------------------------------------------
(* Blocks.  RecordedIsMined is not inductive: between submitblock and       *)
(* record_block the only trace of an accepted block is in the handler.      *)

TaskFields == {"pc", "t", "change", "todo", "who", "aim", "job", "solved", "height"}

TaskTypes ==
  /\ DOMAIN task = Tasks
  /\ \A c \in Tasks : DOMAIN task[c] = TaskFields /\ task[c].height \in Nat

\* A handler that knows the height its block was accepted at waits for
\* getbestblockhash, and that block is its own and not recorded yet.
Pending(c) ==
  /\ c \in Miners
  /\ task[c].pc = "getbest"
  /\ task[c].height \in 1..Tip
  /\ node.chain[task[c].height] = c
  /\ \A i \in DOMAIN recorded : recorded[i].height # task[c].height

RecordInv ==
  /\ TaskTypes
  /\ node \in [chain : Seq(Miners \cup {"other"}), txs : TxSets]
  /\ recorded \in Seq([height : Nat, miner : Miners])
  /\ RecordedIsMined
  /\ \A c \in Tasks : task[c].height > 0 => Pending(c)
  /\ \A c \in Tasks : loop = c => task[c].pc = "build"

\* A step of a task that is not about to record a block keeps the invariant.
LEMMA TaskMoves ==
  ASSUME RecordInv, NEW c \in Tasks, NEW r,
         task[c].pc # "getbest",
         DOMAIN r = TaskFields, r.height \in {0, task[c].height},
         task' = [task EXCEPT ![c] = r], UNCHANGED <<node, recorded>>,
         \/ loop' = loop /\ task[c].pc # "build"
         \/ loop' = c /\ r.pc = "build"
         \/ loop' = "free"
  PROVE  RecordInv'
<1>1. task[c].height = 0
  BY DEF RecordInv, TaskTypes, Pending
<1>2. task'[c] = r /\ \A d \in Tasks \ {c} : task'[d] = task[d]
  BY Zenon DEF RecordInv, TaskTypes
<1>3. TaskTypes'
  BY <1>1, <1>2, Zenon DEF RecordInv, TaskTypes
<1>4. ASSUME NEW d \in Tasks, task'[d].height > 0
      PROVE  Pending(d)'
  <2>1. d # c
    BY <1>1, <1>2, <1>4
  <2>2. task'[d] = task[d] /\ Pending(d)
    BY <2>1, <1>2, <1>4, Zenon DEF RecordInv
  <2> QED
    BY <2>2, Zenon DEF Pending, Tip
<1>5. ASSUME NEW d \in Tasks, loop' = d
      PROVE  task'[d].pc = "build"
  BY <1>2, <1>5, MinersAssumption, Zenon DEF RecordInv, Tasks
<1> QED
  BY <1>3, <1>4, <1>5 DEF RecordInv, RecordedIsMined, Tip

\* Another miner's block, or new transactions: the chain only grows.
LEMMA ChainGrows ==
  ASSUME RecordInv, NEW o \in Miners \cup {"other"}, NEW x \in TxSets,
         node' = [chain |-> Append(node.chain, o), txs |-> x]
  PROVE  /\ node' \in [chain : Seq(Miners \cup {"other"}), txs : TxSets]
         /\ Tip \in Nat /\ Tip' = Tip + 1 /\ node'.chain[Tip + 1] = o
         /\ \A h \in 1..Tip : node'.chain[h] = node.chain[h]
  BY DEF RecordInv, Tip

LEMMA NodeMovesRecord ==
  ASSUME RecordInv, NodeMoves
  PROVE  RecordInv'
<1>1. UNCHANGED <<task, recorded, loop>>
  BY Zenon DEF NodeMoves
<1>2. /\ node' \in [chain : Seq(Miners \cup {"other"}), txs : TxSets]
      /\ Tip \in Nat /\ Tip' \in Nat /\ Tip <= Tip'
      /\ \A h \in 1..Tip : node'.chain[h] = node.chain[h]
  <2>1. CASE \E x \in TxSets : node' = [chain |-> Append(node.chain, "other"), txs |-> x]
    <3>1. PICK x \in TxSets : node' = [chain |-> Append(node.chain, "other"), txs |-> x]
      BY <2>1, Zenon
    <3>2. "other" \in Miners \cup {"other"}
      BY Zenon
    <3>3. /\ node' \in [chain : Seq(Miners \cup {"other"}), txs : TxSets]
          /\ Tip \in Nat /\ Tip' = Tip + 1
          /\ \A h \in 1..Tip : node'.chain[h] = node.chain[h]
      BY <3>1, <3>2, ChainGrows, Zenon
    <3> QED
      BY <3>3
  <2>2. CASE \E x \in TxSets : node' = [node EXCEPT !.txs = x]
    <3>1. PICK x \in TxSets : node' = [node EXCEPT !.txs = x]
      BY <2>2, Zenon
    <3>2. node' = [chain |-> node.chain, txs |-> x] /\ node.chain \in Seq(Miners \cup {"other"})
      BY <3>1, Zenon DEF RecordInv
    <3> QED
      BY <3>2 DEF Tip
  <2> QED
    BY <2>1, <2>2, Zenon DEF NodeMoves
<1>3. RecordedIsMined'
  BY <1>1, <1>2 DEF RecordInv, RecordedIsMined
<1>4. ASSUME NEW c \in Tasks, task'[c].height > 0
      PROVE  Pending(c)'
  <2>1. Pending(c)
    BY <1>1, <1>4, Zenon DEF RecordInv
  <2> QED
    BY <2>1, <1>1, <1>2 DEF Pending
<1> QED
  BY <1>1, <1>2, <1>3, <1>4, Zenon DEF RecordInv, TaskTypes

\* The node takes the block, or not: no other handler waits for the new height.
LEMMA SubmitBlockRecord ==
  ASSUME RecordInv, NEW m \in Miners, SubmitBlock(m)
  PROVE  RecordInv'
<1>1. m \in Tasks /\ task[m].pc = "submitblock" /\ UNCHANGED <<recorded, loop>>
  BY Zenon DEF SubmitBlock, Tasks
<1>2. CASE node' = node
  <2>1. \E r : /\ task' = [task EXCEPT ![m] = r] /\ DOMAIN r = TaskFields
               /\ r.height = task[m].height
    <3>1. task' = [task EXCEPT ![m].pc = "getbest"]
      <4>1. ~\E x \in TxSets : node' = [chain |-> Append(node.chain, m), txs |-> x]
        BY <1>2, ChainGrows
      <4> QED
        BY <4>1, Zenon DEF SubmitBlock
    <3> WITNESS [task[m] EXCEPT !.pc = "getbest"]
    <3> QED
      BY <3>1, <1>1, Zenon DEF RecordInv, TaskTypes, TaskFields
  <2> QED
    BY <2>1, <1>1, <1>2, TaskMoves, Zenon
<1>3. CASE node' # node
  <2>1. PICK x \in TxSets : node' = [chain |-> Append(node.chain, m), txs |-> x]
    BY <1>3, Zenon DEF SubmitBlock
  <2>2. task' = [task EXCEPT ![m].pc = "getbest", ![m].height = Tip + 1]
    BY <1>3, Zenon DEF SubmitBlock
  <2>3. /\ node' \in [chain : Seq(Miners \cup {"other"}), txs : TxSets]
        /\ Tip \in Nat /\ Tip' = Tip + 1 /\ node'.chain[Tip + 1] = m
        /\ \A h \in 1..Tip : node'.chain[h] = node.chain[h]
    BY <2>1, ChainGrows, Zenon
  <2>4. /\ task'[m].pc = "getbest" /\ task'[m].height = Tip + 1 /\ DOMAIN task'[m] = TaskFields
        /\ DOMAIN task' = Tasks /\ \A d \in Tasks \ {m} : task'[d] = task[d]
    BY <2>2, <1>1, Zenon DEF RecordInv, TaskTypes, TaskFields
  <2>5. TaskTypes'
    <3>1. \A c \in Tasks : DOMAIN task[c] = TaskFields /\ task[c].height \in Nat
      BY <1>1, Zenon DEF RecordInv, TaskTypes
    <3>2. Tip + 1 \in Nat
      BY <2>3
    <3>3. \A c \in Tasks : DOMAIN task'[c] = TaskFields /\ task'[c].height \in Nat
      BY <2>4, <3>1, <3>2, Zenon
    <3> QED
      BY <2>4, <3>3, Zenon DEF TaskTypes
  <2>6. RecordedIsMined'
    <3>1. recorded' = recorded
      BY <1>1, Zenon
    <3>2. /\ \A i \in DOMAIN recorded :
               recorded[i].height \in 1..Tip /\ node.chain[recorded[i].height] = recorded[i].miner
          /\ \A i, j \in DOMAIN recorded : i # j => recorded[i].height # recorded[j].height
      BY Zenon DEF RecordInv, RecordedIsMined
    <3>3. 1..Tip \subseteq 1..(Tip + 1)
      BY <2>3
    <3>4. \A i \in DOMAIN recorded :
            recorded[i].height \in 1..Tip' /\ node'.chain[recorded[i].height] = recorded[i].miner
      BY <2>3, <3>2, <3>3, Zenon
    <3> QED
      BY <3>1, <3>2, <3>4, ZenonT(30) DEF RecordedIsMined
  <2>7. ASSUME NEW c \in Tasks, task'[c].height > 0
        PROVE  Pending(c)'
    <3>1. CASE c = m
      <4>1. \A i \in DOMAIN recorded : recorded[i].height # Tip + 1
        BY <2>3 DEF RecordInv, RecordedIsMined
      <4> QED
        BY <3>1, <4>1, <2>3, <2>4, <1>1 DEF Pending
    <3>2. CASE c # m
      <4>1. Pending(c) /\ task'[c] = task[c]
        BY <3>2, <2>4, <2>7, Zenon DEF RecordInv
      <4> QED
        BY <4>1, <2>3, <1>1 DEF Pending
    <3> QED
      BY <3>1, <3>2, Zenon
  <2>8. \A c \in Tasks : loop' = c => task'[c].pc = "build"
    BY <1>1, <2>4, Zenon DEF RecordInv
  <2> QED
    BY <2>3, <2>5, <2>6, <2>7, <2>8, <1>1, Zenon DEF RecordInv
<1> QED
  BY <1>2, <1>3, Zenon

\* The handler records its block, if getbestblockhash names it, and waits for it no more.
LEMMA GetBestRecord ==
  ASSUME RecordInv, NEW m \in Miners, GetBest(m)
  PROVE  RecordInv'
<1>1. m \in Tasks /\ UNCHANGED <<node, loop>> /\ task[m].pc = "getbest"
  BY Zenon DEF GetBest, Tasks
<1>2. PICK r : task' = [task EXCEPT ![m] = r] /\ DOMAIN r = TaskFields /\ r.height = 0
  <2> DEFINE asks == [IdleTask EXCEPT !.pc = "fetch", !.aim = "won"]
  <2>1. task' = [task EXCEPT ![m] = IdleTask] \/ task' = [task EXCEPT ![m] = asks]
    BY Zenon DEF GetBest
  <2>2. DOMAIN IdleTask = TaskFields /\ IdleTask.height = 0
    BY Zenon DEF IdleTask, TaskFields
  <2>3. DOMAIN asks = TaskFields /\ asks.height = 0
    BY Zenon DEF IdleTask, TaskFields
  <2> QED
    BY <2>1, <2>2, <2>3, Zenon
<1>3. task'[m].height = 0 /\ \A d \in Tasks \ {m} : task'[d] = task[d]
  BY <1>1, <1>2, Zenon DEF RecordInv, TaskTypes
<1>4. TaskTypes'
  BY <1>1, <1>2, <1>3 DEF RecordInv, TaskTypes
<1>5. \A c \in Tasks : loop' = c => task'[c].pc = "build"
  BY <1>1, <1>3, Zenon DEF RecordInv
<1>6. CASE recorded' = recorded
  <2>1. ASSUME NEW c \in Tasks, task'[c].height > 0
        PROVE  Pending(c)'
    <3>1. Pending(c) /\ task'[c] = task[c]
      BY <1>3, <2>1 DEF RecordInv
    <3> QED
      BY <3>1, <1>1, <1>6, Zenon DEF Pending, Tip
  <2> QED
    BY <1>1, <1>4, <1>6, <1>5, <2>1 DEF RecordInv, RecordedIsMined, Tip
<1>7. CASE recorded' # recorded
  <2> DEFINE block == [height |-> Tip, miner |-> m]
  <2>1. /\ recorded' = Append(recorded, block)
        /\ task[m].height > 0 /\ Tip = task[m].height
    BY <1>7, Zenon DEF GetBest
  <2>2. Pending(m)
    BY <2>1, <1>1, Zenon DEF RecordInv
  <2>3. /\ recorded' \in Seq([height : Nat, miner : Miners])
        /\ DOMAIN recorded' = DOMAIN recorded \cup {Len(recorded) + 1}
        /\ recorded'[Len(recorded) + 1] = block
        /\ \A i \in DOMAIN recorded : recorded'[i] = recorded[i]
    BY <2>1 DEF RecordInv, Tip
  <2>4. /\ Tip \in 1..Tip /\ node.chain[Tip] = m
        /\ \A i \in DOMAIN recorded : recorded[i].height # Tip
    BY <2>1, <2>2, Zenon DEF Pending
  <2>5. RecordedIsMined'
    <3>1. \A i \in DOMAIN recorded' :
            recorded'[i].height \in 1..Tip /\ node.chain[recorded'[i].height] = recorded'[i].miner
      BY <2>3, <2>4 DEF RecordInv, RecordedIsMined
    <3>2. \A i, j \in DOMAIN recorded' : i # j => recorded'[i].height # recorded'[j].height
      BY <2>3, <2>4, SMTT(30) DEF RecordInv, RecordedIsMined
    <3> QED
      BY <3>1, <3>2, <1>1, Zenon DEF RecordedIsMined, Tip
  <2>6. ASSUME NEW c \in Tasks, task'[c].height > 0
        PROVE  Pending(c)'
    <3>1. c # m /\ Pending(c) /\ task'[c] = task[c]
      BY <1>3, <2>6 DEF RecordInv
    <3>2. task[c].height # Tip
      BY <3>1, <2>4, Zenon DEF Pending
    <3> QED
      BY <3>1, <3>2, <2>3, <1>1 DEF Pending, Tip
  <2> QED
    BY <1>1, <1>4, <1>5, <2>3, <2>5, <2>6, Zenon DEF RecordInv
<1> QED
  BY <1>6, <1>7, Zenon

LEMMA RecordInit == Init => RecordInv
<1> SUFFICES ASSUME Init PROVE RecordInv
  BY Zenon
<1>1. task = [c \in Tasks |-> IdleTask] /\ recorded = <<>> /\ loop = "free"
  BY Zenon DEF Init
<1>2. TaskTypes /\ \A c \in Tasks : task[c].height = 0
  BY <1>1, Zenon DEF TaskTypes, TaskFields, IdleTask
<1>3. node \in [chain : Seq(Miners \cup {"other"}), txs : TxSets]
  BY DEF Init
<1> QED
  BY <1>1, <1>2, <1>3, MinersAssumption DEF RecordInv, RecordedIsMined, Tasks

\* The steps of a task that neither submit nor record a block.
LEMMA OtherSteps ==
  ASSUME RecordInv, NEW c \in Tasks,
         \/ Fetch(c) \/ Compare(c) \/ SetBranch(c) \/ SetTmpl(c) \/ AfterRefresh(c)
         \/ \E s \in Miners : NotifyRead(c, s) \/ Retune(c, s)
         \/ NotifyBuild(c) \/ Drain(c) \/ NotifyEnd(c) \/ (c = "poll" /\ Poll)
         \/ (c \in Miners /\ (PowHash(c) \/ Reply(c) \/ Submit(c)))
  PROVE  RecordInv'
<1>1. /\ UNCHANGED <<node, recorded>>
      /\ DOMAIN task = Tasks /\ DOMAIN task[c] = TaskFields
      /\ DOMAIN IdleTask = TaskFields /\ IdleTask.height = 0
      /\ loop = "free" => loop # c
  BY MinersAssumption, Zenon
     DEF RecordInv, TaskTypes, IdleTask, TaskFields, Tasks, Fetch, Compare, SetBranch, SetTmpl,
         AfterRefresh, NotifyRead, Retune, NotifyBuild, Drain, NotifyEnd, Poll, PowHash, Reply, Submit
<1> DEFINE Moves(r) == /\ DOMAIN r = TaskFields /\ r.height \in {0, task[c].height}
                       /\ task' = [task EXCEPT ![c] = r]
           Calm == loop' = loop /\ task[c].pc \notin {"build", "getbest"}
<1>2. CASE Fetch(c)
  <2>1. Calm /\ \/ task' = [task EXCEPT ![c].pc = "compare", ![c].t = [prev |-> Tip, txs |-> node.txs]]
                \/ task' = [task EXCEPT ![c].pc = "refreshed", ![c].change = "none"]
    BY <1>2, Zenon DEF Fetch
  <2>2. \/ Moves([task[c] EXCEPT !.pc = "compare", !.t = [prev |-> Tip, txs |-> node.txs]])
        \/ Moves([task[c] EXCEPT !.pc = "refreshed", !.change = "none"])
    BY <2>1, <1>1, Zenon DEF TaskFields
  <2> QED
    BY <2>1, <2>2, <1>1, TaskMoves, Zenon
<1>3. CASE Compare(c)
  <2>1. PICK change, pc : Calm /\ task' = [task EXCEPT ![c].change = change, ![c].pc = pc]
    BY <1>3, Zenon DEF Compare
  <2>2. Moves([task[c] EXCEPT !.change = change, !.pc = pc])
    BY <2>1, <1>1, Zenon DEF TaskFields
  <2> QED
    BY <2>1, <2>2, <1>1, TaskMoves, Zenon
<1>4. CASE SetBranch(c) \/ SetTmpl(c) \/ (c = "poll" /\ Poll)
  <2>1. PICK pc, aim : Calm /\ task' = [task EXCEPT ![c] = [@ EXCEPT !.pc = pc, !.aim = aim]]
    <3>1. CASE SetBranch(c)
      <4>1. Calm /\ task' = [task EXCEPT ![c] = [@ EXCEPT !.pc = "settmpl", !.aim = task[c].aim]]
        BY <3>1, <1>1, Zenon DEF SetBranch, TaskFields
      <4> QED
        BY <4>1, Zenon
    <3>2. CASE SetTmpl(c)
      <4>1. Calm /\ task' = [task EXCEPT ![c] = [@ EXCEPT !.pc = "refreshed", !.aim = task[c].aim]]
        BY <3>2, <1>1, Zenon DEF SetTmpl, TaskFields
      <4> QED
        BY <4>1, Zenon
    <3>3. CASE c = "poll" /\ Poll
      <4>1. Calm /\ task' = [task EXCEPT ![c] = [@ EXCEPT !.pc = "fetch", !.aim = "poll"]]
        BY <3>3, <1>1, Zenon DEF Poll, TaskFields
      <4> QED
        BY <4>1, Zenon
    <3> QED
      BY <3>1, <3>2, <3>3, <1>4, Zenon
  <2>2. Moves([task[c] EXCEPT !.pc = pc, !.aim = aim])
    BY <2>1, <1>1, Zenon DEF TaskFields
  <2> QED
    BY <2>1, <2>2, <1>1, TaskMoves, Zenon
<1>5. CASE AfterRefresh(c)
  <2>1. Calm /\ task' = [task EXCEPT ![c].pc = "notify", ![c].todo = ToNotify(c),
                                     ![c].t = NoTemplate, ![c].change = "none"]
    BY <1>5, Zenon DEF AfterRefresh
  <2>2. Moves([task[c] EXCEPT !.pc = "notify", !.todo = ToNotify(c),
                              !.t = NoTemplate, !.change = "none"])
    BY <2>1, <1>1, ZenonT(30) DEF TaskFields
  <2>3. PICK r : Moves(r)
    BY <2>2, Zenon
  <2> QED
    BY <2>1, <2>3, <1>1, TaskMoves, ZenonT(30)
<1>6. CASE \E s \in Miners : NotifyRead(c, s)
  <2>1. PICK s \in Miners : NotifyRead(c, s)
    BY <1>6, Zenon
  <2>2. CASE spk[s]
    <3>1. /\ task' = [task EXCEPT ![c].pc = "build", ![c].who = s, ![c].t = tmpl]
          /\ loop' = c /\ task[c].pc = "notify"
      BY <2>1, <2>2, Zenon DEF NotifyRead
    <3> DEFINE r == [task[c] EXCEPT !.pc = "build", !.who = s, !.t = tmpl]
    <3>2. Moves(r) /\ r.pc = "build"
      BY <3>1, <1>1, Zenon DEF TaskFields
    <3> QED
      BY <3>1, <3>2, <1>1, TaskMoves, Zenon
  <2>3. CASE ~spk[s]
    <3>1. Calm /\ task' = [task EXCEPT ![c].todo = task[c].todo \ {s}]
      BY <2>1, <2>3, <1>1, Zenon DEF NotifyRead, TaskFields
    <3>2. Moves([task[c] EXCEPT !.todo = task[c].todo \ {s}])
      BY <3>1, <1>1, Zenon DEF TaskFields
    <3> QED
      BY <3>1, <3>2, <1>1, TaskMoves, Zenon
  <2> QED
    BY <2>2, <2>3, Zenon
<1>7. CASE \E s \in Miners : Retune(c, s)
  <2>1. PICK s \in Miners : Retune(c, s)
    BY <1>7, Zenon
  <2>2. Calm /\ task' = [task EXCEPT ![c].pc = "notify", ![c].aim = "retune", ![c].todo = {s}]
    BY <2>1, Zenon DEF Retune
  <2>3. Moves([task[c] EXCEPT !.pc = "notify", !.aim = "retune", !.todo = {s}])
    BY <2>2, <1>1, Zenon DEF TaskFields
  <2> QED
    BY <2>2, <2>3, <1>1, TaskMoves, ZenonT(30)
<1>8. CASE NotifyBuild(c)
  <2>1. /\ task' = [task EXCEPT ![c].pc = "drain", ![c].t = NoTemplate]
        /\ loop' = "free" /\ loop = c
    BY <1>8, Zenon DEF NotifyBuild
  <2>2. task[c].pc = "build"
    BY <2>1, Zenon DEF RecordInv
  <2>3. Moves([task[c] EXCEPT !.pc = "drain", !.t = NoTemplate])
    BY <2>1, <1>1, Zenon DEF TaskFields
  <2> QED
    BY <2>1, <2>2, <2>3, <1>1, TaskMoves, Zenon
<1>9. CASE Drain(c) \/ (c \in Miners /\ Reply(c))
  <2>1. Calm
    BY <1>9, Zenon DEF Drain, Reply
  <2>2. CASE Raise(c) \/ task' = [task EXCEPT ![c] = IdleTask]
    BY <2>1, <2>2, <1>1, TaskMoves, Zenon DEF Raise
  <2>3. CASE \E todo, who : task' = [task EXCEPT ![c] = [@ EXCEPT !.pc = "notify", !.todo = todo, !.who = who]]
    <3>1. PICK todo, who :
            task' = [task EXCEPT ![c] = [@ EXCEPT !.pc = "notify", !.todo = todo, !.who = who]]
      BY <2>3, Zenon
    <3>2. Moves([task[c] EXCEPT !.pc = "notify", !.todo = todo, !.who = who])
      BY <3>1, <1>1 DEF TaskFields
    <3> QED
      BY <2>1, <3>2, <1>1, TaskMoves, Zenon
  <2>4. CASE Drain(c) /\ ~Raise(c)
    <3>1. task' = [task EXCEPT ![c] = [@ EXCEPT !.pc = "notify", !.todo = task[c].todo \ {task[c].who},
                                                !.who = "none"]]
      BY <2>4, <1>1, Zenon DEF Drain, TaskFields
    <3> QED
      BY <3>1, <2>3, Zenon
  <2>5. CASE c \in Miners /\ Reply(c) /\ ~Raise(c) /\ task' # [task EXCEPT ![c] = IdleTask]
    <3>1. PICK todo : task' = [task EXCEPT ![c].pc = "notify", ![c].todo = todo]
      BY <2>5, Zenon DEF Reply
    <3>2. task' = [task EXCEPT ![c] = [@ EXCEPT !.pc = "notify", !.todo = todo, !.who = task[c].who]]
      BY <3>1, <1>1, Zenon DEF TaskFields
    <3> QED
      BY <3>2, <2>3, Zenon
  <2> QED
    BY <2>2, <2>4, <2>5, <1>9, Zenon
<1>10. CASE NotifyEnd(c)
  <2>1. Calm /\ \/ task' = [task EXCEPT ![c] = [task[c] EXCEPT !.pc = "submitblock"]]
                \/ task' = [task EXCEPT ![c] = IdleTask]
    BY <1>10, <1>1, Zenon DEF NotifyEnd
  <2>2. Moves([task[c] EXCEPT !.pc = "submitblock"]) \/ Moves(IdleTask)
    BY <2>1, <1>1, Zenon DEF TaskFields
  <2> QED
    BY <2>1, <2>2, <1>1, TaskMoves, Zenon
<1>11. CASE c \in Miners /\ PowHash(c)
  <2>1. Calm /\ \/ task' = [task EXCEPT ![c] = IdleTask]
                \/ task' = [task EXCEPT ![c].pc = "reply"]
                \/ task' = [task EXCEPT ![c].pc = "reply", ![c].solved = TRUE]
    BY <1>11, Zenon DEF PowHash
  <2>2. \/ Moves(IdleTask)
        \/ Moves([task[c] EXCEPT !.pc = "reply"])
        \/ Moves([task[c] EXCEPT !.pc = "reply", !.solved = TRUE])
    BY <2>1, <1>1, Zenon DEF TaskFields
  <2> QED
    BY <2>1, <2>2, <1>1, TaskMoves, Zenon
<1>12. CASE c \in Miners /\ Submit(c)
  <2>1. PICK job : Calm /\ task' = [task EXCEPT ![c].pc = "pow", ![c].aim = "share", ![c].job = job]
    BY <1>12, Zenon DEF Submit
  <2>2. Moves([task[c] EXCEPT !.pc = "pow", !.aim = "share", !.job = job])
    BY <2>1, <1>1, Zenon DEF TaskFields
  <2> QED
    BY <2>1, <2>2, <1>1, TaskMoves, ZenonT(30)
<1> QED
  BY <1>2, <1>3, <1>4, <1>5, <1>6, <1>7, <1>8, <1>9, <1>10, <1>11, <1>12, Zenon

LEMMA RecordStep == RecordInv /\ [Next]_vars => RecordInv'
<1> SUFFICES ASSUME RecordInv, [Next]_vars PROVE RecordInv'
  BY Zenon
<1>1. CASE UNCHANGED <<node, task, recorded, loop>>
  BY <1>1 DEF RecordInv, TaskTypes, RecordedIsMined, Pending, Tip
<1>2. CASE NodeMoves
  BY <1>2, NodeMovesRecord, Zenon
<1>3. CASE \E m \in Miners : SubmitBlock(m)
  BY <1>3, SubmitBlockRecord, Zenon
<1>4. CASE \E m \in Miners : GetBest(m)
  BY <1>4, GetBestRecord, Zenon
<1>5. CASE \E m \in Miners : Authorize(m)
  <2>1. PICK m \in Miners : Authorize(m)
    BY <1>5, Zenon
  <2>2. CASE task' = task
    BY <2>1, <2>2, <1>1, Zenon DEF Authorize
  <2>3. CASE task' # task
    <3>1. /\ task' = [task EXCEPT ![m].pc = "fetch", ![m].aim = "seat"]
          /\ task[m].pc = "idle" /\ UNCHANGED <<node, recorded, loop>> /\ m \in Tasks
      BY <2>1, <2>3, Zenon DEF Authorize, Tasks
    <3> DEFINE r == [task[m] EXCEPT !.pc = "fetch", !.aim = "seat"]
    <3>2. DOMAIN r = TaskFields /\ r.height = task[m].height /\ task' = [task EXCEPT ![m] = r]
      BY <3>1, Zenon DEF RecordInv, TaskTypes, TaskFields
    <3> QED
      BY <3>1, <3>2, TaskMoves, Zenon
  <2> QED
    BY <2>2, <2>3, Zenon
<1>6. CASE \E m \in Miners : Connect(m) \/ ConnectionLost(m) \/ StopsReading(m) \/ EndSession(m)
  BY <1>1, <1>6, Zenon DEF Connect, ConnectionLost, StopsReading, EndSession
<1>7. CASE \E c \in Tasks :
             \/ Fetch(c) \/ Compare(c) \/ SetBranch(c) \/ SetTmpl(c) \/ AfterRefresh(c)
             \/ \E s \in Miners : NotifyRead(c, s) \/ Retune(c, s)
             \/ NotifyBuild(c) \/ Drain(c) \/ NotifyEnd(c) \/ (c = "poll" /\ Poll)
             \/ (c \in Miners /\ (PowHash(c) \/ Reply(c) \/ Submit(c)))
  BY <1>7, OtherSteps, Zenon
<1>8. Miners \subseteq Tasks
  BY Zenon DEF Tasks
<1>9. CASE UNCHANGED vars
  BY <1>1, <1>9, Zenon DEF vars
<1> QED
  BY <1>2, <1>3, <1>4, <1>5, <1>6, <1>7, <1>8, <1>9, Zenon DEF Next, TaskStep

\* Whatever the number of miners and however their blocks, other blocks and failing
\* calls interleave, record_block credits a block to the miner whose block the node
\* took at that height, and only once.
THEOREM CreditsAreMined == Spec => []RecordedIsMined
<1>1. RecordInv => RecordedIsMined
  BY Zenon DEF RecordInv
<1> QED
  BY <1>1, RecordInit, RecordStep, PTL DEF Spec
=============================================================================
