---------------------------- MODULE HeadersSync ----------------------------
(***************************************************************************)
(* Initial synchronization of headers with one peer: the two-phase         *)
(* download of src/src/headerssync.cpp and the part of                     *)
(* src/src/net_processing.cpp that feeds it headers, asks for more and     *)
(* hands what it releases to the block index.                              *)
(*                                                                         *)
(* Blocks form a fixed tree; a block stands for its header and its hash.   *)
(* The peer is on one chain of the tree at a time and answers getheaders   *)
(* messages in order.  A commitment is stored as the block committed to    *)
(* and compared by the one salted bit the code keeps of it.                *)
(***************************************************************************)
EXTENDS Difficulty, Sequences, FiniteSets

CONSTANTS
  Blocks,         \* every block but block 0
  Parent,         \* hashPrevBlock
  Starts,         \* tips the peer may be on at the start
  Profiles,       \* nTimes of all blocks, relative to block 0: possible functions
  Salts,          \* m_hasher: possible functions from blocks to bits
  WorkUnit,       \* the work of a target is WorkUnit / (target + 1)
  MinWork,        \* GetAntiDoSWorkThreshold
  Period,         \* commitment_period
  Buffer,         \* redownload_buffer_size
  MaxCommitments, \* m_max_commitments
  MaxResults,     \* max_headers_result
  MaxChanges      \* changes of the peer's chain

ASSUME HeadersSyncAssumption ==
  /\ Parent \in [Blocks -> Blocks \cup {0}]
  /\ Period \in Nat \ {0} /\ Buffer \in Nat /\ Buffer + 1 >= Period
  /\ MinWork \in Nat /\ WorkUnit \in Nat \ {0}
  /\ MaxCommitments \in Nat /\ MaxResults \in Nat \ {0} /\ MaxChanges \in Nat

VARIABLES
  tree,     \* every block's height, nBits and nChainWork
  prompt,   \* whether the peer answers within HEADERS_RESPONSE_TIME
  peer,     \* the tip of the peer's chain
  changes,  \* changes of it so far
  reorged,  \* whether one of them left blocks behind
  news,     \* whether the peer has its tip still to announce
  requests, \* getheaders messages under way: their locators
  recent,   \* whether m_last_getheaders_timestamp is less than HEADERS_RESPONSE_TIME ago
  sync,     \* m_headers_sync
  index,    \* the block index, as far as headers go
  best,     \* m_best_header
  refused,  \* why ProcessNextHeaders last failed
  lucky,    \* whether a commitment to one block was met by another
  served    \* blocks the peer has sent

peerVars == <<peer, changes, reorged>>
vars == <<tree, prompt, peer, changes, reorged, news, requests, recent, sync, index,
          best, refused, lucky, served>>

NoSync == [state |-> "FINAL"]

-----------------------------------------------------------------------------
(* The tree of blocks.                                                     *)

RECURSIVE Chain(_)
Chain(b) == IF b = 0 THEN <<>> ELSE Append(Chain(Parent[b]), b)

\* nBits of every block, given their nTimes.
Targets(times) ==
  [b \in Blocks \cup {0} |->
     IF b = 0 THEN Compact(Anchor)
     ELSE LET p == Parent[b]
          IN  AsertGetNextWorkRequired(Len(Chain(p)), IF p = 0 THEN 0 ELSE times[p])]

GetBlockProof(bits) == WorkUnit \div (bits + 1)

\* CBlockIndex of every block: nHeight, nBits and nChainWork.
Indexed(bits) ==
  LET work[b \in Blocks \cup {0}] ==
        IF b = 0 THEN 0 ELSE work[Parent[b]] + GetBlockProof(bits[b])
  IN  [b \in Blocks \cup {0} |->
         [height |-> Len(Chain(b)), bits |-> bits[b], work |-> work[b]]]

Height(b) == tree[b].height

nBits(b) == tree[b].bits

Work(b) == tree[b].work

On(b, tip) == b = 0 \/ b \in {Chain(tip)[i] : i \in 1..Height(tip)}

\* LocatorEntries: the block and its ancestors.
RECURSIVE LocatorEntries(_)
LocatorEntries(b) == IF b = 0 THEN <<0>> ELSE <<b>> \o LocatorEntries(Parent[b])

-----------------------------------------------------------------------------
(* HeadersSyncState.                                                       *)

\* The constructor.
NewSync(start, offset, salt) ==
  [state |-> "PRESYNC", offset |-> offset, salt |-> salt, start |-> start,
   height |-> Height(start), work |-> Work(start), last |-> start, commits |-> <<>>,
   buffer |-> <<>>, firstPrev |-> start, lastHash |-> start,
   lastHeight |-> Height(start), rework |-> Work(start), all |-> FALSE]

Ok(s) == [s |-> s, why |-> "no", lucky |-> FALSE]
No(s, why) == [s |-> s, why |-> why, lucky |-> FALSE]

CommitsAt(s, height) == height % Period = s.offset

ValidateAndProcessSingleHeader(s, h) ==
  LET height  == s.height + 1
      commits == IF CommitsAt(s, height) THEN Append(s.commits, h) ELSE s.commits
  IN  IF ~PermittedDifficultyTransition(nBits(s.last), nBits(h)) THEN No(s, "difficulty")
      ELSE IF Len(commits) > MaxCommitments THEN No(s, "commitments")
      ELSE Ok([s EXCEPT !.height = height, !.commits = commits, !.last = h,
                        !.work = @ + GetBlockProof(nBits(h))])

RECURSIVE Presync(_, _)
Presync(s, hs) ==
  IF hs = <<>> THEN Ok(s)
  ELSE LET r == ValidateAndProcessSingleHeader(s, Head(hs))
       IN  IF r.why # "no" THEN r ELSE Presync(r.s, Tail(hs))

\* The second download begins once the first has seen enough work.
EnoughWork(s, r) ==
  IF r.why # "no" \/ r.s.work < MinWork THEN r
  ELSE Ok([r.s EXCEPT !.state = "REDOWNLOAD", !.buffer = <<>>,
                      !.lastHeight = Height(s.start), !.firstPrev = s.start,
                      !.lastHash = s.start, !.rework = Work(s.start)])

ValidateAndStoreHeadersCommitments(s, hs) ==
  IF Parent[Head(hs)] # s.last THEN No(s, "connect")
  ELSE EnoughWork(s, Presync(s, hs))

\* Slip: commitments are checked to the end.
ChecksToTheEnd(s, all, height) == CommitsAt(s, height)

\* Whether a redownloaded header has to meet a commitment.
ChecksCommitment(s, all, height) == ~all /\ CommitsAt(s, height)

ValidateAndStoreRedownloadedHeader(s, h) ==
  LET height  == s.lastHeight + 1
      old     == IF s.buffer = <<>> THEN s.start ELSE s.buffer[Len(s.buffer)]
      rework  == s.rework + GetBlockProof(nBits(h))
      all     == s.all \/ rework >= MinWork
      stored  == [s EXCEPT !.rework = rework, !.all = all, !.buffer = Append(@, h),
                           !.lastHeight = height, !.lastHash = h]
  IN  IF Parent[h] # s.lastHash THEN No(s, "connect")
      ELSE IF ~PermittedDifficultyTransition(nBits(old), nBits(h)) THEN No(s, "difficulty")
      ELSE IF ~ChecksCommitment(s, all, height) THEN Ok(stored)
      ELSE IF s.commits = <<>> THEN No(s, "commitments")
      ELSE IF s.salt[h] # s.salt[Head(s.commits)] THEN No(s, "commitments")
      ELSE [Ok([stored EXCEPT !.commits = Tail(@)]) EXCEPT !.lucky = h # Head(s.commits)]

RECURSIVE Redownload(_, _)
Redownload(s, hs) ==
  IF hs = <<>> THEN Ok(s)
  ELSE LET r == ValidateAndStoreRedownloadedHeader(s, Head(hs))
       IN  IF r.why # "no" THEN r
           ELSE LET rest == Redownload(r.s, Tail(hs))
                IN  [rest EXCEPT !.lucky = @ \/ r.lucky]

\* Slip: a header is ready once the buffer is full.
ReadyEarly(s) ==
  IF s.all THEN Len(s.buffer)
  ELSE IF Len(s.buffer) >= Buffer THEN Len(s.buffer) - Buffer + 1 ELSE 0

\* How many headers PopHeadersReadyForAcceptance takes from the buffer.
Ready(s) ==
  IF s.all THEN Len(s.buffer)
  ELSE IF Len(s.buffer) > Buffer THEN Len(s.buffer) - Buffer ELSE 0

\* The headers it returns are rebuilt on m_redownload_buffer_first_prev_hash: they
\* have their hashes back only if that is the parent of the first.
PopHeadersReadyForAcceptance(s) ==
  LET n == Ready(s)
  IN  [out |-> IF n > 0 /\ Parent[s.buffer[1]] = s.firstPrev
               THEN SubSeq(s.buffer, 1, n) ELSE <<>>,
       s   |-> [s EXCEPT !.buffer = SubSeq(@, n + 1, Len(@)),
                         !.firstPrev = IF n > 0 THEN s.buffer[n] ELSE @]]

Result(s, why, more, out, luck) ==
  [s |-> IF why = "no" /\ more THEN s ELSE NoSync,
   why |-> why, more |-> more, out |-> out, lucky |-> luck]

\* Slip: only a full message is followed by another request.
MoreWhenFull(state, full) == full

\* Whether a successful message of the first download is followed by a request.
MoreAfterPresync(state, full) == full \/ state = "REDOWNLOAD"

AfterPresync(r, full) ==
  Result(r.s, r.why, r.why = "no" /\ MoreAfterPresync(r.s.state, full), <<>>, FALSE)

AfterRedownload(r, pop, full) ==
  IF r.why # "no" THEN Result(r.s, r.why, FALSE, <<>>, r.lucky)
  ELSE Result(pop.s, "no", full /\ ~(pop.s.buffer = <<>> /\ pop.s.all), pop.out, r.lucky)

\* What becomes of the sync, whether to ask for more, and the headers released.
ProcessNextHeaders(s, hs, full) ==
  IF s.state = "PRESYNC"
  THEN AfterPresync(ValidateAndStoreHeadersCommitments(s, hs), full)
  ELSE LET r == Redownload(s, hs)
       IN  AfterRedownload(r, PopHeadersReadyForAcceptance(r.s), full)

NextHeadersRequestLocator(s) ==
  <<IF s.state = "PRESYNC" THEN s.last ELSE s.lastHash>> \o LocatorEntries(s.start)

-----------------------------------------------------------------------------
(* The node: n is its state, a record of requests, recent, sync, index,    *)
(* best, refused and lucky.                                                *)

MaybeSendGetHeaders(n, locator) ==
  IF n.recent THEN n
  ELSE [n EXCEPT !.requests = Append(@, locator), !.recent = TRUE]

HandleUnconnectingHeaders(n) == MaybeSendGetHeaders(n, LocatorEntries(n.best))

\* What the node does with the result r.
Continued(n, hs, r) ==
  LET m == [n EXCEPT !.sync = r.s, !.lucky = @ \/ r.lucky,
                     !.refused = IF r.why = "no" THEN @ ELSE r.why,
                     !.recent = r.why # "no" /\ @]
  IN  [n   |-> IF r.more THEN MaybeSendGetHeaders(m, NextHeadersRequestLocator(r.s)) ELSE m,
       ok  |-> r.why = "no",
       out |-> IF r.why = "no" THEN r.out ELSE hs]

IsContinuationOfLowWorkHeadersSync(n, hs) ==
  Continued(n, hs, ProcessNextHeaders(n.sync, hs, Len(hs) = MaxResults))

TryLowWorkHeadersSync(n, hs, offset, salt) ==
  IF Len(hs) < MaxResults THEN n
  ELSE IsContinuationOfLowWorkHeadersSync(
         [n EXCEPT !.sync = NewSync(Parent[Head(hs)], offset, salt)], hs).n

\* ProcessNewBlockHeaders of headers that connect, which full validation accepts.
ProcessNewBlockHeaders(n, hs) ==
  LET last == hs[Len(hs)]
  IN  [n EXCEPT !.index = @ \cup {hs[i] : i \in DOMAIN hs},
                !.best = IF Work(last) > Work(@) THEN last ELSE @]

\* The rest of ProcessHeadersMessage, once a sync has had its say on the message.
AfterSync(n, hs, ok, full, offset, salt) ==
  LET last == hs[Len(hs)]
      m    == [n EXCEPT !.recent = FALSE]
      done == ProcessNewBlockHeaders(m, hs)
  IN  IF Parent[Head(hs)] \notin n.index THEN HandleUnconnectingHeaders(n)
      ELSE IF ~(ok \/ (last \in n.index /\ On(last, n.best))) /\ Work(last) < MinWork
      THEN TryLowWorkHeadersSync(m, hs, offset, salt)
      ELSE IF full /\ n.sync = NoSync THEN MaybeSendGetHeaders(done, LocatorEntries(last))
      ELSE done

\* The same for the headers a sync has released.
Released(r, full, offset, salt) ==
  IF r.out = <<>> THEN r.n ELSE AfterSync(r.n, r.out, r.ok, full, offset, salt)

ProcessHeadersMessage(n, hs, offset, salt) ==
  IF hs = <<>> THEN [n EXCEPT !.sync = NoSync, !.recent = FALSE]
  ELSE IF n.sync = NoSync
  THEN IF Parent[Head(hs)] \notin n.index THEN HandleUnconnectingHeaders(n)
       ELSE AfterSync(n, hs, FALSE, Len(hs) = MaxResults, offset, salt)
  ELSE Released(IsContinuationOfLowWorkHeadersSync(n, hs), Len(hs) = MaxResults, offset, salt)

Node == [requests |-> requests, recent |-> recent, sync |-> sync, index |-> index,
         best |-> best, refused |-> refused, lucky |-> lucky]

Becomes(n) ==
  /\ requests' = n.requests /\ recent' = n.recent /\ sync' = n.sync
  /\ index' = n.index /\ best' = n.best
  /\ refused' = n.refused /\ lucky' = n.lucky

-----------------------------------------------------------------------------
(* The peer, and the steps.                                                *)

\* The headers after the first entry of the locator that is on the peer's chain.
HeadersAfter(locator) ==
  LET i    == CHOOSE j \in DOMAIN locator :
                /\ On(locator[j], peer)
                /\ \A k \in 1..(j - 1) : ~On(locator[k], peer)
      from == Height(locator[i])
  IN  SubSeq(Chain(peer), from + 1, Capped(from + MaxResults, Height(peer)))

\* A node answers empty while its own chain has too little work.
Answers(locator) ==
  {HeadersAfter(locator)} \cup (IF Work(peer) < MinWork THEN {<<>>} ELSE {})

\* The initial getheaders is under way.
Init ==
  /\ tree \in {Indexed(Targets(times)) : times \in Profiles}
  /\ prompt \in BOOLEAN
  /\ peer \in Starts
  /\ changes = 0 /\ reorged = FALSE /\ news = FALSE
  /\ requests = <<<<0>>>> /\ recent = TRUE
  /\ sync = NoSync /\ index = {0} /\ best = 0
  /\ refused = "no" /\ lucky = FALSE /\ served = {}

\* The peer answers the oldest request, and the node handles the answer.
Headers ==
  /\ requests # <<>>
  /\ \E hs \in Answers(Head(requests)), offset \in 0..(Period - 1), salt \in Salts :
       /\ LET n == [Node EXCEPT !.requests = Tail(@)]
          IN  Becomes(ProcessHeadersMessage(n, hs, offset, salt))
       /\ served' = served \cup {hs[i] : i \in DOMAIN hs}
  /\ UNCHANGED <<tree, prompt, peerVars, news>>

\* The peer moves to another chain.
PeerChanges ==
  /\ changes < MaxChanges
  /\ \E b \in Blocks \ {peer} :
       /\ peer' = b
       /\ reorged' = (reorged \/ ~On(peer, b))
  /\ changes' = changes + 1
  /\ news' = TRUE
  /\ UNCHANGED <<tree, prompt, requests, recent, sync, index, best, refused, lucky, served>>

\* An inv of the peer's tip.
Inv ==
  /\ news
  /\ news' = FALSE
  /\ Becomes(IF peer \in index THEN Node
             ELSE MaybeSendGetHeaders(Node, LocatorEntries(best)))
  /\ UNCHANGED <<tree, prompt, peerVars, served>>

\* HEADERS_RESPONSE_TIME passes.
ResponseTime ==
  /\ recent
  /\ prompt => requests = <<>>
  /\ recent' = FALSE
  /\ UNCHANGED <<tree, prompt, peerVars, news, requests, sync, index, best, refused, lucky,
                 served>>

Next == Headers \/ PeerChanges \/ Inv \/ ResponseTime

\* What tells a step of Headers from every other step.
Answered ==
  /\ requests # <<>>
  /\ UNCHANGED <<changes, news>>
  /\ requests' # requests \/ recent' \/ index' # index

\* The peer's messages arrive, and time passes.  The first conjunct is weak fairness
\* of Headers, which is enabled while a request is under way.
Fairness ==
  /\ []<>(requests = <<>>) \/ []<><<Answered>>_vars
  /\ WF_vars(Inv) /\ WF_vars(ResponseTime)

Spec == Init /\ [][Next]_vars /\ Fairness

-----------------------------------------------------------------------------
(* What it promises.                                                       *)

\* Unless two blocks happened to share a commitment bit, a header in the block
\* index is below some block that the peer has sent and whose chain has the work
\* asked for, however the peer changed chains between the two downloads
\* (PopHeadersReadyForAcceptance).
StoredHasWork ==
  ~lucky => \A b \in index \ {0} :
    \E d \in served : On(b, d) /\ Work(d) >= MinWork

\* The chain of a peer that only ever grew is never refused for its difficulty or
\* for its commitments, in either download; one that reorganised never for its
\* difficulty (PermittedDifficultyTransition, ValidateAndStoreRedownloadedHeader).
HonestNotRefused ==
  /\ refused # "difficulty"
  /\ ~reorged => refused \in {"no", "connect"}

\* The node comes to know the chain of a prompt peer that only ever grew, once it
\* has the work asked for, whatever is announced between the two downloads
\* (ProcessNextHeaders, ProcessHeadersMessage).
PeerChainReached ==
  prompt => <>[](~reorged /\ Work(peer) >= MinWork => peer \in index)
=============================================================================
