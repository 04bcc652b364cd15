---------------------------- MODULE StratumPool ----------------------------
(***************************************************************************)
(* The stratum pool of src/xcoin-pool/xcoin-pool.py: block templates, jobs, *)
(* shares and miner slots.  The pool is one asyncio event loop.  A task of *)
(* it, the poll loop or the handler of one miner's connection, runs until  *)
(* its next await.  Jobs.refresh and every RPC of a handler run in other   *)
(* threads (asyncio.to_thread), which interleave with the event loop at    *)
(* any point: notify reads Jobs.tmpl and Jobs.branch_le in two steps, and  *)
(* refresh writes them in two steps.                                       *)
(*                                                                         *)
(* A transaction set is a model value; the merkle branch of a job is named *)
(* by the transaction set it was computed from, and the body of its block  *)
(* by the one it carries.                                                  *)
(***************************************************************************)
EXTENDS Naturals, Sequences, FiniteSets

CONSTANTS
  Miners,   \* connections, each used once
  Seated,   \* the ones that are connected and authorized at the start
  Cap,      \* XCOIN_POOL_MAX_MINERS, 0 for no cap
  TxSets,   \* transaction sets the node's template can hold
  JobKeep,  \* jobs a session keeps (8)
  Events,   \* what may happen besides mining, a subset of EventKinds
  MaxMoves, \* changes of the node's tip or transactions, solved blocks included
  MaxJobs   \* jobs of a session from vardiff

EventKinds == {"join",  \* miners connect and authorize
               "lost",  \* a connection breaks
               "slow",  \* a client stops reading
               "rpc",   \* a call to the node fails
               "pow",   \* miners submit shares
               "retune"} \* vardiff changes a session's difficulty

ASSUME MinersAssumption ==
  IsFiniteSet(Miners) /\ {"poll", "free", "none", "other"} \cap Miners = {}
ASSUME SeatedAssumption ==
  Seated \subseteq Miners /\ Cap \in Nat /\ (Cap > 0 => Cardinality(Seated) <= Cap)
ASSUME BoundsAssumption == JobKeep \in Nat \ {0} /\ MaxMoves \in Nat /\ MaxJobs \in Nat

Tasks == {"poll"} \cup Miners

Templates == [prev : Nat, txs : TxSets]

JobRecords == [id : Nat, prev : Nat, txs : TxSets, branch : TxSets]

VARIABLES
  node,     \* the node: the owners of its blocks after genesis, its template's transactions
  moves,    \* changes of the node so far, solved blocks included
  tmpl,     \* Jobs.tmpl
  branch,   \* Jobs.branch_le
  conn,     \* each connection: new, open, lost (broken, its handler not done), closed
  slow,     \* the clients that no longer read
  spk,      \* whether each session has a payout script, that is, a slot
  jobs,     \* Session.jobs, oldest first
  jobn,     \* Session.jobn
  task,     \* each task: where it is and its local variables
  loop,     \* the task inside a notify, if any: nothing else runs in the event loop
  recorded  \* the blocks credited by record_block, in order

vars == <<node, moves, tmpl, branch, conn, slow, spk, jobs, jobn, task, loop, recorded>>

Tip == Len(node.chain)

Sessions == {m \in Miners : conn[m] \in {"open", "lost"}}

\* The connection of a session is gone: its drain() raises.
Gone(m) == conn[m] # "open"

NoJob == [id |-> 0]

NoTemplate == [prev |-> 0]

\* A task's local variables: its template t, what refresh returned, the sessions
\* it has still to notify and the one it is at, what it is doing (aim), the job of
\* the share it handles, whether the share is a block, and the height the node
\* accepted that block at.
IdleTask == [pc |-> "idle", t |-> NoTemplate, change |-> "none", todo |-> {},
             who |-> "none", aim |-> "none", job |-> NoJob, solved |-> FALSE, height |-> 0]

Init ==
  \E x \in TxSets :
    /\ node = [chain |-> <<>>, txs |-> x]
    /\ moves = 0
    /\ tmpl = [prev |-> 0, txs |-> x]
    /\ branch = x
    /\ conn = [m \in Miners |-> IF m \in Seated THEN "open" ELSE "new"]
    /\ slow = {}
    /\ spk = [m \in Miners |-> m \in Seated]
    /\ jobs = [m \in Miners |-> IF m \in Seated
                 THEN <<[id |-> 1, prev |-> 0, txs |-> x, branch |-> x]>> ELSE <<>>]
    /\ jobn = [m \in Miners |-> IF m \in Seated THEN 1 ELSE 0]
    /\ task = [c \in Tasks |-> IdleTask]
    /\ loop = "free"
    /\ recorded = <<>>

-----------------------------------------------------------------------------
(* The node and the miners' connections.                                   *)

\* Another miner's block arrives, or the mempool changes.
NodeMoves ==
  /\ moves < MaxMoves
  /\ moves' = moves + 1
  /\ \E x \in TxSets :
       \/ node' = [chain |-> Append(node.chain, "other"), txs |-> x]
       \/ x # node.txs /\ node' = [node EXCEPT !.txs = x]
  /\ UNCHANGED <<tmpl, branch, conn, slow, spk, jobs, jobn, task, loop, recorded>>

Connect(m) ==
  /\ "join" \in Events
  /\ conn[m] = "new"
  /\ conn' = [conn EXCEPT ![m] = "open"]
  /\ UNCHANGED <<node, moves, tmpl, branch, slow, spk, jobs, jobn, task, loop, recorded>>

ConnectionLost(m) ==
  /\ "lost" \in Events
  /\ conn[m] = "open"
  /\ conn' = [conn EXCEPT ![m] = "lost"]
  /\ UNCHANGED <<node, moves, tmpl, branch, slow, spk, jobs, jobn, task, loop, recorded>>

StopsReading(m) ==
  /\ "slow" \in Events
  /\ conn[m] = "open"
  /\ slow' = slow \cup {m}
  /\ UNCHANGED <<node, moves, tmpl, branch, conn, spk, jobs, jobn, task, loop, recorded>>

-----------------------------------------------------------------------------
(* Jobs.refresh, in a thread of its own for every task that awaits it.     *)

\* The poll loop starts its next round.
Poll ==
  /\ loop = "free"
  /\ task["poll"].pc = "idle"
  /\ task' = [task EXCEPT !["poll"].pc = "fetch", !["poll"].aim = "poll"]
  /\ UNCHANGED <<node, moves, tmpl, branch, conn, slow, spk, jobs, jobn, loop, recorded>>

\* getblocktemplate answers, or fails and refresh returns None.
Fetch(c) ==
  /\ task[c].pc = "fetch"
  /\ \/ task' = [task EXCEPT ![c].pc = "compare", ![c].t = [prev |-> Tip, txs |-> node.txs]]
     \/ "rpc" \in Events /\ task' = [task EXCEPT ![c].pc = "refreshed", ![c].change = "none"]
  /\ UNCHANGED <<node, moves, tmpl, branch, conn, slow, spk, jobs, jobn, loop, recorded>>

\* The new template against Jobs.tmpl.
Change(t) ==
  CASE tmpl.prev = t.prev /\ tmpl.txs = t.txs -> "none"
    [] tmpl.prev = t.prev /\ tmpl.txs # t.txs -> "txs"
    [] tmpl.prev # t.prev -> "tip"

Compare(c) ==
  /\ task[c].pc = "compare"
  /\ LET change == Change(task[c].t)
     IN  task' = [task EXCEPT ![c].change = change,
                              ![c].pc = IF change = "none" THEN "settmpl" ELSE "setbranch"]
  /\ UNCHANGED <<node, moves, tmpl, branch, conn, slow, spk, jobs, jobn, loop, recorded>>

SetBranch(c) ==
  /\ task[c].pc = "setbranch"
  /\ branch' = task[c].t.txs
  /\ task' = [task EXCEPT ![c].pc = "settmpl"]
  /\ UNCHANGED <<node, moves, tmpl, conn, slow, spk, jobs, jobn, loop, recorded>>

SetTmpl(c) ==
  /\ task[c].pc = "settmpl"
  /\ tmpl' = task[c].t
  /\ task' = [task EXCEPT ![c].pc = "refreshed"]
  /\ UNCHANGED <<node, moves, branch, conn, slow, spk, jobs, jobn, loop, recorded>>

-----------------------------------------------------------------------------
(* Telling sessions about new work.                                        *)

\* Slip: a miner that found a block is the only one told.
ToNotifyWinner(c) ==
  CASE task[c].aim \in {"seat", "won"} -> {c}
    [] task[c].aim = "poll" -> IF task[c].change = "none" THEN {} ELSE Sessions

\* A miner that has just authorized is given a job whatever refresh returned;
\* the poll loop, and a miner that found a block, tell every session of a change.
ToNotify(c) ==
  CASE task[c].aim = "seat" -> {c}
    [] task[c].aim \in {"poll", "won"} -> IF task[c].change = "none" THEN {} ELSE Sessions

AfterRefresh(c) ==
  /\ loop = "free"
  /\ task[c].pc = "refreshed"
  /\ task' = [task EXCEPT ![c].pc = "notify", ![c].todo = ToNotify(c),
                          ![c].t = NoTemplate, ![c].change = "none"]
  /\ UNCHANGED <<node, moves, tmpl, branch, conn, slow, spk, jobs, jobn, loop, recorded>>

\* Session.notify reads the template, unless the session has no payout script.
NotifyRead(c, s) ==
  /\ loop = "free"
  /\ task[c].pc = "notify"
  /\ s \in task[c].todo
  /\ IF spk[s]
     THEN /\ task' = [task EXCEPT ![c].pc = "build", ![c].who = s, ![c].t = tmpl]
          /\ loop' = c
     ELSE /\ task' = [task EXCEPT ![c].todo = @ \ {s}]
          /\ UNCHANGED loop
  /\ UNCHANGED <<node, moves, tmpl, branch, conn, slow, spk, jobs, jobn, recorded>>

\* The last n jobs: notify keeps a few recent ones.
Recent(js, n) == IF Len(js) <= n THEN js ELSE SubSeq(js, Len(js) - n + 1, Len(js))

\* It then builds the job with the branch of the moment, and sends it.
NotifyBuild(c) ==
  /\ loop = c
  /\ LET s == task[c].who
         job == [id |-> jobn[s] + 1, prev |-> task[c].t.prev, txs |-> task[c].t.txs,
                 branch |-> branch]
     IN  /\ jobn' = [jobn EXCEPT ![s] = @ + 1]
         /\ jobs' = [jobs EXCEPT ![s] = Recent(Append(@, job), JobKeep)]
  /\ task' = [task EXCEPT ![c].pc = "drain", ![c].t = NoTemplate]
  /\ loop' = "free"
  /\ UNCHANGED <<node, moves, tmpl, branch, conn, slow, spk, recorded>>

\* Slip: a poll loop without its try, so the first exception is its last.
RaiseUncaught(c) ==
  /\ task' = IF c = "poll" THEN task ELSE [task EXCEPT ![c] = IdleTask]
  /\ conn' = IF c = "poll" THEN conn ELSE [conn EXCEPT ![c] = "closed"]

\* An exception of drain() ends the poll loop's round, and a handler's session.
Raise(c) ==
  /\ task' = [task EXCEPT ![c] = IdleTask]
  /\ conn' = IF c = "poll" THEN conn ELSE [conn EXCEPT ![c] = "closed"]

Drain(c) ==
  /\ loop = "free"
  /\ task[c].pc = "drain"
  /\ IF Gone(task[c].who)
     THEN Raise(c)
     ELSE /\ task[c].who \notin slow
          /\ task' = [task EXCEPT ![c].pc = "notify", ![c].todo = @ \ {task[c].who},
                                  ![c].who = "none"]
          /\ UNCHANGED conn
  /\ UNCHANGED <<node, moves, tmpl, branch, slow, spk, jobs, jobn, loop, recorded>>

HasJob(m, id) == \E i \in 1..Len(jobs[m]) : jobs[m][i].id = id

\* The task goes on: to submitblock if its share was a block and the session
\* still has the job, or to its next turn.
NotifyEnd(c) ==
  /\ loop = "free"
  /\ task[c].pc = "notify"
  /\ task[c].todo = {}
  /\ task' = [task EXCEPT ![c] =
                IF @.aim = "share" /\ @.solved /\ HasJob(c, @.job.id)
                THEN [@ EXCEPT !.pc = "submitblock"] ELSE IdleTask]
  /\ UNCHANGED <<node, moves, tmpl, branch, conn, slow, spk, jobs, jobn, loop, recorded>>

\* apply_diff, for a silent session (the poll loop) or at a miner's suggestion:
\* fresh work at the new difficulty.  For a session without a payout script it
\* sends no work.
Retune(c, s) ==
  /\ "retune" \in Events
  /\ loop = "free"
  /\ c \in {"poll", s}
  /\ task[c].pc = "idle"
  /\ s \in Sessions
  /\ spk[s]
  /\ jobn[s] < MaxJobs
  /\ task' = [task EXCEPT ![c].pc = "notify", ![c].aim = "retune", ![c].todo = {s}]
  /\ UNCHANGED <<node, moves, tmpl, branch, conn, slow, spk, jobs, jobn, loop, recorded>>

-----------------------------------------------------------------------------
(* The handler of a miner's connection.                                    *)

\* readline() returns nothing on a broken connection.
EndSession(m) ==
  /\ loop = "free"
  /\ task[m].pc = "idle"
  /\ conn[m] = "lost"
  /\ conn' = [conn EXCEPT ![m] = "closed"]
  /\ UNCHANGED <<node, moves, tmpl, branch, slow, spk, jobs, jobn, task, loop, recorded>>

connected_miners(m) == Cardinality({s \in Sessions \ {m} : spk[s]})

\* Slip: > for >=.
pool_full_late(m) == Cap > 0 /\ connected_miners(m) > Cap

pool_full(m) == Cap > 0 /\ connected_miners(m) >= Cap

\* mining.authorize: refused when the pool is full (and the connection closed) or
\* for a bad address; a session may authorize again.
Authorize(m) ==
  /\ "join" \in Events
  /\ loop = "free"
  /\ task[m].pc = "idle"
  /\ conn[m] = "open"
  /\ jobn[m] < MaxJobs
  /\ IF pool_full(m)
     THEN conn' = [conn EXCEPT ![m] = "lost"] /\ UNCHANGED <<spk, task>>
     ELSE /\ \E good \in BOOLEAN :
               /\ spk' = [spk EXCEPT ![m] = good]
               /\ task' = IF good THEN [task EXCEPT ![m].pc = "fetch", ![m].aim = "seat"] ELSE task
          /\ UNCHANGED conn
  /\ UNCHANGED <<node, moves, tmpl, branch, slow, jobs, jobn, loop, recorded>>

\* mining.submit: validate looks up the job, refuses one on another tip than the
\* template's, and awaits getmetaldagpowhash.
Submit(m) ==
  /\ "pow" \in Events
  /\ loop = "free"
  /\ task[m].pc = "idle"
  /\ conn[m] = "open"
  /\ \E i \in 1..Len(jobs[m]) :
       /\ jobs[m][i].prev = tmpl.prev
       /\ task' = [task EXCEPT ![m].pc = "pow", ![m].aim = "share", ![m].job = jobs[m][i]]
  /\ UNCHANGED <<node, moves, tmpl, branch, conn, slow, spk, jobs, jobn, loop, recorded>>

\* The hash is no share (or the call failed), a share, or a block.
PowHash(m) ==
  /\ loop = "free"
  /\ task[m].pc = "pow"
  /\ \/ task' = [task EXCEPT ![m] = IdleTask] /\ UNCHANGED moves
     \/ task' = [task EXCEPT ![m].pc = "reply"] /\ UNCHANGED moves
     \/ /\ moves < MaxMoves
        /\ moves' = moves + 1
        /\ task' = [task EXCEPT ![m].pc = "reply", ![m].solved = TRUE]
  /\ UNCHANGED <<node, tmpl, branch, conn, slow, spk, jobs, jobn, loop, recorded>>

\* The reply is sent; then the job is looked up again (an exception, answered
\* and forgotten, if it has gone) and the share is credited, which may retune the
\* session.
Reply(m) ==
  /\ loop = "free"
  /\ task[m].pc = "reply"
  /\ IF Gone(m) THEN Raise(m)
     ELSE /\ m \notin slow
          /\ IF HasJob(m, task[m].job.id)
             THEN \E todo \in {{}} \cup (IF "retune" \in Events /\ jobn[m] < MaxJobs THEN {{m}} ELSE {}) :
                    task' = [task EXCEPT ![m].pc = "notify", ![m].todo = todo]
             ELSE task' = [task EXCEPT ![m] = IdleTask]
          /\ UNCHANGED conn
  /\ UNCHANGED <<node, moves, tmpl, branch, slow, spk, jobs, jobn, loop, recorded>>

\* The node takes a block on its tip whose header commits to its body.
Accepted(job) == job.prev = Tip /\ job.branch = job.txs

SubmitBlock(m) ==
  /\ task[m].pc = "submitblock"
  /\ \/ /\ Accepted(task[m].job)
        /\ \E x \in TxSets : node' = [chain |-> Append(node.chain, m), txs |-> x]
        /\ task' = [task EXCEPT ![m].pc = "getbest", ![m].height = Tip + 1]
     \/ /\ ~Accepted(task[m].job) \/ "rpc" \in Events
        /\ task' = [task EXCEPT ![m].pc = "getbest"]
        /\ UNCHANGED node
  /\ UNCHANGED <<moves, tmpl, branch, conn, slow, spk, jobs, jobn, loop, recorded>>

\* Slip: the block counts once submitblock has answered.
GetBestUnasked(m) ==
  /\ loop = "free"
  /\ task[m].pc = "getbest"
  /\ recorded' = Append(recorded, [height |-> Tip, miner |-> m])
  /\ task' = [task EXCEPT ![m] = [IdleTask EXCEPT !.pc = "fetch", !.aim = "won"]]
  /\ UNCHANGED <<node, moves, tmpl, branch, conn, slow, spk, jobs, jobn, loop>>

\* getbestblockhash says whether the block is the tip; then its height is taken
\* from the job, if the session still has it, and the block recorded.
GetBest(m) ==
  /\ loop = "free"
  /\ task[m].pc = "getbest"
  /\ LET won == task[m].height > 0 /\ Tip = task[m].height
     IN  \/ /\ won /\ ~HasJob(m, task[m].job.id)
            /\ task' = [task EXCEPT ![m] = IdleTask]
            /\ UNCHANGED recorded
         \/ /\ won => HasJob(m, task[m].job.id)
            /\ recorded' = IF won THEN Append(recorded, [height |-> Tip, miner |-> m]) ELSE recorded
            /\ task' = [task EXCEPT ![m] = [IdleTask EXCEPT !.pc = "fetch", !.aim = "won"]]
         \/ /\ "rpc" \in Events
            /\ task' = [task EXCEPT ![m] = [IdleTask EXCEPT !.pc = "fetch", !.aim = "won"]]
            /\ UNCHANGED recorded
  /\ UNCHANGED <<node, moves, tmpl, branch, conn, slow, spk, jobs, jobn, loop>>

\* What a task does next once it has started: its turns in the event loop and the
\* steps of its threads.
TaskStep(c) ==
  \/ Fetch(c) \/ Compare(c) \/ SetBranch(c) \/ SetTmpl(c) \/ AfterRefresh(c)
  \/ \E s \in Miners : NotifyRead(c, s)
  \/ NotifyBuild(c) \/ Drain(c) \/ NotifyEnd(c)
  \/ c = "poll" /\ Poll
  \/ c \in Miners /\ (EndSession(c) \/ PowHash(c) \/ Reply(c) \/ SubmitBlock(c) \/ GetBest(c))

Next ==
  \/ NodeMoves
  \/ \E m \in Miners : \/ Connect(m) \/ ConnectionLost(m) \/ StopsReading(m)
                       \/ Authorize(m) \/ Submit(m)
  \/ \E c \in Tasks : TaskStep(c) \/ (\E s \in Miners : Retune(c, s))

Spec == Init /\ [][Next]_vars

\* The event loop runs every task that is ready, the threads and the node go on,
\* and the poll loop starts its next round; miners and the network owe nothing.
Fairness == \A c \in Tasks : WF_vars(TaskStep(c))

FairSpec == Spec /\ Fairness

-----------------------------------------------------------------------------
(* Properties.                                                             *)

\* Two authorizes can never both take the last slot: the sessions with a payout
\* script never outnumber XCOIN_POOL_MAX_MINERS, through refusals, second
\* authorizes and lost connections.
SlotCap == Cap > 0 => Cardinality({m \in Sessions : spk[m]}) <= Cap

\* record_block credits a block to a miner only if the node took that miner's
\* block at that height, and credits it once, however two miners' blocks, other
\* blocks and failing calls interleave.
RecordedIsMined ==
  /\ \A i \in DOMAIN recorded :
       recorded[i].height \in 1..Tip /\ node.chain[recorded[i].height] = recorded[i].miner
  /\ \A i, j \in DOMAIN recorded : i # j => recorded[i].height # recorded[j].height

\* The poll loop never stops asking the node for work, whatever connections come,
\* authorize and break while it notifies and whichever calls fail; only a client
\* that does not read can hold it.
PollKeepsPolling ==
  []<>(task["poll"].pc = "fetch" \/ (task["poll"].pc = "drain" /\ task["poll"].who \in slow))

LatestJob(m) == jobs[m][Len(jobs[m])]

\* A solved header is only ever paired with the body it was built for (the
\* comment in Jobs.refresh): a job's branch is that of its own transactions.
JobPairing == \A m \in Miners : \A i \in 1..Len(jobs[m]) : jobs[m][i].branch = jobs[m][i].txs
=============================================================================
