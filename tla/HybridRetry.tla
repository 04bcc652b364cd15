---------------------------- MODULE HybridRetry ----------------------------
(***************************************************************************)
(* Who retries a failed HX1 handshake: the connection threads of CConnman  *)
(* (src/src/net.cpp).  The socket handler (DisconnectNodes) removes broken *)
(* connections, queues reconnections and marks manual destinations for a   *)
(* classical retry.  The addnode thread, the thread of the automatic       *)
(* connections and an RPC thread open connections, and the first two also  *)
(* serve the queue.  They share m_nodes, m_reconnections,                  *)
(* m_v2_hybrid_retry_dests, m_added_node_params and two semaphores, each   *)
(* behind a lock of its own.                                               *)
(*                                                                         *)
(* A destination is a model value: a name given to addnode and an address  *)
(* chosen by the node are the same destination when they are equal.        *)
(***************************************************************************)
EXTENDS Naturals, Sequences, FiniteSets

CONSTANTS
  Named,       \* destinations of addnode
  Picked,      \* addresses the node picks for automatic connections
  Slots,       \* the sizes of semAddnode and semOutbound
  Conns,       \* identities of connections, free for use again once removed
  MaxFailures, \* failed hybrid handshakes of a destination
  MaxCommands  \* commands: addnode add, remove and onetry, setnetworkactive

Dests == Named \cup Picked

Sems == {"addnode", "outbound"}

Grants == Sems \cup {"none"}

Openers == {"added", "open", "rpc"}

ASSUME RetryAssumption ==
  /\ IsFiniteSet(Dests) /\ IsFiniteSet(Conns)
  /\ Slots \in [Sems -> Nat]
  /\ MaxFailures \in Nat /\ MaxCommands \in Nat

VARIABLES
  added,     \* m_added_node_params
  active,    \* fNetworkActive
  nodes,     \* m_nodes: the outbound connections
  mark,      \* m_v2_hybrid_retry_dests: 0, or the listing the mark was made in
  reconn,    \* m_reconnections
  pending,   \* reconnections_to_add of DisconnectNodes
  free,      \* the count of each semaphore
  opener,    \* each opening thread: where it is and its local variables
  commands,  \* commands so far
  listing,   \* how often each destination was removed from the list, plus one
  failures,  \* hybrid handshakes of each destination that failed
  retries    \* classical retries of each destination that were opened

vars == <<added, active, nodes, mark, reconn, pending, free, opener, commands, listing, failures, retries>>

Connections ==
  [id : Conns, dest : Dests, manual : BOOLEAN, way : {"hybrid", "classical", "v1"},
   grant : Grants, end : {"up", "failed", "v1", "closed"}]

\* The arguments of OpenNetworkConnection.
Calls == [dest : Dests, manual : BOOLEAN, v2 : BOOLEAN, classical : BOOLEAN, grant : Grants]

NoCall == [grant |-> "none"]

\* An opener at rest: todo is the list of the addnode loop, grant the loop's own
\* grant, back where the call returns to, and retry its manual_retry (the mark it
\* took, 0 for none).
AtRest == [pc |-> "idle", todo |-> {}, grant |-> "none", call |-> NoCall, back |-> "idle", retry |-> 0]

Init ==
  /\ added \in SUBSET Named
  /\ active = TRUE
  /\ nodes = {}
  /\ mark = [d \in Dests |-> 0]
  /\ reconn = <<>>
  /\ pending = <<>>
  /\ free = Slots
  /\ opener = [t \in Openers |-> AtRest]
  /\ commands = 0
  /\ listing = [d \in Dests |-> 1]
  /\ failures = [d \in Dests |-> 0]
  /\ retries = [d \in Dests |-> 0]

Release(counts, g) == IF g = "none" THEN counts ELSE [counts EXCEPT ![g] = @ + 1]

Connected(d) == \E n \in nodes : n.dest = d

-----------------------------------------------------------------------------
(* Connections end.                                                        *)

\* fDisconnect is set: after a failed hybrid handshake that is to be retried, when
\* the peer knows no v2, or for any other reason.
End(n) ==
  /\ n.end = "up"
  /\ \/ /\ n.way = "hybrid" /\ failures[n.dest] < MaxFailures
        /\ nodes' = (nodes \ {n}) \cup {[n EXCEPT !.end = "failed"]}
        /\ failures' = [failures EXCEPT ![n.dest] = @ + 1]
     \/ /\ n.way # "v1"
        /\ nodes' = (nodes \ {n}) \cup {[n EXCEPT !.end = "v1"]}
        /\ UNCHANGED failures
     \/ /\ nodes' = (nodes \ {n}) \cup {[n EXCEPT !.end = "closed"]}
        /\ UNCHANGED failures
  /\ UNCHANGED <<added, active, mark, reconn, pending, free, opener, commands, listing, retries>>

\* The bound on commands.
Command == commands < MaxCommands /\ commands' = commands + 1

SetNetworkActive ==
  /\ Command
  /\ active' = ~active
  /\ UNCHANGED <<added, nodes, mark, reconn, pending, free, opener, listing, failures, retries>>

\* The reconnections a removed connection leads to, at most one of the two.
Reconnections(n) ==
  CASE ~active -> <<>>
    [] active /\ n.end = "v1" ->
         <<[dest |-> n.dest, manual |-> n.manual, v2 |-> FALSE, classical |-> FALSE, grant |-> n.grant]>>
    [] active /\ n.end = "failed" ->
         <<[dest |-> n.dest, manual |-> n.manual, v2 |-> TRUE, classical |-> ~n.manual, grant |-> n.grant]>>
    [] active /\ n.end \in {"up", "closed"} -> <<>>

\* Slip: the grant goes with the connection when nothing is reconnected.
RemoveKeepsGrant(n) ==
  /\ n.end # "up" \/ ~active
  /\ nodes' = nodes \ {n}
  /\ pending' = pending \o Reconnections(n)
  /\ UNCHANGED free
  /\ mark' = IF active /\ n.end = "failed" /\ n.manual
             THEN [mark EXCEPT ![n.dest] = IF @ = 0 THEN listing[n.dest] ELSE @] ELSE mark
  /\ UNCHANGED <<added, active, reconn, opener, commands, listing, failures, retries>>

\* DisconnectNodes removes a connection (any, if the network is off): its grant
\* goes to the reconnection or back to the semaphore.
Remove(n) ==
  /\ n.end # "up" \/ ~active
  /\ nodes' = nodes \ {n}
  /\ pending' = pending \o Reconnections(n)
  /\ free' = IF Reconnections(n) = <<>> THEN Release(free, n.grant) ELSE free
  /\ mark' = IF active /\ n.end = "failed" /\ n.manual
             THEN [mark EXCEPT ![n.dest] = IF @ = 0 THEN listing[n.dest] ELSE @] ELSE mark
  /\ UNCHANGED <<added, active, reconn, opener, commands, listing, failures, retries>>

\* The end of DisconnectNodes, with m_nodes_mutex no longer held.
Splice ==
  /\ pending # <<>>
  /\ reconn' = reconn \o pending
  /\ pending' = <<>>
  /\ UNCHANGED <<added, active, nodes, mark, free, opener, commands, listing, failures, retries>>

-----------------------------------------------------------------------------
(* OpenNetworkConnection, in any opener.                                   *)

\* After a call the addnode loop tries for its next grant.
NextGrant(t) == opener[t].back = "added" /\ free["addnode"] > 0

GrantAfter(t) ==
  IF opener[t].back # "added" THEN opener[t].grant ELSE IF NextGrant(t) THEN "addnode" ELSE "none"

Returned(t) ==
  [opener EXCEPT ![t] =
     [@ EXCEPT !.pc = opener[t].back, !.call = NoCall, !.retry = 0, !.grant = GrantAfter(t)]]

Tried(t) == IF NextGrant(t) THEN [free EXCEPT !["addnode"] = @ - 1] ELSE free

\* The call returns false and its caller drops the grant, the addnode loop after
\* it has tried for the next one.
ReturnFalse(t) ==
  /\ opener' = Returned(t)
  /\ free' = Release(Tried(t), opener[t].call.grant)

\* The early returns: the network is off, or the destination is connected.
Check(t) ==
  /\ opener[t].pc = "check"
  /\ IF ~active \/ Connected(opener[t].call.dest)
     THEN ReturnFalse(t)
     ELSE opener' = [opener EXCEPT ![t].pc = "take"] /\ UNCHANGED free
  /\ UNCHANGED <<added, active, nodes, mark, reconn, pending, commands, listing, failures, retries>>

\* Slip: contains() for erase().
TakeLooksUp(t) ==
  LET c == opener[t].call
  IN  /\ opener[t].pc = "take"
      /\ opener' = [opener EXCEPT ![t].pc = "resolve", ![t].retry = IF c.manual /\ c.v2 THEN mark[c.dest] ELSE 0]
      /\ UNCHANGED <<added, active, nodes, mark, reconn, pending, free, commands, listing, failures, retries>>

\* A manual v2 connection takes the mark of its destination.
Take(t) ==
  LET c == opener[t].call
      takes == c.manual /\ c.v2
  IN  /\ opener[t].pc = "take"
      /\ opener' = [opener EXCEPT ![t].pc = "resolve", ![t].retry = IF takes THEN mark[c.dest] ELSE 0]
      /\ mark' = IF takes THEN [mark EXCEPT ![c.dest] = 0] ELSE mark
      /\ UNCHANGED <<added, active, nodes, reconn, pending, free, commands, listing, failures, retries>>

\* Slip: a connection that cannot be opened uses the retry up.
FailForgets(t) ==
  /\ ReturnFalse(t)
  /\ UNCHANGED <<added, active, nodes, mark, reconn, pending, commands, listing, failures, retries>>

\* ConnectNode returned nullptr: the mark is put back.
Fail(t) ==
  LET d == opener[t].call.dest
  IN  /\ ReturnFalse(t)
      /\ mark' = IF opener[t].retry # 0 /\ mark[d] = 0 THEN [mark EXCEPT ![d] = opener[t].retry] ELSE mark
      /\ UNCHANGED <<added, active, nodes, reconn, pending, commands, listing, failures, retries>>

\* ConnectNode looks once more whether the destination is connected, and dials.
Resolve(t) ==
  /\ opener[t].pc = "resolve"
  /\ IF Connected(opener[t].call.dest)
     THEN Fail(t)
     ELSE /\ opener' = [opener EXCEPT ![t].pc = "dial"]
          /\ UNCHANGED <<added, active, nodes, mark, reconn, pending, free, commands, listing, failures, retries>>

DialFails(t) ==
  /\ opener[t].pc = "dial"
  /\ Fail(t)

\* The connection is up and goes into m_nodes with the caller's grant.  The addnode
\* loop tries for another one.
Dial(t) ==
  LET c == opener[t].call
      classical == c.classical \/ opener[t].retry # 0
  IN  /\ opener[t].pc = "dial"
      /\ \E i \in Conns :
           /\ i \notin {n.id : n \in nodes}
           /\ \A j \in Conns : j \notin {n.id : n \in nodes} => i <= j
           /\ nodes' = nodes \cup
                {[id |-> i, dest |-> c.dest, manual |-> c.manual, grant |-> c.grant, end |-> "up",
                  way |-> IF ~c.v2 THEN "v1" ELSE IF classical THEN "classical" ELSE "hybrid"]}
      /\ retries' = IF classical THEN [retries EXCEPT ![c.dest] = @ + 1] ELSE retries
      /\ opener' = Returned(t)
      /\ free' = Tried(t)
      /\ UNCHANGED <<added, active, mark, reconn, pending, commands, listing, failures>>

-----------------------------------------------------------------------------
(* The threads that open connections.                                      *)

\* Slip: a destination with a retry due is left to the queue.
AddedLoopSkips ==
  /\ opener["added"].pc = "idle"
  /\ free["addnode"] > 0
  /\ free' = [free EXCEPT !["addnode"] = @ - 1]
  /\ opener' = [opener EXCEPT !["added"] = [AtRest EXCEPT !.pc = "added", !.grant = "addnode",
                                              !.todo = {d \in added : ~Connected(d) /\ mark[d] = 0}]]
  /\ UNCHANGED <<added, active, nodes, mark, reconn, pending, commands, listing, failures, retries>>

\* ThreadOpenAddedConnections waits for a grant and lists what is not connected.
\* (The list of the loop is read in two steps in GetAddedNodeInfo; the nodes it
\* holds may be connected or removed by the time the loop reaches them.)
AddedLoop ==
  /\ opener["added"].pc = "idle"
  /\ free["addnode"] > 0
  /\ free' = [free EXCEPT !["addnode"] = @ - 1]
  /\ opener' = [opener EXCEPT !["added"] = [AtRest EXCEPT !.pc = "added", !.grant = "addnode",
                                              !.todo = {d \in added : ~Connected(d)}]]
  /\ UNCHANGED <<added, active, nodes, mark, reconn, pending, commands, listing, failures, retries>>

\* The next of the list, as long as there is a grant; then PerformReconnections.
AddedNext ==
  /\ opener["added"].pc = "added"
  /\ IF opener["added"].todo # {} /\ opener["added"].grant # "none"
     THEN \E d \in opener["added"].todo :
            opener' = [opener EXCEPT !["added"] =
                         [@ EXCEPT !.pc = "check", !.todo = opener["added"].todo \ {d},
                                   !.grant = "none", !.back = "added",
                                   !.call = [dest |-> d, manual |-> TRUE, v2 |-> TRUE,
                                             classical |-> FALSE, grant |-> "addnode"]]]
     ELSE opener' = [opener EXCEPT !["added"] = [@ EXCEPT !.pc = "reconnect", !.todo = {}]]
  /\ UNCHANGED <<added, active, nodes, mark, reconn, pending, free, commands, listing, failures, retries>>

\* ThreadOpenConnections starts a round.
OpenLoop ==
  /\ opener["open"].pc = "idle"
  /\ opener' = [opener EXCEPT !["open"].pc = "reconnect"]
  /\ UNCHANGED <<added, active, nodes, mark, reconn, pending, free, commands, listing, failures, retries>>

\* PerformReconnections takes the first entry; the queue empty, the addnode thread
\* sleeps and drops its grant, the other waits for a grant of its own.
Reconnect(t) ==
  /\ t \in {"added", "open"}
  /\ opener[t].pc = "reconnect"
  /\ IF reconn # <<>>
     THEN /\ reconn' = Tail(reconn)
          /\ opener' = [opener EXCEPT ![t] = [@ EXCEPT !.pc = "check", !.back = "reconnect",
                                                       !.call = Head(reconn)]]
          /\ UNCHANGED free
     ELSE /\ opener' = [opener EXCEPT ![t] = IF t = "added" THEN AtRest ELSE [AtRest EXCEPT !.pc = "wait"]]
          /\ free' = Release(free, opener[t].grant)
          /\ UNCHANGED reconn
  /\ UNCHANGED <<added, active, nodes, mark, pending, commands, listing, failures, retries>>

\* ThreadOpenConnections has a grant: it picks an address that is not on the
\* addnode list, or none.
Pick ==
  /\ opener["open"].pc = "wait"
  /\ free["outbound"] > 0
  /\ \/ \E d \in Picked \ added :
          /\ opener' = [opener EXCEPT !["open"] =
                          [AtRest EXCEPT !.pc = "check",
                                         !.call = [dest |-> d, manual |-> FALSE, v2 |-> TRUE,
                                                   classical |-> FALSE, grant |-> "outbound"]]]
          /\ free' = [free EXCEPT !["outbound"] = @ - 1]
     \/ opener' = [opener EXCEPT !["open"] = AtRest] /\ UNCHANGED free
  /\ UNCHANGED <<added, active, nodes, mark, reconn, pending, commands, listing, failures, retries>>

\* addnode onetry.
OneTry(d) ==
  /\ Command
  /\ opener["rpc"].pc = "idle"
  /\ \E v2 \in BOOLEAN :
       opener' = [opener EXCEPT !["rpc"] =
                    [AtRest EXCEPT !.pc = "check",
                                   !.call = [dest |-> d, manual |-> TRUE, v2 |-> v2,
                                             classical |-> FALSE, grant |-> "none"]]]
  /\ UNCHANGED <<added, active, nodes, mark, reconn, pending, free, listing, failures, retries>>

AddNode(d) ==
  /\ Command
  /\ d \notin added
  /\ added' = added \cup {d}
  /\ mark' = [mark EXCEPT ![d] = 0]
  /\ UNCHANGED <<active, nodes, reconn, pending, free, opener, listing, failures, retries>>

RemoveAddedNode(d) ==
  /\ Command
  /\ d \in added
  /\ added' = added \ {d}
  /\ mark' = [mark EXCEPT ![d] = 0]
  /\ listing' = [listing EXCEPT ![d] = @ + 1]
  /\ UNCHANGED <<active, nodes, reconn, pending, free, opener, failures, retries>>

-----------------------------------------------------------------------------

OpenerStep(t) ==
  \/ Check(t) \/ Take(t) \/ Resolve(t) \/ DialFails(t) \/ Dial(t) \/ Reconnect(t)
  \/ t = "added" /\ (AddedLoop \/ AddedNext)
  \/ t = "open" /\ (OpenLoop \/ Pick)

Next ==
  \/ \E n \in nodes : End(n) \/ Remove(n)
  \/ SetNetworkActive
  \/ Splice
  \/ \E t \in Openers : OpenerStep(t)
  \/ \E d \in Named : OneTry(d) \/ AddNode(d) \/ RemoveAddedNode(d)

Spec == Init /\ [][Next]_vars

\* The threads go on, the socket handler reaches every connection, and a
\* destination that is dialled again and again answers at last.  Commands and
\* connections that end owe nothing.
Fairness ==
  /\ WF_vars(Splice)
  /\ \A i \in Conns : WF_vars(\E n \in nodes : n.id = i /\ Remove(n))
  /\ \A t \in Openers : WF_vars(OpenerStep(t)) /\ SF_vars(Dial(t))

FairSpec == Spec /\ Fairness

-----------------------------------------------------------------------------
(* Properties.                                                             *)

\* The retry of d is due: the mark is set, or a thread that took it has not opened
\* the connection yet.
Owed(d) == mark[d] # 0 \/ \E t \in Openers : opener[t].retry # 0 /\ opener[t].call.dest = d

\* "Prefer mode retries a failed hybrid handshake once" (DisconnectNodes): however
\* the loops, the queue and onetry race, a destination is never given more
\* classical retries than it had failed handshakes.
RetryOnce == \A d \in Dests : retries[d] <= failures[d]

\* A due retry ends only when it is run or when the destination is listed or
\* unlisted: the queue's entry may be dropped, a dial may fail, the retry stays.
RetryNotLost ==
  [][\A d \in Dests : Owed(d) /\ ~Owed(d)' => retries'[d] > retries[d] \/ added' # added]_vars

Holding(g) ==
  Cardinality({n \in nodes : n.grant = g})
    + Cardinality({i \in DOMAIN reconn : reconn[i].grant = g})
    + Cardinality({i \in DOMAIN pending : pending[i].grant = g})
    + Cardinality({t \in Openers : opener[t].grant = g})
    + Cardinality({t \in Openers : opener[t].call.grant = g})

\* The grants that connections, queued reconnections and the loops hold, and the
\* count of the semaphore, always make up its size: none leaks or is given back
\* twice on its way through the queue.
GrantsConserved == \A g \in Sems : free[g] + Holding(g) = Slots[g]

\* "Whichever loop opens it next runs it" (net.h): the retry of a listed
\* destination that is not connected stays due for ever only if the addnode loop
\* waits for ever for a slot.
RetryRuns ==
  \A d \in Named :
    <>[](Owed(d) /\ d \in added /\ ~Connected(d) /\ active)
      => <>[](opener["added"].pc = "idle" /\ free["addnode"] = 0)

\* "A later addnode of the same destination must not inherit a stale classical
\* retry" (RemoveAddedNode): the mark of a listed destination was made in its
\* present listing.
NoStaleRetry == \A d \in added : mark[d] \in {0, listing[d]}
=============================================================================
