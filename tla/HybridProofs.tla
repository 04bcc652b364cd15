---------------------------- MODULE HybridProofs ----------------------------
(***************************************************************************)
(* The safety of HybridRetry for every set of destinations and             *)
(* connections, every size of the semaphores and any number of failures    *)
(* and commands: a retry that is due is never lost, the grants of the two  *)
(* semaphores are conserved, and no destination is given more classical    *)
(* retries than it had failed handshakes.                                  *)
(***************************************************************************)
EXTENDS HybridRetry, TLAPS

-----------------------------------------------------------------------------
(* The types, and what an opener holds where.                              *)

CallPcs == {"check", "take", "resolve", "dial"}

OpenerRecords ==
  [pc : CallPcs \cup {"idle", "added", "wait", "reconnect"}, todo : SUBSET Named, grant : {"addnode", "none"},
   call : Calls \cup {NoCall}, back : {"idle", "added", "reconnect"}, retry : Nat]

\* An opener has a call's arguments exactly while it is in the call, a mark only
\* between taking it and the end of the call, and no grant of its own when a call's
\* return or the start of its loop gives it one.
OpenerInv(o) ==
  /\ o \in OpenerRecords
  /\ o.pc \in CallPcs => o.call \in Calls
  /\ o.pc \notin CallPcs => o.call = NoCall
  /\ o.pc \notin {"resolve", "dial"} => o.retry = 0
  /\ (o.pc \in {"idle", "wait"} \/ (o.pc \in CallPcs /\ o.back # "reconnect")) => o.grant = "none"

OpenersInv ==
  /\ DOMAIN opener = Openers
  /\ \A t \in Openers : OpenerInv(opener[t])

TypeInv ==
  /\ added \subseteq Named
  /\ active \in BOOLEAN
  /\ nodes \subseteq Connections /\ IsFiniteSet(nodes)
  /\ \A m, n \in nodes : m.id = n.id => m = n
  /\ reconn \in Seq(Calls) /\ pending \in Seq(Calls)
  /\ free \in [Sems -> Nat]
  /\ mark \in [Dests -> Nat]
  /\ listing \in [Dests -> Nat \ {0}]
  /\ failures \in [Dests -> Nat]
  /\ retries \in [Dests -> Nat]

-----------------------------------------------------------------------------
(* Finite sets.                                                            *)

LEMMA FiniteAdd == ASSUME NEW S, IsFiniteSet(S), NEW x PROVE IsFiniteSet(S \cup {x})
<1> DEFINE T == S \cup {x}
<1>1. PICK s \in Seq(S) : \A y \in S : \E n \in 1..Len(s) : s[n] = y
  BY Zenon DEF IsFiniteSet
<1> DEFINE u == Append(s, x)
<1>2. u \in Seq(T) /\ Len(u) = Len(s) + 1 /\ Len(s) \in Nat /\ u[Len(s) + 1] = x
      /\ \A n \in 1..Len(s) : u[n] = s[n]
  OBVIOUS
<1>3. \A y \in T : \E n \in 1..Len(u) : u[n] = y
  <2> TAKE y \in T
  <2>1. CASE y = x
    BY <1>2, <2>1
  <2>2. CASE y \in S
    <3>1. PICK n \in 1..Len(s) : s[n] = y
      BY <1>1, <2>2, Zenon
    <3>2. n \in 1..Len(u) /\ u[n] = y
      BY <1>2, <3>1
    <3> QED
      BY <3>2, Zenon
  <2> QED
    BY <2>1, <2>2, Zenon
<1> QED
  BY <1>2, <1>3, Zenon DEF IsFiniteSet

LEMMA FiniteSub == ASSUME NEW S, IsFiniteSet(S), NEW T, T \subseteq S PROVE IsFiniteSet(T)
<1>1. PICK s \in Seq(S) : \A y \in S : \E n \in 1..Len(s) : s[n] = y
  BY Zenon DEF IsFiniteSet
<1>2. CASE T = {}
  <2>1. <<>> \in Seq(T)
    OBVIOUS
  <2> QED
    BY <1>2, <2>1, Zenon DEF IsFiniteSet
<1>3. ASSUME NEW z \in T PROVE IsFiniteSet(T)
  <2> DEFINE u == [n \in 1..Len(s) |-> IF s[n] \in T THEN s[n] ELSE z]
  <2>1. Len(s) \in Nat /\ u \in Seq(T) /\ Len(u) = Len(s)
    OBVIOUS
  <2>2. \A y \in T : \E n \in 1..Len(u) : u[n] = y
    BY <1>1, <2>1, Zenon
  <2> QED
    BY <2>1, <2>2, Zenon DEF IsFiniteSet
<1> QED
  BY <1>2, <1>3, Zenon

-----------------------------------------------------------------------------
(* The openers.                                                            *)

\* What an opener may become keeps the openers' invariant.
LEMMA OneOpener ==
  ASSUME OpenersInv, NEW t \in Openers, NEW o, OpenerInv(o), opener' = [opener EXCEPT ![t] = o]
  PROVE  OpenersInv'
<1>1. DOMAIN opener' = Openers /\ \A u \in Openers : opener'[u] = IF u = t THEN o ELSE opener[u]
  BY Zenon DEF OpenersInv
<1>2. \A u \in Openers : OpenerInv(opener[u])
  BY Zenon DEF OpenersInv
<1>3. \A u \in Openers : OpenerInv(opener'[u])
  BY <1>1, <1>2, Zenon
<1> QED
  BY <1>1, <1>3, Zenon DEF OpenersInv, OpenerInv

LEMMA AtRestIs ==
  /\ AtRest \in OpenerRecords /\ AtRest.pc = "idle" /\ AtRest.grant = "none"
  /\ AtRest.call = NoCall /\ AtRest.back = "idle" /\ AtRest.retry = 0
  /\ OpenerInv(AtRest)
  BY Zenon DEF AtRest, OpenerRecords, OpenerInv, CallPcs

\* The fields of an opener when its call has returned.
LEMMA ReturnedIs ==
  ASSUME OpenersInv, NEW t \in Openers, opener[t].pc \in CallPcs, opener' = Returned(t)
  PROVE  /\ OpenersInv'
         /\ \A u \in Openers \ {t} : opener'[u] = opener[u]
         /\ opener'[t].call = NoCall /\ opener'[t].retry = 0
         /\ opener'[t].pc = opener[t].back /\ opener'[t].pc \notin CallPcs
         /\ opener'[t].grant = GrantAfter(t)
         /\ opener[t].back # "reconnect" => opener[t].grant = "none"
<1> DEFINE r == opener[t]
           o == [r EXCEPT !.pc = r.back, !.call = NoCall, !.retry = 0, !.grant = GrantAfter(t)]
<1>1. DOMAIN opener = Openers /\ OpenerInv(r)
  BY Zenon DEF OpenersInv
<1>2. opener' = [opener EXCEPT ![t] = o]
  BY <1>1, Zenon DEF Returned
<1>3. r \in OpenerRecords /\ r.back \in {"idle", "added", "reconnect"} /\ r.grant \in {"addnode", "none"}
  BY <1>1, Zenon DEF OpenerInv, OpenerRecords
<1>4. GrantAfter(t) \in {"addnode", "none"} /\ (r.back = "idle" => GrantAfter(t) = r.grant)
  BY <1>3, Zenon DEF GrantAfter
<1>5. r.back # "reconnect" => r.grant = "none"
  BY <1>1, Zenon DEF OpenerInv
<1> HIDE DEF r
<1>6. o.pc = r.back /\ o.call = NoCall /\ o.retry = 0 /\ o.grant = GrantAfter(t)
  BY <1>3, Zenon DEF OpenerRecords
<1>7. o \in OpenerRecords
  BY <1>3, <1>4, Zenon DEF OpenerRecords
<1> HIDE DEF o
<1>8. o.pc \notin CallPcs /\ o.pc # "wait" /\ (o.pc = "idle" => o.grant = "none")
  BY <1>3, <1>4, <1>5, <1>6, Zenon DEF CallPcs
<1>9. OpenerInv(o)
  BY <1>6, <1>7, <1>8, Zenon DEF OpenerInv
<1>10. OpenersInv'
  BY <1>2, <1>9, OneOpener, Zenon
<1>11. opener'[t] = o /\ \A u \in Openers \ {t} : opener'[u] = opener[u]
  BY <1>1, <1>2, Zenon
<1> QED
  BY <1>5, <1>6, <1>8, <1>10, <1>11, Zenon DEF r

\* Opener t is the only one to move, and this is where it is afterwards.
Becomes(t, pc, call, grant, retry) ==
  /\ OpenersInv'
  /\ \A u \in Openers \ {t} : opener'[u] = opener[u]
  /\ opener'[t].pc = pc /\ opener'[t].call = call
  /\ opener'[t].grant = grant /\ opener'[t].retry = retry

LEMMA MovesTo ==
  ASSUME OpenersInv, NEW t \in Openers, NEW o, OpenerInv(o), opener' = [opener EXCEPT ![t] = o]
  PROVE  Becomes(t, o.pc, o.call, o.grant, o.retry)
<1>1. OpenersInv'
  BY OneOpener, Zenon
<1>2. opener'[t] = o /\ \A u \in Openers \ {t} : opener'[u] = opener[u]
  BY Zenon DEF OpenersInv
<1> QED
  BY <1>1, <1>2, Zenon DEF Becomes

LEMMA CallProceeds ==
  ASSUME OpenersInv, NEW t \in Openers, opener[t].pc \in CallPcs,
         NEW pc \in {"take", "dial"}, pc = "take" => opener[t].retry = 0, opener' = [opener EXCEPT ![t].pc = pc]
  PROVE  Becomes(t, pc, opener[t].call, opener[t].grant, opener[t].retry)
<1> DEFINE r == opener[t]
           o == [r EXCEPT !.pc = pc]
<1>1. DOMAIN opener = Openers /\ OpenerInv(r)
  BY Zenon DEF OpenersInv
<1>2. opener' = [opener EXCEPT ![t] = o]
  BY <1>1, Zenon
<1>3. r \in OpenerRecords /\ r.call \in Calls /\ (r.back # "reconnect" => r.grant = "none")
  BY <1>1, Zenon DEF OpenerInv
<1> HIDE DEF r
<1>4. /\ o.pc = pc /\ o.call = r.call /\ o.grant = r.grant /\ o.retry = r.retry /\ o.back = r.back
      /\ o \in OpenerRecords
  BY <1>3, Zenon DEF OpenerRecords, CallPcs
<1> HIDE DEF o
<1>5. OpenerInv(o)
  BY <1>3, <1>4, Zenon DEF OpenerInv, CallPcs, r
<1> QED
  BY <1>2, <1>4, <1>5, MovesTo, Zenon DEF r

LEMMA TakeIs ==
  ASSUME OpenersInv, TypeInv, NEW t \in Openers, Take(t)
  PROVE  LET c == opener[t].call
             takes == c.manual /\ c.v2
         IN  /\ c \in Calls /\ opener[t].retry = 0 /\ opener[t].pc = "take"
             /\ Becomes(t, "resolve", c, opener[t].grant, IF takes THEN mark[c.dest] ELSE 0)
<1> DEFINE r == opener[t]
           c == r.call
           x == IF c.manual /\ c.v2 THEN mark[c.dest] ELSE 0
           o == [r EXCEPT !.pc = "resolve", !.retry = x]
<1>1. DOMAIN opener = Openers /\ OpenerInv(r) /\ r.pc = "take"
  BY Zenon DEF OpenersInv, Take
<1>2. opener' = [opener EXCEPT ![t] = o]
  BY <1>1, Zenon DEF Take
<1>3. /\ r \in OpenerRecords /\ c \in Calls /\ r.retry = 0
      /\ (r.back # "reconnect" => r.grant = "none")
  BY <1>1, Zenon DEF OpenerInv, CallPcs
<1>4. x \in Nat
  BY <1>3, Zenon DEF Calls, TypeInv
<1> HIDE DEF r, x
<1>5. /\ o.pc = "resolve" /\ o.call = r.call /\ o.grant = r.grant /\ o.retry = x /\ o.back = r.back
      /\ o \in OpenerRecords
  BY <1>3, <1>4, Zenon DEF OpenerRecords, CallPcs
<1> HIDE DEF o
<1>6. OpenerInv(o)
  BY <1>3, <1>5, Zenon DEF OpenerInv, CallPcs
<1>7. Becomes(t, "resolve", c, r.grant, x)
  BY <1>2, <1>5, <1>6, MovesTo, Zenon
<1> QED
  BY <1>1, <1>3, <1>7, Zenon DEF r, x

LEMMA AddedLoopIs ==
  ASSUME OpenersInv, TypeInv, AddedLoop
  PROVE  /\ opener["added"].grant = "none" /\ opener["added"].call = NoCall /\ opener["added"].retry = 0
         /\ opener["added"].pc = "idle"
         /\ Becomes("added", "added", NoCall, "addnode", 0)
<1> DEFINE todo == {d \in added : ~Connected(d)}
           o == [AtRest EXCEPT !.pc = "added", !.grant = "addnode", !.todo = todo]
<1>1. "added" \in Openers /\ OpenerInv(opener["added"]) /\ opener["added"].pc = "idle"
  BY Zenon DEF OpenersInv, Openers, AddedLoop
<1>2. opener' = [opener EXCEPT !["added"] = o]
  BY Zenon DEF AddedLoop
<1>3. todo \in SUBSET Named
  BY Zenon DEF TypeInv
<1> HIDE DEF todo
<1>4. o.pc = "added" /\ o.call = NoCall /\ o.grant = "addnode" /\ o.retry = 0 /\ o \in OpenerRecords
  BY <1>3, Zenon DEF OpenerRecords, AtRest, CallPcs
<1> HIDE DEF o
<1>5. OpenerInv(o)
  BY <1>4, Zenon DEF OpenerInv, CallPcs
<1>6. Becomes("added", "added", NoCall, "addnode", 0)
  BY <1>1, <1>2, <1>4, <1>5, MovesTo, Zenon
<1> QED
  BY <1>1, <1>6, Zenon DEF OpenerInv, CallPcs

LEMMA AddedNextIs ==
  ASSUME OpenersInv, TypeInv, AddedNext
  PROVE  /\ opener["added"].call = NoCall /\ opener["added"].retry = 0 /\ opener["added"].pc = "added"
         /\ opener["added"].grant \in {"addnode", "none"}
         /\ \/ /\ opener["added"].grant = "addnode"
               /\ \E c \in Calls : /\ c.grant = "addnode" /\ c.classical = FALSE
                                   /\ Becomes("added", "check", c, "none", 0)
            \/ Becomes("added", "reconnect", NoCall, opener["added"].grant, 0)
<1> DEFINE r == opener["added"]
<1>1. /\ "added" \in Openers /\ DOMAIN opener = Openers /\ OpenerInv(r) /\ r.pc = "added"
  BY Zenon DEF OpenersInv, Openers, AddedNext
<1>2. /\ r \in OpenerRecords /\ r.call = NoCall /\ r.retry = 0 /\ r.grant \in {"addnode", "none"}
      /\ r.todo \in SUBSET Named
  BY <1>1, Zenon DEF OpenerInv, CallPcs, OpenerRecords
<1>3. CASE r.todo # {} /\ r.grant # "none"
  <2>1. PICK d \in r.todo :
          opener' = [opener EXCEPT !["added"] =
                       [@ EXCEPT !.pc = "check", !.todo = opener["added"].todo \ {d},
                                 !.grant = "none", !.back = "added",
                                 !.call = [dest |-> d, manual |-> TRUE, v2 |-> TRUE,
                                           classical |-> FALSE, grant |-> "addnode"]]]
    BY <1>3, Zenon DEF AddedNext
  <2> DEFINE c == [dest |-> d, manual |-> TRUE, v2 |-> TRUE, classical |-> FALSE, grant |-> "addnode"]
             o == [r EXCEPT !.pc = "check", !.todo = r.todo \ {d}, !.grant = "none", !.back = "added",
                            !.call = c]
  <2>2. c \in Calls /\ c.grant = "addnode" /\ c.classical = FALSE
    BY <1>2, Zenon DEF Calls, Dests, Grants, Sems
  <2>3. opener' = [opener EXCEPT !["added"] = o]
    BY <1>1, <1>2, <2>1, Zenon DEF OpenerRecords
  <2> HIDE DEF c, r
  <2>4. /\ o.pc = "check" /\ o.call = c /\ o.grant = "none" /\ o.retry = 0 /\ o.back = "added"
        /\ o \in OpenerRecords
    BY <1>2, <2>2, Zenon DEF OpenerRecords, CallPcs
  <2> HIDE DEF o
  <2>5. OpenerInv(o)
    BY <2>2, <2>4, Zenon DEF OpenerInv, CallPcs
  <2>6. Becomes("added", "check", c, "none", 0)
    BY <1>1, <2>3, <2>4, <2>5, MovesTo, Zenon
  <2> QED
    BY <1>1, <1>2, <1>3, <2>2, <2>6, Zenon DEF r
<1>4. CASE ~(r.todo # {} /\ r.grant # "none")
  <2> DEFINE o == [r EXCEPT !.pc = "reconnect", !.todo = {}]
  <2>1. opener' = [opener EXCEPT !["added"] = o]
    BY <1>1, <1>4, Zenon DEF AddedNext
  <2> HIDE DEF r
  <2>2. o.pc = "reconnect" /\ o.call = NoCall /\ o.grant = r.grant /\ o.retry = 0 /\ o \in OpenerRecords
    BY <1>2, Zenon DEF OpenerRecords, CallPcs
  <2> HIDE DEF o
  <2>3. OpenerInv(o)
    BY <2>2, Zenon DEF OpenerInv, CallPcs
  <2>4. Becomes("added", "reconnect", NoCall, r.grant, 0)
    BY <1>1, <2>1, <2>2, <2>3, MovesTo, Zenon
  <2> QED
    BY <1>1, <1>2, <2>4, Zenon DEF r
<1> QED
  BY <1>3, <1>4, Zenon

LEMMA OpenLoopIs ==
  ASSUME OpenersInv, OpenLoop
  PROVE  /\ opener["open"].grant = "none" /\ opener["open"].call = NoCall /\ opener["open"].retry = 0
         /\ opener["open"].pc = "idle"
         /\ Becomes("open", "reconnect", NoCall, "none", 0)
<1> DEFINE r == opener["open"]
           o == [r EXCEPT !.pc = "reconnect"]
<1>1. /\ "open" \in Openers /\ DOMAIN opener = Openers /\ OpenerInv(r) /\ r.pc = "idle"
  BY Zenon DEF OpenersInv, Openers, OpenLoop
<1>2. opener' = [opener EXCEPT !["open"] = o]
  BY <1>1, Zenon DEF OpenLoop
<1>3. r \in OpenerRecords /\ r.grant = "none" /\ r.call = NoCall /\ r.retry = 0
  BY <1>1, Zenon DEF OpenerInv, CallPcs
<1> HIDE DEF r
<1>4. o.pc = "reconnect" /\ o.call = NoCall /\ o.grant = "none" /\ o.retry = 0 /\ o \in OpenerRecords
  BY <1>3, Zenon DEF OpenerRecords
<1> HIDE DEF o
<1>5. OpenerInv(o)
  BY <1>4, Zenon DEF OpenerInv, CallPcs
<1>6. Becomes("open", "reconnect", NoCall, "none", 0)
  BY <1>1, <1>2, <1>4, <1>5, MovesTo, Zenon
<1> QED
  BY <1>1, <1>3, <1>6, Zenon DEF r

LEMMA ReconnectIs ==
  ASSUME OpenersInv, TypeInv, NEW t \in Openers, Reconnect(t)
  PROVE  /\ opener[t].call = NoCall /\ opener[t].retry = 0 /\ opener[t].pc = "reconnect"
         /\ opener[t].grant \in {"addnode", "none"}
         /\ \/ /\ reconn # <<>> /\ reconn' = Tail(reconn) /\ free' = free
               /\ Head(reconn) \in Calls /\ Becomes(t, "check", Head(reconn), opener[t].grant, 0)
            \/ /\ reconn' = reconn /\ free' = Release(free, opener[t].grant)
               /\ \E pc \in {"idle", "wait"} : Becomes(t, pc, NoCall, "none", 0)
<1> DEFINE r == opener[t]
<1>1. DOMAIN opener = Openers /\ OpenerInv(r) /\ r.pc = "reconnect"
  BY Zenon DEF OpenersInv, Reconnect
<1>2. r \in OpenerRecords /\ r.call = NoCall /\ r.retry = 0 /\ r.grant \in {"addnode", "none"}
  BY <1>1, Zenon DEF OpenerInv, CallPcs, OpenerRecords
<1>3. CASE reconn # <<>>
  <2> DEFINE c == Head(reconn)
             o == [r EXCEPT !.pc = "check", !.back = "reconnect", !.call = c]
  <2>1. opener' = [opener EXCEPT ![t] = o] /\ reconn' = Tail(reconn) /\ free' = free
    BY <1>1, <1>3, Zenon DEF Reconnect
  <2>2. c \in Calls
    BY <1>3 DEF TypeInv
  <2> HIDE DEF c, r
  <2>3. /\ o.pc = "check" /\ o.call = c /\ o.grant = r.grant /\ o.retry = 0 /\ o.back = "reconnect"
        /\ o \in OpenerRecords
    BY <1>2, <2>2, Zenon DEF OpenerRecords, CallPcs
  <2> HIDE DEF o
  <2>4. OpenerInv(o)
    BY <2>2, <2>3, Zenon DEF OpenerInv, CallPcs
  <2>5. Becomes(t, "check", c, r.grant, 0)
    BY <2>1, <2>3, <2>4, MovesTo, Zenon
  <2> QED
    BY <1>1, <1>2, <1>3, <2>1, <2>2, <2>5, Zenon DEF c, r
<1>4. CASE reconn = <<>>
  <2> DEFINE o == IF t = "added" THEN AtRest ELSE [AtRest EXCEPT !.pc = "wait"]
  <2>1. opener' = [opener EXCEPT ![t] = o] /\ reconn' = reconn /\ free' = Release(free, r.grant)
    BY <1>1, <1>4, Zenon DEF Reconnect
  <2>2. /\ o.pc \in {"idle", "wait"} /\ o.call = NoCall /\ o.grant = "none" /\ o.retry = 0
        /\ o \in OpenerRecords
    BY Zenon DEF OpenerRecords, AtRest
  <2> HIDE DEF o
  <2>3. OpenerInv(o)
    BY <2>2, Zenon DEF OpenerInv, CallPcs
  <2>4. Becomes(t, o.pc, NoCall, "none", 0)
    BY <2>1, <2>2, <2>3, MovesTo, Zenon
  <2> QED
    BY <1>1, <1>2, <2>1, <2>2, <2>4, Zenon
<1> QED
  BY <1>3, <1>4, Zenon

LEMMA PickIs ==
  ASSUME OpenersInv, Pick
  PROVE  /\ opener["open"].grant = "none" /\ opener["open"].call = NoCall /\ opener["open"].retry = 0
         /\ opener["open"].pc = "wait"
         /\ \/ /\ \E c \in Calls : /\ c.grant = "outbound" /\ c.classical = FALSE
                                   /\ Becomes("open", "check", c, "none", 0)
               /\ free' = [free EXCEPT !["outbound"] = @ - 1]
            \/ Becomes("open", "idle", NoCall, "none", 0) /\ free' = free
<1>1. /\ "open" \in Openers /\ OpenerInv(opener["open"]) /\ opener["open"].pc = "wait"
  BY Zenon DEF OpenersInv, Openers, Pick
<1>2. opener["open"].grant = "none" /\ opener["open"].call = NoCall /\ opener["open"].retry = 0
  BY <1>1, Zenon DEF OpenerInv, CallPcs
<1>3. ASSUME NEW d \in Picked \ added,
             opener' = [opener EXCEPT !["open"] =
                          [AtRest EXCEPT !.pc = "check",
                                         !.call = [dest |-> d, manual |-> FALSE, v2 |-> TRUE,
                                                   classical |-> FALSE, grant |-> "outbound"]]]
      PROVE  \E c \in Calls : /\ c.grant = "outbound" /\ c.classical = FALSE
                              /\ Becomes("open", "check", c, "none", 0)
  <2> DEFINE c == [dest |-> d, manual |-> FALSE, v2 |-> TRUE, classical |-> FALSE, grant |-> "outbound"]
             o == [AtRest EXCEPT !.pc = "check", !.call = c]
  <2>1. c \in Calls /\ c.grant = "outbound" /\ c.classical = FALSE
    BY Zenon DEF Calls, Dests, Grants, Sems
  <2>2. opener' = [opener EXCEPT !["open"] = o]
    BY <1>3, Zenon
  <2> HIDE DEF c
  <2>3. /\ o.pc = "check" /\ o.call = c /\ o.grant = "none" /\ o.retry = 0
        /\ o \in OpenerRecords
    BY <2>1, Zenon DEF OpenerRecords, CallPcs, AtRest
  <2> HIDE DEF o
  <2>4. OpenerInv(o)
    BY <2>1, <2>3, Zenon DEF OpenerInv, CallPcs
  <2>5. Becomes("open", "check", c, "none", 0)
    BY <1>1, <2>2, <2>3, <2>4, MovesTo, Zenon
  <2> QED
    BY <2>1, <2>5, Zenon
<1>4. ASSUME opener' = [opener EXCEPT !["open"] = AtRest]
      PROVE  Becomes("open", "idle", NoCall, "none", 0)
  BY <1>1, <1>4, AtRestIs, MovesTo, Zenon
<1> QED
  BY <1>1, <1>2, <1>3, <1>4, Zenon DEF Pick

LEMMA OneTryIs ==
  ASSUME OpenersInv, NEW d \in Named, OneTry(d)
  PROVE  /\ opener["rpc"].grant = "none" /\ opener["rpc"].call = NoCall /\ opener["rpc"].retry = 0
         /\ opener["rpc"].pc = "idle"
         /\ \E c \in Calls : /\ c.grant = "none" /\ c.classical = FALSE
                             /\ Becomes("rpc", "check", c, "none", 0)
<1>1. "rpc" \in Openers /\ OpenerInv(opener["rpc"]) /\ opener["rpc"].pc = "idle"
  BY Zenon DEF OpenersInv, Openers, OneTry
<1>2. PICK v2 \in BOOLEAN :
        opener' = [opener EXCEPT !["rpc"] =
                     [AtRest EXCEPT !.pc = "check",
                                    !.call = [dest |-> d, manual |-> TRUE, v2 |-> v2,
                                              classical |-> FALSE, grant |-> "none"]]]
  BY Zenon DEF OneTry
<1> DEFINE c == [dest |-> d, manual |-> TRUE, v2 |-> v2, classical |-> FALSE, grant |-> "none"]
           o == [AtRest EXCEPT !.pc = "check", !.call = c]
<1>3. c \in Calls /\ c.grant = "none" /\ c.classical = FALSE
  BY Zenon DEF Calls, Dests, Grants
<1>4. opener' = [opener EXCEPT !["rpc"] = o]
  BY <1>2, Zenon
<1> HIDE DEF c
<1>5. /\ o.pc = "check" /\ o.call = c /\ o.grant = "none" /\ o.retry = 0
      /\ o \in OpenerRecords
  BY <1>3, Zenon DEF OpenerRecords, CallPcs, AtRest
<1> HIDE DEF o
<1>6. OpenerInv(o)
  BY <1>3, <1>5, Zenon DEF OpenerInv, CallPcs
<1>7. Becomes("rpc", "check", c, "none", 0)
  BY <1>1, <1>4, <1>5, <1>6, MovesTo, Zenon
<1> QED
  BY <1>1, <1>3, <1>7, Zenon DEF OpenerInv, CallPcs

\* A call that ends, whether it opened a connection or not.
LEMMA ReturnIs ==
  ASSUME OpenersInv, NEW t \in Openers, opener[t].pc \in CallPcs, opener' = Returned(t)
  PROVE  /\ opener[t].call \in Calls
         /\ \E pc \in {"idle", "added", "reconnect"} : Becomes(t, pc, NoCall, GrantAfter(t), 0)
<1>1. opener[t].call \in Calls /\ opener[t].back \in {"idle", "added", "reconnect"}
  BY Zenon DEF OpenersInv, OpenerInv, OpenerRecords
<1>2. Becomes(t, opener[t].back, NoCall, GrantAfter(t), 0)
  BY ReturnedIs, Zenon DEF Becomes
<1> QED
  BY <1>1, <1>2, Zenon

-----------------------------------------------------------------------------
(* The semaphores and the types.                                           *)

LEMMA ReleaseIs ==
  ASSUME NEW f \in [Sems -> Nat], NEW g \in Grants
  PROVE  /\ Release(f, g) \in [Sems -> Nat]
         /\ \A s \in Sems : Release(f, g)[s] = f[s] + (IF g = s THEN 1 ELSE 0)
<1>1. CASE g = "none"
  BY <1>1 DEF Release, Sems
<1>2. CASE g # "none"
  <2>1. g \in Sems /\ Release(f, g) = [f EXCEPT ![g] = @ + 1]
    BY <1>2, Zenon DEF Release, Grants
  <2> QED
    BY <2>1
<1> QED
  BY <1>1, <1>2, Zenon

\* The addnode loop's next grant is what it takes from the semaphore.
LEMMA TriedBalances ==
  ASSUME OpenersInv, TypeInv, NEW t \in Openers, opener[t].pc \in CallPcs
  PROVE  /\ Tried(t) \in [Sems -> Nat]
         /\ \A s \in Sems : Tried(t)[s] + (IF GrantAfter(t) = s THEN 1 ELSE 0)
                              = free[s] + (IF opener[t].grant = s THEN 1 ELSE 0)
<1>1. free \in [Sems -> Nat] /\ "addnode" \in Sems /\ "none" \notin Sems
  BY Zenon DEF TypeInv, Sems
<1>2. opener[t].back # "reconnect" => opener[t].grant = "none"
  BY Zenon DEF OpenersInv, OpenerInv
<1>3. CASE NextGrant(t)
  <2>1. GrantAfter(t) = "addnode" /\ opener[t].grant = "none" /\ free["addnode"] > 0
    BY <1>2, <1>3, Zenon DEF NextGrant, GrantAfter
  <2>2. Tried(t) = [free EXCEPT !["addnode"] = @ - 1]
    BY <1>3, Zenon DEF Tried
  <2>3. \A s \in Sems : Tried(t)[s] = IF s = "addnode" THEN free[s] - 1 ELSE free[s]
    BY <1>1, <2>2, Zenon
  <2>4. Tried(t) \in [Sems -> Nat]
    BY <1>1, <2>1, <2>2
  <2> QED
    BY <1>1, <2>1, <2>3, <2>4
<1>4. CASE ~NextGrant(t)
  <2>1. Tried(t) = free
    BY <1>4, Zenon DEF Tried
  <2>2. \A s \in Sems : GrantAfter(t) = s <=> opener[t].grant = s
    BY <1>1, <1>2, <1>4, Zenon DEF GrantAfter
  <2> QED
    BY <1>1, <2>1, <2>2, Zenon
<1> QED
  BY <1>3, <1>4, Zenon

LEMMA ReturnFalseIs ==
  ASSUME OpenersInv, TypeInv, NEW t \in Openers, opener[t].pc \in CallPcs, ReturnFalse(t)
  PROVE  /\ opener[t].call \in Calls
         /\ \E pc \in {"idle", "added", "reconnect"} : Becomes(t, pc, NoCall, GrantAfter(t), 0)
         /\ free' \in [Sems -> Nat]
         /\ \A s \in Sems : free'[s] + (IF GrantAfter(t) = s THEN 1 ELSE 0)
                              = free[s] + (IF opener[t].grant = s THEN 1 ELSE 0)
                                  + (IF opener[t].call.grant = s THEN 1 ELSE 0)
<1>1. opener[t].call \in Calls
      /\ \E pc \in {"idle", "added", "reconnect"} : Becomes(t, pc, NoCall, GrantAfter(t), 0)
  BY ReturnIs, Zenon DEF ReturnFalse
<1>2. opener[t].call.grant \in Grants
  BY <1>1, Zenon DEF Calls
<1>3. /\ Tried(t) \in [Sems -> Nat]
      /\ \A s \in Sems : Tried(t)[s] + (IF GrantAfter(t) = s THEN 1 ELSE 0)
                           = free[s] + (IF opener[t].grant = s THEN 1 ELSE 0)
  BY TriedBalances, Zenon
<1>4. free' = Release(Tried(t), opener[t].call.grant)
  BY Zenon DEF ReturnFalse
<1>5. /\ free' \in [Sems -> Nat]
      /\ \A s \in Sems : free'[s] = Tried(t)[s] + (IF opener[t].call.grant = s THEN 1 ELSE 0)
  BY <1>2, <1>3, <1>4, ReleaseIs
<1>6. free \in [Sems -> Nat]
  BY Zenon DEF TypeInv
<1>7. ASSUME NEW s \in Sems
      PROVE  free'[s] + (IF GrantAfter(t) = s THEN 1 ELSE 0)
               = free[s] + (IF opener[t].grant = s THEN 1 ELSE 0)
                   + (IF opener[t].call.grant = s THEN 1 ELSE 0)
  <2>1. Tried(t)[s] \in Nat /\ free[s] \in Nat
    BY <1>3, <1>6, Zenon
  <2>2. Tried(t)[s] + (IF GrantAfter(t) = s THEN 1 ELSE 0) = free[s] + (IF opener[t].grant = s THEN 1 ELSE 0)
    BY <1>3, Zenon
  <2>3. free'[s] = Tried(t)[s] + (IF opener[t].call.grant = s THEN 1 ELSE 0)
    BY <1>5, Zenon
  <2> QED
    BY <2>1, <2>2, <2>3
<1> QED
  BY <1>1, <1>5, <1>7, Zenon

\* The reconnections of a connection are calls, at most one.
LEMMA ReconnectionsAre ==
  ASSUME NEW n \in Connections, active \in BOOLEAN
  PROVE  /\ Reconnections(n) \in Seq(Calls)
         /\ \/ Reconnections(n) = <<>>
            \/ \E c \in Calls : /\ Reconnections(n) = <<c>>
                                /\ c.grant = n.grant /\ c.dest = n.dest
                                /\ c.classical => (n.end = "failed" /\ ~n.manual)
         /\ Reconnections(n) # <<>> => active /\ n.end \in {"v1", "failed"}
<1> DEFINE v1 == [dest |-> n.dest, manual |-> n.manual, v2 |-> FALSE, classical |-> FALSE, grant |-> n.grant]
           again == [dest |-> n.dest, manual |-> n.manual, v2 |-> TRUE, classical |-> ~n.manual, grant |-> n.grant]
<1>1. n.dest \in Dests /\ n.manual \in BOOLEAN /\ n.grant \in Grants /\ n.end \in {"up", "failed", "v1", "closed"}
  BY Zenon DEF Connections
<1>2. v1 \in Calls /\ v1.grant = n.grant /\ v1.dest = n.dest /\ ~v1.classical
  BY <1>1, Zenon DEF Calls
<1>3. again \in Calls /\ again.grant = n.grant /\ again.dest = n.dest /\ (again.classical => ~n.manual)
  BY <1>1, Zenon DEF Calls
<1>4. CASE ~active
  BY <1>4 DEF Reconnections
<1>5. CASE active /\ n.end = "v1"
  <2>1. Reconnections(n) = <<v1>>
    BY <1>5, Zenon DEF Reconnections
  <2> QED
    BY <1>2, <1>5, <2>1
<1>6. CASE active /\ n.end = "failed"
  <2>1. Reconnections(n) = <<again>>
    BY <1>6, Zenon DEF Reconnections
  <2> QED
    BY <1>3, <1>6, <2>1
<1>7. CASE active /\ n.end \in {"up", "closed"}
  BY <1>7 DEF Reconnections
<1> QED
  BY <1>1, <1>4, <1>5, <1>6, <1>7, Zenon

\* fDisconnect replaces a connection by one that has ended.
LEMMA EndIs ==
  ASSUME TypeInv, NEW n \in nodes, End(n)
  PROVE  \E m \in Connections :
           /\ nodes' = (nodes \ {n}) \cup {m} /\ m \notin nodes \ {n}
           /\ m.id = n.id /\ m.dest = n.dest /\ m.grant = n.grant /\ n.end = "up"
           /\ \/ m.end = "failed" /\ failures' = [failures EXCEPT ![n.dest] = @ + 1]
              \/ m.end # "failed" /\ failures' = failures
<1>1. n \in Connections /\ n.end = "up"
  BY Zenon DEF TypeInv, End
<1>2. ASSUME NEW e \in {"failed", "v1", "closed"}
      PROVE  /\ [n EXCEPT !.end = e] \in Connections
             /\ [n EXCEPT !.end = e].id = n.id /\ [n EXCEPT !.end = e].dest = n.dest
             /\ [n EXCEPT !.end = e].grant = n.grant /\ [n EXCEPT !.end = e].end = e
  BY <1>1, Zenon DEF Connections
<1>3. ASSUME NEW m, m.id = n.id PROVE m \notin nodes \ {n}
  BY <1>3, Zenon DEF TypeInv
<1>4. \E e \in {"failed", "v1", "closed"} :
        /\ nodes' = (nodes \ {n}) \cup {[n EXCEPT !.end = e]}
        /\ \/ e = "failed" /\ failures' = [failures EXCEPT ![n.dest] = @ + 1]
           \/ e # "failed" /\ failures' = failures
  BY Zenon DEF End
<1>5. PICK e \in {"failed", "v1", "closed"} :
        /\ nodes' = (nodes \ {n}) \cup {[n EXCEPT !.end = e]}
        /\ \/ e = "failed" /\ failures' = [failures EXCEPT ![n.dest] = @ + 1]
           \/ e # "failed" /\ failures' = failures
  BY <1>4, Zenon
<1> DEFINE m == [n EXCEPT !.end = e]
<1>6. /\ m \in Connections /\ m.id = n.id /\ m.dest = n.dest /\ m.grant = n.grant /\ m.end = e
  BY <1>2, Zenon
<1>7. nodes' = (nodes \ {n}) \cup {m}
  BY <1>5, Zenon
<1> HIDE DEF m
<1>8. m \notin nodes \ {n}
  BY <1>3, <1>6, Zenon
<1> QED
  BY <1>1, <1>5, <1>6, <1>7, <1>8, Zenon

\* A connection that is opened is a new one.
LEMMA DialIs ==
  ASSUME OpenersInv, TypeInv, NEW t \in Openers, Dial(t)
  PROVE  /\ opener[t].pc = "dial" /\ opener[t].call \in Calls
         /\ \E pc \in {"idle", "added", "reconnect"} : Becomes(t, pc, NoCall, GrantAfter(t), 0)
         /\ \E m \in Connections :
              /\ nodes' = nodes \cup {m} /\ m.id \notin {n.id : n \in nodes}
              /\ m.grant = opener[t].call.grant /\ m.end = "up"
<1>1. opener[t].pc = "dial" /\ opener[t].pc \in CallPcs /\ opener' = Returned(t)
  BY Zenon DEF Dial, CallPcs
<1>2. /\ opener[t].call \in Calls
      /\ \E pc \in {"idle", "added", "reconnect"} : Becomes(t, pc, NoCall, GrantAfter(t), 0)
  BY <1>1, ReturnIs, Zenon
<1> DEFINE c == opener[t].call
           way == IF ~c.v2 THEN "v1" ELSE IF c.classical \/ opener[t].retry # 0 THEN "classical" ELSE "hybrid"
           m(i) == [id |-> i, dest |-> c.dest, manual |-> c.manual, grant |-> c.grant, end |-> "up", way |-> way]
<1>3. PICK i \in Conns : i \notin {n.id : n \in nodes} /\ nodes' = nodes \cup {m(i)}
  BY Zenon DEF Dial
<1>4. c.dest \in Dests /\ c.manual \in BOOLEAN /\ c.grant \in Grants /\ way \in {"hybrid", "classical", "v1"}
  BY <1>2, Zenon DEF Calls
<1> HIDE DEF c, way
<1>5. m(i) \in Connections /\ m(i).id = i /\ m(i).grant = c.grant /\ m(i).end = "up"
  BY <1>4, Zenon DEF Connections
<1> QED
  BY <1>1, <1>2, <1>3, <1>5, Zenon DEF c

LEMMA FailIs ==
  ASSUME OpenersInv, TypeInv, NEW t \in Openers, opener[t].pc \in CallPcs, Fail(t)
  PROVE  ReturnFalse(t) /\ mark' \in [Dests -> Nat]
<1>1. opener[t].call \in Calls /\ opener[t].retry \in Nat
  BY Zenon DEF OpenersInv, OpenerInv, OpenerRecords
<1>2. opener[t].call.dest \in Dests
  BY <1>1, Zenon DEF Calls
<1> QED
  BY <1>1, <1>2, Zenon DEF Fail, TypeInv

LEMMA TypeStep == OpenersInv /\ TypeInv /\ [Next]_vars => OpenersInv' /\ TypeInv'
<1> SUFFICES ASSUME OpenersInv, TypeInv, [Next]_vars PROVE OpenersInv' /\ TypeInv'
  BY Zenon
<1>1. ASSUME NEW n \in nodes, End(n) PROVE OpenersInv' /\ TypeInv'
  <2>1. PICK m \in Connections :
          /\ nodes' = (nodes \ {n}) \cup {m} /\ m.id = n.id /\ n.dest = m.dest
          /\ \/ failures' = [failures EXCEPT ![n.dest] = @ + 1]
             \/ failures' = failures
    BY <1>1, EndIs, Zenon
  <2>2. m.dest \in Dests
    BY Zenon DEF Connections
  <2>3. nodes' \subseteq Connections /\ \A x, y \in nodes' : x.id = y.id => x = y
    BY <2>1 DEF TypeInv
  <2>4. IsFiniteSet(nodes')
    <3>1. IsFiniteSet(nodes) /\ nodes \ {n} \subseteq nodes
      BY Zenon DEF TypeInv
    <3>2. IsFiniteSet(nodes \ {n})
      BY <3>1, FiniteSub, Zenon
    <3> QED
      BY <2>1, <3>2, FiniteAdd, Zenon
  <2>5. failures' \in [Dests -> Nat]
    <3>1. failures \in [Dests -> Nat] /\ n.dest \in Dests
      BY <2>1, <2>2, Zenon DEF TypeInv
    <3>2. CASE failures' = [failures EXCEPT ![n.dest] = @ + 1]
      BY <3>1, <3>2
    <3> QED
      BY <2>1, <3>1, <3>2, Zenon
  <2>6. UNCHANGED <<added, active, mark, reconn, pending, free, opener, listing, retries>>
    BY <1>1, Zenon DEF End
  <2> QED
    BY <2>3, <2>4, <2>5, <2>6, Zenon DEF TypeInv, OpenersInv
<1>2. ASSUME NEW n \in nodes, Remove(n) PROVE OpenersInv' /\ TypeInv'
  <2>1. n \in Connections /\ n.dest \in Dests /\ n.grant \in Grants
    BY Zenon DEF TypeInv, Connections
  <2>2. Reconnections(n) \in Seq(Calls)
    BY <2>1, ReconnectionsAre, Zenon DEF TypeInv
  <2>3. nodes' \subseteq nodes /\ IsFiniteSet(nodes') /\ pending' \in Seq(Calls)
    BY <1>2, <2>2, FiniteSub DEF Remove, TypeInv
  <2>4. free' \in [Sems -> Nat]
    BY <1>2, <2>1, ReleaseIs, Zenon DEF Remove, TypeInv
  <2>5. mark' \in [Dests -> Nat]
    BY <1>2, <2>1, Zenon DEF Remove, TypeInv
  <2>6. UNCHANGED <<added, active, reconn, opener, listing, failures, retries>>
    BY <1>2, Zenon DEF Remove
  <2> QED
    BY <2>3, <2>4, <2>5, <2>6, Zenon DEF TypeInv, OpenersInv
<1>3. CASE SetNetworkActive
  BY <1>3, Zenon DEF SetNetworkActive, TypeInv, OpenersInv
<1>4. CASE Splice
  <2>1. reconn' \in Seq(Calls) /\ pending' \in Seq(Calls)
    BY <1>4 DEF Splice, TypeInv
  <2> QED
    BY <1>4, <2>1, Zenon DEF Splice, TypeInv, OpenersInv
<1>5. ASSUME NEW t \in Openers, Check(t) PROVE OpenersInv' /\ TypeInv'
  <2>1. opener[t].pc \in CallPcs /\ opener[t].retry = 0
    BY <1>5, Zenon DEF Check, CallPcs, OpenersInv, OpenerInv
  <2>2. CASE ReturnFalse(t)
    <3>1. OpenersInv' /\ free' \in [Sems -> Nat]
      BY <2>1, <2>2, ReturnFalseIs, Zenon DEF Becomes
    <3> QED
      BY <1>5, <3>1, Zenon DEF Check, TypeInv
  <2>3. CASE opener' = [opener EXCEPT ![t].pc = "take"] /\ free' = free
    <3>1. Becomes(t, "take", opener[t].call, opener[t].grant, opener[t].retry)
      BY <2>1, <2>3, CallProceeds, Zenon
    <3> QED
      BY <1>5, <2>3, <3>1, Zenon DEF Check, TypeInv, Becomes
  <2> QED
    BY <1>5, <2>2, <2>3, Zenon DEF Check
<1>6. ASSUME NEW t \in Openers, Take(t) PROVE OpenersInv' /\ TypeInv'
  <2>1. OpenersInv' /\ opener[t].call \in Calls
    BY <1>6, TakeIs, Zenon DEF Becomes
  <2>2. mark' \in [Dests -> Nat]
    BY <1>6, <2>1, Zenon DEF Take, TypeInv, Calls
  <2> QED
    BY <1>6, <2>1, <2>2, Zenon DEF Take, TypeInv
<1>7. ASSUME NEW t \in Openers, opener[t].pc \in CallPcs, Fail(t) PROVE OpenersInv' /\ TypeInv'
  <2>1. OpenersInv' /\ free' \in [Sems -> Nat] /\ mark' \in [Dests -> Nat]
    BY <1>7, FailIs, ReturnFalseIs, Zenon DEF Becomes
  <2> QED
    BY <1>7, <2>1, Zenon DEF Fail, TypeInv
<1>8. ASSUME NEW t \in Openers, Resolve(t) PROVE OpenersInv' /\ TypeInv'
  <2>1. opener[t].pc \in CallPcs
    BY <1>8, Zenon DEF Resolve, CallPcs
  <2>2. CASE opener' = [opener EXCEPT ![t].pc = "dial"] /\ ~Connected(opener[t].call.dest)
    <3>1. OpenersInv'
      BY <2>1, <2>2, CallProceeds, Zenon DEF Becomes
    <3> QED
      BY <1>8, <2>2, <3>1, Zenon DEF Resolve, TypeInv
  <2> QED
    BY <1>7, <1>8, <2>1, <2>2, Zenon DEF Resolve
<1>9. ASSUME NEW t \in Openers, DialFails(t) PROVE OpenersInv' /\ TypeInv'
  BY <1>7, <1>9, Zenon DEF DialFails, CallPcs
<1>10. ASSUME NEW t \in Openers, Dial(t) PROVE OpenersInv' /\ TypeInv'
  <2>1. OpenersInv' /\ opener[t].pc \in CallPcs /\ opener[t].call \in Calls
    BY <1>10, DialIs, Zenon DEF Becomes, CallPcs
  <2>2. PICK m \in Connections : nodes' = nodes \cup {m} /\ m.id \notin {n.id : n \in nodes}
    BY <1>10, DialIs, Zenon
  <2>3. nodes' \subseteq Connections /\ \A x, y \in nodes' : x.id = y.id => x = y
    BY <2>2, Zenon DEF TypeInv
  <2>4. IsFiniteSet(nodes')
    BY <2>2, FiniteAdd, Zenon DEF TypeInv
  <2>5. free' \in [Sems -> Nat]
    BY <1>10, <2>1, TriedBalances, Zenon DEF Dial
  <2>6. retries' \in [Dests -> Nat]
    <3>1. opener[t].call.dest \in Dests /\ retries \in [Dests -> Nat]
      BY <2>1, Zenon DEF Calls, TypeInv
    <3>2. retries' = retries \/ retries' = [retries EXCEPT ![opener[t].call.dest] = @ + 1]
      BY <1>10, Zenon DEF Dial
    <3>3. CASE retries' = [retries EXCEPT ![opener[t].call.dest] = @ + 1]
      BY <3>1, <3>3
    <3> QED
      BY <3>1, <3>2, <3>3, Zenon
  <2> QED
    BY <1>10, <2>1, <2>3, <2>4, <2>5, <2>6, Zenon DEF Dial, TypeInv
<1>11. ASSUME NEW t \in Openers, Reconnect(t) PROVE OpenersInv' /\ TypeInv'
  <2>1. OpenersInv' /\ opener[t].grant \in Grants
    BY <1>11, ReconnectIs, Zenon DEF Becomes, Grants, Sems
  <2>2. /\ (free' = free \/ free' = Release(free, opener[t].grant))
        /\ (reconn' = reconn \/ (reconn # <<>> /\ reconn' = Tail(reconn)))
    BY <1>11, ReconnectIs, Zenon
  <2>3. free' \in [Sems -> Nat]
    <3>1. free \in [Sems -> Nat]
      BY Zenon DEF TypeInv
    <3>2. Release(free, opener[t].grant) \in [Sems -> Nat]
      BY <2>1, <3>1, ReleaseIs, Zenon
    <3> QED
      BY <2>2, <3>1, <3>2, Zenon
  <2>4. reconn' \in Seq(Calls)
    <3>1. reconn \in Seq(Calls) /\ (reconn # <<>> => Tail(reconn) \in Seq(Calls))
      BY DEF TypeInv
    <3> QED
      BY <2>2, <3>1, Zenon
  <2> QED
    BY <1>11, <2>1, <2>3, <2>4, Zenon DEF Reconnect, TypeInv
<1>12. CASE AddedLoop
  <2>1. OpenersInv'
    BY <1>12, AddedLoopIs, Zenon DEF Becomes
  <2>2. free' \in [Sems -> Nat]
    BY <1>12 DEF AddedLoop, TypeInv, Sems
  <2> QED
    BY <1>12, <2>1, <2>2, Zenon DEF AddedLoop, TypeInv
<1>13. CASE AddedNext
  <2>1. OpenersInv'
    BY <1>13, AddedNextIs, Zenon DEF Becomes
  <2> QED
    BY <1>13, <2>1, Zenon DEF AddedNext, TypeInv
<1>14. CASE OpenLoop
  <2>1. OpenersInv'
    BY <1>14, OpenLoopIs, Zenon DEF Becomes
  <2> QED
    BY <1>14, <2>1, Zenon DEF OpenLoop, TypeInv
<1>15. CASE Pick
  <2>1. OpenersInv'
    BY <1>15, PickIs, Zenon DEF Becomes
  <2>2. free' \in [Sems -> Nat]
    <3>1. free \in [Sems -> Nat] /\ "outbound" \in Sems /\ free["outbound"] > 0
      BY <1>15, Zenon DEF Pick, TypeInv, Sems
    <3>2. CASE free' = [free EXCEPT !["outbound"] = @ - 1]
      BY <3>1, <3>2
    <3> QED
      BY <1>15, <3>1, <3>2, Zenon DEF Pick
  <2> QED
    BY <1>15, <2>1, <2>2, Zenon DEF Pick, TypeInv
<1>16. ASSUME NEW d \in Named, OneTry(d) PROVE OpenersInv' /\ TypeInv'
  <2>1. OpenersInv'
    BY <1>16, OneTryIs, Zenon DEF Becomes
  <2> QED
    BY <1>16, <2>1, Zenon DEF OneTry, TypeInv
<1>17. ASSUME NEW d \in Named, AddNode(d) PROVE OpenersInv' /\ TypeInv'
  BY <1>17, Zenon DEF AddNode, TypeInv, OpenersInv, Dests
<1>18. ASSUME NEW d \in Named, RemoveAddedNode(d) PROVE OpenersInv' /\ TypeInv'
  BY <1>18 DEF RemoveAddedNode, TypeInv, OpenersInv, Dests
<1>19. CASE UNCHANGED vars
  BY <1>19, Zenon DEF vars, TypeInv, OpenersInv
<1> QED
  BY <1>1, <1>2, <1>3, <1>4, <1>5, <1>6, <1>8, <1>9, <1>10, <1>11, <1>12, <1>13, <1>14, <1>15,
     <1>16, <1>17, <1>18, <1>19, Zenon DEF Next, OpenerStep

LEMMA TypeInit == Init => OpenersInv /\ TypeInv
<1> SUFFICES ASSUME Init PROVE OpenersInv /\ TypeInv
  BY Zenon
<1>1. OpenersInv
  BY AtRestIs, Zenon DEF Init, OpenersInv
<1>2. IsFiniteSet(nodes)
  <2>1. <<>> \in Seq(nodes) /\ nodes = {}
    BY DEF Init
  <2> QED
    BY <2>1, Zenon DEF IsFiniteSet
<1>3. reconn \in Seq(Calls) /\ pending \in Seq(Calls)
  BY DEF Init
<1> QED
  BY <1>1, <1>2, <1>3, RetryAssumption DEF Init, TypeInv

-----------------------------------------------------------------------------
(* A retry that is due.                                                    *)

\* An opener that is not on its way with the retry moves, and the mark stays.
LEMMA OthersKeepOwed ==
  ASSUME NEW t \in Openers, NEW pc, NEW call, NEW grant, NEW retry, Becomes(t, pc, call, grant, retry),
         NEW d \in Dests, Owed(d), mark' = mark, opener[t].retry = 0 \/ opener[t].call.dest # d
  PROVE  Owed(d)'
  BY Zenon DEF Owed, Becomes

LEMMA TakeKeepsOwed ==
  ASSUME OpenersInv, TypeInv, NEW t \in Openers, Take(t), NEW d \in Dests, Owed(d)
  PROVE  Owed(d)'
<1> DEFINE c == opener[t].call
           takes == c.manual /\ c.v2
           r == IF takes THEN mark[c.dest] ELSE 0
<1>1. c \in Calls /\ opener[t].retry = 0 /\ Becomes(t, "resolve", c, opener[t].grant, r)
  BY TakeIs, Zenon
<1>2. mark' = IF takes THEN [mark EXCEPT ![c.dest] = 0] ELSE mark
  BY Zenon DEF Take
<1>3. mark \in [Dests -> Nat]
  BY Zenon DEF TypeInv
<1>4. CASE mark[d] # 0 /\ takes /\ c.dest = d
  <2>1. opener'[t].retry # 0 /\ opener'[t].call.dest = d
    BY <1>1, <1>4, Zenon DEF Becomes
  <2> QED
    BY <2>1, Zenon DEF Owed
<1>5. CASE mark[d] # 0 /\ ~(takes /\ c.dest = d)
  <2>1. mark'[d] = mark[d]
    BY <1>2, <1>3, <1>5, Zenon
  <2> QED
    BY <1>5, <2>1, Zenon DEF Owed
<1>6. CASE mark[d] = 0
  <2>1. PICK u \in Openers : opener[u].retry # 0 /\ opener[u].call.dest = d
    BY <1>6, Zenon DEF Owed
  <2>2. opener'[u] = opener[u]
    BY <1>1, <2>1, Zenon DEF Becomes
  <2> QED
    BY <2>1, <2>2, Zenon DEF Owed
<1> QED
  BY <1>4, <1>5, <1>6, Zenon

LEMMA FailKeepsOwed ==
  ASSUME OpenersInv, TypeInv, NEW t \in Openers, opener[t].pc \in CallPcs, Fail(t), NEW d \in Dests, Owed(d)
  PROVE  Owed(d)'
<1>1. PICK pc \in {"idle", "added", "reconnect"} : Becomes(t, pc, NoCall, GrantAfter(t), 0)
  BY ReturnFalseIs, Zenon DEF Fail
<1>2. opener[t].call.dest \in Dests /\ mark \in [Dests -> Nat]
  BY ReturnFalseIs, Zenon DEF Fail, Calls, TypeInv
<1>3. CASE mark[d] # 0 \/ (opener[t].retry # 0 /\ opener[t].call.dest = d)
  <2>1. mark'[d] # 0
    BY <1>2, <1>3, Zenon DEF Fail
  <2> QED
    BY <2>1, Zenon DEF Owed
<1>4. CASE ~(mark[d] # 0 \/ (opener[t].retry # 0 /\ opener[t].call.dest = d))
  <2>1. PICK u \in Openers : opener[u].retry # 0 /\ opener[u].call.dest = d
    BY <1>4, Zenon DEF Owed
  <2>2. opener'[u] = opener[u]
    BY <1>1, <1>4, <2>1, Zenon DEF Becomes
  <2> QED
    BY <2>1, <2>2, Zenon DEF Owed
<1> QED
  BY <1>3, <1>4, Zenon

LEMMA DialOwed ==
  ASSUME OpenersInv, TypeInv, NEW t \in Openers, Dial(t), NEW d \in Dests, Owed(d)
  PROVE  Owed(d)' \/ retries'[d] > retries[d]
<1>1. PICK pc \in {"idle", "added", "reconnect"} : Becomes(t, pc, NoCall, GrantAfter(t), 0)
  BY DialIs, Zenon
<1>2. mark' = mark /\ retries \in [Dests -> Nat]
  BY Zenon DEF Dial, TypeInv
<1>3. CASE opener[t].retry # 0 /\ opener[t].call.dest = d
  <2>1. retries' = [retries EXCEPT ![d] = @ + 1]
    BY <1>3, Zenon DEF Dial
  <2> QED
    BY <1>2, <2>1
<1>4. CASE ~(opener[t].retry # 0 /\ opener[t].call.dest = d)
  BY <1>1, <1>2, <1>4, OthersKeepOwed, Zenon
<1> QED
  BY <1>3, <1>4, Zenon

LEMMA OwedStep ==
  ASSUME OpenersInv, TypeInv, [Next]_vars, NEW d \in Dests, Owed(d)
  PROVE  Owed(d)' \/ retries'[d] > retries[d] \/ added' # added
<1>1. ASSUME UNCHANGED <<opener, mark>> PROVE Owed(d)'
  BY <1>1, Zenon DEF Owed
<1>2. ASSUME NEW n \in nodes, End(n) PROVE Owed(d)'
  BY <1>1, <1>2, Zenon DEF End
<1>3. ASSUME NEW n \in nodes, Remove(n) PROVE Owed(d)'
  <2>1. n.dest \in Dests /\ mark \in [Dests -> Nat] /\ listing[n.dest] # 0
    BY Zenon DEF TypeInv, Connections
  <2>2. mark[d] # 0 => mark'[d] # 0
    BY <1>3, <2>1, Zenon DEF Remove
  <2>3. opener' = opener
    BY <1>3, Zenon DEF Remove
  <2> QED
    BY <2>2, <2>3, Zenon DEF Owed
<1>4. CASE SetNetworkActive \/ Splice
  BY <1>1, <1>4, Zenon DEF SetNetworkActive, Splice
<1>5. ASSUME NEW t \in Openers, Check(t) PROVE Owed(d)'
  <2>1. opener[t].pc \in CallPcs /\ opener[t].retry = 0 /\ mark' = mark
    BY <1>5, Zenon DEF Check, CallPcs, OpenersInv, OpenerInv
  <2>2. CASE opener' = [opener EXCEPT ![t].pc = "take"]
    <3>1. Becomes(t, "take", opener[t].call, opener[t].grant, opener[t].retry)
      BY <2>1, <2>2, CallProceeds, Zenon
    <3> QED
      BY <2>1, <3>1, OthersKeepOwed, Zenon
  <2>3. CASE ReturnFalse(t)
    <3>1. PICK pc \in {"idle", "added", "reconnect"} : Becomes(t, pc, NoCall, GrantAfter(t), 0)
      BY <2>1, <2>3, ReturnFalseIs, Zenon
    <3> QED
      BY <2>1, <3>1, OthersKeepOwed, Zenon
  <2> QED
    BY <1>5, <2>2, <2>3, Zenon DEF Check
<1>6. ASSUME NEW t \in Openers, Resolve(t) PROVE Owed(d)'
  <2>1. opener[t].pc \in CallPcs
    BY <1>6, Zenon DEF Resolve, CallPcs
  <2>2. CASE Fail(t)
    BY <2>1, <2>2, FailKeepsOwed, Zenon
  <2>3. CASE opener' = [opener EXCEPT ![t].pc = "dial"] /\ mark' = mark
    <3>1. Becomes(t, "dial", opener[t].call, opener[t].grant, opener[t].retry)
      BY <2>1, <2>3, CallProceeds, Zenon
    <3> QED
      BY <2>3, <3>1 DEF Owed, Becomes
  <2> QED
    BY <1>6, <2>2, <2>3, Zenon DEF Resolve
<1>7. ASSUME NEW t \in Openers, DialFails(t) PROVE Owed(d)'
  BY <1>7, FailKeepsOwed, Zenon DEF DialFails, CallPcs
<1>8. ASSUME NEW t \in Openers, Reconnect(t) PROVE Owed(d)'
  <2>1. opener[t].retry = 0 /\ \E pc, call, grant : Becomes(t, pc, call, grant, 0)
    BY <1>8, ReconnectIs, Zenon
  <2>2. mark' = mark
    BY <1>8, Zenon DEF Reconnect
  <2> QED
    BY <2>1, <2>2, OthersKeepOwed, Zenon
<1>9. CASE AddedLoop \/ AddedNext
  <2>1. "added" \in Openers /\ opener["added"].retry = 0
    BY <1>9, AddedLoopIs, AddedNextIs, Zenon DEF Openers
  <2>2. \E pc, call, grant : Becomes("added", pc, call, grant, 0)
    BY <1>9, AddedLoopIs, AddedNextIs, Zenon
  <2>3. mark' = mark
    BY <1>9, Zenon DEF AddedLoop, AddedNext
  <2> QED
    BY <2>1, <2>2, <2>3, OthersKeepOwed, Zenon
<1>10. CASE OpenLoop \/ Pick
  <2>1. "open" \in Openers /\ opener["open"].retry = 0
    BY <1>10, OpenLoopIs, PickIs, Zenon DEF Openers
  <2>2. \E pc, call, grant : Becomes("open", pc, call, grant, 0)
    BY <1>10, OpenLoopIs, PickIs, Zenon
  <2>3. mark' = mark
    BY <1>10, Zenon DEF OpenLoop, Pick
  <2> QED
    BY <2>1, <2>2, <2>3, OthersKeepOwed, Zenon
<1>11. ASSUME NEW e \in Named, OneTry(e) PROVE Owed(d)'
  <2>1. "rpc" \in Openers /\ opener["rpc"].retry = 0 /\ \E pc, call, grant : Becomes("rpc", pc, call, grant, 0)
    BY <1>11, OneTryIs, Zenon DEF Openers
  <2>2. mark' = mark
    BY <1>11, Zenon DEF OneTry
  <2> QED
    BY <2>1, <2>2, OthersKeepOwed, Zenon
<1>12. ASSUME NEW e \in Named, AddNode(e) \/ RemoveAddedNode(e) PROVE added' # added
  BY <1>12, Zenon DEF AddNode, RemoveAddedNode
<1>13. CASE UNCHANGED vars
  BY <1>1, <1>13, Zenon DEF vars
<1>14. ASSUME NEW t \in Openers, OpenerStep(t)
       PROVE  Owed(d)' \/ retries'[d] > retries[d] \/ added' # added
  <2>1. CASE Take(t)
    BY <2>1, TakeKeepsOwed, Zenon
  <2>2. CASE Dial(t)
    BY <2>2, DialOwed, Zenon
  <2> QED
    BY <1>5, <1>6, <1>7, <1>8, <1>9, <1>10, <1>14, <2>1, <2>2, Zenon DEF OpenerStep
<1> QED
  BY <1>2, <1>3, <1>4, <1>11, <1>12, <1>13, <1>14, Zenon DEF Next

\* A retry that is due stays due, in the mark or with the opener that took it, until
\* it is run or the destination is listed or unlisted (RetryNotLost): a dropped
\* queue entry, a failed dial or a connection that is there already do not lose it.
THEOREM DueRetriesAreKept == Spec => RetryNotLost
<1>1. Init => OpenersInv /\ TypeInv
  BY TypeInit, Zenon
<1>2. OpenersInv /\ TypeInv /\ [Next]_vars => (OpenersInv /\ TypeInv)'
  BY TypeStep, Zenon
<1>3. OpenersInv /\ TypeInv /\ [Next]_vars
        => [\A d \in Dests : Owed(d) /\ ~Owed(d)' => retries'[d] > retries[d] \/ added' # added]_vars
  BY OwedStep, Zenon
<1> QED
  BY <1>1, <1>2, <1>3, PTL DEF Spec, RetryNotLost

-----------------------------------------------------------------------------
(* The grants: what connections, queues and openers hold is counted with   *)
(* the cardinalities of sets.                                              *)

INSTANCE FiniteSetTheorems

Indices(s, C) == {i \in DOMAIN s : s[i] \in C}

-----------------------------------------------------------------------------
(* Counting.                                                               *)

\* Sets that differ in one element at most.
LEMMA OneElement ==
  ASSUME NEW A, NEW B, NEW x, IsFiniteSet(A), A \ {x} = B \ {x}
  PROVE  /\ IsFiniteSet(B) /\ Cardinality(A) \in Nat /\ Cardinality(B) \in Nat
         /\ Cardinality(B) + (IF x \in A THEN 1 ELSE 0) = Cardinality(A) + (IF x \in B THEN 1 ELSE 0)
<1> DEFINE R == A \ {x}
<1>1. IsFiniteSet(R) /\ Cardinality(R) = IF x \in A THEN Cardinality(A) - 1 ELSE Cardinality(A)
  BY FS_RemoveElement, Zenon
<1>2. CASE x \in B
  <2>1. B = R \cup {x} /\ x \notin R
    BY <1>2, Zenon
  <2>2. IsFiniteSet(B) /\ Cardinality(B) = Cardinality(R) + 1
    BY <1>1, <2>1, FS_AddElement, Zenon
  <2> QED
    BY <1>1, <1>2, <2>2, FS_CardinalityType
<1>3. CASE x \notin B
  <2>1. B = R
    BY <1>3, Zenon
  <2> QED
    BY <1>1, <1>3, <2>1, FS_CardinalityType
<1> QED
  BY <1>2, <1>3, Zenon

LEMMA IndicesFinite ==
  ASSUME NEW S, NEW s \in Seq(S), NEW C
  PROVE  IsFiniteSet(Indices(s, C)) /\ Cardinality(Indices(s, C)) \in Nat
<1>1. Indices(s, C) \in SUBSET (1..Len(s)) /\ Len(s) \in Nat
  BY DEF Indices
<1>2. IsFiniteSet(1..Len(s))
  BY <1>1, FS_Interval
<1>3. IsFiniteSet(Indices(s, C))
  BY <1>1, <1>2, FS_Subset, Zenon
<1> QED
  BY <1>3, FS_CardinalityType, Zenon

\* What a queue holds of a kind is what its two parts hold.
LEMMA IndicesConcat ==
  ASSUME NEW S, NEW s \in Seq(S), NEW u \in Seq(S), NEW C
  PROVE  Cardinality(Indices(s \o u, C)) = Cardinality(Indices(s, C)) + Cardinality(Indices(u, C))
<1> DEFINE A == Indices(s, C)
           B == Indices(u, C)
           T == {Len(s) + i : i \in B}
           f == [i \in B |-> Len(s) + i]
<1>1. IsFiniteSet(A) /\ IsFiniteSet(B) /\ Cardinality(A) \in Nat /\ Cardinality(B) \in Nat
  BY IndicesFinite, Zenon
<1>2. /\ A \subseteq 1..Len(s) /\ B \subseteq 1..Len(u) /\ Len(s) \in Nat /\ Len(u) \in Nat
      /\ \A i \in 1..Len(s) : i \in A <=> s[i] \in C
      /\ \A i \in 1..Len(u) : i \in B <=> u[i] \in C
  BY DEF Indices
<1>3. /\ DOMAIN (s \o u) = 1..(Len(s) + Len(u))
      /\ \A i \in 1..(Len(s) + Len(u)) : (s \o u)[i] = IF i <= Len(s) THEN s[i] ELSE u[i - Len(s)]
  OBVIOUS
<1>4. Indices(s \o u, C) = {i \in 1..(Len(s) + Len(u)) : (s \o u)[i] \in C}
  BY <1>3, Zenon DEF Indices
<1> HIDE DEF A, B
<1>5. ASSUME NEW i \in 1..(Len(s) + Len(u))
      PROVE  (s \o u)[i] \in C <=> i \in A \cup T
  <2>1. CASE i <= Len(s)
    <3>1. i \in 1..Len(s) /\ (s \o u)[i] = s[i]
      BY <1>2, <1>3, <2>1
    <3>2. i \notin T
      BY <1>2, <2>1
    <3> QED
      BY <1>2, <3>1, <3>2, Zenon
  <2>2. CASE i > Len(s)
    <3> DEFINE j == i - Len(s)
    <3>1. j \in 1..Len(u) /\ i = Len(s) + j /\ (s \o u)[i] = u[j] /\ i \notin A
      BY <1>2, <1>3, <2>2
    <3>2. i \in T <=> j \in B
      BY <1>2, <3>1
    <3> QED
      BY <1>2, <3>1, <3>2, Zenon
  <2> QED
    BY <1>2, <2>1, <2>2
<1>6. A \cup T \subseteq 1..(Len(s) + Len(u))
  <2>1. \A i \in 1..Len(s) : i \in 1..(Len(s) + Len(u))
    BY <1>2
  <2>2. \A i \in 1..Len(u) : Len(s) + i \in 1..(Len(s) + Len(u))
    BY <1>2
  <2> QED
    BY <1>2, <2>1, <2>2, Zenon
<1>7. Indices(s \o u, C) = A \cup T
  BY <1>4, <1>5, <1>6, Zenon
<1>8. f \in Bijection(B, T)
  <2>1. f \in [B -> T] /\ \A y \in T : \E i \in B : f[i] = y
    BY Zenon
  <2>2. \A i, j \in B : f[i] = f[j] => i = j
    BY <1>2
  <2> QED
    BY <2>1, <2>2, Zenon DEF Bijection, Injection, IsInjective, Surjection
<1>9. IsFiniteSet(T) /\ Cardinality(T) = Cardinality(B)
  BY <1>1, <1>8, FS_Bijection, Zenon DEF ExistsBijection
<1>10. A \cap T = {}
  BY <1>2
<1>11. Cardinality(A \cup T) = Cardinality(A) + Cardinality(T) - Cardinality(A \cap T)
  BY <1>1, <1>9, FS_Union, Zenon
<1>12. Cardinality(A \cap T) = 0
  BY <1>10, FS_EmptySet, Zenon
<1> QED
  BY <1>1, <1>7, <1>9, <1>11, <1>12 DEF A, B

LEMMA IndicesOfOne ==
  ASSUME NEW x, NEW C
  PROVE  Cardinality(Indices(<<x>>, C)) = IF x \in C THEN 1 ELSE 0
<1>1. Indices(<<x>>, C) = IF x \in C THEN {1} ELSE {}
  BY DEF Indices
<1> QED
  BY <1>1, FS_Singleton, FS_EmptySet, Zenon

LEMMA IndicesOfNone == ASSUME NEW C PROVE Cardinality(Indices(<<>>, C)) = 0
<1>1. Indices(<<>>, C) = {}
  BY DEF Indices
<1> QED
  BY <1>1, FS_EmptySet, Zenon

\* What a queue holds of a kind, when its first entry is taken.
LEMMA IndicesTail ==
  ASSUME NEW S, NEW s \in Seq(S), s # <<>>, NEW C
  PROVE  Cardinality(Indices(s, C))
           = (IF Head(s) \in C THEN 1 ELSE 0) + Cardinality(Indices(Tail(s), C))
<1>1. <<Head(s)>> \in Seq(S) /\ Tail(s) \in Seq(S) /\ s = <<Head(s)>> \o Tail(s)
  OBVIOUS
<1>2. Cardinality(Indices(<<Head(s)>> \o Tail(s), C))
        = Cardinality(Indices(<<Head(s)>>, C)) + Cardinality(Indices(Tail(s), C))
  BY <1>1, IndicesConcat, Zenon
<1>3. Cardinality(Indices(<<Head(s)>>, C)) = IF Head(s) \in C THEN 1 ELSE 0
  BY IndicesOfOne, Zenon
<1> QED
  BY <1>1, <1>2, <1>3, Zenon

-----------------------------------------------------------------------------
(* The grants.                                                             *)

GrantCalls(g) == {c \in Calls : c.grant = g}

GrantNodes(g) == {n \in nodes : n.grant = g}

\* The grants that connections and the queues hold.
Kept(g) ==
  Cardinality(GrantNodes(g)) + Cardinality(Indices(reconn, GrantCalls(g)))
    + Cardinality(Indices(pending, GrantCalls(g)))

\* The grants that openers hold, their own and those of their calls.
Own(g) == {t \in Openers : opener[t].grant = g}

InCall(g) == {t \in Openers : opener[t].call.grant = g}

LEMMA OpenersFinite == ASSUME NEW A, A \subseteq Openers PROVE IsFiniteSet(A) /\ Cardinality(A) \in Nat
<1>1. IsFiniteSet({"added"})
  BY FS_Singleton, Zenon
<1>2. IsFiniteSet({"added"} \cup {"open"})
  BY <1>1, FS_AddElement, Zenon
<1>3. IsFiniteSet(({"added"} \cup {"open"}) \cup {"rpc"})
  BY <1>2, FS_AddElement, Zenon
<1>4. Openers = ({"added"} \cup {"open"}) \cup {"rpc"}
  BY Zenon DEF Openers
<1>5. IsFiniteSet(A)
  BY <1>3, <1>4, FS_Subset, Zenon
<1> QED
  BY <1>5, FS_CardinalityType, Zenon

LEMMA NodesFinite ==
  ASSUME TypeInv, NEW A, A \subseteq nodes PROVE IsFiniteSet(A) /\ Cardinality(A) \in Nat
  BY FS_Subset, FS_CardinalityType, Zenon DEF TypeInv

LEMMA KeptIs ==
  ASSUME TypeInv, NEW g
  PROVE  /\ Cardinality(GrantNodes(g)) \in Nat
         /\ Cardinality(Indices(reconn, GrantCalls(g))) \in Nat
         /\ Cardinality(Indices(pending, GrantCalls(g))) \in Nat
         /\ Kept(g) \in Nat
<1>1. GrantNodes(g) \subseteq nodes
  BY Zenon DEF GrantNodes
<1>2. Cardinality(GrantNodes(g)) \in Nat
  BY <1>1, NodesFinite, Zenon
<1>3. reconn \in Seq(Calls) /\ pending \in Seq(Calls)
  BY Zenon DEF TypeInv
<1>4. Cardinality(Indices(reconn, GrantCalls(g))) \in Nat /\ Cardinality(Indices(pending, GrantCalls(g))) \in Nat
  BY <1>3, IndicesFinite, Zenon
<1> QED
  BY <1>2, <1>4 DEF Kept

LEMMA HoldingIs ==
  ASSUME TypeInv, NEW g
  PROVE  /\ Cardinality(Own(g)) \in Nat /\ Cardinality(InCall(g)) \in Nat
         /\ Holding(g) = Kept(g) + Cardinality(Own(g)) + Cardinality(InCall(g))
<1>1. ASSUME NEW s \in Seq(Calls) PROVE {i \in DOMAIN s : s[i].grant = g} = Indices(s, GrantCalls(g))
  BY DEF Indices, GrantCalls
<1>2. /\ {i \in DOMAIN reconn : reconn[i].grant = g} = Indices(reconn, GrantCalls(g))
      /\ {i \in DOMAIN pending : pending[i].grant = g} = Indices(pending, GrantCalls(g))
  BY <1>1, Zenon DEF TypeInv
<1>3. Own(g) \subseteq Openers /\ InCall(g) \subseteq Openers
  BY Zenon DEF Own, InCall
<1>4. Cardinality(Own(g)) \in Nat /\ Cardinality(InCall(g)) \in Nat
  BY <1>3, OpenersFinite, Zenon
<1>5. Holding(g) = Cardinality(GrantNodes(g)) + Cardinality(Indices(reconn, GrantCalls(g)))
                     + Cardinality(Indices(pending, GrantCalls(g)))
                     + Cardinality(Own(g)) + Cardinality(InCall(g))
  BY <1>2, Zenon DEF Holding, GrantNodes, Own, InCall
<1> QED
  BY <1>4, <1>5, KeptIs, Zenon DEF Kept

HeldOk ==
  \A g : /\ Kept(g) \in Nat /\ Cardinality(Own(g)) \in Nat /\ Cardinality(InCall(g)) \in Nat
         /\ Holding(g) = Kept(g) + Cardinality(Own(g)) + Cardinality(InCall(g))

LEMMA HeldAlways == TypeInv => HeldOk
  BY HoldingIs, KeptIs, Zenon DEF HeldOk

LEMMA HeldAfter == TypeInv' => HeldOk'
  BY HeldAlways, PTL

\* What the move of one opener does to the grants that are held.
LEMMA OpenerMoves ==
  ASSUME TypeInv, TypeInv', NEW t \in Openers, NEW pc, NEW call, NEW grant, NEW retry,
         Becomes(t, pc, call, grant, retry), NEW g
  PROVE  Holding(g)' + Kept(g) + (IF opener[t].grant = g THEN 1 ELSE 0)
                     + (IF opener[t].call.grant = g THEN 1 ELSE 0)
           = Holding(g) + Kept(g)' + (IF grant = g THEN 1 ELSE 0) + (IF call.grant = g THEN 1 ELSE 0)
<1>1. /\ Own(g) \subseteq Openers /\ InCall(g) \subseteq Openers
      /\ Own(g)' \subseteq Openers /\ InCall(g)' \subseteq Openers
      /\ t \in Own(g) <=> opener[t].grant = g
      /\ t \in InCall(g) <=> opener[t].call.grant = g
      /\ t \in Own(g)' <=> grant = g
      /\ t \in InCall(g)' <=> call.grant = g
  BY Zenon DEF Own, InCall, Becomes
<1>2. Own(g) \ {t} = Own(g)' \ {t} /\ InCall(g) \ {t} = InCall(g)' \ {t}
  BY Zenon DEF Own, InCall, Becomes
<1>3. IsFiniteSet(Own(g)) /\ IsFiniteSet(InCall(g))
  BY <1>1, OpenersFinite, Zenon
<1>4. /\ Cardinality(Own(g)) \in Nat /\ Cardinality(Own(g)') \in Nat
      /\ Cardinality(Own(g)') + (IF opener[t].grant = g THEN 1 ELSE 0)
           = Cardinality(Own(g)) + (IF grant = g THEN 1 ELSE 0)
  BY <1>1, <1>2, <1>3, OneElement
<1>5. /\ Cardinality(InCall(g)) \in Nat /\ Cardinality(InCall(g)') \in Nat
      /\ Cardinality(InCall(g)') + (IF opener[t].call.grant = g THEN 1 ELSE 0)
           = Cardinality(InCall(g)) + (IF call.grant = g THEN 1 ELSE 0)
  BY <1>1, <1>2, <1>3, OneElement
<1>6. Holding(g) = Kept(g) + Cardinality(Own(g)) + Cardinality(InCall(g)) /\ Kept(g) \in Nat
  BY HoldingIs, KeptIs, Zenon
<1>7. Holding(g)' = Kept(g)' + Cardinality(Own(g)') + Cardinality(InCall(g)') /\ Kept(g)' \in Nat
  BY HeldAfter, Zenon DEF HeldOk
<1> QED
  BY <1>4, <1>5, <1>6, <1>7

LEMMA OpenersRest ==
  ASSUME TypeInv, TypeInv', opener' = opener, NEW g
  PROVE  Holding(g)' + Kept(g) = Holding(g) + Kept(g)'
<1>1. Own(g)' = Own(g) /\ InCall(g)' = InCall(g)
  BY Zenon DEF Own, InCall
<1>2. /\ Kept(g) \in Nat /\ Cardinality(Own(g)) \in Nat /\ Cardinality(InCall(g)) \in Nat
      /\ Holding(g) = Kept(g) + Cardinality(Own(g)) + Cardinality(InCall(g))
  BY HeldAlways, Zenon DEF HeldOk
<1>3. Holding(g)' = Kept(g)' + Cardinality(Own(g)') + Cardinality(InCall(g)') /\ Kept(g)' \in Nat
  BY HeldAfter, Zenon DEF HeldOk
<1> QED
  BY <1>1, <1>2, <1>3

LEMMA QueuesRest == ASSUME UNCHANGED <<nodes, reconn, pending>>, NEW g PROVE Kept(g)' = Kept(g)
  BY Zenon DEF Kept, GrantNodes

\* The grants of the connections when n is taken out.
LEMMA NodeLeaves ==
  ASSUME TypeInv, NEW n \in nodes, nodes' = nodes \ {n}, NEW g
  PROVE  Cardinality(GrantNodes(g)') + (IF n.grant = g THEN 1 ELSE 0) = Cardinality(GrantNodes(g))
<1>1. GrantNodes(g) \ {n} = GrantNodes(g)' \ {n} /\ n \notin GrantNodes(g)' /\ GrantNodes(g) \subseteq nodes
  BY Zenon DEF GrantNodes
<1>2. n \in GrantNodes(g) <=> n.grant = g
  BY Zenon DEF GrantNodes
<1>3. IsFiniteSet(GrantNodes(g))
  BY <1>1, NodesFinite, Zenon
<1>4. /\ Cardinality(GrantNodes(g)) \in Nat /\ Cardinality(GrantNodes(g)') \in Nat
      /\ Cardinality(GrantNodes(g)') + (IF n \in GrantNodes(g) THEN 1 ELSE 0)
           = Cardinality(GrantNodes(g)) + (IF n \in GrantNodes(g)' THEN 1 ELSE 0)
  BY <1>1, <1>3, OneElement, Zenon
<1> QED
  BY <1>1, <1>2, <1>4

LEMMA NodeJoins ==
  ASSUME TypeInv, NEW m, m \notin nodes, nodes' = nodes \cup {m}, NEW g
  PROVE  Cardinality(GrantNodes(g)') = Cardinality(GrantNodes(g)) + (IF m.grant = g THEN 1 ELSE 0)
<1>1. GrantNodes(g) \ {m} = GrantNodes(g)' \ {m} /\ m \notin GrantNodes(g) /\ GrantNodes(g) \subseteq nodes
  BY Zenon DEF GrantNodes
<1>2. m \in GrantNodes(g)' <=> m.grant = g
  BY Zenon DEF GrantNodes
<1>3. IsFiniteSet(GrantNodes(g))
  BY <1>1, NodesFinite, Zenon
<1>4. /\ Cardinality(GrantNodes(g)) \in Nat /\ Cardinality(GrantNodes(g)') \in Nat
      /\ Cardinality(GrantNodes(g)') + (IF m \in GrantNodes(g) THEN 1 ELSE 0)
           = Cardinality(GrantNodes(g)) + (IF m \in GrantNodes(g)' THEN 1 ELSE 0)
  BY <1>1, <1>3, OneElement
<1> QED
  BY <1>1, <1>2, <1>4

\* A connection that ends keeps its grant.
LEMMA NodeEnds ==
  ASSUME TypeInv, NEW n \in nodes, NEW m, m \notin nodes \ {n}, m.grant = n.grant,
         nodes' = (nodes \ {n}) \cup {m}, NEW g
  PROVE  Cardinality(GrantNodes(g)') = Cardinality(GrantNodes(g))
<1> DEFINE A == GrantNodes(g)
           B == A \ {n}
           D == GrantNodes(g)'
<1>1. IsFiniteSet(A) /\ (n \in A <=> n.grant = g)
  <2>1. A \subseteq nodes
    BY Zenon DEF GrantNodes
  <2> QED
    BY <2>1, NodesFinite, Zenon DEF GrantNodes
<1>2. B \ {m} = D \ {m} /\ m \notin B /\ (m \in D <=> m.grant = g) /\ n \notin B /\ A \ {n} = B \ {n}
  BY Zenon DEF GrantNodes
<1> HIDE DEF A, B, D
<1>3. /\ IsFiniteSet(B) /\ Cardinality(A) \in Nat /\ Cardinality(B) \in Nat
      /\ Cardinality(B) + (IF n \in A THEN 1 ELSE 0) = Cardinality(A) + (IF n \in B THEN 1 ELSE 0)
  BY <1>1, <1>2, OneElement
<1>4. /\ Cardinality(D) \in Nat
      /\ Cardinality(D) + (IF m \in B THEN 1 ELSE 0) = Cardinality(B) + (IF m \in D THEN 1 ELSE 0)
  BY <1>2, <1>3, OneElement, Zenon
<1>5. Cardinality(D) = Cardinality(A)
  BY <1>1, <1>2, <1>3, <1>4
<1> QED
  BY <1>5, Zenon DEF A, D

\* What the semaphore has and what is held make up the same number after the step.
Conserves(g) == free'[g] + Holding(g)' = free[g] + Holding(g)

LEMMA RemoveConserves ==
  ASSUME TypeInv, TypeInv', NEW n \in nodes, Remove(n), NEW g \in Sems
  PROVE  Conserves(g)
<1>1. n \in Connections /\ n.grant \in Grants /\ free \in [Sems -> Nat] /\ pending \in Seq(Calls)
  BY Zenon DEF TypeInv, Connections
<1>2. Holding(g)' + Kept(g) = Holding(g) + Kept(g)'
  BY OpenersRest, Zenon DEF Remove
<1>3. Cardinality(GrantNodes(g)') + (IF n.grant = g THEN 1 ELSE 0) = Cardinality(GrantNodes(g))
  BY NodeLeaves, Zenon DEF Remove
<1>4. Cardinality(Indices(reconn, GrantCalls(g)))' = Cardinality(Indices(reconn, GrantCalls(g)))
  BY Zenon DEF Remove, Indices
<1>5. /\ Kept(g)' = Cardinality(GrantNodes(g)') + Cardinality(Indices(reconn, GrantCalls(g)))'
                      + Cardinality(Indices(pending', GrantCalls(g)))
      /\ Kept(g) = Cardinality(GrantNodes(g)) + Cardinality(Indices(reconn, GrantCalls(g)))
                     + Cardinality(Indices(pending, GrantCalls(g)))
  BY Zenon DEF Kept
<1>6. /\ Cardinality(GrantNodes(g)) \in Nat /\ Cardinality(Indices(reconn, GrantCalls(g))) \in Nat
      /\ Cardinality(Indices(pending, GrantCalls(g))) \in Nat
  BY KeptIs, Zenon
<1>7. Cardinality(GrantNodes(g)') \in Nat
  <2>1. GrantNodes(g)' \subseteq nodes
    BY Zenon DEF Remove, GrantNodes
  <2> QED
    BY <2>1, NodesFinite, Zenon
<1>8. Holding(g) \in Nat /\ Holding(g)' \in Nat
  BY HeldAlways, HeldAfter DEF HeldOk
<1>9. CASE Reconnections(n) = <<>>
  <2>1. pending' = pending
    BY <1>1, <1>9 DEF Remove
  <2>2. free'[g] = free[g] + (IF n.grant = g THEN 1 ELSE 0) /\ free[g] \in Nat
    BY <1>1, <1>9, ReleaseIs, Zenon DEF Remove
  <2>3. Cardinality(Indices(pending', GrantCalls(g))) = Cardinality(Indices(pending, GrantCalls(g)))
    BY <2>1, Zenon
  <2>4. Kept(g)' + (IF n.grant = g THEN 1 ELSE 0) = Kept(g) /\ Kept(g)' \in Nat /\ Kept(g) \in Nat
    BY <1>3, <1>4, <1>5, <1>6, <1>7, <2>3
  <2> QED
    BY <1>2, <1>8, <2>2, <2>4 DEF Conserves
<1>10. ASSUME NEW c \in Calls, Reconnections(n) = <<c>>, c.grant = n.grant PROVE Conserves(g)
  <2>1. pending' = pending \o <<c>> /\ <<c>> \in Seq(Calls) /\ free' = free /\ free[g] \in Nat
    BY <1>1, <1>10 DEF Remove
  <2>2. Cardinality(Indices(pending', GrantCalls(g)))
          = Cardinality(Indices(pending, GrantCalls(g))) + Cardinality(Indices(<<c>>, GrantCalls(g)))
    BY <1>1, <2>1, IndicesConcat, ZenonT(30)
  <2>3. Cardinality(Indices(<<c>>, GrantCalls(g))) = IF c \in GrantCalls(g) THEN 1 ELSE 0
    BY IndicesOfOne, Zenon
  <2>4. c \in GrantCalls(g) <=> n.grant = g
    BY <1>10, Zenon DEF GrantCalls
  <2>5. Cardinality(Indices(pending', GrantCalls(g)))
          = Cardinality(Indices(pending, GrantCalls(g))) + (IF n.grant = g THEN 1 ELSE 0)
    BY <2>2, <2>3, <2>4, Zenon
  <2>6. Kept(g)' = Kept(g) /\ Kept(g) \in Nat
    BY <1>3, <1>4, <1>5, <1>6, <1>7, <2>5
  <2>7. free'[g] = free[g]
    BY <2>1, Zenon
  <2> QED
    BY <1>2, <1>8, <2>1, <2>6, <2>7, SMTT(30) DEF Conserves
<1> QED
  BY <1>1, <1>9, <1>10, ReconnectionsAre, Zenon DEF TypeInv

LEMMA SpliceConserves ==
  ASSUME TypeInv, TypeInv', Splice, NEW g \in Sems
  PROVE  Conserves(g)
<1>1. /\ reconn \in Seq(Calls) /\ pending \in Seq(Calls) /\ free' = free /\ free[g] \in Nat
      /\ reconn' = reconn \o pending /\ pending' = <<>> /\ nodes' = nodes
  BY Zenon DEF TypeInv, Splice
<1>2. Holding(g)' + Kept(g) = Holding(g) + Kept(g)'
  BY OpenersRest, Zenon DEF Splice
<1>3. Cardinality(Indices(reconn', GrantCalls(g)))
        = Cardinality(Indices(reconn, GrantCalls(g))) + Cardinality(Indices(pending, GrantCalls(g)))
  BY <1>1, IndicesConcat
<1>4. Cardinality(Indices(pending', GrantCalls(g))) = 0
  BY <1>1, IndicesOfNone, Zenon
<1>5. Kept(g)' = Cardinality(GrantNodes(g)) + Cardinality(Indices(reconn', GrantCalls(g)))
                   + Cardinality(Indices(pending', GrantCalls(g)))
  BY <1>1, Zenon DEF Kept, GrantNodes
<1>6. Kept(g)' = Kept(g) /\ Kept(g) \in Nat
  BY <1>3, <1>4, <1>5, KeptIs DEF Kept
<1>7. Holding(g) \in Nat /\ Holding(g)' \in Nat
  BY HeldAlways, HeldAfter DEF HeldOk
<1> QED
  BY <1>1, <1>2, <1>6, <1>7 DEF Conserves

\* Opener t moves and the queues stay: the semaphore's count and t's grants balance.
LEMMA MoveConserves ==
  ASSUME TypeInv, TypeInv', NEW t \in Openers, NEW pc, NEW call, NEW grant, NEW retry,
         Becomes(t, pc, call, grant, retry), UNCHANGED <<nodes, reconn, pending>>, NEW g \in Sems,
         free'[g] + (IF grant = g THEN 1 ELSE 0) + (IF call.grant = g THEN 1 ELSE 0)
           = free[g] + (IF opener[t].grant = g THEN 1 ELSE 0) + (IF opener[t].call.grant = g THEN 1 ELSE 0)
  PROVE  Conserves(g)
<1>1. Holding(g)' + Kept(g) + (IF opener[t].grant = g THEN 1 ELSE 0)
                     + (IF opener[t].call.grant = g THEN 1 ELSE 0)
        = Holding(g) + Kept(g)' + (IF grant = g THEN 1 ELSE 0) + (IF call.grant = g THEN 1 ELSE 0)
  BY OpenerMoves
<1>2. Kept(g)' = Kept(g)
  BY QueuesRest, Zenon
<1>3. Holding(g) \in Nat /\ Holding(g)' \in Nat /\ Kept(g) \in Nat
  BY HeldAlways, HeldAfter DEF HeldOk
<1>4. free[g] \in Nat /\ free'[g] \in Nat
  BY Zenon DEF TypeInv
<1> QED
  BY <1>1, <1>2, <1>3, <1>4 DEF Conserves

LEMMA DialConserves ==
  ASSUME OpenersInv, TypeInv, TypeInv', NEW t \in Openers, Dial(t), NEW g \in Sems
  PROVE  Conserves(g)
<1>1. opener[t].pc \in CallPcs /\ free' = Tried(t) /\ UNCHANGED <<reconn, pending>>
  BY Zenon DEF Dial, CallPcs
<1>2. PICK pc \in {"idle", "added", "reconnect"} : Becomes(t, pc, NoCall, GrantAfter(t), 0)
  BY DialIs, Zenon
<1>3. PICK m \in Connections : /\ nodes' = nodes \cup {m} /\ m.id \notin {n.id : n \in nodes}
                               /\ m.grant = opener[t].call.grant
  BY DialIs, Zenon
<1>4. Holding(g)' + Kept(g) + (IF opener[t].grant = g THEN 1 ELSE 0)
                     + (IF opener[t].call.grant = g THEN 1 ELSE 0)
        = Holding(g) + Kept(g)' + (IF GrantAfter(t) = g THEN 1 ELSE 0) + (IF NoCall.grant = g THEN 1 ELSE 0)
  BY <1>2, OpenerMoves
<1>5. NoCall.grant # g
  BY Zenon DEF NoCall, Sems
<1>6. m \notin nodes
  BY <1>3, Zenon
<1>7. Cardinality(GrantNodes(g)') = Cardinality(GrantNodes(g)) + (IF m.grant = g THEN 1 ELSE 0)
  BY <1>3, <1>6, NodeJoins, Zenon
<1>8. Kept(g)' = Kept(g) + (IF opener[t].call.grant = g THEN 1 ELSE 0)
  <2>1. /\ Kept(g)' = Cardinality(GrantNodes(g)') + Cardinality(Indices(reconn, GrantCalls(g)))
                        + Cardinality(Indices(pending, GrantCalls(g)))
        /\ Kept(g) = Cardinality(GrantNodes(g)) + Cardinality(Indices(reconn, GrantCalls(g)))
                       + Cardinality(Indices(pending, GrantCalls(g)))
    BY <1>1, Zenon DEF Kept
  <2>2. /\ Cardinality(GrantNodes(g)) \in Nat /\ Cardinality(Indices(reconn, GrantCalls(g))) \in Nat
        /\ Cardinality(Indices(pending, GrantCalls(g))) \in Nat
    BY KeptIs, Zenon
  <2> QED
    BY <1>3, <1>7, <2>1, <2>2
<1>9. /\ free'[g] + (IF GrantAfter(t) = g THEN 1 ELSE 0) = free[g] + (IF opener[t].grant = g THEN 1 ELSE 0)
  BY <1>1, TriedBalances, Zenon
<1>10. free[g] \in Nat /\ free'[g] \in Nat
  BY Zenon DEF TypeInv
<1>11. Holding(g) \in Nat /\ Holding(g)' \in Nat /\ Kept(g) \in Nat
  BY HeldAlways, HeldAfter DEF HeldOk
<1> QED
  BY <1>4, <1>5, <1>8, <1>9, <1>10, <1>11 DEF Conserves

LEMMA ReconnectConserves ==
  ASSUME OpenersInv, TypeInv, TypeInv', NEW t \in Openers, Reconnect(t), NEW g \in Sems
  PROVE  Conserves(g)
<1>1. /\ opener[t].call = NoCall /\ opener[t].grant \in Grants /\ UNCHANGED <<nodes, pending>>
  BY ReconnectIs, Zenon DEF Reconnect, Grants, Sems
<1>2. NoCall.grant # g /\ "none" # g
  BY Zenon DEF NoCall, Sems
<1>3. free[g] \in Nat /\ free'[g] \in Nat /\ free \in [Sems -> Nat] /\ reconn \in Seq(Calls)
  BY Zenon DEF TypeInv
<1>4. Holding(g) \in Nat /\ Holding(g)' \in Nat /\ Kept(g) \in Nat
  BY HeldAlways, HeldAfter DEF HeldOk
<1>5. CASE /\ reconn # <<>> /\ reconn' = Tail(reconn) /\ free' = free
           /\ Head(reconn) \in Calls /\ Becomes(t, "check", Head(reconn), opener[t].grant, 0)
  <2>1. Holding(g)' + Kept(g) + (IF opener[t].grant = g THEN 1 ELSE 0)
                     + (IF opener[t].call.grant = g THEN 1 ELSE 0)
        = Holding(g) + Kept(g)' + (IF opener[t].grant = g THEN 1 ELSE 0)
                     + (IF Head(reconn).grant = g THEN 1 ELSE 0)
    BY <1>5, OpenerMoves
  <2>2. Cardinality(Indices(reconn, GrantCalls(g)))
          = (IF Head(reconn) \in GrantCalls(g) THEN 1 ELSE 0) + Cardinality(Indices(Tail(reconn), GrantCalls(g)))
    BY <1>3, <1>5, IndicesTail, Zenon
  <2>3. Head(reconn) \in GrantCalls(g) <=> Head(reconn).grant = g
    BY <1>5 DEF GrantCalls
  <2>4. /\ Kept(g)' = Cardinality(GrantNodes(g)) + Cardinality(Indices(reconn', GrantCalls(g)))
                        + Cardinality(Indices(pending, GrantCalls(g)))
        /\ Kept(g) = Cardinality(GrantNodes(g)) + Cardinality(Indices(reconn, GrantCalls(g)))
                       + Cardinality(Indices(pending, GrantCalls(g)))
    BY <1>1 DEF Kept, GrantNodes
  <2>5. /\ Cardinality(GrantNodes(g)) \in Nat /\ Cardinality(Indices(reconn, GrantCalls(g))) \in Nat
        /\ Cardinality(Indices(pending, GrantCalls(g))) \in Nat
    BY KeptIs, Zenon
  <2>6. reconn' \in Seq(Calls)
    BY Zenon DEF TypeInv
  <2>7. Cardinality(Indices(reconn', GrantCalls(g))) \in Nat
    BY <2>6, IndicesFinite, Zenon
  <2>8. Cardinality(Indices(reconn, GrantCalls(g)))
          = (IF Head(reconn).grant = g THEN 1 ELSE 0) + Cardinality(Indices(reconn', GrantCalls(g)))
    BY <1>5, <2>2, <2>3, Zenon
  <2>9. Kept(g) = Kept(g)' + (IF Head(reconn).grant = g THEN 1 ELSE 0) /\ Kept(g)' \in Nat
    BY <2>4, <2>5, <2>7, <2>8
  <2>10. opener[t].call.grant # g /\ free'[g] = free[g] /\ free[g] \in Nat
    BY <1>1, <1>2, <1>3, <1>5, ZenonT(30)
  <2>11. Holding(g)' = Holding(g)
    BY <1>4, <2>1, <2>9, <2>10
  <2> QED
    BY <2>10, <2>11, Zenon DEF Conserves
<1>6. ASSUME reconn' = reconn, free' = Release(free, opener[t].grant),
             NEW pc, Becomes(t, pc, NoCall, "none", 0)
      PROVE  Conserves(g)
  <2>1. free'[g] = free[g] + (IF opener[t].grant = g THEN 1 ELSE 0)
    BY <1>1, <1>3, <1>6, ReleaseIs, ZenonT(30)
  <2>2. Holding(g)' + Kept(g) + (IF opener[t].grant = g THEN 1 ELSE 0)
                     + (IF opener[t].call.grant = g THEN 1 ELSE 0)
        = Holding(g) + Kept(g)' + (IF "none" = g THEN 1 ELSE 0) + (IF NoCall.grant = g THEN 1 ELSE 0)
    BY <1>6, OpenerMoves
  <2>3. Kept(g)' = Kept(g)
    BY <1>1, <1>6, QueuesRest, Zenon
  <2>4. opener[t].call.grant # g /\ free[g] \in Nat /\ "none" # g /\ NoCall.grant # g
    BY <1>1, <1>2, <1>3, Zenon
  <2>5. Holding(g)' + (IF opener[t].grant = g THEN 1 ELSE 0) = Holding(g)
    BY <1>4, <2>2, <2>3, <2>4
  <2> QED
    BY <1>4, <2>1, <2>4, <2>5 DEF Conserves
<1> QED
  BY <1>5, <1>6, ReconnectIs, Zenon

LEMMA EndConserves ==
  ASSUME TypeInv, TypeInv', NEW n \in nodes, End(n), NEW g \in Sems
  PROVE  Conserves(g)
<1>1. PICK m \in Connections :
        nodes' = (nodes \ {n}) \cup {m} /\ m \notin nodes \ {n} /\ m.grant = n.grant
  BY EndIs, Zenon
<1>2. Cardinality(GrantNodes(g)') = Cardinality(GrantNodes(g))
  BY <1>1, NodeEnds, Zenon
<1>3. UNCHANGED <<reconn, pending, opener, free>>
  BY Zenon DEF End
<1>4. Kept(g)' = Kept(g)
  BY <1>2, <1>3, Zenon DEF Kept
<1>5. Holding(g)' + Kept(g) = Holding(g) + Kept(g)'
  BY <1>3, OpenersRest, Zenon
<1>6. Holding(g) \in Nat /\ Holding(g)' \in Nat /\ Kept(g) \in Nat
  BY HeldAlways, HeldAfter DEF HeldOk
<1>7. free'[g] = free[g] /\ free[g] \in Nat
  BY <1>3, Zenon DEF TypeInv
<1> QED
  BY <1>4, <1>5, <1>6, <1>7 DEF Conserves

\* A call that ends without a connection.
LEMMA ReturnConserves ==
  ASSUME OpenersInv, TypeInv, TypeInv', NEW t \in Openers, opener[t].pc \in CallPcs, ReturnFalse(t),
         UNCHANGED <<nodes, reconn, pending>>, NEW g \in Sems
  PROVE  Conserves(g)
<1>1. PICK pc \in {"idle", "added", "reconnect"} : Becomes(t, pc, NoCall, GrantAfter(t), 0)
  BY ReturnFalseIs, Zenon
<1>2. free'[g] + (IF GrantAfter(t) = g THEN 1 ELSE 0)
        = free[g] + (IF opener[t].grant = g THEN 1 ELSE 0) + (IF opener[t].call.grant = g THEN 1 ELSE 0)
  BY ReturnFalseIs, Zenon
<1>3. NoCall.grant # g
  BY Zenon DEF NoCall, Sems
<1>4. free[g] \in Nat /\ free'[g] \in Nat
  BY Zenon DEF TypeInv
<1>5. free'[g] + (IF GrantAfter(t) = g THEN 1 ELSE 0) + (IF NoCall.grant = g THEN 1 ELSE 0)
        = free[g] + (IF opener[t].grant = g THEN 1 ELSE 0) + (IF opener[t].call.grant = g THEN 1 ELSE 0)
  BY <1>2, <1>3, <1>4
<1> QED
  BY <1>1, <1>5, MoveConserves

\* The addnode loop and the thread of the automatic connections take grants.
LEMMA LoopsConserve ==
  ASSUME OpenersInv, TypeInv, TypeInv', AddedLoop \/ AddedNext \/ OpenLoop \/ Pick, NEW g \in Sems
  PROVE  Conserves(g)
<1>1. "added" \in Openers /\ "open" \in Openers
  BY Zenon DEF Openers
<1>2. NoCall.grant # g /\ "none" # g
  BY Zenon DEF NoCall, Sems
<1>3. free[g] \in Nat /\ free'[g] \in Nat /\ free \in [Sems -> Nat]
  BY Zenon DEF TypeInv
<1>4. Holding(g) \in Nat /\ Holding(g)' \in Nat /\ Kept(g) \in Nat
  BY HeldAlways, HeldAfter DEF HeldOk
<1>5. Kept(g)' = Kept(g)
  <2>1. UNCHANGED <<nodes, reconn, pending>>
    BY Zenon DEF AddedLoop, AddedNext, OpenLoop, Pick
  <2> QED
    BY <2>1, QueuesRest, Zenon
<1>6. CASE AddedLoop
  <2>1. /\ opener["added"].grant = "none" /\ opener["added"].call = NoCall
        /\ Becomes("added", "added", NoCall, "addnode", 0)
    BY <1>6, AddedLoopIs, Zenon
  <2>2. Holding(g)' + Kept(g) + (IF opener["added"].grant = g THEN 1 ELSE 0)
                     + (IF opener["added"].call.grant = g THEN 1 ELSE 0)
        = Holding(g) + Kept(g)' + (IF "addnode" = g THEN 1 ELSE 0) + (IF NoCall.grant = g THEN 1 ELSE 0)
    BY <1>1, <2>1, OpenerMoves
  <2>3. Holding(g)' = Holding(g) + (IF "addnode" = g THEN 1 ELSE 0)
    BY <1>2, <1>4, <1>5, <2>1, <2>2
  <2>4. free'[g] = free[g] - (IF "addnode" = g THEN 1 ELSE 0)
    BY <1>3, <1>6 DEF AddedLoop
  <2> QED
    BY <1>3, <1>4, <2>3, <2>4 DEF Conserves
<1>7. ASSUME NEW c, c.grant = "addnode", opener["added"].grant = "addnode", opener["added"].call = NoCall,
             Becomes("added", "check", c, "none", 0), free' = free
      PROVE  Conserves(g)
  <2>1. Holding(g)' + Kept(g) + (IF opener["added"].grant = g THEN 1 ELSE 0)
                     + (IF opener["added"].call.grant = g THEN 1 ELSE 0)
        = Holding(g) + Kept(g)' + (IF "none" = g THEN 1 ELSE 0) + (IF c.grant = g THEN 1 ELSE 0)
    BY <1>1, <1>7, OpenerMoves
  <2>2. Holding(g)' = Holding(g)
    BY <1>2, <1>4, <1>5, <1>7, <2>1
  <2> QED
    BY <1>3, <1>4, <1>7, <2>2, Zenon DEF Conserves
<1>8. ASSUME opener["added"].call = NoCall, free' = free,
             Becomes("added", "reconnect", NoCall, opener["added"].grant, 0)
      PROVE  Conserves(g)
  <2>1. Holding(g)' + Kept(g) + (IF opener["added"].grant = g THEN 1 ELSE 0)
                     + (IF opener["added"].call.grant = g THEN 1 ELSE 0)
        = Holding(g) + Kept(g)' + (IF opener["added"].grant = g THEN 1 ELSE 0)
                     + (IF NoCall.grant = g THEN 1 ELSE 0)
    BY <1>1, <1>8, OpenerMoves
  <2>2. Holding(g)' = Holding(g)
    BY <1>2, <1>4, <1>5, <1>8, <2>1
  <2> QED
    BY <1>3, <1>4, <1>8, <2>2, ZenonT(30) DEF Conserves
<1>9. CASE AddedNext
  <2>1. free' = free
    BY <1>9, Zenon DEF AddedNext
  <2> QED
    BY <1>7, <1>8, <1>9, <2>1, AddedNextIs, Zenon
<1>10. ASSUME NEW pc, opener["open"].grant = "none", opener["open"].call = NoCall, free' = free,
              Becomes("open", pc, NoCall, "none", 0)
       PROVE  Conserves(g)
  <2>1. Holding(g)' + Kept(g) + (IF opener["open"].grant = g THEN 1 ELSE 0)
                     + (IF opener["open"].call.grant = g THEN 1 ELSE 0)
        = Holding(g) + Kept(g)' + (IF "none" = g THEN 1 ELSE 0) + (IF NoCall.grant = g THEN 1 ELSE 0)
    BY <1>1, <1>10, OpenerMoves
  <2>2. Holding(g)' = Holding(g)
    BY <1>2, <1>4, <1>5, <1>10, <2>1
  <2> QED
    BY <1>3, <1>4, <1>10, <2>2, ZenonT(30) DEF Conserves
<1>11. CASE OpenLoop
  <2>1. free' = free
    BY <1>11, Zenon DEF OpenLoop
  <2> QED
    BY <1>10, <1>11, <2>1, OpenLoopIs, Zenon
<1>12. ASSUME NEW c, c.grant = "outbound", opener["open"].grant = "none", opener["open"].call = NoCall,
              Becomes("open", "check", c, "none", 0), free' = [free EXCEPT !["outbound"] = @ - 1]
       PROVE  Conserves(g)
  <2>1. Holding(g)' + Kept(g) + (IF opener["open"].grant = g THEN 1 ELSE 0)
                     + (IF opener["open"].call.grant = g THEN 1 ELSE 0)
        = Holding(g) + Kept(g)' + (IF "none" = g THEN 1 ELSE 0) + (IF c.grant = g THEN 1 ELSE 0)
    BY <1>1, <1>12, OpenerMoves
  <2>2. Holding(g)' = Holding(g) + (IF "outbound" = g THEN 1 ELSE 0)
    BY <1>2, <1>4, <1>5, <1>12, <2>1
  <2>3. free'[g] = free[g] - (IF "outbound" = g THEN 1 ELSE 0)
    BY <1>3, <1>12
  <2> QED
    BY <1>3, <1>4, <2>2, <2>3, SMTT(30) DEF Conserves
<1>13. CASE Pick
  BY <1>10, <1>12, <1>13, PickIs, Zenon
<1> QED
  BY <1>6, <1>9, <1>11, <1>13, Zenon

LEMMA OneTryConserves ==
  ASSUME OpenersInv, TypeInv, TypeInv', NEW d \in Named, OneTry(d), NEW g \in Sems
  PROVE  Conserves(g)
<1>1. "rpc" \in Openers /\ NoCall.grant # g /\ "none" # g
  BY DEF Openers, NoCall, Sems
<1>2. free[g] \in Nat /\ free'[g] = free[g] /\ UNCHANGED <<nodes, reconn, pending>>
  BY DEF TypeInv, OneTry
<1>3. opener["rpc"].grant = "none" /\ opener["rpc"].call = NoCall
  BY OneTryIs, Zenon
<1>4. PICK c \in Calls : c.grant = "none" /\ Becomes("rpc", "check", c, "none", 0)
  BY OneTryIs, Zenon
<1>5. Holding(g)' + Kept(g) + (IF opener["rpc"].grant = g THEN 1 ELSE 0)
                     + (IF opener["rpc"].call.grant = g THEN 1 ELSE 0)
        = Holding(g) + Kept(g)' + (IF "none" = g THEN 1 ELSE 0) + (IF c.grant = g THEN 1 ELSE 0)
  BY <1>1, <1>4, OpenerMoves
<1>6. Holding(g) \in Nat /\ Holding(g)' \in Nat /\ Kept(g) \in Nat
  BY HeldAlways, HeldAfter DEF HeldOk
<1>7. Kept(g)' = Kept(g)
  BY <1>2, QueuesRest, Zenon
<1>8. Holding(g)' = Holding(g)
  BY <1>1, <1>3, <1>4, <1>5, <1>6, <1>7, SMTT(30)
<1> QED
  BY <1>2, <1>8, Zenon DEF Conserves

\* No step changes what the semaphore has and what is held together.
LEMMA StepConserves ==
  ASSUME OpenersInv, TypeInv, TypeInv', [Next]_vars, NEW g \in Sems
  PROVE  Conserves(g)
<1>1. ASSUME UNCHANGED <<nodes, reconn, pending, free, opener>> PROVE Conserves(g)
  <2>1. Holding(g)' = Holding(g) /\ free'[g] = free[g]
    BY <1>1, Zenon DEF Holding
  <2> QED
    BY <2>1, Zenon DEF Conserves
<1>2. ASSUME NEW n \in nodes, End(n) \/ Remove(n) PROVE Conserves(g)
  BY <1>2, EndConserves, RemoveConserves, Zenon
<1>3. CASE SetNetworkActive
  BY <1>1, <1>3, Zenon DEF SetNetworkActive
<1>4. CASE Splice
  BY <1>4, SpliceConserves, Zenon
<1>5. ASSUME NEW t \in Openers, Check(t) PROVE Conserves(g)
  <2>1. opener[t].pc \in CallPcs /\ opener[t].retry = 0 /\ UNCHANGED <<nodes, reconn, pending>>
    BY <1>5, Zenon DEF Check, CallPcs, OpenersInv, OpenerInv
  <2>2. CASE opener' = [opener EXCEPT ![t].pc = "take"] /\ free' = free
    <3>1. Becomes(t, "take", opener[t].call, opener[t].grant, opener[t].retry)
      BY <2>1, <2>2, CallProceeds, Zenon
    <3> QED
      BY <2>1, <2>2, <3>1, MoveConserves
  <2>3. CASE ReturnFalse(t)
    BY <2>1, <2>3, ReturnConserves, Zenon
  <2> QED
    BY <1>5, <2>2, <2>3, Zenon DEF Check
<1>6. ASSUME NEW t \in Openers, Take(t) PROVE Conserves(g)
  <2>1. PICK retry : Becomes(t, "resolve", opener[t].call, opener[t].grant, retry)
    BY <1>6, TakeIs, Zenon
  <2>2. UNCHANGED <<nodes, reconn, pending, free>>
    BY <1>6, Zenon DEF Take
  <2> QED
    BY <2>1, <2>2, MoveConserves
<1>7. ASSUME NEW t \in Openers, opener[t].pc \in CallPcs, Fail(t) PROVE Conserves(g)
  BY <1>7, ReturnConserves, Zenon DEF Fail
<1>8. ASSUME NEW t \in Openers, Resolve(t) PROVE Conserves(g)
  <2>1. opener[t].pc \in CallPcs
    BY <1>8 DEF Resolve, CallPcs
  <2>2. CASE Fail(t)
    BY <1>7, <2>1, <2>2, Zenon
  <2>3. CASE opener' = [opener EXCEPT ![t].pc = "dial"] /\ UNCHANGED <<nodes, reconn, pending, free>>
    <3>1. Becomes(t, "dial", opener[t].call, opener[t].grant, opener[t].retry)
      BY <2>1, <2>3, CallProceeds, ZenonT(30)
    <3> QED
      BY <2>3, <3>1, MoveConserves
  <2> QED
    BY <1>8, <2>2, <2>3, Zenon DEF Resolve
<1>9. ASSUME NEW t \in Openers, DialFails(t) PROVE Conserves(g)
  BY <1>7, <1>9, Zenon DEF DialFails, CallPcs
<1>10. ASSUME NEW t \in Openers, OpenerStep(t) PROVE Conserves(g)
  BY <1>5, <1>6, <1>8, <1>9, <1>10, DialConserves, ReconnectConserves, LoopsConserve, ZenonT(30)
     DEF OpenerStep
<1>11. ASSUME NEW d \in Named, AddNode(d) \/ RemoveAddedNode(d) PROVE Conserves(g)
  BY <1>1, <1>11, Zenon DEF AddNode, RemoveAddedNode
<1>12. CASE UNCHANGED vars
  BY <1>1, <1>12, Zenon DEF vars
<1> QED
  BY <1>2, <1>3, <1>4, <1>10, <1>11, <1>12, OneTryConserves, ZenonT(30) DEF Next

LEMMA GrantsInit == Init => GrantsConserved
<1> SUFFICES ASSUME Init, NEW g \in Sems PROVE free[g] + Holding(g) = Slots[g]
  BY Zenon DEF GrantsConserved
<1>1. g # "none" /\ Slots[g] \in Nat /\ free = Slots
  BY RetryAssumption, Zenon DEF Sems, Init
<1>2. /\ {n \in nodes : n.grant = g} = {}
      /\ {i \in DOMAIN reconn : reconn[i].grant = g} = {}
      /\ {i \in DOMAIN pending : pending[i].grant = g} = {}
  BY DEF Init
<1>3. /\ {t \in Openers : opener[t].grant = g} = {}
      /\ {t \in Openers : opener[t].call.grant = g} = {}
  BY <1>1, AtRestIs DEF Init, NoCall
<1>4. Cardinality({}) = 0
  BY FS_EmptySet, Zenon
<1>5. Holding(g) = Cardinality({}) + Cardinality({}) + Cardinality({}) + Cardinality({}) + Cardinality({})
  BY <1>2, <1>3, Zenon DEF Holding
<1>6. Holding(g) = 0
  BY <1>4, <1>5
<1> QED
  BY <1>1, <1>6

\* The grants that connections, queued reconnections and the loops hold, and the
\* count of the semaphore, always make up its size, whatever the sizes and however
\* DisconnectNodes, PerformReconnections and the loops interleave (GrantsConserved).
THEOREM GrantsAreConserved == Spec => []GrantsConserved
<1>1. Init => OpenersInv /\ TypeInv /\ GrantsConserved
  BY TypeInit, GrantsInit, Zenon
<1>2. OpenersInv /\ TypeInv /\ GrantsConserved /\ [Next]_vars => (OpenersInv /\ TypeInv /\ GrantsConserved)'
  <2> SUFFICES ASSUME OpenersInv, TypeInv, GrantsConserved, [Next]_vars
               PROVE  (OpenersInv /\ TypeInv /\ GrantsConserved)'
    BY Zenon
  <2>1. OpenersInv' /\ TypeInv'
    BY TypeStep, ZenonT(30)
  <2>2. ASSUME NEW g \in Sems PROVE free'[g] + Holding(g)' = Slots[g]
    <3>1. Conserves(g)
      BY <2>1, StepConserves, Zenon
    <3> QED
      BY <3>1, Zenon DEF Conserves, GrantsConserved
  <2> QED
    BY <2>1, <2>2, ZenonT(30) DEF GrantsConserved
<1> QED
  BY <1>1, <1>2, PTL DEF Spec

-----------------------------------------------------------------------------
(* The retries: what failed handshakes have led to so far.                 *)

ClassicalCalls(d) == {c \in Calls : c.classical /\ c.dest = d}

Marked(d) == IF mark[d] # 0 THEN 1 ELSE 0

Takers(d) == {t \in Openers : opener[t].retry # 0 /\ opener[t].call.dest = d}

Callers(d) == {t \in Openers : opener[t].pc \in CallPcs /\ opener[t].call \in ClassicalCalls(d)}

FailedNodes(d) == {n \in nodes : n.end = "failed" /\ n.dest = d}

\* What the failed handshakes of d have led to so far: retries that were run, the
\* mark, the openers on their way with it, the classical reconnections in the
\* queues or with an opener, and failed connections that are to be removed.
Accounted(d) ==
  retries[d] + Marked(d) + Cardinality(Takers(d)) + Cardinality(Callers(d))
    + Cardinality(Indices(reconn, ClassicalCalls(d)))
    + Cardinality(Indices(pending, ClassicalCalls(d)))
    + Cardinality(FailedNodes(d))

RetryInv == \A d \in Dests : Accounted(d) <= failures[d]

-----------------------------------------------------------------------------
(* The retries.                                                            *)

CountsOk ==
  \A d \in Dests :
    /\ retries[d] \in Nat /\ failures[d] \in Nat /\ Marked(d) \in {0, 1}
    /\ Cardinality(Takers(d)) \in Nat /\ Cardinality(Callers(d)) \in Nat
    /\ Cardinality(Indices(reconn, ClassicalCalls(d))) \in Nat
    /\ Cardinality(Indices(pending, ClassicalCalls(d))) \in Nat
    /\ Cardinality(FailedNodes(d)) \in Nat

LEMMA CountsAlways == TypeInv => CountsOk
<1> SUFFICES ASSUME TypeInv, NEW d \in Dests
             PROVE  /\ retries[d] \in Nat /\ failures[d] \in Nat /\ Marked(d) \in {0, 1}
                    /\ Cardinality(Takers(d)) \in Nat /\ Cardinality(Callers(d)) \in Nat
                    /\ Cardinality(Indices(reconn, ClassicalCalls(d))) \in Nat
                    /\ Cardinality(Indices(pending, ClassicalCalls(d))) \in Nat
                    /\ Cardinality(FailedNodes(d)) \in Nat
  BY Zenon DEF CountsOk
<1>1. retries[d] \in Nat /\ failures[d] \in Nat /\ Marked(d) \in {0, 1}
  BY Zenon DEF TypeInv, Marked
<1>2. Takers(d) \subseteq Openers /\ Callers(d) \subseteq Openers /\ FailedNodes(d) \subseteq nodes
  BY Zenon DEF Takers, Callers, FailedNodes
<1>3. reconn \in Seq(Calls) /\ pending \in Seq(Calls)
  BY Zenon DEF TypeInv
<1> QED
  BY <1>1, <1>2, <1>3, OpenersFinite, NodesFinite, IndicesFinite, Zenon

LEMMA CountsAfter == TypeInv' => CountsOk'
  BY CountsAlways, PTL

\* A step leads to no more retries than it adds failures.
Pays(d) == Accounted(d)' + failures[d] <= Accounted(d) + failures'[d]

\* What the move of one opener does to the retries on their way.
LEMMA RetryMoves ==
  ASSUME NEW t \in Openers, NEW pc, NEW call, NEW grant, NEW retry,
         Becomes(t, pc, call, grant, retry), NEW d \in Dests
  PROVE  /\ Cardinality(Takers(d)') + (IF opener[t].retry # 0 /\ opener[t].call.dest = d THEN 1 ELSE 0)
              = Cardinality(Takers(d)) + (IF retry # 0 /\ call.dest = d THEN 1 ELSE 0)
         /\ Cardinality(Callers(d)')
                + (IF opener[t].pc \in CallPcs /\ opener[t].call \in ClassicalCalls(d) THEN 1 ELSE 0)
              = Cardinality(Callers(d)) + (IF pc \in CallPcs /\ call \in ClassicalCalls(d) THEN 1 ELSE 0)
<1>1. /\ Takers(d) \subseteq Openers /\ Callers(d) \subseteq Openers
      /\ t \in Takers(d) <=> opener[t].retry # 0 /\ opener[t].call.dest = d
      /\ t \in Callers(d) <=> opener[t].pc \in CallPcs /\ opener[t].call \in ClassicalCalls(d)
      /\ t \in Takers(d)' <=> retry # 0 /\ call.dest = d
      /\ t \in Callers(d)' <=> pc \in CallPcs /\ call \in ClassicalCalls(d)
  BY Zenon DEF Takers, Callers, Becomes
<1>2. Takers(d) \ {t} = Takers(d)' \ {t} /\ Callers(d) \ {t} = Callers(d)' \ {t}
  BY DEF Takers, Callers, Becomes
<1>3. IsFiniteSet(Takers(d)) /\ IsFiniteSet(Callers(d))
  BY <1>1, OpenersFinite, Zenon
<1>4. Cardinality(Takers(d)') + (IF t \in Takers(d) THEN 1 ELSE 0)
        = Cardinality(Takers(d)) + (IF t \in Takers(d)' THEN 1 ELSE 0)
  BY <1>2, <1>3, OneElement, Zenon
<1>5. Cardinality(Callers(d)') + (IF t \in Callers(d) THEN 1 ELSE 0)
        = Cardinality(Callers(d)) + (IF t \in Callers(d)' THEN 1 ELSE 0)
  BY <1>2, <1>3, OneElement, ZenonT(30)
<1> QED
  BY <1>1, <1>4, <1>5, Zenon

\* Opener t moves and no queue changes: it pays for what it takes on.
LEMMA MovePays ==
  ASSUME TypeInv, TypeInv', NEW t \in Openers, NEW pc, NEW call, NEW grant, NEW retry,
         Becomes(t, pc, call, grant, retry), NEW d \in Dests,
         UNCHANGED <<reconn, pending, failures>>, FailedNodes(d)' = FailedNodes(d),
         retries'[d] + Marked(d)' + (IF retry # 0 /\ call.dest = d THEN 1 ELSE 0)
             + (IF pc \in CallPcs /\ call \in ClassicalCalls(d) THEN 1 ELSE 0)
           <= retries[d] + Marked(d) + (IF opener[t].retry # 0 /\ opener[t].call.dest = d THEN 1 ELSE 0)
                + (IF opener[t].pc \in CallPcs /\ opener[t].call \in ClassicalCalls(d) THEN 1 ELSE 0)
  PROVE  Pays(d)
<1> DEFINE k1 == IF retry # 0 /\ call.dest = d THEN 1 ELSE 0
           k2 == IF pc \in CallPcs /\ call \in ClassicalCalls(d) THEN 1 ELSE 0
           o1 == IF opener[t].retry # 0 /\ opener[t].call.dest = d THEN 1 ELSE 0
           o2 == IF opener[t].pc \in CallPcs /\ opener[t].call \in ClassicalCalls(d) THEN 1 ELSE 0
           q == Cardinality(Indices(reconn, ClassicalCalls(d)))
           w == Cardinality(Indices(pending, ClassicalCalls(d)))
           x == Cardinality(FailedNodes(d))
<1>1. k1 \in Nat /\ k2 \in Nat /\ o1 \in Nat /\ o2 \in Nat
  BY Zenon
<1>2. /\ Cardinality(Takers(d)') + o1 = Cardinality(Takers(d)) + k1
      /\ Cardinality(Callers(d)') + o2 = Cardinality(Callers(d)) + k2
  BY RetryMoves, Zenon
<1>3. retries'[d] + Marked(d)' + k1 + k2 <= retries[d] + Marked(d) + o1 + o2
  BY Zenon
<1>4. /\ Accounted(d)' = retries'[d] + Marked(d)' + Cardinality(Takers(d)') + Cardinality(Callers(d)') + q + w + x
      /\ Accounted(d) = retries[d] + Marked(d) + Cardinality(Takers(d)) + Cardinality(Callers(d)) + q + w + x
  BY ZenonT(30) DEF Accounted
<1>5. /\ retries[d] \in Nat /\ failures[d] \in Nat /\ Marked(d) \in Nat /\ q \in Nat /\ w \in Nat /\ x \in Nat
      /\ Cardinality(Takers(d)) \in Nat /\ Cardinality(Callers(d)) \in Nat
  BY CountsAlways, SMTT(30) DEF CountsOk
<1>6. /\ retries'[d] \in Nat /\ Marked(d)' \in Nat
      /\ Cardinality(Takers(d)') \in Nat /\ Cardinality(Callers(d)') \in Nat
  BY CountsAfter DEF CountsOk
<1>7. failures'[d] = failures[d]
  BY Zenon
<1> HIDE DEF k1, k2, o1, o2, q, w, x
<1> QED
  BY <1>1, <1>2, <1>3, <1>4, <1>5, <1>6, <1>7 DEF Pays

LEMMA OpenersRestPays ==
  ASSUME TypeInv, TypeInv', opener' = opener, retries' = retries, NEW d \in Dests,
         Marked(d)' + Cardinality(Indices(reconn', ClassicalCalls(d)))
             + Cardinality(Indices(pending', ClassicalCalls(d))) + Cardinality(FailedNodes(d)') + failures[d]
           <= Marked(d) + Cardinality(Indices(reconn, ClassicalCalls(d)))
                + Cardinality(Indices(pending, ClassicalCalls(d))) + Cardinality(FailedNodes(d)) + failures'[d]
  PROVE  Pays(d)
<1> DEFINE q == Cardinality(Indices(reconn, ClassicalCalls(d)))
           w == Cardinality(Indices(pending, ClassicalCalls(d)))
           x == Cardinality(FailedNodes(d))
           q2 == Cardinality(Indices(reconn', ClassicalCalls(d)))
           w2 == Cardinality(Indices(pending', ClassicalCalls(d)))
           x2 == Cardinality(FailedNodes(d)')
           a == Cardinality(Takers(d))
           b == Cardinality(Callers(d))
<1>1. a \in Nat /\ b \in Nat /\ q \in Nat /\ w \in Nat /\ x \in Nat
      /\ retries[d] \in Nat /\ failures[d] \in Nat /\ Marked(d) \in Nat
  BY CountsAlways DEF CountsOk
<1>2. q2 \in Nat /\ w2 \in Nat /\ x2 \in Nat /\ failures'[d] \in Nat /\ Marked(d)' \in Nat
  BY CountsAfter DEF CountsOk
<1>3. Marked(d)' + q2 + w2 + x2 + failures[d] <= Marked(d) + q + w + x + failures'[d]
  BY Zenon
<1>4. Accounted(d) = retries[d] + Marked(d) + a + b + q + w + x
  BY Zenon DEF Accounted
<1>5. Accounted(d)' = retries[d] + Marked(d)' + a + b + q2 + w2 + x2
  BY Zenon DEF Accounted, Takers, Callers
<1> HIDE DEF q, w, x, q2, w2, x2, a, b
<1> QED
  BY <1>1, <1>2, <1>3, <1>4, <1>5, SMTT(30) DEF Pays

LEMMA EndPays ==
  ASSUME TypeInv, TypeInv', NEW n \in nodes, End(n), NEW d \in Dests
  PROVE  Pays(d)
<1>1. PICK m \in Connections :
        /\ nodes' = (nodes \ {n}) \cup {m} /\ m \notin nodes \ {n}
        /\ m.dest = n.dest /\ n.end = "up"
        /\ \/ m.end = "failed" /\ failures' = [failures EXCEPT ![n.dest] = @ + 1]
           \/ m.end # "failed" /\ failures' = failures
  BY EndIs, Zenon
<1> DEFINE k == IF m.end = "failed" /\ m.dest = d THEN 1 ELSE 0
<1>2. failures'[d] = failures[d] + k
  <2>1. failures \in [Dests -> Nat]
    BY Zenon DEF TypeInv
  <2>2. CASE m.end = "failed" /\ failures' = [failures EXCEPT ![n.dest] = @ + 1]
    BY <1>1, <2>1, <2>2
  <2>3. CASE m.end # "failed" /\ failures' = failures
    BY <2>1, <2>3
  <2> QED
    BY <1>1, <2>2, <2>3, Zenon
<1>3. /\ FailedNodes(d) \ {m} = FailedNodes(d)' \ {m} /\ m \notin FailedNodes(d)
      /\ FailedNodes(d) \subseteq nodes
      /\ m \in FailedNodes(d)' <=> m.end = "failed" /\ m.dest = d
  BY <1>1, Zenon DEF FailedNodes
<1>4. IsFiniteSet(FailedNodes(d))
  BY <1>3, NodesFinite, Zenon
<1>5. /\ Cardinality(FailedNodes(d)) \in Nat
      /\ Cardinality(FailedNodes(d)') + (IF m \in FailedNodes(d) THEN 1 ELSE 0)
           = Cardinality(FailedNodes(d)) + (IF m \in FailedNodes(d)' THEN 1 ELSE 0)
      /\ Cardinality(FailedNodes(d)') \in Nat
  BY <1>3, <1>4, OneElement
<1>6. Cardinality(FailedNodes(d)') = Cardinality(FailedNodes(d)) + k
  BY <1>3, <1>5
<1>7. UNCHANGED <<reconn, pending, opener, retries, mark>>
  BY Zenon DEF End
<1> DEFINE q == Cardinality(Indices(reconn, ClassicalCalls(d)))
           w == Cardinality(Indices(pending, ClassicalCalls(d)))
<1>8. Cardinality(Indices(reconn', ClassicalCalls(d))) = q /\ Cardinality(Indices(pending', ClassicalCalls(d))) = w
  BY <1>7, Zenon
<1>9. q \in Nat /\ w \in Nat /\ Marked(d) \in Nat /\ Marked(d)' = Marked(d) /\ failures[d] \in Nat /\ k \in Nat
  BY <1>7, CountsAlways, Zenon DEF CountsOk, Marked
<1> HIDE DEF k
<1>10. Marked(d)' + Cardinality(Indices(reconn', ClassicalCalls(d)))
             + Cardinality(Indices(pending', ClassicalCalls(d))) + Cardinality(FailedNodes(d)') + failures[d]
           <= Marked(d) + Cardinality(Indices(reconn, ClassicalCalls(d)))
                + Cardinality(Indices(pending, ClassicalCalls(d))) + Cardinality(FailedNodes(d)) + failures'[d]
  <2> HIDE DEF q, w
  <2>1. Marked(d)' + q + w + Cardinality(FailedNodes(d)') + failures[d]
          <= Marked(d) + q + w + Cardinality(FailedNodes(d)) + failures'[d]
    BY <1>2, <1>5, <1>6, <1>9
  <2> QED
    BY <1>8, <2>1, Zenon DEF q, w
<1> QED
  BY <1>7, <1>10, OpenersRestPays, Zenon

LEMMA RemovePays ==
  ASSUME TypeInv, TypeInv', NEW n \in nodes, Remove(n), NEW d \in Dests
  PROVE  Pays(d)
<1> DEFINE k == IF n.end = "failed" /\ n.dest = d THEN 1 ELSE 0
           q == Cardinality(Indices(reconn, ClassicalCalls(d)))
           w == Cardinality(Indices(pending, ClassicalCalls(d)))
           x == Cardinality(FailedNodes(d))
<1>1. n \in Connections /\ pending \in Seq(Calls) /\ mark \in [Dests -> Nat] /\ active \in BOOLEAN
      /\ UNCHANGED <<reconn, opener, retries, failures>> /\ nodes' = nodes \ {n}
      /\ pending' = pending \o Reconnections(n)
  BY Zenon DEF TypeInv, Remove
<1>2. /\ FailedNodes(d) \ {n} = FailedNodes(d)' \ {n} /\ n \notin FailedNodes(d)'
      /\ FailedNodes(d) \subseteq nodes
      /\ n \in FailedNodes(d) <=> n.end = "failed" /\ n.dest = d
  BY <1>1, Zenon DEF FailedNodes
<1>3. IsFiniteSet(FailedNodes(d))
  BY <1>2, NodesFinite, Zenon
<1>4. /\ Cardinality(FailedNodes(d)') + (IF n \in FailedNodes(d) THEN 1 ELSE 0)
           = Cardinality(FailedNodes(d)) + (IF n \in FailedNodes(d)' THEN 1 ELSE 0)
      /\ Cardinality(FailedNodes(d)') \in Nat /\ Cardinality(FailedNodes(d)) \in Nat
  BY <1>2, <1>3, OneElement, Zenon
<1>5. Cardinality(FailedNodes(d)') + k = x
  BY <1>2, <1>4
<1>6. /\ q \in Nat /\ w \in Nat /\ x \in Nat /\ Marked(d) \in {0, 1} /\ failures[d] \in Nat /\ failures'[d] = failures[d]
      /\ Cardinality(Indices(reconn', ClassicalCalls(d))) = q
  BY <1>1, CountsAlways, Zenon DEF CountsOk
<1>7. Marked(d)' \in {0, 1}
  BY CountsAfter, Zenon DEF CountsOk
<1>8. Marked(d)' <= Marked(d) + k
  <2>1. CASE n.end = "failed" /\ n.dest = d
    BY <1>6, <1>7, <2>1, SMTT(30)
  <2>2. CASE ~(n.end = "failed" /\ n.dest = d)
    <3>1. mark'[d] = mark[d]
      BY <1>1, <2>2, Zenon DEF Remove
    <3> QED
      BY <1>6, <2>2, <3>1 DEF Marked
  <2> QED
    BY <2>1, <2>2, Zenon
<1>9. CASE Reconnections(n) = <<>>
  <2>1. Cardinality(Indices(pending', ClassicalCalls(d))) = w
    <3>1. pending' = pending
      BY <1>1, <1>9, SMTT(30)
    <3> QED
      BY <3>1, Zenon
  <2> HIDE DEF k, q, w, x
  <2>2. Marked(d)' + q + w + Cardinality(FailedNodes(d)') + failures[d] <= Marked(d) + q + w + x + failures'[d]
    <3>1. k \in Nat
      BY Zenon DEF k
    <3> QED
      BY <1>4, <1>5, <1>6, <1>7, <1>8, <3>1, SMTT(30)
  <2>3. Marked(d)' + Cardinality(Indices(reconn', ClassicalCalls(d)))
             + Cardinality(Indices(pending', ClassicalCalls(d))) + Cardinality(FailedNodes(d)') + failures[d]
           <= Marked(d) + Cardinality(Indices(reconn, ClassicalCalls(d)))
                + Cardinality(Indices(pending, ClassicalCalls(d))) + Cardinality(FailedNodes(d)) + failures'[d]
    BY <1>6, <2>1, <2>2, Zenon DEF q, w, x
  <2> QED
    BY <1>1, <2>3, OpenersRestPays, Zenon
<1>10. ASSUME NEW c \in Calls, Reconnections(n) = <<c>>, c.dest = n.dest,
              c.classical => (n.end = "failed" /\ ~n.manual)
       PROVE  Pays(d)
  <2> DEFINE z == IF c \in ClassicalCalls(d) THEN 1 ELSE 0
  <2>1. <<c>> \in Seq(Calls) /\ pending' = pending \o <<c>>
    BY <1>1, <1>10
  <2>2. Cardinality(Indices(pending', ClassicalCalls(d)))
          = Cardinality(Indices(pending, ClassicalCalls(d))) + Cardinality(Indices(<<c>>, ClassicalCalls(d)))
    <3>1. pending \in Seq(Calls)
      BY <1>1, Zenon
    <3> QED
      BY <2>1, <3>1, IndicesConcat, Zenon
  <2>3. Cardinality(Indices(<<c>>, ClassicalCalls(d))) = z
    BY IndicesOfOne, Zenon
  <2>4. Cardinality(Indices(pending', ClassicalCalls(d))) = w + z
    BY <2>2, <2>3, Zenon
  <2>5. Marked(d)' + z <= Marked(d) + k /\ z \in Nat
    <3>1. CASE c \in ClassicalCalls(d)
      <4>1. n.end = "failed" /\ ~n.manual /\ n.dest = d
        BY <1>10, <3>1, Zenon DEF ClassicalCalls
      <4>2. mark' = mark
        BY <4>1, Zenon DEF Remove
      <4>3. Marked(d)' = Marked(d)
        BY <4>2, Zenon DEF Marked
      <4> QED
        BY <1>6, <3>1, <4>1, <4>3
    <3>2. CASE c \notin ClassicalCalls(d)
      BY <1>6, <1>7, <1>8, <3>2
    <3> QED
      BY <3>1, <3>2, Zenon
  <2>6. k \in Nat
    BY Zenon
  <2> HIDE DEF k, q, w, x, z
  <2>7. Marked(d)' + q + (w + z) + Cardinality(FailedNodes(d)') + failures[d] <= Marked(d) + q + w + x + failures'[d]
    BY <1>4, <1>5, <1>6, <1>7, <2>5, <2>6, SMTT(30)
  <2>8. Marked(d)' + Cardinality(Indices(reconn', ClassicalCalls(d)))
             + Cardinality(Indices(pending', ClassicalCalls(d))) + Cardinality(FailedNodes(d)') + failures[d]
           <= Marked(d) + Cardinality(Indices(reconn, ClassicalCalls(d)))
                + Cardinality(Indices(pending, ClassicalCalls(d))) + Cardinality(FailedNodes(d)) + failures'[d]
    <3>1. Cardinality(Indices(reconn', ClassicalCalls(d))) = q
      BY <1>6, Zenon
    <3> QED
      BY <2>4, <2>7, <3>1, Zenon DEF q, w, x
  <2> QED
    BY <1>1, <2>8, OpenersRestPays, ZenonT(30)
<1> QED
  BY <1>1, <1>9, <1>10, ReconnectionsAre, Zenon

LEMMA SplicePays ==
  ASSUME TypeInv, TypeInv', Splice, NEW d \in Dests
  PROVE  Pays(d)
<1> DEFINE q == Cardinality(Indices(reconn, ClassicalCalls(d)))
           w == Cardinality(Indices(pending, ClassicalCalls(d)))
           x == Cardinality(FailedNodes(d))
<1>1. /\ reconn \in Seq(Calls) /\ pending \in Seq(Calls) /\ reconn' = reconn \o pending /\ pending' = <<>>
      /\ UNCHANGED <<opener, retries>>
  BY Zenon DEF TypeInv, Splice
<1>2. Cardinality(Indices(reconn', ClassicalCalls(d))) = q + w
  BY <1>1, IndicesConcat, Zenon
<1>3. Cardinality(Indices(pending', ClassicalCalls(d))) = 0
  BY <1>1, IndicesOfNone, Zenon
<1>4. q \in Nat /\ w \in Nat /\ x \in Nat /\ Marked(d) \in {0, 1} /\ failures[d] \in Nat
  BY CountsAlways, Zenon DEF CountsOk
<1>5. Marked(d)' = Marked(d) /\ FailedNodes(d)' = FailedNodes(d) /\ failures'[d] = failures[d]
  BY Zenon DEF Splice, Marked, FailedNodes
<1>6. Marked(d)' + Cardinality(Indices(reconn', ClassicalCalls(d)))
             + Cardinality(Indices(pending', ClassicalCalls(d))) + Cardinality(FailedNodes(d)') + failures[d]
           <= Marked(d) + Cardinality(Indices(reconn, ClassicalCalls(d)))
                + Cardinality(Indices(pending, ClassicalCalls(d))) + Cardinality(FailedNodes(d)) + failures'[d]
  <2> HIDE DEF q, w, x
  <2>1. Marked(d) + (q + w) + 0 + x + failures[d] <= Marked(d) + q + w + x + failures[d]
    BY <1>4
  <2> QED
    BY <1>2, <1>3, <1>5, <2>1, Zenon DEF q, w, x
<1> QED
  BY <1>1, <1>6, OpenersRestPays, Zenon

\* An opener that starts or ends a call of no retry.
LEMMA FreshPays ==
  ASSUME TypeInv, TypeInv', NEW t \in Openers, NEW pc, NEW call, NEW grant,
         Becomes(t, pc, call, grant, 0), NEW d \in Dests,
         UNCHANGED <<nodes, reconn, pending, failures, retries, mark>>,
         pc \notin CallPcs \/ call \notin ClassicalCalls(d)
  PROVE  Pays(d)
<1>1. FailedNodes(d)' = FailedNodes(d) /\ Marked(d)' = Marked(d) /\ retries'[d] = retries[d]
  BY Zenon DEF FailedNodes, Marked
<1>2. retries[d] \in Nat /\ Marked(d) \in Nat
  BY CountsAlways DEF CountsOk
<1>3. retries'[d] + Marked(d)' + (IF 0 # 0 /\ call.dest = d THEN 1 ELSE 0)
             + (IF pc \in CallPcs /\ call \in ClassicalCalls(d) THEN 1 ELSE 0)
           <= retries[d] + Marked(d) + (IF opener[t].retry # 0 /\ opener[t].call.dest = d THEN 1 ELSE 0)
                + (IF opener[t].pc \in CallPcs /\ opener[t].call \in ClassicalCalls(d) THEN 1 ELSE 0)
  BY <1>1, <1>2
<1> QED
  BY <1>1, <1>3, MovePays, Zenon

LEMMA TakePays ==
  ASSUME OpenersInv, TypeInv, TypeInv', NEW t \in Openers, Take(t), NEW d \in Dests
  PROVE  Pays(d)
<1> DEFINE c == opener[t].call
           takes == c.manual /\ c.v2
           r == IF takes THEN mark[c.dest] ELSE 0
<1>1. c \in Calls /\ opener[t].retry = 0 /\ opener[t].pc = "take" /\ Becomes(t, "resolve", c, opener[t].grant, r)
  BY TakeIs, Zenon
<1>2. UNCHANGED <<nodes, reconn, pending, failures, retries>>
  BY Zenon DEF Take
<1>3. mark' = IF takes THEN [mark EXCEPT ![c.dest] = 0] ELSE mark
  BY Zenon DEF Take
<1>4. mark \in [Dests -> Nat] /\ c.dest \in Dests
  BY <1>1, Zenon DEF TypeInv, Calls
<1>5. Marked(d)' + (IF r # 0 /\ c.dest = d THEN 1 ELSE 0) = Marked(d)
  BY <1>3, <1>4 DEF Marked
<1>6. retries[d] \in Nat /\ Marked(d) \in Nat /\ Marked(d)' \in Nat
  BY CountsAlways, CountsAfter, SMTT(30) DEF CountsOk
<1> HIDE DEF r
<1>7. retries'[d] + Marked(d)' + (IF r # 0 /\ c.dest = d THEN 1 ELSE 0)
             + (IF "resolve" \in CallPcs /\ c \in ClassicalCalls(d) THEN 1 ELSE 0)
           <= retries[d] + Marked(d) + (IF opener[t].retry # 0 /\ opener[t].call.dest = d THEN 1 ELSE 0)
                + (IF opener[t].pc \in CallPcs /\ opener[t].call \in ClassicalCalls(d) THEN 1 ELSE 0)
  <2>1. retries'[d] = retries[d] /\ opener[t].pc \in CallPcs /\ "resolve" \in CallPcs
    BY <1>1, <1>2, Zenon DEF CallPcs
  <2> QED
    BY <1>1, <1>5, <1>6, <2>1
<1>8. FailedNodes(d)' = FailedNodes(d)
  BY <1>2, ZenonT(30) DEF FailedNodes
<1> QED
  BY <1>1, <1>2, <1>7, <1>8, MovePays, Zenon

LEMMA ProceedPays ==
  ASSUME TypeInv, TypeInv', NEW t \in Openers, opener[t].pc \in CallPcs,
         NEW pc, Becomes(t, pc, opener[t].call, opener[t].grant, opener[t].retry), NEW d \in Dests,
         UNCHANGED <<nodes, reconn, pending, failures, retries, mark>>
  PROVE  Pays(d)
<1>1. FailedNodes(d)' = FailedNodes(d) /\ Marked(d)' = Marked(d) /\ retries'[d] = retries[d]
  BY ZenonT(30) DEF FailedNodes, Marked
<1>2. retries[d] \in Nat /\ Marked(d) \in Nat
  BY CountsAlways DEF CountsOk
<1>3. retries'[d] + Marked(d)' + (IF opener[t].retry # 0 /\ opener[t].call.dest = d THEN 1 ELSE 0)
             + (IF pc \in CallPcs /\ opener[t].call \in ClassicalCalls(d) THEN 1 ELSE 0)
           <= retries[d] + Marked(d) + (IF opener[t].retry # 0 /\ opener[t].call.dest = d THEN 1 ELSE 0)
                + (IF opener[t].pc \in CallPcs /\ opener[t].call \in ClassicalCalls(d) THEN 1 ELSE 0)
  BY <1>1, <1>2
<1>4. UNCHANGED <<reconn, pending, failures>>
  BY Zenon
<1> QED
  BY <1>1, <1>3, <1>4, MovePays

\* The mark is put back by the opener that had taken it.
LEMMA FailPays ==
  ASSUME OpenersInv, TypeInv, TypeInv', NEW t \in Openers, opener[t].pc \in CallPcs, Fail(t), NEW d \in Dests
  PROVE  Pays(d)
<1>1. PICK pc \in {"idle", "added", "reconnect"} : Becomes(t, pc, NoCall, GrantAfter(t), 0)
  BY ReturnFalseIs, Zenon DEF Fail
<1>2. UNCHANGED <<nodes, reconn, pending, failures, retries>>
  BY Zenon DEF Fail
<1>3. opener[t].call.dest \in Dests /\ mark \in [Dests -> Nat]
  BY ReturnFalseIs, ZenonT(30) DEF Fail, Calls, TypeInv
<1>4. Marked(d)' <= Marked(d) + (IF opener[t].retry # 0 /\ opener[t].call.dest = d THEN 1 ELSE 0)
  BY <1>3 DEF Marked, Fail
<1>5. retries[d] \in Nat /\ Marked(d) \in Nat /\ Marked(d)' \in Nat
  BY CountsAlways, CountsAfter DEF CountsOk
<1>6. retries'[d] + Marked(d)' + (IF 0 # 0 /\ NoCall.dest = d THEN 1 ELSE 0)
             + (IF pc \in CallPcs /\ NoCall \in ClassicalCalls(d) THEN 1 ELSE 0)
           <= retries[d] + Marked(d) + (IF opener[t].retry # 0 /\ opener[t].call.dest = d THEN 1 ELSE 0)
                + (IF opener[t].pc \in CallPcs /\ opener[t].call \in ClassicalCalls(d) THEN 1 ELSE 0)
  <2>1. pc \notin CallPcs /\ retries'[d] = retries[d]
    BY <1>2, Zenon DEF CallPcs
  <2> QED
    BY <1>4, <1>5, <2>1
<1>7. FailedNodes(d)' = FailedNodes(d)
  BY <1>2, Zenon DEF FailedNodes
<1> QED
  BY <1>1, <1>2, <1>6, <1>7, MovePays, ZenonT(30)

\* The retry that is run is the mark or the reconnection of the opener that runs it.
LEMMA DialPays ==
  ASSUME OpenersInv, TypeInv, TypeInv', NEW t \in Openers, Dial(t), NEW d \in Dests
  PROVE  Pays(d)
<1> DEFINE c == opener[t].call
           classical == c.classical \/ opener[t].retry # 0
<1>1. PICK pc \in {"idle", "added", "reconnect"} : Becomes(t, pc, NoCall, GrantAfter(t), 0)
  BY DialIs, Zenon
<1>2. PICK m \in Connections : nodes' = nodes \cup {m} /\ m.end = "up"
  BY DialIs, Zenon
<1>3. UNCHANGED <<reconn, pending, failures, mark>> /\ opener[t].pc \in CallPcs
  BY Zenon DEF Dial, CallPcs
<1>4. c \in Calls /\ c.dest \in Dests /\ retries \in [Dests -> Nat] /\ c.classical \in BOOLEAN
  BY DialIs, Zenon DEF Calls, TypeInv
<1>5. retries' = IF classical THEN [retries EXCEPT ![c.dest] = @ + 1] ELSE retries
  BY Zenon DEF Dial
<1>6. FailedNodes(d)' = FailedNodes(d) /\ Marked(d)' = Marked(d)
  BY <1>2, <1>3, ZenonT(30) DEF FailedNodes, Marked
<1>7. retries[d] \in Nat /\ Marked(d) \in Nat
  BY CountsAlways DEF CountsOk
<1>8. retries'[d] <= retries[d] + (IF opener[t].retry # 0 /\ opener[t].call.dest = d THEN 1 ELSE 0)
                       + (IF opener[t].pc \in CallPcs /\ opener[t].call \in ClassicalCalls(d) THEN 1 ELSE 0)
  <2>1. CASE c.dest # d \/ ~classical
    <3>1. retries'[d] = retries[d]
      BY <1>4, <1>5, <2>1, ZenonT(30)
    <3> QED
      BY <1>7, <3>1
  <2>2. CASE c.dest = d /\ classical
    <3>1. retries'[d] = retries[d] + 1
      BY <1>4, <1>5, <2>2, ZenonT(30)
    <3>2. c \in ClassicalCalls(d) \/ opener[t].retry # 0
      BY <1>4, <2>2, Zenon DEF ClassicalCalls
    <3> QED
      BY <1>3, <1>7, <2>2, <3>1, <3>2, SMTT(30)
  <2> QED
    BY <2>1, <2>2, ZenonT(30)
<1>9. retries'[d] \in Nat
  BY CountsAfter, ZenonT(30) DEF CountsOk
<1>10. retries'[d] + Marked(d)' + (IF 0 # 0 /\ NoCall.dest = d THEN 1 ELSE 0)
             + (IF pc \in CallPcs /\ NoCall \in ClassicalCalls(d) THEN 1 ELSE 0)
           <= retries[d] + Marked(d) + (IF opener[t].retry # 0 /\ opener[t].call.dest = d THEN 1 ELSE 0)
                + (IF opener[t].pc \in CallPcs /\ opener[t].call \in ClassicalCalls(d) THEN 1 ELSE 0)
  <2>1. pc \notin CallPcs
    BY Zenon DEF CallPcs
  <2> QED
    BY <1>6, <1>7, <1>8, <1>9, <2>1, SMTT(30)
<1> QED
  BY <1>1, <1>3, <1>6, <1>10, MovePays, ZenonT(30)

LEMMA ReconnectPays ==
  ASSUME OpenersInv, TypeInv, TypeInv', NEW t \in Openers, Reconnect(t), NEW d \in Dests
  PROVE  Pays(d)
<1>1. opener[t].call = NoCall /\ opener[t].retry = 0 /\ opener[t].pc \notin CallPcs
      /\ UNCHANGED <<nodes, pending, failures, retries, mark>>
  BY ReconnectIs, Zenon DEF Reconnect, CallPcs
<1>2. CASE /\ reconn # <<>> /\ reconn' = Tail(reconn)
           /\ Head(reconn) \in Calls /\ Becomes(t, "check", Head(reconn), opener[t].grant, 0)
  <2> DEFINE h == IF Head(reconn) \in ClassicalCalls(d) THEN 1 ELSE 0
             q == Cardinality(Indices(reconn, ClassicalCalls(d)))
             q2 == Cardinality(Indices(reconn', ClassicalCalls(d)))
             w == Cardinality(Indices(pending, ClassicalCalls(d)))
             x == Cardinality(FailedNodes(d))
             a == Cardinality(Takers(d))
             b == Cardinality(Callers(d))
             a2 == Cardinality(Takers(d)')
             b2 == Cardinality(Callers(d)')
  <2>1. q = h + q2
    <3>1. reconn \in Seq(Calls)
      BY Zenon DEF TypeInv
    <3> QED
      BY <1>2, <3>1, IndicesTail, ZenonT(30)
  <2>2. /\ a2 + (IF opener[t].retry # 0 /\ opener[t].call.dest = d THEN 1 ELSE 0)
              = a + (IF 0 # 0 /\ Head(reconn).dest = d THEN 1 ELSE 0)
        /\ b2 + (IF opener[t].pc \in CallPcs /\ opener[t].call \in ClassicalCalls(d) THEN 1 ELSE 0)
              = b + (IF "check" \in CallPcs /\ Head(reconn) \in ClassicalCalls(d) THEN 1 ELSE 0)
    BY <1>2, RetryMoves, ZenonT(30)
  <2>3. /\ a \in Nat /\ b \in Nat /\ q \in Nat /\ w \in Nat /\ x \in Nat
        /\ retries[d] \in Nat /\ failures[d] \in Nat /\ Marked(d) \in Nat
    BY CountsAlways DEF CountsOk
  <2>4. a2 \in Nat /\ b2 \in Nat /\ q2 \in Nat
    BY CountsAfter, ZenonT(30) DEF CountsOk
  <2>5. a2 = a /\ b2 = b + h
    <3>1. "check" \in CallPcs
      BY Zenon DEF CallPcs
    <3> QED
      BY <1>1, <2>2, <2>3, <2>4, <3>1, SMTT(30)
  <2>6. Accounted(d) = retries[d] + Marked(d) + a + b + q + w + x
    BY Zenon DEF Accounted
  <2>7. Accounted(d)' = retries[d] + Marked(d) + a2 + b2 + q2 + w + x /\ failures'[d] = failures[d]
    BY <1>1, Zenon DEF Accounted, Marked, FailedNodes
  <2>8. h \in Nat
    BY Zenon
  <2> HIDE DEF h, q, q2, w, x, a, b, a2, b2
  <2> QED
    BY <2>1, <2>3, <2>4, <2>5, <2>6, <2>7, <2>8, SMTT(30) DEF Pays
<1>3. ASSUME NEW pc \in {"idle", "wait"}, Becomes(t, pc, NoCall, "none", 0), reconn' = reconn PROVE Pays(d)
  <2>1. pc \notin CallPcs
    BY Zenon DEF CallPcs
  <2>2. UNCHANGED <<nodes, reconn, pending, failures, retries, mark>>
    BY <1>1, <1>3, ZenonT(30)
  <2> QED
    BY <1>3, <2>1, <2>2, FreshPays, Zenon
<1> QED
  BY <1>2, <1>3, ReconnectIs, ZenonT(30)

LEMMA LoopsPay ==
  ASSUME OpenersInv, TypeInv, TypeInv', AddedLoop \/ AddedNext \/ OpenLoop \/ Pick, NEW d \in Dests
  PROVE  Pays(d)
<1>1. "added" \in Openers /\ "open" \in Openers /\ "reconnect" \notin CallPcs
      /\ "added" \notin CallPcs /\ "idle" \notin CallPcs
  BY Zenon DEF Openers, CallPcs
<1>2. UNCHANGED <<nodes, reconn, pending, failures, retries, mark>>
  BY Zenon DEF AddedLoop, AddedNext, OpenLoop, Pick
<1>3. ASSUME NEW c \in Calls, c.classical = FALSE PROVE c \notin ClassicalCalls(d)
  BY <1>3, Zenon DEF ClassicalCalls
<1>4. CASE AddedLoop
  <2>1. Becomes("added", "added", NoCall, "addnode", 0)
    BY <1>4, AddedLoopIs, ZenonT(30)
  <2> QED
    BY <1>1, <1>2, <2>1, FreshPays, ZenonT(30)
<1>5. ASSUME NEW c \in Calls, c.classical = FALSE, NEW t \in Openers, Becomes(t, "check", c, "none", 0)
      PROVE  Pays(d)
  BY <1>2, <1>3, <1>5, FreshPays, ZenonT(30)
<1>6. CASE AddedNext
  <2>1. CASE Becomes("added", "reconnect", NoCall, opener["added"].grant, 0)
    BY <1>1, <1>2, <2>1, FreshPays, ZenonT(30)
  <2> QED
    BY <1>1, <1>5, <1>6, <2>1, AddedNextIs, ZenonT(30)
<1>7. CASE OpenLoop
  <2>1. Becomes("open", "reconnect", NoCall, "none", 0)
    BY <1>7, OpenLoopIs, ZenonT(30)
  <2> QED
    BY <1>1, <1>2, <2>1, FreshPays, ZenonT(30)
<1>8. CASE Pick
  <2>1. CASE Becomes("open", "idle", NoCall, "none", 0)
    BY <1>1, <1>2, <2>1, FreshPays, ZenonT(30)
  <2> QED
    BY <1>1, <1>5, <1>8, <2>1, PickIs, ZenonT(30)
<1> QED
  BY <1>4, <1>6, <1>7, <1>8, ZenonT(30)

LEMMA OneTryPays ==
  ASSUME OpenersInv, TypeInv, TypeInv', NEW e \in Named, OneTry(e), NEW d \in Dests
  PROVE  Pays(d)
<1>1. "rpc" \in Openers /\ UNCHANGED <<nodes, reconn, pending, failures, retries, mark>>
  BY Zenon DEF Openers, OneTry
<1>2. PICK c \in Calls : c.classical = FALSE /\ Becomes("rpc", "check", c, "none", 0)
  BY OneTryIs, Zenon
<1>3. c \notin ClassicalCalls(d)
  BY <1>2, ZenonT(30) DEF ClassicalCalls
<1> QED
  BY <1>1, <1>2, <1>3, FreshPays, ZenonT(30)

\* Commands that list, unlist or switch the network can only clear a mark.
LEMMA QuietPays ==
  ASSUME TypeInv, TypeInv', UNCHANGED <<nodes, reconn, pending, opener, failures, retries>>,
         NEW d \in Dests, mark'[d] \in {0, mark[d]}
  PROVE  Pays(d)
<1>1. Marked(d)' <= Marked(d) /\ Marked(d) \in Nat /\ Marked(d)' \in Nat
  BY DEF Marked
<1>2. /\ retries[d] \in Nat /\ failures[d] \in Nat
      /\ Cardinality(Takers(d)) \in Nat /\ Cardinality(Callers(d)) \in Nat
      /\ Cardinality(Indices(reconn, ClassicalCalls(d))) \in Nat
      /\ Cardinality(Indices(pending, ClassicalCalls(d))) \in Nat
      /\ Cardinality(FailedNodes(d)) \in Nat
  BY CountsAlways, Zenon DEF CountsOk
<1>3. /\ Accounted(d)' = retries[d] + Marked(d)' + Cardinality(Takers(d)) + Cardinality(Callers(d))
                           + Cardinality(Indices(reconn, ClassicalCalls(d)))
                           + Cardinality(Indices(pending, ClassicalCalls(d))) + Cardinality(FailedNodes(d))
      /\ failures'[d] = failures[d]
  BY ZenonT(30) DEF Accounted, Takers, Callers, FailedNodes
<1> QED
  BY <1>1, <1>2, <1>3 DEF Pays, Accounted

LEMMA StepPays ==
  ASSUME OpenersInv, TypeInv, TypeInv', [Next]_vars, NEW d \in Dests
  PROVE  Pays(d)
<1>1. mark \in [Dests -> Nat] /\ Named \subseteq Dests
  BY Zenon DEF TypeInv, Dests
<1>2. ASSUME NEW n \in nodes, End(n) \/ Remove(n) PROVE Pays(d)
  BY <1>2, EndPays, RemovePays, Zenon
<1>3. CASE SetNetworkActive
  BY <1>3, QuietPays, ZenonT(30) DEF SetNetworkActive
<1>4. CASE Splice
  BY <1>4, SplicePays, Zenon
<1>5. ASSUME NEW t \in Openers, Check(t) PROVE Pays(d)
  <2>1. /\ opener[t].pc \in CallPcs /\ opener[t].retry = 0
        /\ UNCHANGED <<nodes, reconn, pending, failures, retries, mark>>
    BY <1>5, Zenon DEF Check, CallPcs, OpenersInv, OpenerInv
  <2>2. CASE opener' = [opener EXCEPT ![t].pc = "take"]
    <3>1. Becomes(t, "take", opener[t].call, opener[t].grant, opener[t].retry)
      BY <2>1, <2>2, CallProceeds, ZenonT(30)
    <3> QED
      BY <2>1, <3>1, ProceedPays, ZenonT(30)
  <2>3. CASE ReturnFalse(t)
    <3>1. PICK pc \in {"idle", "added", "reconnect"} : Becomes(t, pc, NoCall, GrantAfter(t), 0)
      BY <2>1, <2>3, ReturnFalseIs, ZenonT(30)
    <3>2. pc \notin CallPcs
      BY Zenon DEF CallPcs
    <3> QED
      BY <2>1, <3>1, <3>2, FreshPays, ZenonT(30)
  <2> QED
    BY <1>5, <2>2, <2>3, ZenonT(30) DEF Check
<1>6. ASSUME NEW t \in Openers, Resolve(t) PROVE Pays(d)
  <2>1. opener[t].pc \in CallPcs
    BY <1>6, Zenon DEF Resolve, CallPcs
  <2>2. CASE Fail(t)
    BY <2>1, <2>2, FailPays, ZenonT(30)
  <2>3. CASE /\ opener' = [opener EXCEPT ![t].pc = "dial"]
             /\ UNCHANGED <<nodes, reconn, pending, failures, retries, mark>>
    <3>1. Becomes(t, "dial", opener[t].call, opener[t].grant, opener[t].retry)
      BY <2>1, <2>3, CallProceeds, ZenonT(30)
    <3> QED
      BY <2>1, <2>3, <3>1, ProceedPays, ZenonT(30)
  <2> QED
    BY <1>6, <2>2, <2>3, ZenonT(30) DEF Resolve
<1>7. ASSUME NEW t \in Openers, DialFails(t) PROVE Pays(d)
  BY <1>7, FailPays, Zenon DEF DialFails, CallPcs
<1>8. ASSUME NEW t \in Openers, OpenerStep(t) PROVE Pays(d)
  BY <1>5, <1>6, <1>7, <1>8, TakePays, DialPays, ReconnectPays, LoopsPay, ZenonT(30)
     DEF OpenerStep
<1>9. ASSUME NEW e \in Named, AddNode(e) \/ RemoveAddedNode(e) PROVE Pays(d)
  <2>1. mark'[d] \in {0, mark[d]} /\ UNCHANGED <<nodes, reconn, pending, opener, failures, retries>>
    BY <1>1, <1>9, Zenon DEF AddNode, RemoveAddedNode
  <2> QED
    BY <2>1, QuietPays, Zenon
<1>10. CASE UNCHANGED vars
  BY <1>10, QuietPays, ZenonT(30) DEF vars
<1> QED
  BY <1>2, <1>3, <1>4, <1>8, <1>9, <1>10, OneTryPays, ZenonT(30) DEF Next

LEMMA RetryInit == Init => RetryInv
<1> SUFFICES ASSUME Init, NEW d \in Dests PROVE Accounted(d) <= failures[d]
  BY Zenon DEF RetryInv
<1>1. retries[d] = 0 /\ failures[d] = 0 /\ Marked(d) = 0
  BY Zenon DEF Init, Marked
<1>2. Takers(d) = {} /\ Callers(d) = {} /\ FailedNodes(d) = {}
  BY AtRestIs, Zenon DEF Init, Takers, Callers, FailedNodes, CallPcs
<1>3. /\ Cardinality(Indices(reconn, ClassicalCalls(d))) = 0
      /\ Cardinality(Indices(pending, ClassicalCalls(d))) = 0
  BY IndicesOfNone, Zenon DEF Init
<1>4. Cardinality(Takers(d)) = 0 /\ Cardinality(Callers(d)) = 0 /\ Cardinality(FailedNodes(d)) = 0
  BY <1>2, FS_EmptySet, Zenon
<1> QED
  BY <1>1, <1>3, <1>4 DEF Accounted

\* However the loops, the queue and onetry race, a destination is never given more
\* classical retries than it had failed handshakes (RetryOnce): every retry, run or
\* on its way, is one failed handshake's.
THEOREM RetriesAreOnce == Spec => []RetryOnce
<1>1. Init => OpenersInv /\ TypeInv /\ RetryInv
  BY TypeInit, RetryInit, Zenon
<1>2. OpenersInv /\ TypeInv /\ RetryInv /\ [Next]_vars => (OpenersInv /\ TypeInv /\ RetryInv)'
  <2> SUFFICES ASSUME OpenersInv, TypeInv, RetryInv, [Next]_vars
               PROVE  (OpenersInv /\ TypeInv /\ RetryInv)'
    BY Zenon
  <2>1. OpenersInv' /\ TypeInv'
    BY TypeStep, Zenon
  <2>2. ASSUME NEW d \in Dests PROVE Accounted(d)' <= failures'[d]
    <3>1. Pays(d) /\ Accounted(d) <= failures[d]
      BY <2>1, StepPays, ZenonT(30) DEF RetryInv
    <3>2. failures[d] \in Nat /\ failures'[d] \in Nat /\ Accounted(d) \in Nat
      BY <2>1, CountsAlways, CountsAfter, SMTT(30) DEF CountsOk, Accounted
    <3>3. Accounted(d)' \in Nat
      BY <2>1, CountsAfter DEF CountsOk, Accounted
    <3> QED
      BY <3>1, <3>2, <3>3 DEF Pays
  <2> QED
    BY <2>1, <2>2, Zenon DEF RetryInv
<1>3. TypeInv /\ RetryInv => RetryOnce
  BY CountsAlways DEF CountsOk, RetryInv, Accounted, RetryOnce
<1> QED
  BY <1>1, <1>2, <1>3, PTL DEF Spec
=============================================================================
