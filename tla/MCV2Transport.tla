--------------------------- MODULE MCV2Transport ---------------------------
(***************************************************************************)
(* An instance of V2Transport for TLC, in two scenes: pairs that reach the *)
(* HX1 code under every fault, and every pair when nothing fails.          *)
(***************************************************************************)
EXTENDS V2Transport

\* The pairs that reach the HX1 code on at least one side.
HybridPairings ==
  {p \in [Sides -> HandshakeModes \cup {"V1"}] :
     \E s \in Sides : p[s] \in {"PREFER", "REQUIRE"}}

AllFaults == FaultKinds

\* Every initiator against every responder.
Calm == INSTANCE V2Transport WITH Pairings <- [Sides -> Modes], Faults <- {}

VARIABLE scene

mcvars == <<vars, scene>>

MCInit == \/ scene = "faults" /\ Init
          \/ scene = "calm" /\ Calm!Init

MCNext == /\ \/ scene = "faults" /\ Next
             \/ scene = "calm" /\ Calm!Next
          /\ UNCHANGED scene

\* Fairness of V2Transport, where a scene without faults has no timeout.
MCFairness ==
  \A s \in Sides : /\ WF_mcvars(QueueMessage(s) /\ UNCHANGED scene)
                   /\ WF_mcvars(SendBytes(s) /\ UNCHANGED scene)
                   /\ WF_mcvars(ReceiveMsgBytes(s) /\ UNCHANGED scene)
                   /\ WF_mcvars(SocketClosed(s) /\ UNCHANGED scene)
                   /\ WF_mcvars(scene = "faults" /\ Timeout(s) /\ UNCHANGED scene)
                   /\ WF_mcvars(DisconnectNode(s) /\ UNCHANGED scene)

MCSpec == MCInit /\ [][MCNext]_mcvars /\ MCFairness

-----------------------------------------------------------------------------
\* The session both nodes report (GetInfo) when nothing fails is the one their
\* modes determine, and two nodes that can talk never reject each other's bytes.
ModeMatrix ==
  LET session == Session(transport["I"].mode, transport["R"].mode)
  IN  scene = "calm" =>
        \A s \in Sides :
          /\ received[s] # <<>> => GetInfo(transport[s]) = session
          /\ transport[s].rejected => session = "none"

\* Two nodes that can talk do when nothing fails: neither waits for the other's
\* version packet or confirmation for ever, and every message arrives.
HandshakeCompletes ==
  []<>((scene = "calm" /\ Session(transport["I"].mode, transport["R"].mode) # "none") =>
         \A s \in Sides : Len(received[s]) = MaxMsgs)
=============================================================================
