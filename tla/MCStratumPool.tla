--------------------------- MODULE MCStratumPool ---------------------------
(***************************************************************************)
(* Instances of StratumPool for TLC.  The spec of the module has two       *)
(* scenes: two seated miners that stay connected and read while blocks are *)
(* found, and two connections for one slot to which everything happens.    *)
(***************************************************************************)
EXTENDS StratumPool

CONSTANTS m1, m2, a, b

TwoMiners == {m1, m2}

OneTxSet == {a}

TwoTxSets == {a, b}

PowEvents == {"pow"}

Crowded == INSTANCE StratumPool WITH
  Seated <- {m1}, Cap <- 1, JobKeep <- 1, Events <- EventKinds

VARIABLE scene

mcvars == <<vars, scene>>

SceneInit == \/ scene = "quiet" /\ Init
             \/ scene = "crowded" /\ Crowded!Init

SceneNext == /\ \/ scene = "quiet" /\ Next
                \/ scene = "crowded" /\ Crowded!Next
             /\ UNCHANGED scene

SceneStep(c) == /\ IF scene = "quiet" THEN TaskStep(c) ELSE Crowded!TaskStep(c)
                /\ UNCHANGED scene

SceneFairness == \A c \in Tasks : WF_mcvars(SceneStep(c))

QuietSpec == scene = "quiet" /\ Init /\ [][Next /\ UNCHANGED scene]_mcvars

SceneSpec == SceneInit /\ [][SceneNext]_mcvars /\ SceneFairness

-----------------------------------------------------------------------------
\* Two authorizes can never both take the last slot: the sessions with a payout
\* script never outnumber XCOIN_POOL_MAX_MINERS, through refusals, second
\* authorizes and lost connections.
OneSlot == scene = "crowded" => Crowded!SlotCap

Behind(m) == scene = "quiet" /\ LatestJob(m).prev # Tip

\* The node's last tip reaches every session that is authorized and reads, as a
\* job on it ("tip": miners must drop their jobs, Jobs.refresh).
LastTipReachesEveryMiner == \A m \in Miners : []<>~Behind(m)
=============================================================================
