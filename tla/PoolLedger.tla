---------------------------- MODULE PoolLedger -----------------------------
(***************************************************************************)
(* What the pool of src/xcoin-pool/xcoin-pool.py remembers: the PPLNS      *)
(* window, the blocks its miners won, the numbers of browser sessions, and *)
(* the files that carry them over a restart.  Files are written to         *)
(* <name>.tmp and renamed; nothing else runs in the event loop meanwhile,  *)
(* but the process can die between any two steps and any write can fail.   *)
(***************************************************************************)
EXTENDS Pplns

CONSTANTS
  MaxWins,    \* blocks won
  MaxNumbers, \* browser sessions
  MaxCrashes  \* restarts

Files == {"seq", "miners", "pplns"}

VARIABLES
  dirty,    \* PplnsWindow.dirty
  blocks,   \* blocks in the registry MINERS
  given,    \* the numbers next_web_session returned, in order
  disk,     \* the files
  tmp,      \* their .tmp files
  saving,   \* the file being written, or "none"
  at,       \* where in writing it: open, write, rename
  failed,   \* the files whose last write failed
  up,       \* whether the process runs
  crashes

vars == <<shares, total, dirty, limit, blocks, given, disk, tmp, saving, at, failed, up, crashes>>

memory == <<shares, total, dirty, limit, blocks, given>>

\* A file holds one value, or the half-written remains of one.
Torn == <<>>

\* What a file that is missing or cannot be read stands for.
Empty(f) == IF f = "pplns" THEN <<>> ELSE 0

Loaded(f) == IF disk[f] = Torn THEN Empty(f) ELSE disk[f][1]

Init ==
  /\ WindowInit /\ dirty = FALSE
  /\ blocks = 0 /\ given = <<>>
  /\ disk = [f \in Files |-> <<Empty(f)>>]
  /\ tmp = [f \in Files |-> Torn]
  /\ saving = "none" /\ at = "open" /\ failed = {}
  /\ up = TRUE /\ crashes = 0

-----------------------------------------------------------------------------
(* Shares, wins and sessions, and the files.                               *)

\* A share is credited.
Share ==
  /\ up /\ saving = "none"
  /\ Len(shares) < MaxShares
  /\ \E spk \in Scripts, diff \in Diffs, lim \in Limits : Add(spk, diff, lim)
  /\ dirty' = TRUE
  /\ UNCHANGED <<blocks, given, disk, tmp, saving, at, failed, up, crashes>>

\* What is written for a file.
Content(f) ==
  CASE f = "seq" -> Loaded("seq") + 1
    [] f = "miners" -> blocks
    [] f = "pplns" -> shares

\* Slip: the window is never among what is saved.
AfterMiners(f) == "none"

\* save_stats writes the registry and then the window, if it changed.
After(f) == IF f = "miners" /\ dirty THEN "pplns" ELSE "none"

\* Slip: a block waits for the next round of stats_loop.
WinUnsaved ==
  /\ up /\ saving = "none"
  /\ blocks < MaxWins
  /\ blocks' = blocks + 1
  /\ UNCHANGED <<shares, total, dirty, limit, given, disk, tmp, saving, at, failed, up, crashes>>

\* A block is recorded and saved at once.
Win ==
  /\ up /\ saving = "none"
  /\ blocks < MaxWins
  /\ blocks' = blocks + 1
  /\ saving' = "miners" /\ at' = "open"
  /\ UNCHANGED <<shares, total, dirty, limit, given, disk, tmp, failed, up, crashes>>

\* stats_loop, every ten seconds.
StatsLoop ==
  /\ up /\ saving = "none"
  /\ saving' = "miners" /\ at' = "open"
  /\ UNCHANGED <<memory, disk, tmp, failed, up, crashes>>

\* A browser authorizes: next_web_session reads the file and writes the next number.
WebSession ==
  /\ up /\ saving = "none"
  /\ Len(given) < MaxNumbers
  /\ saving' = "seq" /\ at' = "open"
  /\ UNCHANGED <<memory, disk, tmp, failed, up, crashes>>

\* open(tmp, "w"): the .tmp file is there, and not complete.
Open ==
  /\ up /\ saving # "none" /\ at = "open"
  /\ tmp' = [tmp EXCEPT ![saving] = Torn]
  /\ at' = "write"
  /\ UNCHANGED <<memory, disk, saving, failed, up, crashes>>

\* Slip: save clears dirty although the rename is still to come.
WriteClean ==
  /\ up /\ saving # "none" /\ at = "write"
  /\ tmp' = [tmp EXCEPT ![saving] = <<Content(saving)>>]
  /\ at' = "rename"
  /\ dirty' = (dirty /\ saving # "pplns")
  /\ UNCHANGED <<shares, total, limit, blocks, given, disk, saving, failed, up, crashes>>

Write ==
  /\ up /\ saving # "none" /\ at = "write"
  /\ tmp' = [tmp EXCEPT ![saving] = <<Content(saving)>>]
  /\ at' = "rename"
  /\ UNCHANGED <<memory, disk, saving, failed, up, crashes>>

\* os.replace; save then clears dirty, and next_web_session returns the number.
Rename ==
  /\ up /\ saving # "none" /\ at = "rename"
  /\ disk' = [disk EXCEPT ![saving] = tmp[saving]]
  /\ tmp' = [tmp EXCEPT ![saving] = Torn]
  /\ dirty' = (dirty /\ saving # "pplns")
  /\ given' = IF saving = "seq" THEN Append(given, tmp.seq[1]) ELSE given
  /\ failed' = failed \ {saving}
  /\ saving' = After(saving) /\ at' = "open"
  /\ UNCHANGED <<shares, total, limit, blocks, up, crashes>>

\* Slip: next_web_session returns the number although it could not store it.
WriteFailsGiven ==
  /\ up /\ saving # "none"
  /\ given' = IF saving = "seq" THEN Append(given, Content("seq")) ELSE given
  /\ failed' = failed \cup {saving}
  /\ saving' = After(saving) /\ at' = "open"
  /\ UNCHANGED <<shares, total, dirty, limit, blocks, disk, tmp, up, crashes>>

\* One of the three fails: the exception is logged, or refuses the browser, and
\* the next file is written.
WriteFails ==
  /\ up /\ saving # "none"
  /\ failed' = failed \cup {saving}
  /\ saving' = After(saving) /\ at' = "open"
  /\ UNCHANGED <<memory, disk, tmp, up, crashes>>

\* The process dies: what it had in memory is gone, but not the files.
Crash ==
  /\ up
  /\ crashes < MaxCrashes
  /\ crashes' = crashes + 1
  /\ up' = FALSE
  /\ shares' = <<>> /\ total' = 0 /\ dirty' = FALSE /\ limit' = 0 /\ blocks' = 0
  /\ saving' = "none" /\ at' = "open" /\ failed' = {}
  /\ UNCHANGED <<given, disk, tmp>>

\* Slip: load leaves the total alone.
RestartNoTotal ==
  /\ ~up
  /\ up' = TRUE
  /\ blocks' = Loaded("miners")
  /\ shares' = Loaded("pplns")
  /\ UNCHANGED <<total, dirty, limit, given, disk, tmp, saving, at, failed, crashes>>

\* main: load_miners and PplnsWindow.load.
Restart ==
  /\ ~up
  /\ up' = TRUE
  /\ blocks' = Loaded("miners")
  /\ shares' = Loaded("pplns")
  /\ total' = Weight(Loaded("pplns"))
  /\ UNCHANGED <<dirty, limit, given, disk, tmp, saving, at, failed, crashes>>

Next ==
  \/ Share \/ Win \/ StatsLoop \/ WebSession
  \/ Open \/ Write \/ Rename \/ WriteFails
  \/ Crash \/ Restart

Spec == Init /\ [][Next]_vars

\* A process that is up finishes what it started to write, and comes back to
\* stats_loop however many shares and sessions it serves in between.
FairSpec == Spec /\ SF_vars(StatsLoop) /\ WF_vars(Open \/ Write \/ Rename)

-----------------------------------------------------------------------------
(* Properties.                                                             *)

\* When save has nothing to do, the file holds the window, so a restart forgets
\* no more than the shares since the last save.
CleanIsSaved == (up /\ ~dirty) => Loaded("pplns") = shares

\* "persist the win immediately": a block that save_stats has finished with is on
\* disk unless writing it failed.
WinsSaved == (up /\ saving = "none" /\ "miners" \notin failed) => Loaded("miners") = blocks

\* The numbers of browser sessions never repeat, over restarts and failed writes.
NumbersNeverRepeat == \A i, j \in DOMAIN given : i # j => given[i] # given[j]

\* What is owed is saved: a changed window is written, unless the process dies or
\* the disk refuses it first.
WindowSavedInTime == []<>(~dirty \/ ~up \/ "pplns" \in failed)
=============================================================================
