----------------------------- MODULE CardWallet -----------------------------
(***************************************************************************)
(* Card-bound wallets (src/wallet/card_seed.py and wallet_cli.py): a       *)
(* wallet file is encrypted to a factor that only a card holds, behind     *)
(* keys that are kept in the card's auth file.                             *)
(*                                                                         *)
(* A command runs step by step, one at a time, and may end after any step: *)
(* an exception, a card pulled from the reader, or a stop of the process.  *)
(* A key is the number of the provisioning that drew it, 0 the factory     *)
(* key; a factor is the number of the attempt that drew it, 0 none.        *)
(***************************************************************************)
EXTENDS Integers

CONSTANTS
  Cards,    \* the user's cards
  Wallets,  \* wallet files
  MaxDraws  \* provisionings

ASSUME CardWalletAssumption == MaxDraws \in Nat

VARIABLES
  card,    \* the keys and the factor on each card
  auth,    \* card-<uid>.auth of each card
  wallet,  \* each wallet file
  op,      \* the command that runs
  draws,   \* provisionings so far
  given    \* pairs of a card that is ready and the wallet it was made for

vars == <<card, auth, wallet, op, draws, given>>

Factory == [read |-> 0, write |-> 0, master |-> 0, factor |-> 0]

Auth(key, permanent) == [file |-> "whole", key |-> key, permanent |-> permanent]
NoAuth == [file |-> "none", key |-> 0, permanent |-> FALSE]
TornAuth == [file |-> "torn", key |-> 0, permanent |-> FALSE]

Wallet(factor) == [file |-> "whole", factor |-> factor]
NoWallet == [file |-> "none", factor |-> 0]
TornWallet == [file |-> "torn", factor |-> 0]

\* The next step of the command that runs, its card and wallet file, the factor and
\* key it puts on the card, and how it ends once the card is provisioned.
Op(at, c, w, factor, key, ending, seal) ==
  [at |-> at, card |-> c, wallet |-> w, factor |-> factor, key |-> key,
   ending |-> ending, seal |-> seal]

Idle == Op("idle", 0, 0, 0, 0, "none", FALSE)

Init ==
  /\ card = [c \in Cards |-> Factory]
  /\ auth = [c \in Cards |-> NoAuth]
  /\ wallet = [w \in Wallets |-> NoWallet]
  /\ op = Idle
  /\ draws = 0
  /\ given = {}

-----------------------------------------------------------------------------
(* The commands.                                                           *)

\* Slip: the auth file is saved once the keys are on the card.
ProvisionSavesLast(step) ==
  CASE step = "write" -> "verify"
    [] step = "verify" -> "rotate read"
    [] step = "rotate read" -> "rotate write"
    [] step = "rotate write" -> "rotate master"
    [] step = "rotate master" -> "save"
    [] step = "save" -> "check"

\* The order of provision_card.
Provision(step) ==
  CASE step = "write" -> "verify"
    [] step = "verify" -> "save"
    [] step = "save" -> "rotate read"
    [] step = "rotate read" -> "rotate write"
    [] step = "rotate write" -> "rotate master"
    [] step = "rotate master" -> "check"

\* Slip: the card is sealed before the wallet file is written.
CommitSealsFirst(step) ==
  CASE step = "check" -> IF op.seal THEN "seal" ELSE op.ending
    [] step = "seal" -> op.ending
    [] step = op.ending -> "idle"

\* The order in which cmd_new_card and cmd_card_backup go on after it.
Commit(step) ==
  CASE step = "check" -> op.ending
    [] step = op.ending -> IF op.seal THEN "seal" ELSE "idle"
    [] step = "seal" -> "idle"

\* The order of factory_reset_card, and of cmd_card_reset after it.
Reset(step) ==
  CASE step = "wipe" -> "restore read"
    [] step = "restore read" -> "restore write"
    [] step = "restore write" -> "restore master"
    [] step = "restore master" -> "remove"
    [] step = "remove" -> "idle"

\* read_factor: the factor of a card that the key in its auth file reads.
Reads(c, factor) ==
  /\ auth[c].file = "whole"
  /\ card[c].read = auth[c].key
  /\ factor # 0
  /\ card[c].factor = factor

cmd_new_card(c, w, seal) ==
  /\ op = Idle
  /\ wallet[w] = NoWallet
  /\ auth[c] = NoAuth
  /\ draws < MaxDraws
  /\ draws' = draws + 1
  /\ op' = Op("write", c, w, draws', draws', "wallet", seal)
  /\ UNCHANGED <<card, auth, wallet, given>>

\* Slip: any card of the user's will do.
BackupFromAny(old, w) == \E f \in 1..draws : Reads(old, f)

\* The card tapped first belongs to the wallet.
BackupFrom(old, w) == \E f \in 1..draws : Reads(old, f) /\ f = wallet[w].factor

cmd_card_backup(old, c, w, seal) ==
  /\ op = Idle
  /\ wallet[w].file = "whole"
  /\ BackupFrom(old, w)
  /\ auth[c] = NoAuth
  /\ draws < MaxDraws
  /\ draws' = draws + 1
  /\ op' = Op("write", c, w, card[old].factor, draws', "hand over", seal)
  /\ UNCHANGED <<card, auth, wallet, given>>

cmd_card_reset(c) ==
  /\ op = Idle
  /\ auth[c].file = "whole" /\ ~auth[c].permanent
  /\ op' = [Idle EXCEPT !.at = "wipe", !.card = c]
  /\ given' = {p \in given : p[1] # c}
  /\ UNCHANGED <<card, auth, wallet, draws>>

-----------------------------------------------------------------------------
(* The steps.  One whose authentication or check fails raises CardError.   *)

Goto(step) == op' = IF step = "idle" THEN Idle ELSE [op EXCEPT !.at = step]

\* The command ends here.
Abort == op # Idle /\ op' = Idle /\ UNCHANGED <<card, auth, wallet, draws, given>>

\* The card of the command and the key its auth file holds.
Tapped == card[op.card]
Key == auth[op.card].key

SetCard(value) ==
  /\ card' = [card EXCEPT ![op.card] = value]
  /\ UNCHANGED <<auth, wallet, draws, given>>

\* Write and read back with the factory keys.
WriteFactor ==
  /\ op.at = "write"
  /\ Tapped.write = 0
  /\ SetCard([Tapped EXCEPT !.factor = op.factor])
  /\ Goto(Provision("write"))

VerifyFactor ==
  /\ op.at = "verify"
  /\ Tapped.read = 0 /\ Tapped.factor = op.factor
  /\ Goto(Provision("verify"))
  /\ UNCHANGED <<card, auth, wallet, draws, given>>

\* save_auth: the file is created, then written.
SaveAuth(whole) ==
  /\ op.at = "save"
  /\ auth[op.card] = NoAuth
  /\ auth' = [auth EXCEPT ![op.card] = IF whole THEN Auth(op.key, FALSE) ELSE TornAuth]
  /\ Goto(IF whole THEN Provision("save") ELSE "idle")
  /\ UNCHANGED <<card, wallet, draws, given>>

\* Keys are changed under the master key; changing one of the others needs its old value.
change_key_diff(key, old, master) == Tapped.master = master /\ key = old
change_key_same(master) == Tapped.master = master

RotateRead ==
  /\ op.at = "rotate read"
  /\ change_key_diff(Tapped.read, 0, 0)
  /\ SetCard([Tapped EXCEPT !.read = op.key])
  /\ Goto(Provision("rotate read"))

RotateWrite ==
  /\ op.at = "rotate write"
  /\ change_key_diff(Tapped.write, 0, 0)
  /\ SetCard([Tapped EXCEPT !.write = op.key])
  /\ Goto(Provision("rotate write"))

RotateMaster ==
  /\ op.at = "rotate master"
  /\ change_key_same(0)
  /\ SetCard([Tapped EXCEPT !.master = op.key])
  /\ Goto(Provision("rotate master"))

\* The read with the new key, and _update_auth.
CheckUnlock ==
  /\ op.at = "check"
  /\ Tapped.read = op.key /\ Tapped.factor = op.factor
  /\ auth[op.card].file = "whole"
  /\ Goto(Commit("check"))
  /\ UNCHANGED <<card, auth, wallet, draws, given>>

\* The wallet file is created, then written.
WriteWallet(whole) ==
  /\ op.at = "wallet"
  /\ wallet[op.wallet] = NoWallet
  /\ wallet' = [wallet EXCEPT ![op.wallet] = IF whole THEN Wallet(op.factor) ELSE TornWallet]
  /\ given' = IF whole THEN given \cup {<<op.card, op.wallet>>} ELSE given
  /\ Goto(IF whole THEN Commit("wallet") ELSE "idle")
  /\ UNCHANGED <<card, auth, draws>>

\* provision_card has returned for a wallet that exists: the duplicate is ready.
HandOver ==
  /\ op.at = "hand over"
  /\ given' = given \cup {<<op.card, op.wallet>>}
  /\ Goto(Commit("hand over"))
  /\ UNCHANGED <<card, auth, wallet, draws>>

\* make_permanent: the auth file is replaced by one without the master and write keys.
Seal ==
  /\ op.at = "seal"
  /\ auth' = [auth EXCEPT ![op.card] = Auth(Key, TRUE)]
  /\ Goto(Commit("seal"))
  /\ UNCHANGED <<card, wallet, draws, given>>

Wipe ==
  /\ op.at = "wipe"
  /\ Tapped.write = Key
  /\ SetCard([Tapped EXCEPT !.factor = 0])
  /\ Goto(Reset("wipe"))

RestoreRead ==
  /\ op.at = "restore read"
  /\ change_key_diff(Tapped.read, Key, Key)
  /\ SetCard([Tapped EXCEPT !.read = 0])
  /\ Goto(Reset("restore read"))

RestoreWrite ==
  /\ op.at = "restore write"
  /\ change_key_diff(Tapped.write, Key, Key)
  /\ SetCard([Tapped EXCEPT !.write = 0])
  /\ Goto(Reset("restore write"))

RestoreMaster ==
  /\ op.at = "restore master"
  /\ change_key_same(Key)
  /\ SetCard([Tapped EXCEPT !.master = 0])
  /\ Goto(Reset("restore master"))

\* The auth file is moved away.
RemoveAuth ==
  /\ op.at = "remove"
  /\ auth' = [auth EXCEPT ![op.card] = NoAuth]
  /\ Goto(Reset("remove"))
  /\ UNCHANGED <<card, wallet, draws, given>>

Next ==
  \/ \E c \in Cards, w \in Wallets, seal \in BOOLEAN : cmd_new_card(c, w, seal)
  \/ \E old, c \in Cards, w \in Wallets, seal \in BOOLEAN : cmd_card_backup(old, c, w, seal)
  \/ \E c \in Cards : cmd_card_reset(c)
  \/ WriteFactor \/ VerifyFactor \/ \E whole \in BOOLEAN : SaveAuth(whole)
  \/ RotateRead \/ RotateWrite \/ RotateMaster \/ CheckUnlock
  \/ \E whole \in BOOLEAN : WriteWallet(whole)
  \/ HandOver \/ Seal
  \/ Wipe \/ RestoreRead \/ RestoreWrite \/ RestoreMaster \/ RemoveAuth
  \/ Abort

Spec == Init /\ [][Next]_vars

-----------------------------------------------------------------------------
(* What it promises.                                                       *)

\* Wherever a command ends, every key on a card is the factory key or is in the
\* card's auth file, but for the two that sealing gives up: no card is bricked
\* (provision_card, "a fault during rotation leaves the keys on disk").
KeysOnDisk ==
  \A c \in Cards : \A key \in {card[c].read, card[c].write, card[c].master} :
    key # 0 => auth[c].file = "whole" /\ auth[c].key = key

\* A card that was made for a wallet unlocks it, with the key on disk, until its
\* reset begins, whatever happened to other cards and wallets (cmd_new_card,
\* cmd_card_backup).
GivenUnlocks ==
  \A p \in given : wallet[p[2]].file = "whole" /\ Reads(p[1], wallet[p[2]].factor)

\* A card is sealed for good only if a wallet file needs it (cmd_new_card makes the
\* wallet before make_permanent), and it is one of the cards made for it.
SealedIsNeeded ==
  \A c \in Cards :
    (auth[c].file = "whole" /\ auth[c].permanent) => \E w \in Wallets : <<c, w>> \in given
=============================================================================
