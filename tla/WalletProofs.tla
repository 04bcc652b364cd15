---------------------------- MODULE WalletProofs ----------------------------
(***************************************************************************)
(* Card-bound wallets, for any number of cards, wallets and provisionings: *)
(* a card's keys are on disk wherever a command ends, a card that was made *)
(* for a wallet unlocks it, and only a card a wallet needs is sealed.      *)
(* Then the amounts a wallet deals with, for every value of the arguments: *)
(* the settlement levy, its schedule, the fee and the subsidy.             *)
(***************************************************************************)
EXTENDS CardWallet, WalletFee, WellFoundedInduction, TLAPS


(* The steps, by what has been done before them.                           *)
Unsaved == {"write", "verify", "save"}
Saved == {"rotate read", "rotate write", "rotate master", "check"}
Ready == {"wallet", "hand over"}
Resetting == {"wipe", "restore read", "restore write", "restore master", "remove"}

File == {"none", "torn", "whole"}

CardState == [read : Nat, write : Nat, master : Nat, factor : Nat]

DataOK ==
  /\ card \in [Cards -> CardState]
  /\ auth \in [Cards -> [file : File, key : Nat, permanent : BOOLEAN]]
  /\ wallet \in [Wallets -> [file : File, factor : Nat]]
  /\ draws \in Nat
  /\ given \subseteq Cards \X Wallets

OpOK ==
  /\ op \in [at : Unsaved \cup Saved \cup Ready \cup Resetting \cup {"seal", "idle"},
             card : Cards \cup {0}, wallet : Wallets \cup {0}, factor : Nat, key : Nat,
             ending : {"wallet", "hand over", "none"}, seal : BOOLEAN]
  /\ op.at # "idle" => op.card \in Cards

\* A command that makes a card knows its wallet, factor and key, and a duplicate's
\* wallet exists.
Making ==
  op.at \in Unsaved \cup Saved \cup Ready \cup {"seal"} =>
    /\ op.wallet \in Wallets
    /\ op.factor # 0 /\ op.key # 0
    /\ op.ending \in Ready
    /\ op.ending = "hand over" => wallet[op.wallet] = Wallet(op.factor)
    /\ op.at \in Ready => op.at = op.ending

\* What the command's auth file holds.
Stored ==
  /\ op.at \in Unsaved => auth[op.card] = NoAuth
  /\ op.at \in Saved \cup Ready \cup {"seal"} => auth[op.card] = Auth(op.key, FALSE)
  /\ op.at \in Resetting => auth[op.card].file = "whole" /\ ~auth[op.card].permanent

\* What the command's card holds.
OnCard ==
  /\ op.at \in Ready \cup {"seal"} =>
       card[op.card].read = op.key /\ card[op.card].factor = op.factor
  /\ op.at \in {"restore write", "restore master", "remove"} => card[op.card].read = 0
  /\ op.at \in {"restore master", "remove"} => card[op.card].write = 0
  /\ op.at = "remove" => card[op.card].master = 0

\* Whether the command's card is made for a wallet.
MadeFor(c, w) == <<c, w>> \in given

Fresh ==
  /\ op.at \in Unsaved \cup Saved \cup Ready \cup Resetting =>
       \A w \in Wallets : ~MadeFor(op.card, w)
  /\ op.at = "seal" => MadeFor(op.card, op.wallet)

\* KeysOnDisk, GivenUnlocks and SealedIsNeeded, card by card.
Holds(file, key) == key # 0 => file.file = "whole" /\ file.key = key

OnDisk ==
  \A c \in Cards :
    Holds(auth[c], card[c].read) /\ Holds(auth[c], card[c].write) /\ Holds(auth[c], card[c].master)

Unlocks ==
  \A c \in Cards, w \in Wallets :
    MadeFor(c, w) => wallet[w].file = "whole" /\ Reads(c, wallet[w].factor)

Needed ==
  \A c \in Cards :
    (auth[c].file = "whole" /\ auth[c].permanent) => \E w \in Wallets : MadeFor(c, w)

\* The inductive invariant.
Inv == DataOK /\ OpOK /\ Making /\ Stored /\ OnCard /\ Fresh /\ OnDisk /\ Unlocks /\ Needed

-----------------------------------------------------------------------------
(* The order of the steps.                                                 *)

\* What provision_card does next.
LEMMA ProvisionOrder ==
  /\ Provision("write") = "verify"
  /\ Provision("verify") = "save"
  /\ Provision("save") = "rotate read"
  /\ Provision("rotate read") = "rotate write"
  /\ Provision("rotate write") = "rotate master"
  /\ Provision("rotate master") = "check"
  BY Zenon DEF Provision

\* What factory_reset_card and cmd_card_reset do next.
LEMMA ResetOrder ==
  /\ Reset("wipe") = "restore read"
  /\ Reset("restore read") = "restore write"
  /\ Reset("restore write") = "restore master"
  /\ Reset("restore master") = "remove"
  /\ Reset("remove") = "idle"
  BY Zenon DEF Reset

\* How a command that makes a card goes on after provision_card.
LEMMA CommitOrder ==
  ASSUME op.ending \in Ready
  PROVE  /\ Commit("check") = op.ending
         /\ Commit(op.ending) = IF op.seal THEN "seal" ELSE "idle"
         /\ Commit("seal") = "idle"
  BY Zenon DEF Commit, Ready

\* Going on to another step keeps what the command works on.
LEMMA GotoStep ==
  ASSUME OpOK, NEW step, step # "idle", Goto(step)
  PROVE  /\ op'.at = step
         /\ op'.card = op.card /\ op'.wallet = op.wallet /\ op'.factor = op.factor
         /\ op'.key = op.key /\ op'.ending = op.ending /\ op'.seal = op.seal
  BY Zenon DEF Goto, OpOK

\* Going on keeps the type of the command.
LEMMA GotoType ==
  ASSUME OpOK, op.at # "idle",
         NEW step \in Unsaved \cup Saved \cup Ready \cup Resetting \cup {"seal", "idle"},
         Goto(step)
  PROVE  OpOK'
  <1>1. CASE step = "idle"
    BY <1>1, Zenon DEF Goto, OpOK, Idle, Op
  <1>2. CASE step # "idle"
    BY <1>2, Zenon DEF Goto, OpOK
  <1> QED
    BY <1>1, <1>2, Zenon

\* A command that ends leaves nothing to say of its steps.
LEMMA IdleStep ==
  ASSUME op' = Idle
  PROVE  (Making /\ Stored /\ OnCard /\ Fresh)'
  BY Zenon DEF Idle, Op, Making, Stored, OnCard, Fresh, Unsaved, Saved, Ready, Resetting

\* A step from before to before saving, from after to after, or within a reset, that
\* leaves files and pairs alone.
LEMMA WithinPhase ==
  ASSUME Inv, NEW step, Goto(step), UNCHANGED <<auth, wallet, given>>,
         \/ op.at \in Unsaved /\ step \in Unsaved
         \/ op.at \in Saved /\ step \in Saved
         \/ op.at \in Resetting /\ step \in Resetting
  PROVE  OpOK' /\ Making' /\ Stored' /\ Fresh'
  <1> USE DEF Inv, Unsaved, Saved, Ready, Resetting, MadeFor
  <1>1. OpOK'
    BY GotoType, Zenon
  <1>2. step # "idle"
    BY Zenon
  <1>3. Making'
    BY <1>2, GotoStep, Zenon DEF Making, Wallet
  <1>4. Stored' /\ Fresh'
    BY <1>2, GotoStep, Zenon DEF Stored, Fresh, Auth, NoAuth
  <1> QED
    BY <1>1, <1>3, <1>4, Zenon

\* Writing to a card that is not made for a wallet, with keys that are on disk.
LEMMA SetCardData ==
  ASSUME Inv, NEW value \in CardState, SetCard(value),
         op.at \in Unsaved \cup Saved \cup Resetting,
         Holds(auth[op.card], value.read), Holds(auth[op.card], value.write),
         Holds(auth[op.card], value.master)
  PROVE  card'[op.card] = value /\ DataOK' /\ OnDisk' /\ Unlocks' /\ Needed'
  <1> USE DEF Inv, Unsaved, Saved, Ready, Resetting
  <1>1. /\ op.card \in Cards
        /\ card'[op.card] = value
        /\ \A c \in Cards : c # op.card => card'[c] = card[c]
        /\ UNCHANGED <<auth, wallet, draws, given>>
    BY Zenon DEF SetCard, OpOK, DataOK
  <1>2. DataOK'
    BY <1>1, Zenon DEF SetCard, DataOK
  <1>3. OnDisk'
    <2> SUFFICES ASSUME NEW c \in Cards
                 PROVE  (/\ Holds(auth[c], card[c].read) /\ Holds(auth[c], card[c].write)
                         /\ Holds(auth[c], card[c].master))'
      BY Zenon DEF OnDisk
    <2>1. CASE c = op.card
      BY <1>1, <2>1, Zenon DEF Holds
    <2>2. CASE c # op.card
      BY <1>1, <2>2, Zenon DEF OnDisk, Holds
    <2> QED
      BY <2>1, <2>2, Zenon
  <1>4. Unlocks'
    <2> SUFFICES ASSUME NEW c \in Cards, NEW w \in Wallets, MadeFor(c, w)'
                 PROVE  (wallet[w].file = "whole" /\ Reads(c, wallet[w].factor))'
      BY Zenon DEF Unlocks
    <2>1. MadeFor(c, w) /\ c # op.card
      BY <1>1, Zenon DEF Fresh, MadeFor
    <2> QED
      BY <1>1, <2>1, ZenonT(30) DEF Unlocks, Reads
  <1>5. Needed'
    BY <1>1, Zenon DEF Needed, MadeFor
  <1> QED
    BY <1>1, <1>2, <1>3, <1>4, <1>5, Zenon

-----------------------------------------------------------------------------
(* Every action keeps the invariant.                                       *)

\* The first state.
LEMMA InitInv == Init => Inv
  <1> SUFFICES ASSUME Init PROVE Inv
    BY Zenon
  <1>1. DataOK /\ OpOK
    BY Zenon DEF Init, DataOK, OpOK, CardState, Factory, NoAuth, NoWallet, Idle, Op, File
  <1>2. op.at = "idle"
    BY Zenon DEF Init, Idle, Op
  <1>3. Making /\ Stored /\ OnCard /\ Fresh
    BY <1>2, Zenon DEF Making, Stored, OnCard, Fresh, Unsaved, Saved, Ready, Resetting
  <1>4. OnDisk /\ Unlocks /\ Needed
    BY Zenon DEF Init, OnDisk, Holds, Unlocks, Needed, MadeFor, Factory, NoAuth
  <1> QED
    BY <1>1, <1>3, <1>4, Zenon DEF Inv

\* The factor goes on a card that no wallet needs.
LEMMA WriteFactorInv == Inv /\ WriteFactor => Inv'
  <1> SUFFICES ASSUME Inv, WriteFactor PROVE Inv'
    BY Zenon
  <1> DEFINE value == [card[op.card] EXCEPT !.factor = op.factor]
  <1>1. op.at = "write" /\ op.card \in Cards /\ SetCard(value) /\ Goto("verify")
    BY ProvisionOrder, Zenon DEF WriteFactor, Tapped, Inv, OpOK
  <1>2. card[op.card] \in CardState /\ op.factor \in Nat /\ op.key \in Nat
    BY <1>1, Zenon DEF Inv, DataOK, OpOK
  <1>3. /\ value \in CardState
        /\ value.read = card[op.card].read
        /\ value.write = card[op.card].write
        /\ value.master = card[op.card].master
        /\ value.factor = op.factor
    BY <1>2, Zenon DEF CardState
  <1> HIDE DEF value
  <1>4. /\ Holds(auth[op.card], value.read)
        /\ Holds(auth[op.card], value.write)
        /\ Holds(auth[op.card], value.master)
    BY <1>1, <1>3, Zenon DEF Inv, OnDisk, Holds
  <1>5. op.at \in Unsaved /\ "verify" \in Unsaved
    BY <1>1, Zenon DEF Unsaved
  <1>6. card'[op.card] = value /\ DataOK' /\ OnDisk' /\ Unlocks' /\ Needed'
    BY <1>1, <1>3, <1>4, <1>5, SetCardData, Zenon
  <1>7. OpOK' /\ Making' /\ Stored' /\ Fresh'
    BY <1>1, <1>5, WithinPhase, Zenon DEF SetCard
  <1>8. op'.at = "verify" /\ op'.card = op.card
    BY <1>1, GotoStep, "verify" # "idle", Zenon DEF Inv
  <1>9. OnCard'
    BY <1>1, <1>3, <1>6, <1>8, Zenon DEF Inv, OnCard, Ready
  <1> QED
    BY <1>6, <1>7, <1>9, Zenon DEF Inv

\* The read key that is put on the card is the one on disk.
LEMMA RotateReadInv == Inv /\ RotateRead => Inv'
  <1> SUFFICES ASSUME Inv, RotateRead PROVE Inv'
    BY Zenon
  <1> DEFINE value == [card[op.card] EXCEPT !.read = op.key]
  <1>1. op.at = "rotate read" /\ op.card \in Cards /\ SetCard(value) /\ Goto("rotate write")
    BY ProvisionOrder, Zenon DEF RotateRead, Tapped, Inv, OpOK
  <1>2. card[op.card] \in CardState /\ op.factor \in Nat /\ op.key \in Nat
    BY <1>1, Zenon DEF Inv, DataOK, OpOK
  <1>3. /\ value \in CardState
        /\ value.read = op.key
        /\ value.write = card[op.card].write
        /\ value.master = card[op.card].master
        /\ value.factor = card[op.card].factor
    BY <1>2, Zenon DEF CardState
  <1> HIDE DEF value
  <1>4. /\ Holds(auth[op.card], value.read)
        /\ Holds(auth[op.card], value.write)
        /\ Holds(auth[op.card], value.master)
    <2>1. auth[op.card].file = "whole" /\ auth[op.card].key = op.key
      <3>1. auth[op.card] = Auth(op.key, FALSE)
        BY <1>1, Zenon DEF Inv, Stored, Saved
      <3> QED
        BY <3>1 DEF Auth
    <2> QED
      BY <1>1, <1>3, <2>1, Zenon DEF Inv, OnDisk, Holds
  <1>5. op.at \in Saved /\ "rotate write" \in Saved
    BY <1>1, Zenon DEF Saved
  <1>6. card'[op.card] = value /\ DataOK' /\ OnDisk' /\ Unlocks' /\ Needed'
    BY <1>1, <1>3, <1>4, <1>5, SetCardData, Zenon
  <1>7. OpOK' /\ Making' /\ Stored' /\ Fresh'
    BY <1>1, <1>5, WithinPhase, Zenon DEF SetCard
  <1>8. op'.at = "rotate write" /\ op'.card = op.card
    BY <1>1, GotoStep, "rotate write" # "idle", Zenon DEF Inv
  <1>9. OnCard'
    BY <1>1, <1>3, <1>6, <1>8, Zenon DEF Inv, OnCard, Ready
  <1> QED
    BY <1>6, <1>7, <1>9, Zenon DEF Inv

\* So is the write key.
LEMMA RotateWriteInv == Inv /\ RotateWrite => Inv'
  <1> SUFFICES ASSUME Inv, RotateWrite PROVE Inv'
    BY Zenon
  <1> DEFINE value == [card[op.card] EXCEPT !.write = op.key]
  <1>1. op.at = "rotate write" /\ op.card \in Cards /\ SetCard(value) /\ Goto("rotate master")
    BY ProvisionOrder, Zenon DEF RotateWrite, Tapped, Inv, OpOK
  <1>2. card[op.card] \in CardState /\ op.factor \in Nat /\ op.key \in Nat
    BY <1>1, Zenon DEF Inv, DataOK, OpOK
  <1>3. /\ value \in CardState
        /\ value.read = card[op.card].read
        /\ value.write = op.key
        /\ value.master = card[op.card].master
        /\ value.factor = card[op.card].factor
    BY <1>2, Zenon DEF CardState
  <1> HIDE DEF value
  <1>4. /\ Holds(auth[op.card], value.read)
        /\ Holds(auth[op.card], value.write)
        /\ Holds(auth[op.card], value.master)
    <2>1. auth[op.card].file = "whole" /\ auth[op.card].key = op.key
      <3>1. auth[op.card] = Auth(op.key, FALSE)
        BY <1>1, Zenon DEF Inv, Stored, Saved
      <3> QED
        BY <3>1 DEF Auth
    <2> QED
      BY <1>1, <1>3, <2>1, Zenon DEF Inv, OnDisk, Holds
  <1>5. op.at \in Saved /\ "rotate master" \in Saved
    BY <1>1, Zenon DEF Saved
  <1>6. card'[op.card] = value /\ DataOK' /\ OnDisk' /\ Unlocks' /\ Needed'
    BY <1>1, <1>3, <1>4, <1>5, SetCardData, Zenon
  <1>7. OpOK' /\ Making' /\ Stored' /\ Fresh'
    BY <1>1, <1>5, WithinPhase, Zenon DEF SetCard
  <1>8. op'.at = "rotate master" /\ op'.card = op.card
    BY <1>1, GotoStep, "rotate master" # "idle", Zenon DEF Inv
  <1>9. OnCard'
    BY <1>1, <1>3, <1>6, <1>8, Zenon DEF Inv, OnCard, Ready
  <1> QED
    BY <1>6, <1>7, <1>9, Zenon DEF Inv

\* So is the master key.
LEMMA RotateMasterInv == Inv /\ RotateMaster => Inv'
  <1> SUFFICES ASSUME Inv, RotateMaster PROVE Inv'
    BY Zenon
  <1> DEFINE value == [card[op.card] EXCEPT !.master = op.key]
  <1>1. op.at = "rotate master" /\ op.card \in Cards /\ SetCard(value) /\ Goto("check")
    BY ProvisionOrder, Zenon DEF RotateMaster, Tapped, Inv, OpOK
  <1>2. card[op.card] \in CardState /\ op.factor \in Nat /\ op.key \in Nat
    BY <1>1, Zenon DEF Inv, DataOK, OpOK
  <1>3. /\ value \in CardState
        /\ value.read = card[op.card].read
        /\ value.write = card[op.card].write
        /\ value.master = op.key
        /\ value.factor = card[op.card].factor
    BY <1>2, Zenon DEF CardState
  <1> HIDE DEF value
  <1>4. /\ Holds(auth[op.card], value.read)
        /\ Holds(auth[op.card], value.write)
        /\ Holds(auth[op.card], value.master)
    <2>1. auth[op.card].file = "whole" /\ auth[op.card].key = op.key
      <3>1. auth[op.card] = Auth(op.key, FALSE)
        BY <1>1, Zenon DEF Inv, Stored, Saved
      <3> QED
        BY <3>1 DEF Auth
    <2> QED
      BY <1>1, <1>3, <2>1, Zenon DEF Inv, OnDisk, Holds
  <1>5. op.at \in Saved /\ "check" \in Saved
    BY <1>1, Zenon DEF Saved
  <1>6. card'[op.card] = value /\ DataOK' /\ OnDisk' /\ Unlocks' /\ Needed'
    BY <1>1, <1>3, <1>4, <1>5, SetCardData, Zenon
  <1>7. OpOK' /\ Making' /\ Stored' /\ Fresh'
    BY <1>1, <1>5, WithinPhase, Zenon DEF SetCard
  <1>8. op'.at = "check" /\ op'.card = op.card
    BY <1>1, GotoStep, "check" # "idle", Zenon DEF Inv
  <1>9. OnCard'
    BY <1>1, <1>3, <1>6, <1>8, Zenon DEF Inv, OnCard, Ready
  <1> QED
    BY <1>6, <1>7, <1>9, Zenon DEF Inv

\* The factor is wiped from a card that no wallet needs any more.
LEMMA WipeInv == Inv /\ Wipe => Inv'
  <1> SUFFICES ASSUME Inv, Wipe PROVE Inv'
    BY Zenon
  <1> DEFINE value == [card[op.card] EXCEPT !.factor = 0]
  <1>1. op.at = "wipe" /\ op.card \in Cards /\ SetCard(value) /\ Goto("restore read")
    BY ResetOrder, Zenon DEF Wipe, Tapped, Inv, OpOK
  <1>2. card[op.card] \in CardState /\ op.factor \in Nat /\ op.key \in Nat
    BY <1>1, Zenon DEF Inv, DataOK, OpOK
  <1>3. /\ value \in CardState
        /\ value.read = card[op.card].read
        /\ value.write = card[op.card].write
        /\ value.master = card[op.card].master
        /\ value.factor = 0
    BY <1>2, Zenon DEF CardState
  <1> HIDE DEF value
  <1>4. /\ Holds(auth[op.card], value.read)
        /\ Holds(auth[op.card], value.write)
        /\ Holds(auth[op.card], value.master)
    BY <1>1, <1>3, Zenon DEF Inv, OnDisk, Holds
  <1>5. op.at \in Resetting /\ "restore read" \in Resetting
    BY <1>1, Zenon DEF Resetting
  <1>6. card'[op.card] = value /\ DataOK' /\ OnDisk' /\ Unlocks' /\ Needed'
    BY <1>1, <1>3, <1>4, <1>5, SetCardData, Zenon
  <1>7. OpOK' /\ Making' /\ Stored' /\ Fresh'
    BY <1>1, <1>5, WithinPhase, Zenon DEF SetCard
  <1>8. op'.at = "restore read" /\ op'.card = op.card
    BY <1>1, GotoStep, "restore read" # "idle", Zenon DEF Inv
  <1>9. OnCard'
    BY <1>1, <1>3, <1>6, <1>8, Zenon DEF Inv, OnCard, Ready
  <1> QED
    BY <1>6, <1>7, <1>9, Zenon DEF Inv

\* The read key is the factory key again.
LEMMA RestoreReadInv == Inv /\ RestoreRead => Inv'
  <1> SUFFICES ASSUME Inv, RestoreRead PROVE Inv'
    BY Zenon
  <1> DEFINE value == [card[op.card] EXCEPT !.read = 0]
  <1>1. op.at = "restore read" /\ op.card \in Cards /\ SetCard(value) /\ Goto("restore write")
    BY ResetOrder, Zenon DEF RestoreRead, Tapped, Inv, OpOK
  <1>2. card[op.card] \in CardState /\ op.factor \in Nat /\ op.key \in Nat
    BY <1>1, Zenon DEF Inv, DataOK, OpOK
  <1>3. /\ value \in CardState
        /\ value.read = 0
        /\ value.write = card[op.card].write
        /\ value.master = card[op.card].master
        /\ value.factor = card[op.card].factor
    BY <1>2, Zenon DEF CardState
  <1> HIDE DEF value
  <1>4. /\ Holds(auth[op.card], value.read)
        /\ Holds(auth[op.card], value.write)
        /\ Holds(auth[op.card], value.master)
    BY <1>1, <1>3, Zenon DEF Inv, OnDisk, Holds
  <1>5. op.at \in Resetting /\ "restore write" \in Resetting
    BY <1>1, Zenon DEF Resetting
  <1>6. card'[op.card] = value /\ DataOK' /\ OnDisk' /\ Unlocks' /\ Needed'
    BY <1>1, <1>3, <1>4, <1>5, SetCardData, Zenon
  <1>7. OpOK' /\ Making' /\ Stored' /\ Fresh'
    BY <1>1, <1>5, WithinPhase, Zenon DEF SetCard
  <1>8. op'.at = "restore write" /\ op'.card = op.card
    BY <1>1, GotoStep, "restore write" # "idle", Zenon DEF Inv
  <1>9. OnCard'
    BY <1>1, <1>3, <1>6, <1>8, Zenon DEF Inv, OnCard, Ready
  <1> QED
    BY <1>6, <1>7, <1>9, Zenon DEF Inv

\* So is the write key.
LEMMA RestoreWriteInv == Inv /\ RestoreWrite => Inv'
  <1> SUFFICES ASSUME Inv, RestoreWrite PROVE Inv'
    BY Zenon
  <1> DEFINE value == [card[op.card] EXCEPT !.write = 0]
  <1>1. op.at = "restore write" /\ op.card \in Cards /\ SetCard(value) /\ Goto("restore master")
    BY ResetOrder, Zenon DEF RestoreWrite, Tapped, Inv, OpOK
  <1>2. card[op.card] \in CardState /\ op.factor \in Nat /\ op.key \in Nat
    BY <1>1, Zenon DEF Inv, DataOK, OpOK
  <1>3. /\ value \in CardState
        /\ value.read = card[op.card].read
        /\ value.write = 0
        /\ value.master = card[op.card].master
        /\ value.factor = card[op.card].factor
    BY <1>2, Zenon DEF CardState
  <1> HIDE DEF value
  <1>4. /\ Holds(auth[op.card], value.read)
        /\ Holds(auth[op.card], value.write)
        /\ Holds(auth[op.card], value.master)
    BY <1>1, <1>3, Zenon DEF Inv, OnDisk, Holds
  <1>5. op.at \in Resetting /\ "restore master" \in Resetting
    BY <1>1, Zenon DEF Resetting
  <1>6. card'[op.card] = value /\ DataOK' /\ OnDisk' /\ Unlocks' /\ Needed'
    BY <1>1, <1>3, <1>4, <1>5, SetCardData, Zenon
  <1>7. OpOK' /\ Making' /\ Stored' /\ Fresh'
    BY <1>1, <1>5, WithinPhase, Zenon DEF SetCard
  <1>8. op'.at = "restore master" /\ op'.card = op.card
    BY <1>1, GotoStep, "restore master" # "idle", Zenon DEF Inv
  <1>9. OnCard'
    BY <1>1, <1>3, <1>6, <1>8, Zenon DEF Inv, OnCard, Ready
  <1> QED
    BY <1>6, <1>7, <1>9, Zenon DEF Inv

\* So is the master key, the last.
LEMMA RestoreMasterInv == Inv /\ RestoreMaster => Inv'
  <1> SUFFICES ASSUME Inv, RestoreMaster PROVE Inv'
    BY Zenon
  <1> DEFINE value == [card[op.card] EXCEPT !.master = 0]
  <1>1. op.at = "restore master" /\ op.card \in Cards /\ SetCard(value) /\ Goto("remove")
    BY ResetOrder, Zenon DEF RestoreMaster, Tapped, Inv, OpOK
  <1>2. card[op.card] \in CardState /\ op.factor \in Nat /\ op.key \in Nat
    BY <1>1, Zenon DEF Inv, DataOK, OpOK
  <1>3. /\ value \in CardState
        /\ value.read = card[op.card].read
        /\ value.write = card[op.card].write
        /\ value.master = 0
        /\ value.factor = card[op.card].factor
    BY <1>2, Zenon DEF CardState
  <1> HIDE DEF value
  <1>4. /\ Holds(auth[op.card], value.read)
        /\ Holds(auth[op.card], value.write)
        /\ Holds(auth[op.card], value.master)
    BY <1>1, <1>3, Zenon DEF Inv, OnDisk, Holds
  <1>5. op.at \in Resetting /\ "remove" \in Resetting
    BY <1>1, Zenon DEF Resetting
  <1>6. card'[op.card] = value /\ DataOK' /\ OnDisk' /\ Unlocks' /\ Needed'
    BY <1>1, <1>3, <1>4, <1>5, SetCardData, Zenon
  <1>7. OpOK' /\ Making' /\ Stored' /\ Fresh'
    BY <1>1, <1>5, WithinPhase, Zenon DEF SetCard
  <1>8. op'.at = "remove" /\ op'.card = op.card
    BY <1>1, GotoStep, "remove" # "idle", Zenon DEF Inv
  <1>9. OnCard'
    BY <1>1, <1>3, <1>6, <1>8, Zenon DEF Inv, OnCard, Ready
  <1> QED
    BY <1>6, <1>7, <1>9, Zenon DEF Inv

\* Reading the factor back changes nothing.
LEMMA VerifyFactorInv == Inv /\ VerifyFactor => Inv'
  <1> SUFFICES ASSUME Inv, VerifyFactor PROVE Inv'
    BY Zenon
  <1>1. /\ op.at = "verify" /\ Goto("save")
        /\ UNCHANGED <<card, auth, wallet, draws, given>>
    BY ProvisionOrder, Zenon DEF VerifyFactor
  <1>2. OpOK' /\ Making' /\ Stored' /\ Fresh'
    BY <1>1, WithinPhase, Zenon DEF Unsaved
  <1>3. op'.at = "save"
    BY <1>1, GotoStep, "save" # "idle", Zenon DEF Inv
  <1>4. OnCard'
    BY <1>3, Zenon DEF OnCard, Ready
  <1>5. DataOK' /\ OnDisk' /\ Unlocks' /\ Needed'
    BY <1>1 DEF Inv, DataOK, OnDisk, Unlocks, Needed, MadeFor, Reads, Holds
  <1> QED
    BY <1>2, <1>4, <1>5, Zenon DEF Inv

\* A card that is ready holds the factor behind the key on disk.
LEMMA CheckUnlockInv == Inv /\ CheckUnlock => Inv'
  <1> SUFFICES ASSUME Inv, CheckUnlock PROVE Inv'
    BY Zenon
  <1>1. /\ op.at = "check" /\ op.ending \in Ready /\ op.ending # "idle"
    BY Zenon DEF CheckUnlock, Inv, Making, Saved, Ready
  <1>2. /\ Goto(op.ending)
        /\ card[op.card].read = op.key /\ card[op.card].factor = op.factor
        /\ UNCHANGED <<card, auth, wallet, draws, given>>
    BY <1>1, CommitOrder, Zenon DEF CheckUnlock, Tapped
  <1>3. /\ op'.at = op.ending
        /\ op'.card = op.card /\ op'.wallet = op.wallet /\ op'.factor = op.factor
        /\ op'.key = op.key /\ op'.ending = op.ending
    BY <1>1, <1>2, GotoStep, Zenon DEF Inv
  <1>4. OpOK'
    BY <1>1, <1>2, GotoType, Zenon DEF Inv
  <1>5. Making'
    BY <1>1, <1>2, <1>3, Zenon DEF Inv, Making, Saved, Wallet
  <1>6. Stored' /\ OnCard' /\ Fresh'
    BY <1>1, <1>2, <1>3, Zenon
       DEF Inv, Stored, OnCard, Fresh, MadeFor, Auth, Unsaved, Saved, Ready, Resetting
  <1>7. DataOK' /\ OnDisk' /\ Unlocks' /\ Needed'
    BY <1>2 DEF Inv, DataOK, OnDisk, Unlocks, Needed, MadeFor, Reads, Holds
  <1> QED
    BY <1>4, <1>5, <1>6, <1>7, Zenon DEF Inv

\* The keys are on disk before the first one is changed: the card has factory keys.
LEMMA SaveAuthInv == ASSUME NEW whole \in BOOLEAN PROVE Inv /\ SaveAuth(whole) => Inv'
  <1> SUFFICES ASSUME Inv, SaveAuth(whole) PROVE Inv'
    BY Zenon
  <1> USE DEF Inv, Unsaved, Saved, Ready, Resetting, MadeFor
  <1>1. /\ op.at = "save" /\ op.card \in Cards
        /\ auth[op.card] = NoAuth
        /\ auth'[op.card] = IF whole THEN Auth(op.key, FALSE) ELSE TornAuth
        /\ \A c \in Cards : c # op.card => auth'[c] = auth[c]
        /\ UNCHANGED <<card, wallet, draws, given>>
    BY Zenon DEF SaveAuth, OpOK, DataOK
  <1>2. \/ op' = Idle /\ ~whole
        \/ /\ op'.at = "rotate read" /\ op'.card = op.card /\ op'.wallet = op.wallet
           /\ op'.factor = op.factor /\ op'.key = op.key /\ op'.ending = op.ending
           /\ whole
    <2>1. CASE whole
      BY <2>1, ProvisionOrder, GotoStep, "rotate read" # "idle", Zenon DEF SaveAuth
    <2>2. CASE ~whole
      BY <2>2, Zenon DEF SaveAuth, Goto
    <2> QED
      BY <2>1, <2>2, Zenon
  <1>3. DataOK' /\ OpOK'
    <2>1. op.key \in Nat
      BY Zenon DEF OpOK
    <2>2. DataOK'
      BY <1>1, <2>1, Zenon DEF SaveAuth, DataOK, Auth, TornAuth, File
    <2>3. Goto("rotate read") \/ Goto("idle")
      BY ProvisionOrder, Zenon DEF SaveAuth
    <2> QED
      BY <1>1, <2>2, <2>3, GotoType, Zenon
  <1>4. Making' /\ Stored' /\ OnCard' /\ Fresh'
    <2>1. CASE op' = Idle
      BY <2>1, IdleStep, Zenon
    <2>2. CASE op' # Idle
      BY <1>1, <1>2, <2>2, Zenon DEF Making, Stored, OnCard, Fresh, Wallet, Auth
    <2> QED
      BY <2>1, <2>2, Zenon
  <1>5. OnDisk'
    BY <1>1 DEF OnDisk, Holds, NoAuth
  <1>6. Unlocks'
    BY <1>1 DEF Unlocks, Fresh, Reads
  <1>7. Needed'
    BY <1>1 DEF Needed, Auth, TornAuth
  <1> QED
    BY <1>3, <1>4, <1>5, <1>6, <1>7, Zenon

\* The wallet file is new, so it was no other card's, and needs the factor on the card.
LEMMA WriteWalletInv == ASSUME NEW whole \in BOOLEAN PROVE Inv /\ WriteWallet(whole) => Inv'
  <1> SUFFICES ASSUME Inv, WriteWallet(whole) PROVE Inv'
    BY Zenon
  <1> USE DEF Inv, Unsaved, Saved, Ready, Resetting, MadeFor
  <1>1. /\ op.at = "wallet" /\ op.card \in Cards
        /\ op.wallet \in Wallets /\ op.ending = "wallet"
        /\ wallet[op.wallet] = NoWallet
        /\ wallet'[op.wallet] = IF whole THEN Wallet(op.factor) ELSE TornWallet
        /\ \A w \in Wallets : w # op.wallet => wallet'[w] = wallet[w]
        /\ given' = IF whole THEN given \cup {<<op.card, op.wallet>>} ELSE given
        /\ UNCHANGED <<card, auth, draws>>
    BY Zenon DEF WriteWallet, OpOK, DataOK, Making
  <1>2. \/ op' = Idle
        \/ /\ op'.at = "seal" /\ op'.card = op.card /\ op'.wallet = op.wallet
           /\ op'.factor = op.factor /\ op'.key = op.key /\ op'.ending = op.ending
           /\ whole
    <2>1. Goto("idle") \/ (Goto("seal") /\ whole)
      BY <1>1, CommitOrder, Zenon DEF WriteWallet
    <2> QED
      BY <2>1, GotoStep, "seal" # "idle", Zenon DEF Goto
  <1>3. DataOK' /\ OpOK'
    <2>1. op.factor \in Nat
      BY Zenon DEF OpOK
    <2>2. DataOK'
      BY <1>1, <2>1 DEF WriteWallet, DataOK, Wallet, TornWallet, File
    <2>3. Goto("seal") \/ Goto("idle")
      BY <1>1, CommitOrder, Zenon DEF WriteWallet
    <2> QED
      BY <1>1, <2>2, <2>3, GotoType, Zenon
  <1>4. Making' /\ Stored' /\ OnCard' /\ Fresh'
    <2>1. CASE op' = Idle
      BY <2>1, IdleStep, Zenon
    <2>2. CASE op' # Idle
      BY <1>1, <1>2, <2>2, Zenon DEF Making, Stored, OnCard, Fresh, Auth
    <2> QED
      BY <2>1, <2>2, Zenon
  <1>5. OnDisk'
    BY <1>1, Zenon DEF OnDisk, Holds
  <1>6. Unlocks'
    <2> SUFFICES ASSUME NEW c \in Cards, NEW w \in Wallets, MadeFor(c, w)'
                 PROVE  (wallet[w].file = "whole" /\ Reads(c, wallet[w].factor))'
      BY Zenon DEF Unlocks
    <2>1. CASE MadeFor(c, w)
      <3>1. w # op.wallet
        BY <1>1, <2>1 DEF Unlocks, NoWallet
      <3> QED
        BY <1>1, <2>1, <3>1 DEF Unlocks, Reads
    <2>2. CASE ~MadeFor(c, w)
      <3>1. whole /\ c = op.card /\ w = op.wallet
        BY <1>1, <2>2, Zenon
      <3> QED
        BY <1>1, <3>1 DEF Reads, Wallet, Stored, OnCard, Making, Auth
    <2> QED
      BY <2>1, <2>2, Zenon
  <1>7. Needed'
    BY <1>1, Zenon DEF Needed
  <1> QED
    BY <1>3, <1>4, <1>5, <1>6, <1>7, Zenon

\* A duplicate holds the factor of the wallet it is made for.
LEMMA HandOverInv == Inv /\ HandOver => Inv'
  <1> SUFFICES ASSUME Inv, HandOver PROVE Inv'
    BY Zenon
  <1> USE DEF Inv, Unsaved, Saved, Ready, Resetting, MadeFor
  <1>1. /\ op.at = "hand over" /\ op.card \in Cards
        /\ op.wallet \in Wallets /\ op.ending = "hand over"
        /\ wallet[op.wallet] = Wallet(op.factor)
        /\ given' = given \cup {<<op.card, op.wallet>>}
        /\ UNCHANGED <<card, auth, wallet, draws>>
    BY Zenon DEF HandOver, OpOK, Making
  <1>2. \/ op' = Idle
        \/ /\ op'.at = "seal" /\ op'.card = op.card /\ op'.wallet = op.wallet
           /\ op'.factor = op.factor /\ op'.key = op.key /\ op'.ending = op.ending
    <2>1. Goto("idle") \/ Goto("seal")
      BY <1>1, CommitOrder, Zenon DEF HandOver
    <2> QED
      BY <2>1, GotoStep, "seal" # "idle", Zenon DEF Goto
  <1>3. DataOK' /\ OpOK'
    <2>1. given' \subseteq Cards \X Wallets
      <3>1. <<op.card, op.wallet>> \in Cards \X Wallets /\ given \subseteq Cards \X Wallets
        BY <1>1, Zenon DEF DataOK
      <3> QED
        BY <1>1, <3>1, Zenon
    <2>2. DataOK'
      BY <1>1, <2>1, Zenon DEF DataOK
    <2>3. Goto("seal") \/ Goto("idle")
      BY <1>1, CommitOrder, Zenon DEF HandOver
    <2> QED
      BY <1>1, <2>2, <2>3, GotoType, Zenon
  <1>4. Making' /\ Stored' /\ OnCard' /\ Fresh'
    <2>1. CASE op' = Idle
      BY <2>1, IdleStep, Zenon
    <2>2. CASE op' # Idle
      BY <1>1, <1>2, <2>2, Zenon DEF Making, Stored, OnCard, Fresh, Auth, Wallet
    <2> QED
      BY <2>1, <2>2, Zenon
  <1>5. OnDisk'
    BY <1>1, Zenon DEF OnDisk, Holds
  <1>6. /\ auth[op.card].file = "whole" /\ auth[op.card].key = op.key
        /\ card[op.card].read = op.key /\ card[op.card].factor = op.factor
        /\ op.factor # 0
        /\ wallet[op.wallet].file = "whole" /\ wallet[op.wallet].factor = op.factor
    <2>1. auth[op.card] = Auth(op.key, FALSE) /\ wallet[op.wallet] = Wallet(op.factor)
      BY <1>1, Zenon DEF Stored
    <2>2. /\ auth[op.card].file = "whole" /\ auth[op.card].key = op.key
          /\ wallet[op.wallet].file = "whole" /\ wallet[op.wallet].factor = op.factor
      BY <2>1 DEF Auth, Wallet
    <2> QED
      BY <1>1, <2>2, Zenon DEF OnCard, Making
  <1>7. Unlocks'
    <2> SUFFICES ASSUME NEW c \in Cards, NEW w \in Wallets, MadeFor(c, w)'
                 PROVE  (wallet[w].file = "whole" /\ Reads(c, wallet[w].factor))'
      BY Zenon DEF Unlocks
    <2>1. CASE MadeFor(c, w)
      BY <1>1, <2>1, Zenon DEF Unlocks, Reads
    <2>2. CASE ~MadeFor(c, w)
      <3>1. c = op.card /\ w = op.wallet
        BY <1>1, <2>2, Zenon
      <3> QED
        BY <1>1, <1>6, <3>1, Zenon DEF Reads
    <2> QED
      BY <2>1, <2>2, Zenon
  <1>8. Needed'
    BY <1>1, Zenon DEF Needed
  <1> QED
    BY <1>3, <1>4, <1>5, <1>7, <1>8, Zenon

\* A card is sealed after it is made for a wallet.
LEMMA SealInv == Inv /\ Seal => Inv'
  <1> SUFFICES ASSUME Inv, Seal PROVE Inv'
    BY Zenon
  <1> USE DEF Inv, Unsaved, Saved, Ready, Resetting, MadeFor
  <1>1. /\ op.at = "seal" /\ op.card \in Cards /\ op.wallet \in Wallets
        /\ auth[op.card] = Auth(op.key, FALSE)
        /\ auth'[op.card] = Auth(auth[op.card].key, TRUE)
        /\ \A c \in Cards : c # op.card => auth'[c] = auth[c]
        /\ UNCHANGED <<card, wallet, draws, given>>
    BY Zenon DEF Seal, Key, OpOK, DataOK, Making, Stored
  <1>2. op' = Idle
    BY <1>1, CommitOrder, Zenon DEF Seal, Goto, Making
  <1>3. DataOK' /\ OpOK'
    <2>1. auth' \in [Cards -> [file : File, key : Nat, permanent : BOOLEAN]]
      BY <1>1, Zenon DEF Seal, Key, DataOK, Auth, File
    <2> QED
      BY <1>1, <1>2, <2>1, Zenon DEF DataOK, OpOK, Idle, Op
  <1>4. Making' /\ Stored' /\ OnCard' /\ Fresh'
    BY <1>2, IdleStep, Zenon
  <1>5. OnDisk'
    BY <1>1 DEF OnDisk, Holds, Auth
  <1>6. Unlocks'
    BY <1>1 DEF Unlocks, Reads, Auth
  <1>7. Needed'
    BY <1>1, Zenon DEF Needed, Fresh
  <1> QED
    BY <1>3, <1>4, <1>5, <1>6, <1>7, Zenon

\* The auth file goes when the card has its factory keys.
LEMMA RemoveAuthInv == Inv /\ RemoveAuth => Inv'
  <1> SUFFICES ASSUME Inv, RemoveAuth PROVE Inv'
    BY Zenon
  <1> USE DEF Inv, Unsaved, Saved, Ready, Resetting, MadeFor
  <1>1. /\ op.at = "remove" /\ op.card \in Cards
        /\ auth'[op.card] = NoAuth
        /\ \A c \in Cards : c # op.card => auth'[c] = auth[c]
        /\ UNCHANGED <<card, wallet, draws, given>>
    BY Zenon DEF RemoveAuth, OpOK, DataOK
  <1>2. op' = Idle
    BY ResetOrder, Zenon DEF RemoveAuth, Goto
  <1>3. DataOK' /\ OpOK'
    BY <1>1, <1>2, Zenon DEF RemoveAuth, DataOK, OpOK, Idle, Op, NoAuth, File
  <1>4. Making' /\ Stored' /\ OnCard' /\ Fresh'
    BY <1>2, IdleStep, Zenon
  <1>5. OnDisk'
    BY <1>1 DEF OnDisk, Holds, OnCard
  <1>6. Unlocks'
    BY <1>1 DEF Unlocks, Reads, Fresh
  <1>7. Needed'
    BY <1>1 DEF Needed, NoAuth
  <1> QED
    BY <1>3, <1>4, <1>5, <1>6, <1>7, Zenon

\* A new wallet's card: its auth file must not exist.
LEMMA NewCardInv ==
  ASSUME NEW c \in Cards, NEW w \in Wallets, NEW seal \in BOOLEAN
  PROVE  Inv /\ cmd_new_card(c, w, seal) => Inv'
  <1> SUFFICES ASSUME Inv, cmd_new_card(c, w, seal) PROVE Inv'
    BY Zenon
  <1> USE DEF Inv, Unsaved, Saved, Ready, Resetting, MadeFor
  <1>1. /\ auth[c] = NoAuth /\ wallet[w] = NoWallet
        /\ draws' \in Nat /\ draws' # 0
        /\ UNCHANGED <<card, auth, wallet, given>>
    BY DEF cmd_new_card, DataOK
  <1>2. /\ op'.at = "write" /\ op'.card = c /\ op'.wallet = w /\ op'.factor = draws'
        /\ op'.key = draws' /\ op'.ending = "wallet"
    BY Zenon DEF cmd_new_card, Op
  <1>3. DataOK' /\ OpOK'
    BY <1>1, Zenon DEF cmd_new_card, DataOK, OpOK, Op
  <1>4. Making' /\ Stored' /\ OnCard'
    BY <1>1, <1>2, Zenon DEF Making, Stored, OnCard
  <1>5. Fresh'
    <2>1. \A v \in Wallets : ~MadeFor(c, v)
      BY <1>1 DEF Unlocks, Reads, NoAuth
    <2> QED
      BY <1>1, <1>2, <2>1, Zenon DEF Fresh
  <1>6. OnDisk' /\ Unlocks' /\ Needed'
    BY <1>1 DEF OnDisk, Holds, Unlocks, Reads, Needed
  <1> QED
    BY <1>3, <1>4, <1>5, <1>6, Zenon

\* A duplicate: the first card's factor is the wallet's.
LEMMA BackupInv ==
  ASSUME NEW old \in Cards, NEW c \in Cards, NEW w \in Wallets, NEW seal \in BOOLEAN
  PROVE  Inv /\ cmd_card_backup(old, c, w, seal) => Inv'
  <1> SUFFICES ASSUME Inv, cmd_card_backup(old, c, w, seal) PROVE Inv'
    BY Zenon
  <1> USE DEF Inv, Unsaved, Saved, Ready, Resetting, MadeFor
  <1>1. /\ auth[c] = NoAuth
        /\ draws' \in Nat /\ draws' # 0
        /\ UNCHANGED <<card, auth, wallet, given>>
    <2>1. draws \in Nat
      BY Zenon DEF DataOK
    <2>2. draws' = draws + 1
      BY Zenon DEF cmd_card_backup
    <2>3. auth[c] = NoAuth /\ UNCHANGED <<card, auth, wallet, given>>
      BY Zenon DEF cmd_card_backup
    <2> QED
      BY <2>1, <2>2, <2>3
  <1>2. /\ wallet[w] = Wallet(card[old].factor)
        /\ card[old].factor \in Nat /\ card[old].factor # 0
    <2>1. /\ wallet[w].file = "whole" /\ wallet[w].factor = card[old].factor
          /\ card[old].factor # 0
      BY Zenon DEF cmd_card_backup, BackupFrom, Reads
    <2>2. wallet[w] \in [file : File, factor : Nat] /\ card[old] \in CardState
      BY Zenon DEF DataOK
    <2> QED
      BY <2>1, <2>2, Zenon DEF Wallet, CardState
  <1>3. /\ op'.at = "write" /\ op'.card = c /\ op'.wallet = w
        /\ op'.factor = card[old].factor /\ op'.key = draws' /\ op'.ending = "hand over"
    BY Zenon DEF cmd_card_backup, Op
  <1>4. DataOK' /\ OpOK'
    BY <1>1, <1>2, Zenon DEF cmd_card_backup, DataOK, OpOK, Op
  <1>5. Making' /\ Stored' /\ OnCard'
    BY <1>1, <1>2, <1>3, Zenon DEF Making, Stored, OnCard, Wallet
  <1>6. Fresh'
    <2>1. \A v \in Wallets : ~MadeFor(c, v)
      BY <1>1 DEF Unlocks, Reads, NoAuth
    <2> QED
      BY <1>1, <1>3, <2>1, Zenon DEF Fresh
  <1>7. OnDisk' /\ Unlocks' /\ Needed'
    BY <1>1 DEF OnDisk, Holds, Unlocks, Reads, Needed
  <1> QED
    BY <1>4, <1>5, <1>6, <1>7, Zenon

\* A reset: the card is no longer counted among those that unlock a wallet, and it is
\* not sealed.
LEMMA ResetInv == ASSUME NEW c \in Cards PROVE Inv /\ cmd_card_reset(c) => Inv'
  <1> SUFFICES ASSUME Inv, cmd_card_reset(c) PROVE Inv'
    BY Zenon
  <1> USE DEF Inv, Unsaved, Saved, Ready, Resetting, MadeFor
  <1>1. /\ auth[c].file = "whole" /\ ~auth[c].permanent
        /\ UNCHANGED <<card, auth, wallet, draws>>
    BY Zenon DEF cmd_card_reset
  <1>2. \A d \in Cards, w \in Wallets : <<d, w>> \in given' <=> d # c /\ <<d, w>> \in given
    BY Zenon DEF cmd_card_reset
  <1>3. op'.at = "wipe" /\ op'.card = c
    BY Zenon DEF cmd_card_reset, Idle, Op
  <1>4. DataOK' /\ OpOK'
    BY <1>1, ZenonT(30) DEF cmd_card_reset, DataOK, OpOK, Idle, Op
  <1>5. Making' /\ Stored' /\ OnCard' /\ Fresh'
    BY <1>1, <1>2, <1>3, Zenon DEF Making, Stored, OnCard, Fresh
  <1>6. OnDisk' /\ Unlocks'
    BY <1>1, <1>2 DEF OnDisk, Holds, Unlocks, Reads
  <1>7. Needed'
    BY <1>1, <1>2, Zenon DEF Needed
  <1> QED
    BY <1>4, <1>5, <1>6, <1>7, Zenon

\* A command may end after any step.
LEMMA AbortInv == Inv /\ Abort => Inv'
  <1> SUFFICES ASSUME Inv, Abort PROVE Inv'
    BY Zenon
  <1>1. op' = Idle /\ UNCHANGED <<card, auth, wallet, draws, given>>
    BY Zenon DEF Abort
  <1>2. DataOK' /\ OpOK'
    BY <1>1, Zenon DEF Inv, DataOK, OpOK, Idle, Op
  <1>3. OnDisk' /\ Unlocks' /\ Needed'
    BY <1>1 DEF Inv, OnDisk, Holds, Unlocks, Reads, Needed, MadeFor
  <1> QED
    BY <1>1, <1>2, <1>3, IdleStep, Zenon DEF Inv

\* So does a step of any kind.
LEMMA NextInv == Inv /\ [Next]_vars => Inv'
  <1> SUFFICES ASSUME Inv, [Next]_vars PROVE Inv'
    BY Zenon
  <1>1. CASE UNCHANGED vars
    <2>1. UNCHANGED <<card, auth, wallet, op, draws, given>>
      BY <1>1, Zenon DEF vars
    <2>2. DataOK' /\ OpOK'
      BY <2>1, Zenon DEF Inv, DataOK, OpOK
    <2>3. Making' /\ Stored' /\ OnCard' /\ Fresh'
      BY <2>1, ZenonT(30) DEF Inv, Making, Stored, OnCard, Fresh, MadeFor
    <2>4. OnDisk' /\ Unlocks' /\ Needed'
      BY <2>1 DEF Inv, OnDisk, Holds, Unlocks, Reads, Needed, MadeFor
    <2> QED
      BY <2>2, <2>3, <2>4, Zenon DEF Inv
  <1>2. CASE Next
    BY <1>2, NewCardInv, BackupInv, ResetInv, WriteFactorInv, VerifyFactorInv, SaveAuthInv,
       RotateReadInv, RotateWriteInv, RotateMasterInv, CheckUnlockInv, WriteWalletInv,
       HandOverInv, SealInv, WipeInv, RestoreReadInv, RestoreWriteInv, RestoreMasterInv,
       RemoveAuthInv, AbortInv, Zenon DEF Next
  <1> QED
    BY <1>1, <1>2, Zenon

\* The invariant holds of every state.
LEMMA Invariance == Spec => []Inv
  BY InitInv, NextInv, PTL DEF Spec

-----------------------------------------------------------------------------
(* The results.                                                            *)

\* Wherever provisioning, sealing or a reset ends, each key on a card is the factory
\* key or in the card's auth file.
THEOREM NeverBricked == Spec => []KeysOnDisk
  <1>1. Inv => KeysOnDisk
    BY DEF Inv, OnDisk, Holds, KeysOnDisk
  <1> QED
    BY <1>1, Invariance, PTL

\* A card made for a wallet by new --card or card-backup unlocks it until its reset
\* begins.
THEOREM MadeCardsUnlock == Spec => []GivenUnlocks
  <1>1. Inv => GivenUnlocks
    <2> SUFFICES ASSUME Inv, NEW p \in given
                 PROVE  wallet[p[2]].file = "whole" /\ Reads(p[1], wallet[p[2]].factor)
      BY Zenon DEF GivenUnlocks
    <2>1. p[1] \in Cards /\ p[2] \in Wallets /\ p = <<p[1], p[2]>>
      BY DEF Inv, DataOK
    <2> QED
      BY <2>1, Zenon DEF Inv, Unlocks, MadeFor
  <1> QED
    BY <1>1, Invariance, PTL

\* make_permanent only ever seals a card that a wallet file needs.
THEOREM SealedCardsNeeded == Spec => []SealedIsNeeded
  <1>1. Inv => SealedIsNeeded
    BY Zenon DEF Inv, Needed, SealedIsNeeded, MadeFor
  <1> QED
    BY <1>1, Invariance, PTL

-----------------------------------------------------------------------------
(* Amounts, for every amount, rate, cap, schedule and table.                *)

\* CeilDiv is the least integer whose product with the divisor reaches n.
LEMMA Ceiling ==
  ASSUME NEW n \in Int, NEW d \in Nat \ {0}
  PROVE  /\ CeilDiv(n, d) \in Int
         /\ n <= CeilDiv(n, d) * d
         /\ CeilDiv(n, d) * d < n + d
<1> DEFINE m == n + d - 1
<1>1. m \in Int
  OBVIOUS
<1>2. m \div d \in Int /\ (m \div d) * d <= m /\ m < (m \div d) * d + d
  BY <1>1, Z3, Zenon
<1>3. QED
  BY <1>2 DEF CeilDiv

\* A number whose product with the divisor reaches n is no less than the ceiling.
LEMMA CeilingLeast ==
  ASSUME NEW n \in Int, NEW d \in Nat \ {0}, NEW q \in Int, n <= q * d
  PROVE  CeilDiv(n, d) <= q
<1> DEFINE c == CeilDiv(n, d)
<1>1. c \in Int /\ n <= c * d /\ c * d < n + d
  BY Ceiling, Zenon
<1> HIDE DEF c
<1>2. SUFFICES ASSUME q < c PROVE FALSE
  BY <1>1 DEF c
<1>3. q * d + d <= c * d
  BY <1>1, <1>2, Z3, Zenon
<1>4. q * d \in Int /\ c * d \in Int
  BY <1>1, Z3, Zenon
<1>5. QED
  BY <1>1, <1>3, <1>4

\* And only such a number is.
LEMMA CeilingUnique ==
  ASSUME NEW n \in Int, NEW d \in Nat \ {0}, NEW q \in Int, n <= q * d, q * d < n + d
  PROVE  CeilDiv(n, d) = q
<1> DEFINE c == CeilDiv(n, d)
<1>1. c \in Int /\ n <= c * d /\ c * d < n + d /\ c <= q
  BY Ceiling, CeilingLeast, Zenon
<1> HIDE DEF c
<1>2. SUFFICES ASSUME c < q PROVE FALSE
  BY <1>1 DEF c
<1>3. c * d + d <= q * d
  BY <1>1, <1>2, Z3, Zenon
<1>4. q * d \in Int /\ c * d \in Int
  BY <1>1, Z3, Zenon
<1>5. QED
  BY <1>1, <1>3, <1>4

\* Splitting the value at the divisor gives the ceiling of the whole product.
LEMMA SplitCeiling ==
  ASSUME NEW v \in Nat, NEW b \in Nat, NEW d \in Nat \ {0}
  PROVE  SplitCeilDiv(v, b, d) = CeilDiv(v * b, d)
<1> DEFINE a == v \div d
           r == v % d
           c == CeilDiv(r * b, d)
<1>1. a \in Int /\ r \in Int /\ v = a * d + r
  BY Z3, Zenon
<1> HIDE DEF a, r
<1>2. r * b \in Int /\ a * b \in Int /\ v * b \in Int
  BY <1>1, Z3, Zenon
<1>3. c \in Int /\ r * b <= c * d /\ c * d < r * b + d
  BY <1>2, Ceiling, Zenon
<1> HIDE DEF c
<1>4. v * b = (a * b) * d + r * b
  BY <1>1, Z3, Zenon
<1>5. (a * b + c) * d = (a * b) * d + c * d
  BY <1>1, <1>2, <1>3, Z3, Zenon
<1>6. (a * b) * d \in Int /\ c * d \in Int
  BY <1>2, <1>3, Z3, Zenon
<1>7. v * b <= (a * b + c) * d /\ (a * b + c) * d < v * b + d
  BY <1>2, <1>3, <1>4, <1>5, <1>6
<1>8. CeilDiv(v * b, d) = a * b + c
  BY <1>2, <1>3, <1>7, CeilingUnique
<1>9. QED
  BY <1>8, Zenon DEF SplitCeilDiv, a, r, c

-----------------------------------------------------------------------------
(* The levy.                                                               *)

\* The numbers of a row are natural.
LEMMA RuleTypes ==
  ASSUME NEW rule \in Rules
  PROVE  rule.bp \in Nat /\ rule.capSat \in Nat /\ rule.startHeight \in Nat
<1>1. rule.bp \in 0..LevyDenominator /\ rule.capSat \in Nat /\ rule.startHeight \in Nat
  BY Zenon DEF Rules
<1>2. LevyDenominator \in Nat
  BY DEF LevyDenominator
<1>3. QED
  BY <1>1, <1>2

\* The overflow-free arithmetic of SettlementLevyUncapped and of
\* SettlementLevyFromInputs is a plain ceiling: of value * bp / 10000, and of
\* value * bp / (10000 + bp), up to the cap.
THEOREM LevyIsCeiling ==
  ASSUME NEW value \in Nat, NEW rule \in Rules
  PROVE  /\ SettlementLevy(value, rule) = AtMost(CeilDiv(value * rule.bp, 10000), rule.capSat)
         /\ SettlementLevyFromInputs(value, rule)
              = AtMost(CeilDiv(value * rule.bp, 10000 + rule.bp), rule.capSat)
<1>1. rule.bp \in Nat /\ rule.capSat \in Nat
  BY RuleTypes
<1> DEFINE b == rule.bp
<1>2. b \in Nat /\ 10000 \in Nat \ {0} /\ 10000 + b \in Nat \ {0}
  BY <1>1
<1>3. CASE b > 0 /\ value > 0
  <2>1. SettlementLevyUncapped(value, b) = CeilDiv(value * b, 10000)
    <3>1. ~(b <= 0 \/ value <= 0)
      BY <1>2, <1>3
    <3>2. QED
      BY <1>2, <3>1, SplitCeiling DEF SettlementLevyUncapped, LevyDenominator
  <2>2. SettlementLevyFromInputs(value, rule) = AtMost(CeilDiv(value * b, 10000 + b), rule.capSat)
    <3>1. ~(b <= 0 \/ value <= 0)
      BY <1>2, <1>3
    <3>2. SplitCeilDiv(value, b, 10000 + b) = CeilDiv(value * b, 10000 + b)
      BY <1>2, SplitCeiling
    <3>3. QED
      BY <3>1, <3>2 DEF SettlementLevyFromInputs, LevyDenominator
  <2>3. QED
    BY <2>1, <2>2 DEF SettlementLevy
<1>4. CASE ~(b > 0 /\ value > 0)
  <2>1. value * b = 0
    BY <1>2, <1>4, Z3
  <2>2. CeilDiv(value * b, 10000) = 0 /\ CeilDiv(value * b, 10000 + b) = 0
    <3>1. \A d \in Nat \ {0} : 0 <= 0 * d /\ 0 * d < 0 + d
      OBVIOUS
    <3>2. QED
      BY <1>2, <2>1, <3>1, CeilingUnique
  <2>3. SettlementLevyUncapped(value, b) = 0 /\ SettlementLevyFromInputs(value, rule) = 0
    BY <1>2, <1>4 DEF SettlementLevyUncapped, SettlementLevyFromInputs
  <2>4. QED
    BY <1>1, <2>2, <2>3 DEF SettlementLevy, AtMost
<1>5. QED
  BY <1>3, <1>4

\* The levy is an amount, at most the cap, and reached by a fee f exactly when f is
\* the cap or more, or f * 10000 is at least value * bp.
LEMMA LevyReached ==
  ASSUME NEW value \in Int, NEW rule \in Rules, NEW f \in Nat
  PROVE  /\ SettlementLevy(value, rule) \in Nat
         /\ SettlementLevy(value, rule) <= rule.capSat
         /\ value <= 0 => SettlementLevy(value, rule) = 0
         /\ value > 0 =>
              (f >= SettlementLevy(value, rule) <=> (f >= rule.capSat \/ value * rule.bp <= f * 10000))
<1>1. rule.bp \in Nat /\ rule.capSat \in Nat
  BY RuleTypes
<1>2. CASE value <= 0
  <2>1. SettlementLevy(value, rule) = 0
    BY <1>1, <1>2 DEF SettlementLevy, SettlementLevyUncapped, AtMost
  <2>2. QED
    BY <1>1, <1>2, <2>1
<1>3. CASE value > 0
  <2> DEFINE n == value * rule.bp
             c == CeilDiv(n, 10000)
  <2>1. n \in Int /\ n >= 0
    BY <1>1, <1>3, Z3
  <2> HIDE DEF n
  <2>2. c \in Int /\ n <= c * 10000 /\ c * 10000 < n + 10000
    BY <2>1, Ceiling
  <2>3. SettlementLevy(value, rule) = AtMost(c, rule.capSat)
    BY <1>3, LevyIsCeiling DEF n
  <2> HIDE DEF c
  <2>4. c >= 0
    BY <2>1, <2>2
  <2>5. f >= c <=> n <= f * 10000
    BY <2>1, <2>2
  <2>6. QED
    BY <1>1, <1>3, <2>2, <2>3, <2>4, <2>5 DEF AtMost, n
<1>4. QED
  BY <1>2, <1>3

\* A product grows with its factors.
LEMMA ProductMonotone ==
  ASSUME NEW a \in Int, NEW b \in Int, NEW c \in Nat, a <= b
  PROVE  a * c <= b * c /\ a * c \in Int /\ b * c \in Int
BY Z3, Zenon

\* The levy grows with the value and with the row: a fee that is enough is enough
\* for less value and under a row with a lower rate and cap.
LEMMA LevyMonotone ==
  ASSUME NEW v \in Int, NEW w \in Int, v <= w, NEW r \in Rules, NEW s \in Rules,
         r.bp <= s.bp, r.capSat <= s.capSat
  PROVE  SettlementLevy(v, r) <= SettlementLevy(w, s)
<1> DEFINE f == SettlementLevy(w, s)
<1>1. r.bp \in Nat /\ s.bp \in Nat /\ r.capSat \in Nat /\ s.capSat \in Nat
  BY RuleTypes
<1>2. f \in Nat /\ (w > 0 => (f >= s.capSat \/ w * s.bp <= f * 10000))
  BY LevyReached
<1> HIDE DEF f
<1>3. CASE v <= 0
  BY <1>1, <1>2, <1>3, LevyReached DEF f
<1>4. CASE v > 0
  <2>1. v * r.bp <= w * s.bp
    <3>1. v * r.bp <= w * r.bp /\ v * r.bp \in Int /\ w * r.bp \in Int
      BY <1>1, ProductMonotone, Zenon
    <3>2. r.bp * w <= s.bp * w /\ w \in Nat
      BY <1>1, <1>4, ProductMonotone
    <3>3. r.bp * w = w * r.bp /\ s.bp * w = w * s.bp /\ w * s.bp \in Int
      BY <1>1, Z3, Zenon
    <3>4. QED
      BY <3>1, <3>2, <3>3
  <2>2. v * r.bp \in Int /\ w * s.bp \in Int
    BY <1>1, Z3, Zenon
  <2>3. f >= r.capSat \/ v * r.bp <= f * 10000
    BY <1>1, <1>2, <1>4, <2>1, <2>2
  <2>4. f >= SettlementLevy(v, r)
    BY <1>2, <1>4, <2>3, LevyReached
  <2>5. QED
    BY <1>2, <2>4, LevyReached DEF f
<1>5. QED
  BY <1>3, <1>4

\* SettlementLevyFromInputs is what a spender has to pay who sends the rest of its
\* inputs to outputs: it reaches the levy on the rest, and no smaller fee does.
THEOREM FromInputsIsLeast ==
  ASSUME NEW value \in Nat, NEW rule \in Rules
  PROVE  LET fee == SettlementLevyFromInputs(value, rule)
         IN  /\ fee \in Nat
             /\ CheckSettlementLevy(value - fee, fee, rule)
             /\ \A f \in 0..value : CheckSettlementLevy(value - f, f, rule) => fee <= f
<1>1. rule.bp \in Nat /\ rule.capSat \in Nat
  BY RuleTypes, Zenon
<1> DEFINE b == rule.bp
           d == 10000 + b
           u == CeilDiv(value * b, d)
           fee == SettlementLevyFromInputs(value, rule)
<1>2. b \in Nat /\ d \in Nat \ {0} /\ d = 10000 + b
  BY <1>1
<1>3. fee = AtMost(u, rule.capSat)
  BY LevyIsCeiling
<1> HIDE DEF b, d
<1>4. value * b \in Int /\ value * b >= 0
  BY <1>2, Z3
<1>5. u \in Int /\ value * b <= u * d /\ u * d < value * b + d
  BY <1>2, <1>4, Ceiling
<1> HIDE DEF u, fee
<1>6. u >= 0
  BY <1>2, <1>4, <1>5, Z3, Zenon
<1>7. fee \in Nat
  BY <1>1, <1>3, <1>5, <1>6 DEF AtMost
<1>8. ASSUME NEW f \in Nat
      PROVE  (value - f) * b <= f * 10000 <=> value * b <= f * d
  BY <1>2, Z3, Zenon
<1>9. CheckSettlementLevy(value - fee, fee, rule)
  <2>1. CASE value - fee <= 0
    BY <1>7, <2>1, LevyReached DEF CheckSettlementLevy
  <2>2. CASE value - fee > 0
    <3>1. CASE fee = rule.capSat
      BY <1>1, <1>7, <2>2, <3>1, LevyReached DEF CheckSettlementLevy
    <3>2. CASE fee = u
      <4>1. (value - fee) * b <= fee * 10000
        BY <1>5, <1>7, <1>8, <3>2
      <4>2. QED
        BY <1>7, <2>2, <4>1, LevyReached DEF CheckSettlementLevy, b
    <3>3. QED
      BY <1>3, <3>1, <3>2 DEF AtMost
  <2>3. QED
    BY <1>7, <2>1, <2>2
<1>10. ASSUME NEW f \in 0..value, CheckSettlementLevy(value - f, f, rule)
       PROVE  fee <= f
  <2>1. CASE f >= rule.capSat
    BY <1>1, <1>3, <1>5, <2>1 DEF AtMost
  <2>2. CASE f < rule.capSat
    <3>1. value * b <= f * d
      <4>1. CASE value - f > 0
        <5>1. (value - f) * rule.bp <= f * 10000
          BY <1>1, <1>10, <2>2, <4>1, LevyReached DEF CheckSettlementLevy
        <5>2. QED
          BY <1>8, <5>1 DEF b
      <4>2. CASE f = value
        <5>1. b * value <= d * value
          BY <1>2, ProductMonotone
        <5>2. QED
          BY <1>2, <4>2, <5>1, Z3
      <4>3. QED
        BY <4>1, <4>2
    <3>2. u <= f
      BY <1>2, <1>4, <3>1, CeilingLeast DEF u
    <3>3. QED
      BY <1>1, <1>3, <1>5, <3>2 DEF AtMost
  <2>3. QED
    BY <1>1, <2>1, <2>2
<1>11. QED
  BY <1>7, <1>9, <1>10 DEF fee

-----------------------------------------------------------------------------
(* The wallet's fee.                                                       *)

\* For every payment whose coins SelectCoins accepts and every row, a transaction
\* the wallet completes pays the levy on what goes to its outputs, whatever change
\* adjustment, dropped change or subtraction from recipients led to its fee; and
\* "Fee needed > fee paid" is out of the question once the levy is at its cap.
THEOREM WalletFeePaysLevy ==
  ASSUME NEW p \in PaymentRecords, NEW rule \in Rules, Selected(p, rule)
  PROVE  PaysLevy(p, rule)
<1> DEFINE levy == SettlementLevy(p.pay + p.changeTarget, rule)
           own == SettlementLevy(p.pay, rule)
           all == SettlementLevyFromInputs(p.selected, rule)
           change == GetChange(p, rule)
           floor == LevyFloor(p, rule)
           needed == FeeNeeded(p, rule)
           adjusted == AdjustedFee(p, rule)
           paid == FeePaid(p, rule)
<1>1. /\ p.pay \in Nat /\ p.selected \in Nat /\ p.sffo \in BOOLEAN /\ p.changeTarget \in Nat
      /\ p.minChange \in Nat /\ p.base \in Nat /\ p.inputs \in Nat /\ p.change \in Nat
  BY Zenon DEF PaymentRecords
<1>2. rule.bp \in Nat /\ rule.capSat \in Nat
  BY RuleTypes
<1>3. /\ levy \in Nat /\ levy <= rule.capSat
      /\ own \in Nat /\ own <= rule.capSat
  BY <1>1, LevyReached
<1>4. /\ all \in Nat
      /\ SettlementLevy(p.selected - all, rule) <= all
  BY <1>1, FromInputsIsLeast DEF CheckSettlementLevy
<1>5. all <= rule.capSat
  <2>1. \A x \in Int : AtMost(x, rule.capSat) <= rule.capSat
    BY <1>2 DEF AtMost
  <2>2. CeilDiv(p.selected * rule.bp, 10000 + rule.bp) \in Int
    <3> DEFINE n == p.selected * rule.bp
               d == 10000 + rule.bp
    <3>1. n \in Int /\ d \in Nat \ {0}
      BY <1>1, <1>2, Z3, Zenon
    <3> HIDE DEF n, d
    <3>2. CeilDiv(n, d) \in Int
      BY <3>1, Ceiling, Zenon
    <3>3. QED
      BY <3>2 DEF n, d
  <2>3. QED
    BY <1>1, <2>1, <2>2, LevyIsCeiling
<1> HIDE DEF levy, own, all
<1>6. /\ change \in Nat
      /\ ~p.sffo /\ change > 0 =>
           change = p.selected - p.inputs - (p.pay + p.base + levy) - p.change
      /\ ~p.sffo => p.pay + p.base + levy <= p.selected - p.inputs
  BY <1>1, <1>3 DEF GetChange, SelectionTarget, Selected, levy
<1>7. floor = IF change > 0 \/ p.sffo THEN all ELSE own
  BY Zenon DEF LevyFloor, all, own
<1> HIDE DEF change, floor
<1>8. /\ needed \in Nat
      /\ needed >= p.base + p.inputs
      /\ rule.bp > 0 => needed >= floor
      /\ ~(needed > floor) \/ needed <= p.base + p.inputs + IF change > 0 THEN p.change ELSE 0
  BY <1>1, <1>2, <1>3, <1>4, <1>6, <1>7 DEF FeeNeeded, AtLeast, change, floor
<1>9. /\ adjusted = IF change > 0 THEN AtMost(needed, p.selected - p.pay - change)
                    ELSE p.selected - p.pay - change
      /\ paid = IF p.sffo THEN needed ELSE adjusted
  BY Zenon DEF AdjustedFee, CurrentFee, FeePaid, change
<1> HIDE DEF needed, adjusted, paid
<1>10. paid \in Int /\ adjusted \in Int
  BY <1>1, <1>6, <1>8, <1>9 DEF AtMost
<1>11. ASSUME Outcome(p, rule) = "ok" PROVE CheckSettlementLevy(p.selected - paid, paid, rule)
  <2>1. paid >= needed
    BY <1>8, <1>10, <1>11 DEF Outcome, needed, paid
  <2>2. paid \in Nat
    BY <1>8, <1>10, <2>1
  <2>3. CASE rule.bp = 0
    <3>1. SettlementLevy(p.selected - paid, rule) = 0
      BY <1>2, <2>3 DEF SettlementLevy, SettlementLevyUncapped, AtMost
    <3>2. QED
      BY <2>2, <3>1 DEF CheckSettlementLevy
  <2>4. CASE rule.bp > 0 /\ (change > 0 \/ p.sffo)
    <3>1. paid >= all
      BY <1>4, <1>7, <1>8, <2>1, <2>2, <2>4
    <3>2. SettlementLevy(p.selected - paid, rule) <= SettlementLevy(p.selected - all, rule)
      BY <1>1, <1>2, <1>4, <2>2, <3>1, LevyMonotone
    <3>3. SettlementLevy(p.selected - paid, rule) \in Nat /\ SettlementLevy(p.selected - all, rule) \in Nat
      BY <1>1, <1>4, <2>2, LevyReached
    <3>4. QED
      BY <1>4, <2>2, <3>1, <3>2, <3>3 DEF CheckSettlementLevy
  <2>5. CASE rule.bp > 0 /\ ~(change > 0 \/ p.sffo)
    <3>1. p.selected - paid = p.pay
      BY <1>1, <1>6, <1>9, <2>5
    <3>2. paid >= own
      BY <1>3, <1>7, <1>8, <2>1, <2>2, <2>5
    <3>3. QED
      BY <3>1, <3>2, Zenon DEF CheckSettlementLevy, own
  <2>6. QED
    BY <1>2, <2>3, <2>4, <2>5
<1>12. ASSUME Outcome(p, rule) = "bug" PROVE levy < rule.capSat
  <2>1. needed > paid
    BY <1>8, <1>10, <1>12, Zenon DEF Outcome, needed, paid
  <2>2. ~p.sffo
    BY <1>8, <1>9, <2>1
  <2>3. floor \in Nat /\ floor <= rule.capSat
    BY <1>3, <1>4, <1>5, <1>7, Zenon
  <2>4. paid = adjusted /\ adjusted < needed
    BY <1>9, <2>1, <2>2, Zenon
  <2>5. CASE change > 0
    <3>1. p.selected - p.pay - change = p.inputs + p.base + levy + p.change
      BY <1>1, <1>3, <1>6, <2>2, <2>5
    <3>2. p.selected - p.pay - change < needed
      BY <1>1, <1>6, <1>8, <1>9, <2>4, <2>5 DEF AtMost
    <3>3. QED
      BY <1>1, <1>2, <1>3, <1>8, <2>3, <2>5, <3>1, <3>2
  <2>6. CASE ~(change > 0)
    <3>1. adjusted = p.selected - p.pay
      BY <1>1, <1>6, <1>9, <2>6
    <3>2. adjusted >= p.inputs + p.base + levy
      BY <1>1, <1>3, <1>6, <2>2, <3>1
    <3>3. QED
      BY <1>1, <1>2, <1>3, <1>8, <1>10, <2>3, <2>4, <2>6, <3>2
  <2>7. QED
    BY <2>5, <2>6, Zenon
<1>13. QED
  BY <1>11, <1>12, Zenon DEF PaysLevy, paid, levy

-----------------------------------------------------------------------------
(* The schedule and the subsidy.                                           *)

\* A set of natural numbers that is not empty has a least one.
LEMMA LeastNat ==
  ASSUME NEW T, T \subseteq Nat, T # {}
  PROVE  \E x \in T : \A y \in T : x <= y
<1>1. PICK x \in T : \A y \in T : ~(<<y, x>> \in OpToRel(<, Nat))
  BY WFMin, NatLessThanWellFounded, Zenon
<1>2. ASSUME NEW y \in T PROVE x <= y
  <2>1. x \in Nat /\ y \in Nat
    BY Zenon
  <2>2. ~(y < x)
    BY <1>1, <2>1, Zenon DEF OpToRel
  <2>3. QED
    BY <2>1, <2>2
<1>3. QED
  BY <1>2, Zenon

\* The loop of SettlementLevyAt stops at one row.
LEMMA RowExists ==
  ASSUME NEW schedule \in Seq(Rules), NEW height \in Nat
  PROVE  \E i \in 0..Len(schedule) : IsRowAt(schedule, height, i)
<1> DEFINE T == {j \in 1..Len(schedule) : schedule[j].startHeight > height}
<1>1. Len(schedule) \in Nat /\ \A j \in 1..Len(schedule) : schedule[j].startHeight \in Nat
  BY RuleTypes
<1>2. CASE T = {}
  BY <1>1, <1>2 DEF IsRowAt
<1>3. CASE T # {}
  <2>1. T \subseteq Nat
    BY <1>1
  <2> HIDE DEF T
  <2>2. PICK x \in T : \A y \in T : x <= y
    BY <1>3, <2>1, LeastNat, Zenon
  <2> USE DEF T
  <2>3. x - 1 \in 0..Len(schedule) /\ IsRowAt(schedule, height, x - 1)
    BY <1>1, <2>2 DEF IsRowAt
  <2>4. QED
    BY <2>3, Zenon
<1>4. QED
  BY <1>2, <1>3, Zenon

\* A block's row never asks for less than the row of the block before it, for any
\* value: with a schedule SettlementLevyScheduleIsSoftForkOnly accepts, every
\* later row is a soft fork, and a transaction valid at a height was valid below.
THEOREM LevyNeverFalls ==
  ASSUME NEW schedule \in Seq(Rules), SettlementLevyScheduleIsSoftForkOnly(schedule),
         NEW height \in Nat, NEW value \in Int
  PROVE  SettlementLevy(value, SettlementLevyAt(schedule, height))
           <= SettlementLevy(value, SettlementLevyAt(schedule, height + 1))
<1> DEFINE i == CHOOSE x \in 0..Len(schedule) : IsRowAt(schedule, height, x)
           k == CHOOSE x \in 0..Len(schedule) : IsRowAt(schedule, height + 1, x)
<1>1. /\ i \in 0..Len(schedule) /\ IsRowAt(schedule, height, i)
      /\ k \in 0..Len(schedule) /\ IsRowAt(schedule, height + 1, k)
  <2>1. height + 1 \in Nat
    OBVIOUS
  <2>2. QED
    BY <2>1, RowExists, Zenon
<1>2. /\ SettlementLevyAt(schedule, height) = IF i = 0 THEN [startHeight |-> 0, bp |-> 0, capSat |-> 0] ELSE schedule[i]
      /\ SettlementLevyAt(schedule, height + 1) = IF k = 0 THEN [startHeight |-> 0, bp |-> 0, capSat |-> 0] ELSE schedule[k]
  BY Zenon DEF SettlementLevyAt
<1> HIDE DEF i, k
<1>3. /\ Len(schedule) \in Nat /\ Len(schedule) >= 1 /\ schedule[1].startHeight = 0
      /\ \A j \in 1..Len(schedule) : schedule[j] \in Rules /\ schedule[j].startHeight \in Nat
      /\ \A j \in 2..Len(schedule) : /\ schedule[j].startHeight > schedule[j - 1].startHeight
                                     /\ schedule[j].bp >= schedule[j - 1].bp
                                     /\ schedule[j].capSat >= schedule[j - 1].capSat
  BY RuleTypes, SMTT(30) DEF SettlementLevyScheduleIsSoftForkOnly
<1>4. i >= 1
  BY <1>1, <1>3 DEF IsRowAt
<1>5. i <= k
  <2>1. SUFFICES ASSUME k < i PROVE FALSE
    BY <1>1, <1>3
  <2>2. k + 1 \in 1..i /\ k + 1 \in 1..Len(schedule) /\ k < Len(schedule)
    BY <1>1, <1>3, <2>1
  <2>3. schedule[k + 1].startHeight <= height /\ schedule[k + 1].startHeight > height + 1
    BY <1>1, <2>2, Zenon DEF IsRowAt
  <2>4. QED
    BY <1>3, <2>2, <2>3
<1>6. k <= i + 1
  <2>1. SUFFICES ASSUME k > i + 1 PROVE FALSE
    BY <1>1, <1>3
  <2>2. /\ i + 1 \in 1..Len(schedule) /\ i < Len(schedule)
        /\ i + 2 \in 2..Len(schedule) /\ i + 2 \in 1..k /\ (i + 2) - 1 = i + 1
    BY <1>1, <1>3, <2>1
  <2>3. schedule[i + 1].startHeight > height
    BY <1>1, <2>2, Zenon DEF IsRowAt
  <2>4. schedule[i + 2].startHeight <= height + 1
    BY <1>1, <2>2, Zenon DEF IsRowAt
  <2>5. schedule[i + 2].startHeight > schedule[i + 1].startHeight
    BY <1>3, <2>2, Zenon
  <2>6. schedule[i + 1].startHeight \in Nat /\ schedule[i + 2].startHeight \in Nat
    BY <1>3, <2>2
  <2>7. QED
    BY <2>3, <2>4, <2>5, <2>6
<1>7. /\ i \in 1..Len(schedule) /\ k \in 1..Len(schedule)
      /\ schedule[i] \in Rules /\ schedule[k] \in Rules
  BY <1>1, <1>3, <1>4, <1>5
<1>8. schedule[i].bp <= schedule[k].bp /\ schedule[i].capSat <= schedule[k].capSat
  <2>1. CASE k = i
    BY <1>7, <2>1, RuleTypes
  <2>2. CASE k = i + 1
    <3>1. k \in 2..Len(schedule) /\ k - 1 = i
      BY <1>7, <2>2
    <3>2. QED
      BY <1>3, <1>7, <3>1, RuleTypes, Zenon
  <2>3. QED
    BY <1>1, <1>5, <1>6, <2>1, <2>2
<1>9. SettlementLevyAt(schedule, height) = schedule[i] /\ SettlementLevyAt(schedule, height + 1) = schedule[k]
  BY <1>2, <1>7
<1>10. QED
  BY <1>7, <1>8, <1>9, LevyMonotone

\* Intervals that follow each other cover what lies between the first start and the
\* last end: the first interval that has not ended contains the height, and there
\* is none after the last end.
LEMMA EraOfHeight ==
  ASSUME NEW n \in Nat, n >= 1, NEW S \in [1..n -> Int], NEW E \in [1..n -> Int],
         S[1] = 1, \A i \in 1..n : E[i] >= S[i], \A i \in 2..n : S[i] = E[i - 1] + 1,
         NEW height \in Int
  PROVE  /\ height >= 1 /\ height <= E[n] =>
              \E i \in 1..n : /\ S[i] <= height /\ height <= E[i]
                             /\ \A j \in 1..n : height <= E[j] => i <= j
         /\ height > E[n] => \A i \in 1..n : height > E[i]
<1> DEFINE ends == {i \in 1..n : height <= E[i]}
<1>1. n \in 1..n /\ E[n] \in Int /\ ends \subseteq 1..n /\ ends \subseteq Nat
  OBVIOUS
<1>2. ASSUME height >= 1, height <= E[n]
      PROVE  \E i \in ends : (\A j \in ends : i <= j) /\ S[i] <= height
  <2>1. PICK i \in ends : \A j \in ends : i <= j
    <3>1. ends # {}
      BY <1>1, <1>2, Zenon
    <3>2. QED
      BY <1>1, <3>1, LeastNat, Zenon
  <2>2. i \in 1..n /\ S[i] \in Int
    BY <1>1, Zenon
  <2>3. CASE i = 1
    BY <1>2, <2>1, <2>3, Zenon
  <2>4. CASE i # 1
    <3>1. i \in 2..n /\ i - 1 \in 1..n /\ E[i - 1] \in Int
      BY <2>2, <2>4
    <3>2. i - 1 \notin ends
      BY <2>1, <2>2
    <3>3. E[i - 1] < height
      BY <3>1, <3>2
    <3>4. S[i] <= height
      BY <2>2, <3>1, <3>3
    <3>5. QED
      BY <2>1, <3>4, Zenon
  <2>5. QED
    BY <2>3, <2>4, Zenon
<1>3. ASSUME height > E[n], ends # {} PROVE FALSE
  <2> DEFINE T == {x \in Nat : \E i \in ends : x = n - i}
  <2>1. T # {} /\ T \subseteq Nat
    <3>1. PICK i \in ends : TRUE
      BY <1>3, Zenon
    <3>2. i \in 1..n /\ n - i \in Nat
      BY <1>1, <3>1
    <3>3. n - i \in T
      BY <3>1, <3>2, Zenon
    <3>4. QED
      BY <3>3, Zenon
  <2>2. PICK x \in T : \A y \in T : x <= y
    BY <2>1, LeastNat, Zenon
  <2>3. PICK i \in ends : x = n - i
    BY <2>2, Zenon
  <2>4. i \in 1..n /\ height <= E[i] /\ E[i] \in Int
    BY <1>1, Zenon
  <2>5. i # n
    BY <1>1, <1>3, <2>4
  <2>6. i + 1 \in 1..n /\ i + 1 \in 2..n /\ (i + 1) - 1 = i
    BY <2>4, <2>5
  <2>7. E[i + 1] \in Int /\ S[i + 1] \in Int /\ E[i + 1] >= S[i + 1] /\ S[i + 1] = E[i] + 1
    BY <2>6, Zenon
  <2>8. i + 1 \in ends
    BY <2>4, <2>6, <2>7, SMTT(30)
  <2>9. n - (i + 1) \in T
    BY <2>4, <2>6, <2>8
  <2>10. x <= n - (i + 1)
    BY <2>2, <2>9, Zenon
  <2>11. QED
    BY <2>3, <2>4, <2>10
<1>4. ASSUME height > E[n], NEW i \in 1..n PROVE height > E[i]
  <2>1. i \notin ends
    BY <1>3, <1>4, Zenon
  <2>2. E[i] \in Int /\ ~(height <= E[i])
    BY <2>1, Zenon
  <2>3. QED
    BY <2>2
<1>5. ASSUME height >= 1, height <= E[n]
      PROVE  \E i \in 1..n : /\ S[i] <= height /\ height <= E[i]
                             /\ \A j \in 1..n : height <= E[j] => i <= j
  BY <1>2, <1>5, Zenon
<1>6. QED
  BY <1>4, <1>5, Zenon

\* With a table EmissionTableWellFormed accepts, every block from the first to
\* EmissionEndHeight mints the subsidy of the era it lies in, the last one the
\* closing dust as well, and no other block mints anything.
THEOREM SubsidyUntilTheEnd ==
  ASSUME NEW table \in Seq(Eras),
         EmissionTableWellFormed(table, 1), NEW dust \in Nat, NEW height \in Int
  PROVE  /\ height \in 1..EmissionEndHeight(table) =>
              \E i \in 1..Len(table) :
                /\ table[i].startHeight <= height /\ height <= table[i].endHeight
                /\ table[i].baseSubsidy > 0
                /\ GetBlockSubsidy(height, table, dust)
                     = table[i].baseSubsidy + IF height = EmissionEndHeight(table) THEN dust ELSE 0
         /\ height \notin 1..EmissionEndHeight(table) => GetBlockSubsidy(height, table, dust) = 0
<1> DEFINE n == Len(table)
           S == [i \in 1..n |-> table[i].startHeight]
           E == [i \in 1..n |-> table[i].endHeight]
           ends == {i \in 1..n : height <= table[i].endHeight}
           least == CHOOSE i \in ends : \A j \in ends : i <= j
<1>1. n \in Nat /\ n >= 1 /\ EmissionEndHeight(table) = table[n].endHeight
  BY DEF EmissionTableWellFormed, EmissionEndHeight
<1>2. \A i \in 1..n : /\ table[i].startHeight \in Int /\ table[i].endHeight \in Int
                     /\ table[i].baseSubsidy \in Int /\ table[i].baseSubsidy > 0
                     /\ table[i].endHeight >= table[i].startHeight
                     /\ table[i].startHeight = IF i = 1 THEN 1 ELSE table[i - 1].endHeight + 1
  <2> SUFFICES ASSUME NEW i \in 1..n
               PROVE  /\ table[i].startHeight \in Int /\ table[i].endHeight \in Int
                      /\ table[i].baseSubsidy \in Int /\ table[i].baseSubsidy > 0
                      /\ table[i].endHeight >= table[i].startHeight
                      /\ table[i].startHeight = IF i = 1 THEN 1 ELSE table[i - 1].endHeight + 1
    BY Zenon
  <2>1. table[i] \in Eras
    OBVIOUS
  <2>2. /\ table[i].startHeight \in Int /\ table[i].endHeight \in Int
        /\ table[i].baseSubsidy \in Int
    BY <2>1, Zenon DEF Eras
  <2>3. /\ table[i].baseSubsidy > 0 /\ table[i].endHeight >= table[i].startHeight
        /\ table[i].startHeight = IF i = 1 THEN 1 ELSE table[i - 1].endHeight + 1
    BY Zenon DEF EmissionTableWellFormed
  <2>4. QED
    BY <2>2, <2>3, Zenon
<1>3. S \in [1..n -> Int] /\ E \in [1..n -> Int]
  BY <1>2, Zenon
<1>4. S[1] = 1 /\ \A i \in 1..n : E[i] >= S[i]
  BY <1>1, <1>2
<1>5. \A i \in 2..n : S[i] = E[i - 1] + 1
  BY <1>1, <1>2
<1>6. ends = {i \in 1..n : height <= E[i]} /\ E[n] = EmissionEndHeight(table)
  BY <1>1
<1>7. \A i \in 1..n : S[i] = table[i].startHeight
  BY Zenon
<1>8. GetBlockSubsidy(height, table, dust)
        = IF height < 1 \/ ends = {} \/ height < table[least].startHeight THEN 0
          ELSE table[least].baseSubsidy + IF height = EmissionEndHeight(table) THEN dust ELSE 0
  BY Zenon DEF GetBlockSubsidy
<1>9. \A i : i \in ends <=> (i \in 1..n /\ height <= E[i])
  BY <1>6, Zenon
<1>10. \A i \in 1..n : E[i] = table[i].endHeight /\ E[i] \in Int
  BY <1>2, Zenon
<1> HIDE DEF n, S, E, ends, least
<1>11. E[n] \in Int
  BY <1>1, <1>3
<1>12. CASE height \in 1..E[n]
  <2>1. height >= 1 /\ height <= E[n]
    BY <1>11, <1>12
  <2>2. PICK i \in 1..n : /\ S[i] <= height /\ height <= E[i]
                          /\ \A j \in 1..n : height <= E[j] => i <= j
    BY <1>1, <1>3, <1>4, <1>5, <2>1, EraOfHeight, ZenonT(30)
  <2>3. least \in ends /\ \A j \in ends : least <= j
    <3>1. i \in ends /\ \A j \in ends : i <= j
      BY <1>9, <2>2, Zenon
    <3>2. QED
      BY <3>1, Zenon DEF least
  <2>4. i \in 1..n /\ least \in 1..n /\ i \in ends
    BY <1>9, <2>2, <2>3, Zenon
  <2>5. i <= least /\ least <= i
    BY <1>9, <2>2, <2>3, <2>4, Zenon
  <2>6. least = i
    BY <2>4, <2>5
  <2>7. height <= table[least].endHeight /\ table[least].startHeight <= height
    BY <1>7, <1>10, <2>2, <2>4, <2>6, Zenon
  <2>8. table[least].startHeight \in Int
    BY <1>2, <2>4
  <2>9. ~(height < 1 \/ ends = {} \/ height < table[least].startHeight)
    BY <2>1, <2>3, <2>7, <2>8
  <2>10. QED
    BY <1>2, <1>6, <1>8, <1>12, <2>4, <2>7, <2>9, Zenon DEF n
<1>13. CASE height \notin 1..E[n]
  <2>1. height > E[n] => \A i \in 1..n : height > E[i]
    BY <1>1, <1>3, <1>4, <1>5, EraOfHeight, Zenon
  <2>2. height < 1 \/ ends = {}
    BY <1>11, <1>13, <1>9, <1>10, <2>1
  <2>3. QED
    BY <1>6, <1>8, <1>13, <2>2, Zenon
<1>14. QED
  BY <1>12, <1>13, Zenon
=============================================================================
