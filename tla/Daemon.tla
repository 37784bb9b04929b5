------------------------------- MODULE Daemon -------------------------------
(***************************************************************************)
(* The commands init, daemon and cleanup (src/cli) over one database file, *)
(* with the start of the application (src/index.ts), the precache of the   *)
(* blockchain strategy and the reset after a reorganisation of the chain.  *)
(* One command runs at a time; it may be killed between any two steps.     *)
(*                                                                         *)
(* The store is an object in memory whose assignments reach the file later *)
(* (sequelize-store).  A handler or a collector run writes an agreement's  *)
(* row and its pin one after the other; BlockchainPinner has all its steps.*)
(*                                                                         *)
(* pc:  down -> override -> initDb -> setOffer -> keys -> flush -> down    *)
(*      down -> offerId -> comms -> ipfs -> fetch -> pin -> serving        *)
(*      serving -> reset -> resetDb -> resetOffer -> comms                 *)
(*      down -> unpin -> purge -> down                                     *)
(***************************************************************************)
EXTENDS Integers, FiniteSets

CONSTANTS
  Agreements,  \* agreements consumers may conclude with the offer
  NULL,        \* no such file
  MayFail,     \* whether database, key generation, IPFS and chain node may fail
  MayBeKilled, \* whether a running command may be killed
  MaxChanges,  \* bound: number of changes of the chain
  MaxCommands  \* bound: number of commands run

ASSUME DaemonAssumption ==
  MayFail \in BOOLEAN /\ MayBeKilled \in BOOLEAN /\ MaxChanges \in Nat /\ MaxCommands \in Nat

Keys == {"offerId", "peer"}                         \* what init stores
Status == {"absent", "active", "empty", "stopped"}  \* empty: out of funds

VARIABLES
  file,      \* the database, NULL when there is no file
  store,     \* the keys of the store object of the running command
  unsaved,   \* assignments to the store that have not reached the file
  pc,        \* where the running command is
  todo,      \* agreements its loop or its handler still has to pin or unpin
  released,  \* agreements the collector has unpinned and not saved yet
  chain,     \* external: the contract's state of each agreement
  pins,      \* agreements whose data are pinned on the IPFS node
  skipped,   \* history: agreements whose pin or release failed, or was cut off with its command
  orphans,   \* history: agreements that lost their database, or whose unpin failed, while pinned
  cut,       \* history: the making of the file did not run to its end, or was a reset
  changes,   \* number of changes of the chain so far
  commands   \* number of commands so far

history == <<skipped, orphans, cut>>
work == <<todo, released>>
vars == <<file, store, unsaved, pc, work, chain, pins, history, changes, commands>>

Database == [ saved : SUBSET Keys,             \* rows of the store
              fetched : BOOLEAN,               \* lastFetchedBlockNumber is set
              rows : [Agreements -> Status],
              forked : BOOLEAN ]               \* built on blocks the chain has dropped

ASSUME FileAssumption == NULL \notin Database

Nowhere == [a \in Agreements |-> "absent"]
EmptyDatabase == [saved |-> {}, fetched |-> FALSE, rows |-> Nowhere, forked |-> FALSE]

InitPcs == {"override", "initDb", "setOffer", "keys", "flush", "undo"}
StartPcs == {"offerId", "comms", "ipfs", "fetch", "pin"}
ResetPcs == {"reset", "resetDb", "resetOffer"}
CleanupPcs == {"unpin", "purge"}

TypeOK ==
  /\ file \in Database \cup {NULL}
  /\ pc \in {"serving"} \cup StartPcs \cup CleanupPcs => file # NULL
  /\ store \subseteq Keys
  /\ unsaved \subseteq store
  /\ pc \in {"down", "serving"} \cup InitPcs \cup StartPcs \cup ResetPcs \cup CleanupPcs
  /\ todo \subseteq Agreements /\ released \subseteq Agreements
  /\ chain \in [Agreements -> Status]
  /\ pins \subseteq Agreements
  /\ skipped \subseteq Agreements /\ orphans \subseteq Agreements /\ cut \in BOOLEAN
  /\ changes \in 0..MaxChanges
  /\ commands \in 0..MaxCommands

Init ==
  /\ file = NULL
  /\ store = {} /\ unsaved = {} /\ pc = "down" /\ todo = {} /\ released = {}
  /\ chain = Nowhere
  /\ pins = {} /\ skipped = {} /\ orphans = {} /\ cut = FALSE
  /\ changes = 0 /\ commands = 0

-----------------------------------------------------------------------------
world == <<chain, changes>>
Goto(next) == pc' = next

Step(from, next) ==
  /\ pc = from /\ Goto(next)
  /\ UNCHANGED <<work, world, commands>>

End ==
  /\ pc' = "down" /\ store' = {} /\ unsaved' = {} /\ todo' = {} /\ released' = {}
  /\ UNCHANGED <<world, commands>>

(* The process ends before its command does: what the store has not saved  *)
(* is lost, and so is the pinning that it has not got to.                  *)
Unserved == {a \in Agreements : file # NULL /\ file.rows[a] = "active" /\ a \notin pins}
Abort ==
  /\ End
  /\ skipped' = skipped \cup Unserved
  /\ cut' = (cut \/ pc \in InitPcs \cup ResetPcs)
  /\ UNCHANGED <<file, pins, orphans>>

Kill == MayBeKilled /\ pc # "down" /\ Abort

(* The file is removed, and nobody will unpin what its rows are about.     *)
Unlink == file' = NULL /\ orphans' = orphans \cup pins /\ cut' = FALSE /\ UNCHANGED skipped

Run(first, openDb) ==
  /\ pc = "down" /\ commands < MaxCommands
  /\ commands' = commands + 1
  /\ Goto(first)
  /\ store' = IF openDb THEN file.saved ELSE {}
  /\ UNCHANGED <<file, unsaved, work, world, pins, history>>

(* A write of the store reaches the file.                                  *)
SaveStore(key) ==
  /\ key \in unsaved
  /\ file # NULL
  /\ unsaved' = unsaved \ {key}
  /\ file' = [file EXCEPT !.saved = @ \cup {key}]
  /\ UNCHANGED <<store, pc, work, world, pins, history, commands>>

-----------------------------------------------------------------------------
(* init                                                                    *)
RunInit == Run(IF file = NULL THEN "initDb" ELSE "override", FALSE)

(* The user confirms, or the command exits.                                *)
Override ==
  /\ Step("override", "initDb")
  /\ Unlink
  /\ UNCHANGED <<store, unsaved, pins>>

KeepDb == pc = "override" /\ End /\ UNCHANGED <<file, pins, history>>

InitDb ==
  /\ Step("initDb", "setOffer")
  /\ file' = EmptyDatabase
  /\ UNCHANGED <<store, unsaved, pins, history>>

SetOffer ==
  /\ Step("setOffer", "keys")
  /\ store' = store \cup {"offerId"} /\ unsaved' = unsaved \cup {"offerId"}
  /\ UNCHANGED <<file, pins, history>>

CreatePeer ==
  /\ Step("keys", "flush")
  /\ store' = store \cup {"peer"} /\ unsaved' = unsaved \cup {"peer"}
  /\ UNCHANGED <<file, pins, history>>

InitEndsEarly ==  \* mutant: forStoreFinish is not awaited
  /\ pc = "flush"
  /\ End
  /\ UNCHANGED <<file, pins, history>>
InitEnds ==  \* forStoreFinish
  /\ pc = "flush" /\ unsaved = {}
  /\ End
  /\ UNCHANGED <<file, pins, history>>

(* An error on the way: the database is removed.                           *)
InitFails ==
  /\ MayFail
  /\ pc \in {"initDb", "keys", "flush"}
  /\ Step(pc, "undo")
  /\ file' \in IF pc = "initDb" THEN {file, EmptyDatabase} ELSE {file}
  /\ UNCHANGED <<store, unsaved, pins, history>>

Undo ==
  /\ pc = "undo"
  /\ Unlink
  /\ End
  /\ UNCHANGED pins

InitStep ==
  Override \/ KeepDb \/ InitDb \/ SetOffer \/ CreatePeer \/ InitEnds \/ InitFails \/ Undo

-----------------------------------------------------------------------------
(* daemon: BaseCommand.init wants the file and opens it, run() the offer.  *)
RunDaemon == file # NULL /\ Run("offerId", TRUE)

Fails(from) == pc = from /\ Abort

OfferId ==
  \/ "offerId" \in store /\ Step("offerId", "comms") /\ UNCHANGED <<file, store, unsaved, pins, history>>
  \/ "offerId" \notin store /\ Fails("offerId")

(* startCommunication: either transport makes its PeerId from the store.   *)
StartUnchecked ==  \* mutant: the transport starts without an identity
  Step("comms", "ipfs") /\ UNCHANGED <<file, store, unsaved, pins, history>>
StartCommunication ==
  \/ "peer" \in store /\ Step("comms", "ipfs") /\ UNCHANGED <<file, store, unsaved, pins, history>>
  \/ "peer" \notin store /\ Fails("comms")

(* IpfsProvider.bootstrap, and initialize() of the event processor.        *)
StartProcessor ==
  /\ Step("ipfs", IF file.fetched THEN "serving" ELSE "fetch")
  /\ UNCHANGED <<file, store, unsaved, pins, history>>

(* It, or whatever of the start throws before it.                          *)
StartProcessorFails == MayFail /\ Fails("ipfs")

(* precache: the events, handled without a provider manager, batch by      *)
(* batch (external: each batch moves lastFetchedBlockNumber) ...           *)
Behind(a) == file.rows[a] # chain[a]

FetchBatch(a) ==
  /\ pc = "fetch" /\ Behind(a) /\ ~file.forked
  /\ file' = [file EXCEPT !.rows[a] = chain[a], !.fetched = TRUE]
  /\ UNCHANGED <<store, unsaved, pc, work, world, pins, history, commands>>

FetchFails == MayFail /\ Fails("fetch")

(* ... then a pin for every agreement that has funds, active or not.       *)
HasFunds(status) == status \in {"active", "stopped"}

FetchedAll ==
  /\ pc = "fetch" /\ (file.forked \/ \A a \in Agreements : ~Behind(a))
  /\ file' = [file EXCEPT !.fetched = TRUE]
  /\ todo' = {a \in Agreements : HasFunds(file.rows[a])}
  /\ Goto("pin")
  /\ UNCHANGED <<store, unsaved, released, world, pins, history, commands>>

PinFetched(a) ==
  /\ pc = "pin" /\ a \in todo
  /\ pins' = pins \cup {a}
  /\ skipped' = skipped \ {a}
  /\ todo' = todo \ {a}
  /\ UNCHANGED <<file, store, unsaved, pc, released, world, orphans, cut, commands>>

(* One pin that fails ends precache and the daemon.                        *)
PinFetchedWarns ==  \* mutant: the loop goes on
  /\ MayFail
  /\ pc = "pin"
  /\ \E a \in todo : todo' = todo \ {a}
  /\ UNCHANGED <<file, store, unsaved, pc, released, world, pins, history, commands>>
PinFetchedFails ==
  /\ MayFail
  /\ todo # {} /\ Fails("pin")

Subscribe ==
  /\ todo = {}
  /\ Step("pin", "serving")
  /\ UNCHANGED <<file, store, unsaved, pins, history>>

StartStep ==
  \/ OfferId \/ StartCommunication \/ StartProcessor \/ StartProcessorFails
  \/ (\E a \in Agreements : FetchBatch(a) \/ PinFetched(a))
  \/ FetchFails \/ FetchedAll \/ PinFetchedFails \/ Subscribe

(* Events are handled one after the other, and each handler pins or unpins *)
(* when it has written the row.  An error, perhaps after its effect, is    *)
(* logged.                                                                 *)
Serving(a) == pc = "serving" /\ file.rows[a] # "absent"

Handle(a) ==
  /\ pc = "serving" /\ Behind(a) /\ ~file.forked
  /\ todo = {}
  /\ \E status \in {"active", "stopped"} :
       /\ IF chain[a] = "stopped" THEN status = "stopped" ELSE status = "active" /\ file.rows[a] = "absent"
       /\ file' = [file EXCEPT !.rows[a] = status]
  /\ todo' = {a}
  /\ UNCHANGED <<store, unsaved, pc, released, world, pins, history, commands>>

PinHandled(a) ==
  /\ Serving(a) /\ a \in todo /\ file.rows[a] # "stopped"
  /\ \/ pins' = pins \cup {a} /\ skipped' = skipped \ {a}
     \/ MayFail /\ skipped' = skipped \cup ({a} \ pins) /\ UNCHANGED pins
  /\ todo' = todo \ {a}
  /\ UNCHANGED <<file, store, unsaved, pc, released, world, orphans, cut, commands>>

UnpinHandled(a) ==
  /\ Serving(a) /\ a \in todo /\ file.rows[a] = "stopped"
  /\ pins' = pins \ {a} \/ (MayFail /\ UNCHANGED pins)
  /\ todo' = todo \ {a}
  /\ UNCHANGED <<file, store, unsaved, pc, released, world, history, commands>>

(* The collector unpins first; a run that fails then leaves the row.       *)
Release(a) ==
  /\ Serving(a) /\ chain[a] = "empty" /\ file.rows[a] = "active"
  /\ pins' = pins \ {a}
  /\ released' = released \cup {a}
  /\ UNCHANGED <<file, store, unsaved, pc, todo, world, history, commands>>

SaveReleased(a) ==
  /\ Serving(a) /\ a \in released
  /\ \/ file' = [file EXCEPT !.rows[a] = "empty"] /\ UNCHANGED skipped
     \/ MayFail /\ skipped' = skipped \cup {a} /\ UNCHANGED file
  /\ released' = released \ {a}
  /\ UNCHANGED <<store, unsaved, pc, todo, world, pins, orphans, cut, commands>>

Serve(a) == Handle(a) \/ PinHandled(a) \/ UnpinHandled(a) \/ Release(a) \/ SaveReleased(a)

-----------------------------------------------------------------------------
(* A reorganisation out of range reaches appResetCallback: the service     *)
(* stops, the file is removed and made anew, with the offer and no peer.   *)
Reset ==
  /\ file # NULL /\ file.forked
  /\ pc = "serving" /\ Goto("reset")
  /\ todo' = {} /\ released' = {} /\ skipped' = skipped \cup Unserved
  /\ UNCHANGED <<file, store, unsaved, world, pins, orphans, cut, commands>>

UnlinkDbOnly ==  \* mutant: initDB is not called again
  /\ Step("reset", "resetOffer")
  /\ Unlink
  /\ store' = {} /\ unsaved' = {}
  /\ UNCHANGED pins
UnlinkDb ==
  /\ Step("reset", "resetDb")
  /\ Unlink
  /\ store' = {} /\ unsaved' = {}
  /\ UNCHANGED pins

RecreateDb ==
  /\ Step("resetDb", "resetOffer")
  /\ file' = EmptyDatabase /\ cut' = TRUE
  /\ UNCHANGED <<store, unsaved, pins, skipped, orphans>>

RecreateDbFails == MayFail /\ Fails("resetDb")

ResetOffer ==
  /\ Step("resetOffer", "comms")
  /\ store' = {"offerId"} /\ unsaved' = {"offerId"}
  /\ UNCHANGED <<file, pins, history>>

ResetStep == Reset \/ UnlinkDb \/ RecreateDb \/ RecreateDbFails \/ ResetOffer

-----------------------------------------------------------------------------
(* cleanup, with or without --unpin: the rows' data are unpinned one by    *)
(* one, a failure is only warned of, and the file is removed.  (That the   *)
(* IPFS node is not there at all has the effect of Kill.)                  *)
Known == {a \in Agreements : file.rows[a] # "absent"}

RunCleanup(unpin) ==
  /\ file # NULL /\ pc = "down" /\ commands < MaxCommands
  /\ commands' = commands + 1
  /\ Goto("unpin") /\ store' = file.saved
  /\ todo' = IF unpin THEN Known ELSE {}
  /\ orphans' = IF unpin THEN orphans ELSE orphans \cup pins
  /\ UNCHANGED <<file, unsaved, released, world, pins, skipped, cut>>

UnpinAgreementAgain(a) ==  \* mutant: a failure starts the loop again
  /\ pc = "unpin" /\ a \in todo
  /\ \/ pins' = pins \ {a} /\ todo' = todo \ {a} /\ UNCHANGED orphans
     \/ MayFail /\ todo' = Known /\ orphans' = orphans \cup {a} /\ UNCHANGED pins
  /\ UNCHANGED <<file, store, unsaved, pc, released, world, skipped, cut, commands>>
UnpinAgreement(a) ==
  /\ pc = "unpin" /\ a \in todo
  /\ todo' = todo \ {a}
  /\ \/ pins' = pins \ {a} /\ UNCHANGED orphans
     \/ MayFail /\ orphans' = orphans \cup {a} /\ UNCHANGED pins
  /\ UNCHANGED <<file, store, unsaved, pc, released, world, skipped, cut, commands>>

UnpinnedAllEarly ==  \* mutant: the unpins are not awaited
  pc = "unpin" /\ pc' = "purge" /\ UNCHANGED <<file, store, unsaved, work, world, pins, history, commands>>
UnpinnedAll == todo = {} /\ Step("unpin", "purge") /\ UNCHANGED <<file, store, unsaved, pins, history>>

PurgeDb ==
  /\ pc = "purge"
  /\ file' = NULL /\ cut' = FALSE
  /\ End
  /\ UNCHANGED <<pins, skipped, orphans>>

CleanupStep == (\E a \in Agreements : UnpinAgreement(a)) \/ UnpinnedAll \/ PurgeDb

-----------------------------------------------------------------------------
(* The chain (external).                                                   *)
Change(a, status) ==
  /\ changes < MaxChanges /\ changes' = changes + 1
  /\ chain' = [chain EXCEPT ![a] = status]
  /\ UNCHANGED <<store, unsaved, pc, work, pins, history, commands>>

Conclude(a) == chain[a] = "absent" /\ Change(a, "active") /\ UNCHANGED file
RunDry(a) == chain[a] = "active" /\ Change(a, "empty") /\ UNCHANGED file
Stop(a) == chain[a] = "active" /\ Change(a, "stopped") /\ UNCHANGED file

(* Blocks the database was built on are dropped.                           *)
Reorganise(a) ==
  /\ chain[a] # "absent" /\ Change(a, "absent")
  /\ file' = IF file # NULL /\ file.rows[a] # "absent" THEN [file EXCEPT !.forked = TRUE] ELSE file

ChainStep == \E a \in Agreements : Conclude(a) \/ RunDry(a) \/ Stop(a) \/ Reorganise(a)

CommandStep ==
  InitStep \/ StartStep \/ (\E a \in Agreements : Serve(a)) \/ ResetStep \/ CleanupStep
    \/ \E key \in Keys : SaveStore(key)

Next ==
  \/ RunInit \/ RunDaemon \/ \E unpin \in BOOLEAN : RunCleanup(unpin)
  \/ CommandStep
  \/ Kill
  \/ ChainStep

Spec == Init /\ [][Next]_vars

(* A running command goes on; the user and the chain owe nothing.          *)
FairSpec == Spec /\ WF_vars(CommandStep)

-----------------------------------------------------------------------------
(* The service runs only on a database that knows the offer and has the    *)
(* peer's identity, whatever commands were killed before, after a reset    *)
(* too.                                                                    *)
ServingIsConfigured == pc = "serving" => file # NULL /\ store = Keys

(* init makes a complete database or none: unless it is killed, no later   *)
(* command finds half of one.                                              *)
InitIsAllOrNothing == file # NULL /\ pc = "down" => file.saved = Keys \/ cut

(* The daemon that serves has every active agreement it knows pinned, also *)
(* those concluded while it was down or never started, but for pins and    *)
(* releases that are under way, failed or were cut off.                    *)
ActiveIsPinned ==
  pc = "serving" =>
    \A a \in Agreements : file.rows[a] = "active" => a \in pins \cup todo \cup released \cup skipped

(* What is pinned, the database knows, so that it can be unpinned; lost    *)
(* are the pins of databases removed without --unpin (init, reset), and    *)
(* those an unpin failed for.                                              *)
PinnedIsKnown == pins \ orphans \subseteq IF file = NULL THEN {} ELSE Known

(* Every command ends or comes to serve.                                   *)
CommandsSettle == (pc # "down") ~> (pc \in {"down", "serving"})

-----------------------------------------------------------------------------
(* "An infinite loop which you can exit only with SIGINT/SIGKILL" ...      *)
(* "Restarting the app" (src/cli/daemon.ts): after a reorganisation out of *)
(* range the daemon serves again, though nobody killed it and nothing      *)
(* failed.                                                                 *)
RestartsAfterReorg == (pc = "reset") ~> (pc = "serving")
=============================================================================
