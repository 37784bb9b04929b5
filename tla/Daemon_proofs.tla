---------------------------- MODULE Daemon_proofs ----------------------------
(***************************************************************************)
(* The safety properties of Daemon hold for any number of agreements,      *)
(* commands, kills and reorganisations.                                    *)
(***************************************************************************)
EXTENDS Daemon, TLAPS

(* What the store object and the file have of init's keys, by the step the *)
(* command is at.                                                          *)
ConfigInv ==
  /\ pc = "down" => unsaved = {}
  /\ pc = "comms" => "offerId" \in store
  /\ pc \in {"ipfs", "fetch", "pin", "serving"} => store = Keys
  /\ pc \in {"initDb", "resetDb"} => file = NULL
  /\ pc \in {"setOffer", "keys", "flush", "resetOffer"} => file # NULL
  /\ pc = "resetOffer" => cut
  /\ pc = "keys" => "offerId" \in file.saved \cup unsaved
  /\ pc = "flush" => file.saved \cup unsaved = Keys
  /\ pc \notin {"setOffer", "keys", "flush", "undo"} /\ file # NULL => file.saved = Keys \/ cut

(* A row that is active is pinned, or waits for the loop of precache, its  *)
(* handler or the collector; what is pinned has a row, or waits for the    *)
(* loop of cleanup.                                                        *)
ActiveRows == {a \in Agreements : file.rows[a] = "active"}

PinInv ==
  /\ file # NULL /\ ~file.forked => \A a \in Agreements : chain[a] = "absent" => file.rows[a] = "absent"
  /\ file = NULL => pins \subseteq orphans
  /\ file # NULL => pins \subseteq orphans \cup Known
  /\ pc = "unpin" => pins \subseteq orphans \cup todo
  /\ pc = "purge" => pins \subseteq orphans
  /\ pc = "pin" => todo \subseteq Known /\ ActiveRows \subseteq pins \cup skipped \cup todo
  /\ pc = "serving" => todo \subseteq Known /\ ActiveRows \subseteq pins \cup skipped \cup todo \cup released
  /\ pc \notin {"pin", "serving", "unpin"} => todo = {}
  /\ pc # "serving" => released = {}
  /\ file # NULL /\ pc \notin {"fetch", "pin", "serving"} \cup CleanupPcs => ActiveRows \subseteq pins \cup skipped

Inv == TypeOK /\ ConfigInv /\ PinInv

-----------------------------------------------------------------------------
LEMMA EmptyDatabaseOK ==
  /\ EmptyDatabase \in Database /\ EmptyDatabase # NULL
  /\ EmptyDatabase.saved = {} /\ EmptyDatabase.rows = Nowhere
  /\ \A a \in Agreements : Nowhere[a] = "absent"
<1>1. EmptyDatabase \in Database
  BY DEF EmptyDatabase, Database, Nowhere, Keys, Status
<1>2. EmptyDatabase # NULL
  BY <1>1, FileAssumption
<1> QED
  BY <1>1, <1>2 DEF EmptyDatabase, Nowhere

LEMMA FileFields ==
  ASSUME TypeOK, file # NULL
  PROVE  /\ file \in Database
         /\ file.saved \subseteq Keys /\ file.fetched \in BOOLEAN
         /\ file.rows \in [Agreements -> Status] /\ file.forked \in BOOLEAN
BY DEF TypeOK, Database

LEMMA InvInit == Init => Inv
<1> SUFFICES ASSUME Init PROVE Inv
  OBVIOUS
<1>1. TypeOK
  <2>1. chain \in [Agreements -> Status]
    BY DEF Init, Nowhere, Status
  <2>2. 0 \in 0..MaxChanges /\ 0 \in 0..MaxCommands
    BY DaemonAssumption
  <2>3. pc \notin {"serving"} \cup StartPcs \cup CleanupPcs
    BY DEF Init, StartPcs, CleanupPcs
  <2> QED
    BY <2>1, <2>2, <2>3 DEF Init, TypeOK
<1>2. ConfigInv
  BY DEF Init, ConfigInv
<1>3. PinInv
  BY DEF Init, PinInv
<1> QED
  BY <1>1, <1>2, <1>3 DEF Inv

-----------------------------------------------------------------------------
(* A command that is cut off leaves its unpinned agreements in `skipped`.  *)
LEMMA AbortKeepsInv ==
  ASSUME Inv, Abort
  PROVE  Inv'
<1> USE DEF Abort, End, work, world
<1>1. TypeOK'
  BY DEF Inv, TypeOK, Unserved, StartPcs, CleanupPcs, InitPcs, ResetPcs
<1>2. ConfigInv'
  BY DEF Inv, ConfigInv, InitPcs, ResetPcs
<1>3. PinInv'
  BY DEF Inv, PinInv, Unserved, ActiveRows, Known, CleanupPcs
<1> QED
  BY <1>1, <1>2, <1>3 DEF Inv

-----------------------------------------------------------------------------
(* init                                                                    *)
LEMMA InitStepKeepsInv ==
  ASSUME Inv, InitStep
  PROVE  Inv'
<1> USE DEF Step, Goto, work, world, history
<1>1. CASE Override
  <2>1. TypeOK'
    BY <1>1 DEF Override, Unlink, Inv, TypeOK, InitPcs, StartPcs, CleanupPcs
  <2>2. ConfigInv'
    BY <1>1 DEF Override, Unlink, Inv, ConfigInv
  <2>3. PinInv'
    BY <1>1 DEF Override, Unlink, Inv, PinInv
  <2> QED
    BY <2>1, <2>2, <2>3 DEF Inv
<1>2. CASE KeepDb
  <2>1. TypeOK'
    BY <1>2 DEF KeepDb, End, Inv, TypeOK, StartPcs, CleanupPcs
  <2>2. ConfigInv'
    BY <1>2 DEF KeepDb, End, Inv, ConfigInv
  <2>3. PinInv'
    BY <1>2 DEF KeepDb, End, Inv, PinInv, ActiveRows, Known, CleanupPcs
  <2> QED
    BY <2>1, <2>2, <2>3 DEF Inv
<1>3. CASE InitDb
  <2>1. TypeOK'
    BY <1>3, EmptyDatabaseOK DEF InitDb, Inv, TypeOK, InitPcs, StartPcs, CleanupPcs
  <2>2. ConfigInv'
    BY <1>3, EmptyDatabaseOK DEF InitDb, Inv, ConfigInv
  <2>3. PinInv'
    BY <1>3, EmptyDatabaseOK DEF InitDb, Inv, ConfigInv, PinInv, ActiveRows, Known
  <2> QED
    BY <2>1, <2>2, <2>3 DEF Inv
<1>4. CASE SetOffer
  <2>1. TypeOK'
    BY <1>4 DEF SetOffer, Inv, TypeOK, Keys, InitPcs, StartPcs, CleanupPcs
  <2>2. ConfigInv'
    BY <1>4 DEF SetOffer, Inv, ConfigInv
  <2>3. PinInv'
    BY <1>4 DEF SetOffer, Inv, PinInv, ActiveRows, Known, CleanupPcs
  <2> QED
    BY <2>1, <2>2, <2>3 DEF Inv
<1>5. CASE CreatePeer
  <2>1. TypeOK'
    BY <1>5 DEF CreatePeer, Inv, TypeOK, Keys, InitPcs, StartPcs, CleanupPcs
  <2>2. ConfigInv'
    BY <1>5, FileFields DEF CreatePeer, Inv, TypeOK, ConfigInv, Keys
  <2>3. PinInv'
    BY <1>5 DEF CreatePeer, Inv, PinInv, ActiveRows, Known, CleanupPcs
  <2> QED
    BY <2>1, <2>2, <2>3 DEF Inv
<1>6. CASE InitEnds
  <2>1. TypeOK'
    BY <1>6 DEF InitEnds, End, Inv, TypeOK, StartPcs, CleanupPcs
  <2>2. ConfigInv'
    BY <1>6 DEF InitEnds, End, Inv, ConfigInv
  <2>3. PinInv'
    BY <1>6 DEF InitEnds, End, Inv, PinInv, ActiveRows, Known, CleanupPcs
  <2> QED
    BY <2>1, <2>2, <2>3 DEF Inv
<1>7. CASE InitFails
  <2>1. TypeOK'
    BY <1>7, EmptyDatabaseOK DEF InitFails, Inv, TypeOK, InitPcs, StartPcs, CleanupPcs
  <2>2. ConfigInv'
    BY <1>7 DEF InitFails, Inv, ConfigInv
  <2>3. PinInv'
    BY <1>7, EmptyDatabaseOK DEF InitFails, Inv, ConfigInv, PinInv, ActiveRows, Known, CleanupPcs
  <2> QED
    BY <2>1, <2>2, <2>3 DEF Inv
<1>8. CASE Undo
  <2>1. TypeOK'
    BY <1>8 DEF Undo, Unlink, End, Inv, TypeOK, StartPcs, CleanupPcs
  <2>2. ConfigInv'
    BY <1>8 DEF Undo, Unlink, End, ConfigInv
  <2>3. PinInv'
    BY <1>8 DEF Undo, Unlink, End, PinInv
  <2> QED
    BY <2>1, <2>2, <2>3 DEF Inv
<1> QED
  BY <1>1, <1>2, <1>3, <1>4, <1>5, <1>6, <1>7, <1>8 DEF InitStep

-----------------------------------------------------------------------------
(* The start of the daemon.                                                *)
LEMMA StartStepKeepsInv ==
  ASSUME Inv, StartStep
  PROVE  Inv'
<1> USE DEF Step, Goto, work, world, history
<1>1. CASE Abort
  BY <1>1, AbortKeepsInv
<1>2. CASE OfferId /\ ~Abort
  <2>1. TypeOK'
    BY <1>2 DEF OfferId, Fails, Inv, TypeOK, StartPcs, CleanupPcs
  <2>2. ConfigInv'
    BY <1>2 DEF OfferId, Fails, Inv, ConfigInv
  <2>3. PinInv'
    BY <1>2 DEF OfferId, Fails, Inv, PinInv, ActiveRows, Known, CleanupPcs
  <2> QED
    BY <2>1, <2>2, <2>3 DEF Inv
<1>3. CASE StartCommunication /\ ~Abort
  <2>1. TypeOK'
    BY <1>3 DEF StartCommunication, Fails, Inv, TypeOK, StartPcs, CleanupPcs
  <2>2. ConfigInv'
    <3>1. store = Keys /\ pc = "comms"
      BY <1>3 DEF StartCommunication, Fails, Inv, TypeOK, ConfigInv, Keys
    <3> QED
      BY <1>3, <3>1 DEF StartCommunication, Fails, Inv, ConfigInv
  <2>3. PinInv'
    BY <1>3 DEF StartCommunication, Fails, Inv, PinInv, ActiveRows, Known, CleanupPcs
  <2> QED
    BY <2>1, <2>2, <2>3 DEF Inv
<1>4. CASE StartProcessor
  <2>1. TypeOK'
    BY <1>4 DEF StartProcessor, Inv, TypeOK, StartPcs, CleanupPcs
  <2>2. ConfigInv'
    BY <1>4 DEF StartProcessor, Inv, ConfigInv
  <2>3. PinInv'
    <3>1. pc = "ipfs" /\ pc' \in {"serving", "fetch"} /\ UNCHANGED <<file, chain, pins, skipped, orphans, todo, released>>
      BY <1>4 DEF StartProcessor
    <3>2. file # NULL /\ todo = {} /\ released = {} /\ ActiveRows \subseteq pins \cup skipped
      BY <3>1 DEF Inv, TypeOK, StartPcs, PinInv, CleanupPcs
    <3> QED
      BY <3>1, <3>2 DEF Inv, PinInv, ActiveRows, Known, CleanupPcs
  <2> QED
    BY <2>1, <2>2, <2>3 DEF Inv
<1>5. ASSUME NEW a \in Agreements, FetchBatch(a) PROVE Inv'
  <2> DEFINE f == [file EXCEPT !.rows[a] = chain[a], !.fetched = TRUE]
  <2>1. file # NULL /\ pc = "fetch" /\ pc' = pc /\ file' = f
    BY <1>5 DEF FetchBatch, Inv, TypeOK, StartPcs
  <2>2. /\ f \in Database /\ f # NULL
        /\ f.saved = file.saved /\ f.forked = file.forked
        /\ \A b \in Agreements : f.rows[b] = IF b = a THEN chain[a] ELSE file.rows[b]
    <3>1. file \in Database /\ file.rows \in [Agreements -> Status] /\ chain[a] \in Status
      BY <2>1, FileFields DEF Inv, TypeOK
    <3> DEFINE g == [file EXCEPT !.rows[a] = chain[a]]
    <3>2. /\ g \in Database
          /\ g.saved = file.saved /\ g.forked = file.forked
          /\ \A b \in Agreements : g.rows[b] = IF b = a THEN chain[a] ELSE file.rows[b]
      BY <2>1, <3>1, FileFields DEF Inv, TypeOK, Database
    <3>3. f = [g EXCEPT !.fetched = TRUE]
      OBVIOUS
    <3>4. /\ f \in Database /\ f.saved = g.saved /\ f.forked = g.forked /\ f.rows = g.rows
      <4> HIDE DEF f, g
      <4> QED
        BY <3>2, <3>3 DEF Database
    <3> QED
      BY <3>1, <3>2, <3>4, FileAssumption
  <2>3. TypeOK'
    BY <1>5, <2>1, <2>2 DEF FetchBatch, Inv, TypeOK
  <2>4. ConfigInv'
    BY <1>5, <2>1, <2>2 DEF FetchBatch, Inv, ConfigInv
  <2>5. PinInv'
    BY <1>5, <2>1, <2>2 DEF FetchBatch, Inv, PinInv, ActiveRows, Known
  <2> QED
    BY <2>3, <2>4, <2>5 DEF Inv
<1>6. CASE FetchedAll
  <2> DEFINE f == [file EXCEPT !.fetched = TRUE]
  <2>1. file # NULL /\ pc = "fetch" /\ pc' = "pin" /\ file' = f
    BY <1>6 DEF FetchedAll, Inv, TypeOK, StartPcs
  <2>2. /\ f \in Database /\ f # NULL
        /\ f.saved = file.saved /\ f.forked = file.forked /\ f.rows = file.rows
    BY <2>1, FileFields, FileAssumption DEF Inv, Database
  <2>3. TypeOK'
    BY <1>6, <2>1, <2>2 DEF FetchedAll, Inv, TypeOK, StartPcs
  <2>4. ConfigInv'
    BY <1>6, <2>1, <2>2 DEF FetchedAll, Inv, ConfigInv
  <2>5. PinInv'
    BY <1>6, <2>1, <2>2 DEF FetchedAll, HasFunds, Inv, PinInv, ActiveRows, Known
  <2> QED
    BY <2>3, <2>4, <2>5 DEF Inv
<1>7. ASSUME NEW a \in Agreements, PinFetched(a) PROVE Inv'
  <2>1. TypeOK'
    BY <1>7 DEF PinFetched, Inv, TypeOK, StartPcs
  <2>2. ConfigInv'
    BY <1>7 DEF PinFetched, Inv, ConfigInv
  <2>3. PinInv'
    BY <1>7 DEF PinFetched, Inv, TypeOK, StartPcs, PinInv, ActiveRows, Known
  <2> QED
    BY <2>1, <2>2, <2>3 DEF Inv
<1>8. CASE Subscribe
  <2>1. TypeOK'
    BY <1>8 DEF Subscribe, Inv, TypeOK, StartPcs
  <2>2. ConfigInv'
    BY <1>8 DEF Subscribe, Inv, ConfigInv
  <2>3. PinInv'
    BY <1>8 DEF Subscribe, Inv, PinInv, ActiveRows, Known, CleanupPcs
  <2> QED
    BY <2>1, <2>2, <2>3 DEF Inv
<1> QED
  BY <1>1, <1>2, <1>3, <1>4, <1>5, <1>6, <1>7, <1>8
  DEF StartStep, StartProcessorFails, FetchFails, PinFetchedFails, Fails

-----------------------------------------------------------------------------
(* Service, and the reset after a reorganisation.                          *)
(* A handler or the collector writes the row of a.                         *)
LEMMA RowWritten ==
  ASSUME Inv, pc = "serving", NEW a \in Agreements, NEW status \in Status \ {"absent"},
         chain[a] # "absent" \/ file.forked,
         file' = [file EXCEPT !.rows[a] = status],
         todo' \subseteq todo \cup {a}, todo \subseteq todo', released' \subseteq released,
         status = "active" => a \in todo', released \subseteq released' \cup {a},
         status # "empty" => released' = released,
         UNCHANGED <<store, unsaved, pc, world, pins, history, commands>>
  PROVE  Inv'
<1> DEFINE f == [file EXCEPT !.rows[a] = status]
<1>1. file # NULL
  BY DEF Inv, TypeOK
<1>2. /\ f \in Database /\ f # NULL
      /\ f.saved = file.saved /\ f.forked = file.forked
      /\ \A b \in Agreements : f.rows[b] = IF b = a THEN status ELSE file.rows[b]
  BY <1>1, FileFields, FileAssumption DEF Inv, TypeOK, Database
<1>3. TypeOK'
  BY <1>1, <1>2 DEF Inv, TypeOK, world, history
<1>4. ConfigInv'
  BY <1>1, <1>2 DEF Inv, ConfigInv, world, history
<1>5. PinInv'
  BY <1>1, <1>2 DEF Inv, PinInv, ActiveRows, Known, CleanupPcs, world, history
<1> QED
  BY <1>3, <1>4, <1>5 DEF Inv

LEMMA ServeKeepsInv ==
  ASSUME Inv, NEW a \in Agreements, Serve(a)
  PROVE  Inv'
<1> USE DEF Serving, work
<1>1. CASE Handle(a)
  <2>1. PICK status \in {"active", "stopped"} : file' = [file EXCEPT !.rows[a] = status]
    BY <1>1 DEF Handle
  <2>2. status \in Status \ {"absent"}
    BY DEF Status
  <2>3. file # NULL /\ (file.rows[a] = "absent" => chain[a] # "absent")
    BY <1>1 DEF Handle, Behind, Inv, TypeOK
  <2>4. chain[a] # "absent"
    BY <1>1, <2>3 DEF Handle, Behind, Inv, PinInv
  <2> QED
    BY <1>1, <2>1, <2>2, <2>4, RowWritten DEF Handle
<1>2. CASE PinHandled(a)
  <2>1. TypeOK'
    BY <1>2 DEF PinHandled, Inv, TypeOK, world
  <2>2. ConfigInv'
    BY <1>2 DEF PinHandled, Inv, ConfigInv, world
  <2>3. PinInv'
    BY <1>2 DEF PinHandled, Inv, TypeOK, PinInv, ActiveRows, Known, CleanupPcs, world
  <2> QED
    BY <2>1, <2>2, <2>3 DEF Inv
<1>3. CASE UnpinHandled(a)
  <2>1. TypeOK'
    BY <1>3 DEF UnpinHandled, Inv, TypeOK, world, history
  <2>2. ConfigInv'
    BY <1>3 DEF UnpinHandled, Inv, ConfigInv, world, history
  <2>3. PinInv'
    BY <1>3 DEF UnpinHandled, Inv, TypeOK, PinInv, ActiveRows, Known, CleanupPcs, world, history
  <2> QED
    BY <2>1, <2>2, <2>3 DEF Inv
<1>4. CASE Release(a)
  <2>1. TypeOK'
    BY <1>4 DEF Release, Inv, TypeOK, world, history
  <2>2. ConfigInv'
    BY <1>4 DEF Release, Inv, ConfigInv, world, history
  <2>3. PinInv'
    BY <1>4 DEF Release, Inv, TypeOK, PinInv, ActiveRows, Known, CleanupPcs, world, history
  <2> QED
    BY <2>1, <2>2, <2>3 DEF Inv
<1>5. CASE SaveReleased(a)
  <2>1. pc = "serving" /\ file # NULL /\ file.rows[a] # "absent"
    BY <1>5 DEF SaveReleased, Inv, TypeOK
  <2>2. chain[a] # "absent" \/ file.forked
    BY <2>1 DEF Inv, PinInv
  <2>3. CASE file' = [file EXCEPT !.rows[a] = "empty"] /\ UNCHANGED skipped
    BY <1>5, <2>1, <2>2, <2>3, RowWritten DEF SaveReleased, Status, world, history
  <2>4. CASE skipped' = skipped \cup {a} /\ UNCHANGED file
    <3>1. TypeOK'
      BY <1>5, <2>4 DEF SaveReleased, Inv, TypeOK, world
    <3>2. ConfigInv'
      BY <1>5, <2>4 DEF SaveReleased, Inv, ConfigInv, world
    <3>3. PinInv'
      BY <1>5, <2>1, <2>4 DEF SaveReleased, Inv, TypeOK, PinInv, ActiveRows, Known, CleanupPcs, world
    <3> QED
      BY <3>1, <3>2, <3>3 DEF Inv
  <2> QED
    BY <1>5, <2>3, <2>4 DEF SaveReleased
<1> QED
  BY <1>1, <1>2, <1>3, <1>4, <1>5 DEF Serve

LEMMA ResetStepKeepsInv ==
  ASSUME Inv, ResetStep
  PROVE  Inv'
<1> USE DEF Step, Goto, work, world, history
<1>1. CASE Reset
  <2>1. TypeOK'
    BY <1>1 DEF Reset, Unserved, Inv, TypeOK, ResetPcs, StartPcs, CleanupPcs
  <2>2. ConfigInv'
    BY <1>1 DEF Reset, Inv, ConfigInv
  <2>3. PinInv'
    BY <1>1 DEF Reset, Unserved, Inv, PinInv, ActiveRows, Known, CleanupPcs
  <2> QED
    BY <2>1, <2>2, <2>3 DEF Inv
<1>2. CASE UnlinkDb
  <2>1. TypeOK'
    BY <1>2 DEF UnlinkDb, Unlink, Inv, TypeOK, ResetPcs, StartPcs, CleanupPcs
  <2>2. ConfigInv'
    BY <1>2 DEF UnlinkDb, Unlink, ConfigInv
  <2>3. PinInv'
    BY <1>2 DEF UnlinkDb, Unlink, Inv, TypeOK, PinInv, CleanupPcs
  <2> QED
    BY <2>1, <2>2, <2>3 DEF Inv
<1>3. CASE RecreateDb
  <2>1. TypeOK'
    BY <1>3, EmptyDatabaseOK DEF RecreateDb, Inv, TypeOK, ResetPcs, StartPcs, CleanupPcs
  <2>2. ConfigInv'
    BY <1>3, EmptyDatabaseOK DEF RecreateDb, ConfigInv
  <2>3. PinInv'
    BY <1>3, EmptyDatabaseOK DEF RecreateDb, Inv, ConfigInv, PinInv, ActiveRows, Known
  <2> QED
    BY <2>1, <2>2, <2>3 DEF Inv
<1>4. CASE RecreateDbFails
  BY <1>4, AbortKeepsInv DEF RecreateDbFails, Fails
<1>5. CASE ResetOffer
  <2>1. TypeOK'
    BY <1>5 DEF ResetOffer, Inv, ConfigInv, TypeOK, Keys, StartPcs, CleanupPcs
  <2>2. ConfigInv'
    BY <1>5 DEF ResetOffer, Inv, ConfigInv
  <2>3. PinInv'
    BY <1>5 DEF ResetOffer, Inv, PinInv, ActiveRows, Known, CleanupPcs
  <2> QED
    BY <2>1, <2>2, <2>3 DEF Inv
<1> QED
  BY <1>1, <1>2, <1>3, <1>4, <1>5 DEF ResetStep

-----------------------------------------------------------------------------
(* cleanup                                                                 *)
LEMMA CleanupStepKeepsInv ==
  ASSUME Inv, CleanupStep
  PROVE  Inv'
<1> USE DEF Step, Goto, work, world, history
<1>1. ASSUME NEW a \in Agreements, UnpinAgreement(a) PROVE Inv'
  <2>1. TypeOK'
    BY <1>1 DEF UnpinAgreement, Inv, TypeOK, CleanupPcs
  <2>2. ConfigInv'
    BY <1>1 DEF UnpinAgreement, Inv, ConfigInv
  <2>3. PinInv'
    BY <1>1 DEF UnpinAgreement, Inv, PinInv, ActiveRows, Known, CleanupPcs
  <2> QED
    BY <2>1, <2>2, <2>3 DEF Inv
<1>2. CASE UnpinnedAll
  <2>1. TypeOK'
    BY <1>2 DEF UnpinnedAll, Inv, TypeOK, CleanupPcs
  <2>2. ConfigInv'
    BY <1>2 DEF UnpinnedAll, Inv, ConfigInv
  <2>3. PinInv'
    BY <1>2 DEF UnpinnedAll, Inv, PinInv, ActiveRows, Known, CleanupPcs
  <2> QED
    BY <2>1, <2>2, <2>3 DEF Inv
<1>3. CASE PurgeDb
  <2>1. TypeOK'
    BY <1>3 DEF PurgeDb, End, Inv, TypeOK, StartPcs, CleanupPcs
  <2>2. ConfigInv'
    BY <1>3 DEF PurgeDb, End, ConfigInv
  <2>3. PinInv'
    BY <1>3 DEF PurgeDb, End, Inv, PinInv
  <2> QED
    BY <2>1, <2>2, <2>3 DEF Inv
<1> QED
  BY <1>1, <1>2, <1>3 DEF CleanupStep

-----------------------------------------------------------------------------
(* The start of a command, the store's writes, the chain.                  *)
LEMMA RunKeepsInv ==
  ASSUME Inv, RunInit \/ RunDaemon \/ \E unpin \in BOOLEAN : RunCleanup(unpin)
  PROVE  Inv'
<1> USE DEF Goto, work, world, history
<1>1. pc = "down" /\ commands \in 0..MaxCommands /\ commands < MaxCommands => commands + 1 \in 0..MaxCommands
  BY DaemonAssumption
<1>2. CASE RunInit
  <2>1. TypeOK'
    BY <1>1, <1>2 DEF RunInit, Run, Inv, ConfigInv, TypeOK, InitPcs, StartPcs, CleanupPcs
  <2>2. ConfigInv'
    BY <1>2 DEF RunInit, Run, Inv, ConfigInv
  <2>3. PinInv'
    BY <1>2 DEF RunInit, Run, Inv, PinInv, ActiveRows, Known, CleanupPcs
  <2> QED
    BY <2>1, <2>2, <2>3 DEF Inv
<1>3. CASE RunDaemon
  <2>1. TypeOK'
    BY <1>1, <1>3, FileFields DEF RunDaemon, Run, Inv, ConfigInv, TypeOK, StartPcs, CleanupPcs
  <2>2. ConfigInv'
    BY <1>3 DEF RunDaemon, Run, Inv, ConfigInv
  <2>3. PinInv'
    BY <1>3 DEF RunDaemon, Run, Inv, PinInv, ActiveRows, Known, CleanupPcs
  <2> QED
    BY <2>1, <2>2, <2>3 DEF Inv
<1>4. ASSUME NEW unpin \in BOOLEAN, RunCleanup(unpin) PROVE Inv'
  <2>1. TypeOK'
    BY <1>1, <1>4, FileFields DEF RunCleanup, Known, Inv, ConfigInv, TypeOK, StartPcs, CleanupPcs
  <2>2. ConfigInv'
    BY <1>4 DEF RunCleanup, Inv, ConfigInv
  <2>3. PinInv'
    BY <1>4 DEF RunCleanup, Inv, PinInv, ActiveRows, Known, CleanupPcs
  <2> QED
    BY <2>1, <2>2, <2>3 DEF Inv
<1> QED
  BY <1>2, <1>3, <1>4

LEMMA SaveStoreKeepsInv ==
  ASSUME Inv, NEW key \in Keys, SaveStore(key)
  PROVE  Inv'
<1> DEFINE f == [file EXCEPT !.saved = @ \cup {key}]
<1>1. file # NULL /\ key \in unsaved /\ unsaved' = unsaved \ {key} /\ file' = f
  BY DEF SaveStore
<1>2. /\ f \in Database /\ f # NULL
      /\ f.saved = file.saved \cup {key} /\ f.forked = file.forked /\ f.rows = file.rows
  BY <1>1, FileFields, FileAssumption DEF Inv, Database
<1>3. file.saved \subseteq Keys
  BY <1>1, FileFields DEF Inv
<1>4. TypeOK'
  BY <1>1, <1>2 DEF SaveStore, Inv, TypeOK, work, world, history
<1>5. ConfigInv'
  BY <1>1, <1>2, <1>3 DEF SaveStore, Inv, ConfigInv, work, world, history
<1>6. PinInv'
  BY <1>1, <1>2 DEF SaveStore, Inv, PinInv, ActiveRows, Known, CleanupPcs, work, world, history
<1> QED
  BY <1>4, <1>5, <1>6 DEF Inv

LEMMA ChainStepKeepsInv ==
  ASSUME Inv, NEW a \in Agreements, Conclude(a) \/ RunDry(a) \/ Stop(a) \/ Reorganise(a)
  PROVE  Inv'
<1> USE DEF Conclude, RunDry, Stop, Reorganise, Change, work, history
<1>1. PICK status \in Status :
        /\ changes < MaxChanges /\ changes' = changes + 1
        /\ chain' = [chain EXCEPT ![a] = status]
        /\ status = "absent" => Reorganise(a)
  BY DEF Status
<1>2. UNCHANGED <<store, unsaved, pc, todo, pins, history, commands>>
  OBVIOUS
<1>3. /\ file = NULL => file' = NULL
      /\ file # NULL => /\ file' \in Database /\ file' # NULL
                        /\ file'.saved = file.saved /\ file'.rows = file.rows
                        /\ file.forked => file'.forked
                        /\ Reorganise(a) /\ file.rows[a] # "absent" => file'.forked
  <2> DEFINE f == [file EXCEPT !.forked = TRUE]
  <2>1. file # NULL => /\ f \in Database /\ f # NULL
                       /\ f.saved = file.saved /\ f.rows = file.rows /\ f.forked
    BY FileFields, FileAssumption DEF Inv, Database
  <2>2. file' = file \/ (Reorganise(a) /\ file # NULL /\ file.rows[a] # "absent" /\ file' = f)
    OBVIOUS
  <2>3. Reorganise(a) /\ file # NULL /\ file.rows[a] # "absent" => file' = f
    OBVIOUS
  <2> QED
    BY <2>1, <2>2, <2>3, FileFields DEF Inv
<1>4. TypeOK'
  <2>1. chain' \in [Agreements -> Status]
    BY <1>1 DEF Inv, TypeOK
  <2>2. changes' \in 0..MaxChanges
    BY <1>1, DaemonAssumption DEF Inv, TypeOK
  <2> QED
    BY <1>2, <1>3, <2>1, <2>2 DEF Inv, TypeOK
<1>5. ConfigInv'
  BY <1>2, <1>3 DEF Inv, ConfigInv
<1>6. PinInv'
  BY <1>1, <1>2, <1>3 DEF Inv, TypeOK, PinInv, ActiveRows, Known, CleanupPcs
<1> QED
  BY <1>4, <1>5, <1>6 DEF Inv

-----------------------------------------------------------------------------
LEMMA NextKeepsInv ==
  ASSUME Inv, [Next]_vars
  PROVE  Inv'
<1>1. CASE UNCHANGED vars
  BY <1>1 DEF vars, work, history, Inv, TypeOK, ConfigInv, PinInv, ActiveRows, Known
<1>2. CASE Kill
  BY <1>2, AbortKeepsInv DEF Kill
<1> QED
  BY <1>1, <1>2, InitStepKeepsInv, StartStepKeepsInv, ServeKeepsInv, ResetStepKeepsInv, CleanupStepKeepsInv,
     RunKeepsInv, SaveStoreKeepsInv, ChainStepKeepsInv
  DEF Next, CommandStep, ChainStep

THEOREM DaemonInvariant == Spec => []Inv
<1>1. Inv /\ [Next]_vars => Inv'
  BY NextKeepsInv
<1> QED
  BY <1>1, InvInit, PTL DEF Spec

(* The variables stay in their types, and no step of a command that needs  *)
(* the database runs without one.                                          *)
THEOREM DaemonTypeCorrect == Spec => []TypeOK
<1>1. Inv => TypeOK
  BY DEF Inv
<1> QED
  BY <1>1, DaemonInvariant, PTL

(* Whatever commands were killed or failed before, and after a reset too,  *)
(* the daemon serves only with the offer and the peer's identity.          *)
THEOREM ServiceIsConfigured == Spec => []ServingIsConfigured
<1>1. Inv => ServingIsConfigured
  BY DEF Inv, TypeOK, ConfigInv, ServingIsConfigured
<1> QED
  BY <1>1, DaemonInvariant, PTL

(* init leaves a complete database or none, unless it is killed.           *)
THEOREM NoHalfMadeDatabase == Spec => []InitIsAllOrNothing
<1>1. Inv => InitIsAllOrNothing
  BY DEF Inv, ConfigInv, InitIsAllOrNothing
<1> QED
  BY <1>1, DaemonInvariant, PTL

(* The daemon that serves has its active agreements pinned, but for the    *)
(* pins that failed or were cut off.                                       *)
THEOREM ActiveArePinned == Spec => []ActiveIsPinned
<1>1. Inv => ActiveIsPinned
  BY DEF Inv, TypeOK, PinInv, ActiveRows, CleanupPcs, ActiveIsPinned
<1> QED
  BY <1>1, DaemonInvariant, PTL

(* No pin is forgotten but with its database, or by an unpin that failed.  *)
THEOREM PinsAreKnown == Spec => []PinnedIsKnown
<1>1. Inv => PinnedIsKnown
  BY DEF Inv, PinInv, PinnedIsKnown
<1> QED
  BY <1>1, DaemonInvariant, PTL
=============================================================================
