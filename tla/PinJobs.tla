------------------------------- MODULE PinJobs -------------------------------
(***************************************************************************)
(* JobsManager.run of PinJobs (src/jobs-manager.ts, src/providers/ipfs.ts) *)
(* with the job rows and the direct addresses consumers announce.  Jobs    *)
(* run concurrently: the marketplace strategy does not serialise events,   *)
(* and an agreement concluded anew may meet its own older job.  A          *)
(* broadcast is one step here; Messages.tla has its parts.                 *)
(*                                                                         *)
(* A job's pc.  JobsManager.run:  start .. caught -> retry -> start        *)
(*   Job.run:     run -> (PinJob._run) -> finish | failed                  *)
(*   PinJob._run: stat -> find -> drop -> connect -> add -> disconnect     *)
(*                -> verify -> remove                                      *)
(***************************************************************************)
EXTENDS Integers, FiniteSets

CONSTANTS
  Agreements,        \* agreement references
  NULL,              \* SQL null
  Jobs,              \* jobs that may run together
  AgreementOf,       \* the agreement of each job
  Refs,              \* data references
  RefOf,             \* the reference of each agreement
  PaidSize,          \* agreement.size
  Contents,          \* [meta, actual]: what object.stat and dag.stat may say of data
  Retries,           \* jobs.retries
  Ttl,               \* directAddress.ttl
  IpfsMayFail,       \* whether requests to the IPFS node may fail or time out
  DbFaults,          \* bound: number of writes to the database that fail
  MaxAnnouncements,  \* bound: number of address announcements
  MaxTime            \* bound: the clock

ASSUME JobsAssumption ==
  /\ AgreementOf \in [Jobs -> Agreements]
  /\ RefOf \in [Agreements -> Refs]
  /\ PaidSize \in [Agreements -> Nat]
  /\ Contents \subseteq [meta : Nat, actual : Nat]
  /\ Retries \in Nat \ {0}
  /\ Ttl \in Nat \ {0}
  /\ {DbFaults, MaxAnnouncements, MaxTime} \subseteq Nat
  /\ NULL \notin Nat

VARIABLES
  job,        \* the run() of each job
  row,        \* its row in the jobs table
  content,    \* what the network holds for each reference
  pins,       \* references pinned on the IPFS node
  removed,    \* history: jobs whose pin.rm took effect
  addresses,  \* direct-address rows
  announced,  \* number of announcements so far
  faults,     \* database failures so far
  now         \* the clock

vars == <<job, row, content, pins, removed, addresses, announced, faults, now>>

Settled == {"resolved", "rejected"}

Pcs == {"start", "run", "stat", "find", "drop", "connect", "add", "disconnect", "verify",
        "remove", "finish", "failed", "tellPinned", "caught", "tellTooBig", "tellGeneral",
        "retry", "tellRetry", "hung"} \cup Settled

Job == [ pc : Pcs,
         try : 1..Retries,
         error : {"none", "size", "other"},
         peer : Nat,             \* id of the address row findOne returned, 0: none
         dialled : BOOLEAN ]     \* swarmAddresses: the peer was found

(* JobState; "unsaved": not in the table yet.  retry is the count of its   *)
(* "count/total", finish the time, NULL while there is none.               *)
JobRow == [ state : {"unsaved", "running", "backoff", "errored", "finished"},
            retry : 0..Retries,
            finish : Nat \cup {NULL} ]

Address == [id : Nat, agreement : Agreements, createdAt : Nat]

TypeOK ==
  /\ job \in [Jobs -> Job]
  /\ row \in [Jobs -> JobRow]
  /\ content \in [Refs -> Contents]
  /\ pins \subseteq Refs
  /\ removed \subseteq Jobs
  /\ addresses \subseteq Address
  /\ announced \in 0..MaxAnnouncements
  /\ faults \in 0..DbFaults
  /\ now \in 0..MaxTime

Init ==
  /\ job = [j \in Jobs |-> [pc |-> "start", try |-> 1, error |-> "none", peer |-> 0, dialled |-> FALSE]]
  /\ row = [j \in Jobs |-> [state |-> "unsaved", retry |-> 0, finish |-> NULL]]
  /\ content \in [Refs -> Contents]
  /\ pins = {}
  /\ removed = {}
  /\ addresses = {}
  /\ announced = 0
  /\ faults = 0
  /\ now = 0

-----------------------------------------------------------------------------
ref(j) == RefOf[AgreementOf[j]]
At(j, pc) == job[j].pc = pc

Goto(j, pc) == job' = [job EXCEPT ![j].pc = pc]
Fails(j, error, pc) == job' = [job EXCEPT ![j].pc = pc, ![j].error = error]

DbFails == faults < DbFaults /\ faults' = faults + 1

(* A broadcast; what the consumers are told is in BlockchainEvents.  Of    *)
(* E_GENERAL, which carries no agreement reference, they learn nothing.    *)
Broadcast(j, pc, next) ==
  /\ At(j, pc) /\ Goto(j, next)
  /\ UNCHANGED <<row, content, pins, removed, addresses, announced, faults, now>>

AnnounceStart(j) == Broadcast(j, "start", "run")
AnnouncePinned(j) == Broadcast(j, "tellPinned", "resolved")
AnnounceTooBig(j) == Broadcast(j, "tellTooBig", "rejected")
AnnounceGeneral(j) == Broadcast(j, "tellGeneral", "rejected")

(* The broadcast fails: within the try block the job is tried again, even *)
(* when it had finished; in the catch block run() itself rejects.          *)
BroadcastFails(j) ==
  /\ DbFails
  /\ \/ (At(j, "start") \/ At(j, "tellPinned")) /\ Fails(j, "other", "caught")
     \/ (At(j, "tellTooBig") \/ At(j, "tellGeneral") \/ At(j, "tellRetry")) /\ Goto(j, "rejected")
  /\ UNCHANGED <<row, content, pins, removed, addresses, announced, now>>

(* The loop: a size error is final, others are retried.                    *)
CatchLate(j) ==  \* mutant: one try too many
  /\ At(j, "caught")
  /\ Goto(j, IF job[j].error = "size" THEN "tellTooBig"
             ELSE IF job[j].try > Retries THEN "tellGeneral" ELSE "retry")
  /\ UNCHANGED <<row, content, pins, removed, addresses, announced, faults, now>>
Catch(j) ==
  /\ At(j, "caught")
  /\ Goto(j, IF job[j].error = "size" THEN "tellTooBig"
             ELSE IF job[j].try = Retries THEN "tellGeneral" ELSE "retry")
  /\ UNCHANGED <<row, content, pins, removed, addresses, announced, faults, now>>

SaveBackoff(j) ==
  /\ At(j, "retry")
  /\ row' = [row EXCEPT ![j].state = "backoff", ![j].retry = job[j].try]
  /\ Goto(j, "tellRetry")
  /\ UNCHANGED <<content, pins, removed, addresses, announced, faults, now>>

SaveBackoffFails(j) ==
  /\ At(j, "retry")
  /\ DbFails
  /\ Goto(j, "rejected")
  /\ UNCHANGED <<row, content, pins, removed, addresses, announced, now>>

AnnounceRetryUncounted(j) ==  \* mutant: the tries are not counted
  /\ At(j, "tellRetry")
  /\ job' = [job EXCEPT ![j].pc = "start", ![j].error = "none"]
  /\ UNCHANGED <<row, content, pins, removed, addresses, announced, faults, now>>
AnnounceRetry(j) ==
  /\ At(j, "tellRetry")
  /\ job' = [job EXCEPT ![j].pc = "start", ![j].try = @ + 1, ![j].error = "none"]
  /\ UNCHANGED <<row, content, pins, removed, addresses, announced, faults, now>>

ManagerStep(j) ==
  \/ AnnounceStart(j) \/ AnnouncePinned(j) \/ AnnounceTooBig(j) \/ AnnounceGeneral(j) \/ BroadcastFails(j)
  \/ Catch(j) \/ SaveBackoff(j) \/ SaveBackoffFails(j) \/ AnnounceRetry(j)

-----------------------------------------------------------------------------
(* Job.run: the state column before and after PinJob._run.  A failing save *)
(* is caught; when the save in the catch block fails too, no event is      *)
(* emitted and run() of the manager never settles.                         *)
SaveRunning(j) ==
  /\ At(j, "run")
  /\ row' = [row EXCEPT ![j].state = "running"]
  /\ Goto(j, "stat")
  /\ UNCHANGED <<content, pins, removed, addresses, announced, faults, now>>

SaveFinishedKeepsFinish(j) ==  \* mutant: finish is set by the first save only
  /\ At(j, "finish")
  /\ row' = [row EXCEPT ![j].state = "finished"]
  /\ Goto(j, "tellPinned")
  /\ UNCHANGED <<content, pins, removed, addresses, announced, faults, now>>
SaveFinished(j) ==
  /\ At(j, "finish")
  /\ row' = [row EXCEPT ![j].state = "finished", ![j].finish = now]
  /\ Goto(j, "tellPinned")
  /\ UNCHANGED <<content, pins, removed, addresses, announced, faults, now>>

SaveErrored(j) ==
  /\ At(j, "failed")
  /\ row' = [row EXCEPT ![j].state = "errored", ![j].finish = now]
  /\ Goto(j, "caught")
  /\ UNCHANGED <<content, pins, removed, addresses, announced, faults, now>>

SaveFails(j) ==
  /\ DbFails
  /\ \/ (At(j, "run") \/ At(j, "finish")) /\ Fails(j, "other", "failed")
     \/ At(j, "failed") /\ Goto(j, "hung")
  /\ UNCHANGED <<row, content, pins, removed, addresses, announced, now>>

-----------------------------------------------------------------------------
(* PinJob._run                                                             *)
TooBig(j, size) == size > PaidSize[AgreementOf[j]]

Stat(j) ==
  /\ At(j, "stat")
  /\ IF TooBig(j, content[ref(j)].meta) THEN Fails(j, "size", "failed") ELSE Goto(j, "find")
  /\ UNCHANGED <<row, content, pins, removed, addresses, announced, faults, now>>

(* getPeerIdByAgreement: findOne, without an order, then destroy for the   *)
(* same agreement.                                                         *)
AddressesOfData(j) == {x \in addresses : RefOf[x.agreement] = ref(j)}  \* mutant: looked up by the data
AddressesOf(j) == {x \in addresses : x.agreement = AgreementOf[j]}

FindAddress(j) ==
  /\ At(j, "find")
  /\ \E peer \in IF AddressesOf(j) = {} THEN {0} ELSE {x.id : x \in AddressesOf(j)} :
       job' = [job EXCEPT ![j].pc = "drop", ![j].peer = peer]
  /\ UNCHANGED <<row, content, pins, removed, addresses, announced, faults, now>>

DropAddresses(j) ==
  /\ At(j, "drop")
  /\ addresses' = addresses \ AddressesOf(j)
  /\ IF job[j].peer = 0
     THEN job' = [job EXCEPT ![j].pc = "add", ![j].dialled = FALSE]
     ELSE Goto(j, "connect")
  /\ UNCHANGED <<row, content, pins, removed, announced, faults, now>>

(* The statement fails: swarmConnect is warned of, the pin goes on.        *)
AddressesFail(j) ==
  /\ DbFails
  /\ At(j, "find") \/ At(j, "drop")
  /\ Goto(j, "add")
  /\ UNCHANGED <<row, content, pins, removed, addresses, announced, now>>

(* The DHT may not know the peer, or dht.findPeer may throw, which leaves  *)
(* what the last try found.  Errors are only warned of.                    *)
Connect(j) ==
  /\ At(j, "connect")
  /\ \E found \in BOOLEAN : job' = [job EXCEPT ![j].pc = "add", ![j].dialled = found]
  /\ UNCHANGED <<row, content, pins, removed, addresses, announced, faults, now>>

PinAdd(j) ==
  /\ At(j, "add")
  /\ pins' = pins \cup {ref(j)}
  /\ Goto(j, IF job[j].dialled THEN "disconnect" ELSE "verify")
  /\ UNCHANGED <<row, content, removed, addresses, announced, faults, now>>

(* Whether the node lets go of the peer is nobody's concern.               *)
Disconnect(j) ==
  /\ At(j, "disconnect")
  /\ Goto(j, "verify")
  /\ UNCHANGED <<row, content, pins, removed, addresses, announced, faults, now>>

Verify(j) ==
  /\ At(j, "verify")
  /\ Goto(j, IF TooBig(j, content[ref(j)].actual) THEN "remove" ELSE "finish")
  /\ UNCHANGED <<row, content, pins, removed, addresses, announced, faults, now>>

RemoveNothing(j) ==  \* mutant: the error is thrown without pin.rm
  /\ At(j, "remove")
  /\ Fails(j, "size", "failed")
  /\ UNCHANGED <<row, content, pins, removed, addresses, announced, faults, now>>
Remove(j) ==
  /\ At(j, "remove")
  /\ ref(j) \in pins
  /\ pins' = pins \ {ref(j)}
  /\ removed' = removed \cup {j}
  /\ Fails(j, "size", "failed")
  /\ UNCHANGED <<row, content, addresses, announced, faults, now>>

(* Another job has removed the data: "not pinned" is no size error and is  *)
(* tried again.                                                            *)
RemoveUnpinned(j) ==
  /\ At(j, "remove")
  /\ ref(j) \notin pins
  /\ Fails(j, "other", "failed")
  /\ UNCHANGED <<row, content, pins, removed, addresses, announced, faults, now>>

(* object.stat, pin.add, dag.stat or pin.rm errs or times out; the two     *)
(* that change the pins may have done so.                                  *)
AddErrs(j) ==
  /\ At(j, "add")
  /\ pins' = pins \cup {ref(j)}
  /\ UNCHANGED removed
RemoveErrs(j) ==
  /\ At(j, "remove")
  /\ pins' = pins \ {ref(j)}
  /\ removed' = removed \cup {j}

IpfsFails(j) ==
  /\ IpfsMayFail
  /\ At(j, "stat") \/ At(j, "add") \/ At(j, "verify") \/ At(j, "remove")
  /\ UNCHANGED <<pins, removed>> \/ AddErrs(j) \/ RemoveErrs(j)
  /\ Fails(j, "other", "failed")
  /\ UNCHANGED <<row, content, addresses, announced, faults, now>>

JobStep(j) ==
  \/ SaveRunning(j) \/ SaveFinished(j) \/ SaveErrored(j) \/ SaveFails(j)
  \/ Stat(j) \/ FindAddress(j) \/ DropAddresses(j) \/ AddressesFail(j)
  \/ Connect(j) \/ PinAdd(j) \/ Disconnect(j) \/ Verify(j)
  \/ Remove(j) \/ RemoveUnpinned(j) \/ IpfsFails(j)

-----------------------------------------------------------------------------
(* handlePeerIdAnnouncement                                                *)
Announce(a) ==
  /\ announced < MaxAnnouncements
  /\ announced' = announced + 1
  /\ addresses' = addresses \cup {[id |-> announced + 1, agreement |-> a, createdAt |-> now]}
  /\ UNCHANGED <<job, row, content, pins, removed, faults, now>>

(* collectDirectAddresses.  composeGc runs it only after a run of          *)
(* collectPins that has not thrown: it may never come.                     *)
Overdue(x) == x.createdAt <= now - Ttl

CollectDirectAddresses ==
  /\ \E x \in addresses : Overdue(x)
  /\ addresses' = {x \in addresses : ~Overdue(x)}
  /\ UNCHANGED <<job, row, content, pins, removed, announced, faults, now>>

Tick ==
  /\ now < MaxTime
  /\ now' = now + 1
  /\ UNCHANGED <<job, row, content, pins, removed, addresses, announced, faults>>

RunStep(j) == ManagerStep(j) \/ JobStep(j)

Next ==
  \/ \E j \in Jobs : RunStep(j)
  \/ \E a \in Agreements : Announce(a)
  \/ CollectDirectAddresses
  \/ Tick

Spec == Init /\ [][Next]_vars

(* Awaited statements and requests settle (IPFS calls have timeouts).      *)
FairSpec == Spec /\ WF_vars(\E j \in Jobs : RunStep(j))

-----------------------------------------------------------------------------
(* The data of j were too large for another, cheaper agreement about them, *)
(* and its job has removed them.                                           *)
OutbidBy(i, j) == i \in removed /\ ref(i) = ref(j) /\ PaidSize[AgreementOf[i]] < PaidSize[AgreementOf[j]]

(* JobsManager.run resolves only when the data are on the node and the row *)
(* says so, with the time; when it rejects, the row says ERRORED, unless   *)
(* the database failed.  Whatever tries before or jobs beside it left.     *)
OutcomeInRow ==
  \A j \in Jobs :
    /\ job[j].pc = "resolved" =>
         /\ row[j].state = "finished" /\ row[j].finish # NULL
         /\ ref(j) \in pins \/ \E i \in Jobs : OutbidBy(i, j)
    /\ job[j].pc = "rejected" /\ faults = 0 => row[j].state = "errored"

(* "Unpin file due to exceed size limit" (src/providers/ipfs.ts): when     *)
(* every job for the data was told that they exceed the paid size, they    *)
(* are not pinned, also when an earlier try had pinned them and failed.    *)
OversizedNotKept ==
  \A r \in pins : \E j \in Jobs : ref(j) = r /\ ~(job[j].pc = "rejected" /\ job[j].error = "size")

(* "retry" of the row counts the tries that have failed before the one     *)
(* under way, also after a try that never reached the row.                 *)
RetriesCounted ==
  \A j \in Jobs : row[j].retry \in {job[j].try - 1, job[j].try} /\ row[j].retry < Retries

(* Every run() settles, or the serial queue of the blockchain strategy     *)
(* would stop for good; only a failing database can prevent it.            *)
JobsSettle == <>(\A j \in Jobs : job[j].pc \in Settled \/ faults > 0)

(* An address that a consumer announced stays until its time is up or a    *)
(* job of its agreement takes it, with however many jobs for the same data *)
(* beside it.                                                              *)
AddressKeptForItsJob ==
  [][\A x \in addresses :
       \/ x \in addresses'
       \/ x.createdAt + Ttl <= now
       \/ \E j \in Jobs : AgreementOf[j] = x.agreement /\ At(j, "drop") /\ ~At(j, "drop")']_vars
=============================================================================
