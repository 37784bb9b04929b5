---------------------------- MODULE PinJobs_proofs ----------------------------
(***************************************************************************)
(* The safety properties of PinJobs hold for any number of     *)
(* jobs, agreements, tries and failures.                                   *)
(***************************************************************************)
EXTENDS PinJobs, TLAPS

(* The data of j are on the node, or a cheaper agreement's job took them.  *)
Kept(j) == ref(j) \in pins \/ \E i \in Jobs : OutbidBy(i, j)

Meta(j) == content[ref(j)].meta
Actual(j) == content[ref(j)].actual

AfterStat == {"find", "drop", "connect", "add", "disconnect", "verify", "remove", "finish",
              "tellPinned", "resolved"}

(* What a job has established by the step it is at.                        *)
SizeInv(j) ==
  /\ job[j].error = "size" =>
       job[j].pc \in {"failed", "caught", "tellTooBig", "rejected", "hung"} /\ row[j].state # "unsaved"
  /\ job[j].pc \in AfterStat \cup {"stat"} => row[j].state # "unsaved"
  /\ job[j].pc \in AfterStat => ~TooBig(j, Meta(j))
  /\ job[j].pc \in {"disconnect", "verify"} => Kept(j) \/ TooBig(j, Actual(j))
  /\ job[j].pc = "remove" => TooBig(j, Actual(j))
  /\ job[j].pc = "finish" \/ row[j].state = "finished" => Kept(j) /\ ~TooBig(j, Actual(j))

RowInv(j) ==
  /\ job[j].pc \in {"tellPinned", "resolved"} => row[j].state = "finished"
  /\ row[j].state = "finished" => row[j].finish # NULL
  /\ faults = 0 /\ job[j].pc \in {"caught", "retry", "tellTooBig", "tellGeneral", "rejected"} =>
       row[j].state = "errored"
  /\ job[j].pc \in {"retry", "tellRetry"} => job[j].try < Retries
  /\ job[j].pc = "tellRetry" => row[j].retry = job[j].try
  /\ job[j].pc \notin {"tellRetry", "rejected"} => row[j].retry = job[j].try - 1
  /\ row[j].retry \in {job[j].try - 1, job[j].try} /\ row[j].retry < Retries

(* Who has removed data has found them too large.                          *)
RemovedInv == \A j \in removed : TooBig(j, Actual(j))

(* Pinned data were pinned by a job that its first size check let pass.    *)
PinInv ==
  \A r \in pins : \E j \in Jobs : ref(j) = r /\ job[j].error # "size" /\ ~TooBig(j, content[r].meta)

Inv == TypeOK /\ PinInv /\ RemovedInv /\ \A j \in Jobs : SizeInv(j) /\ RowInv(j)

-----------------------------------------------------------------------------
LEMMA Sizes ==
  ASSUME TypeOK, NEW j \in Jobs
  PROVE  /\ AgreementOf[j] \in Agreements /\ ref(j) \in Refs
         /\ PaidSize[AgreementOf[j]] \in Nat /\ Meta(j) \in Nat /\ Actual(j) \in Nat
<1>1. AgreementOf[j] \in Agreements /\ ref(j) \in Refs /\ PaidSize[AgreementOf[j]] \in Nat
  BY JobsAssumption DEF ref
<1>2. content[ref(j)] \in [meta : Nat, actual : Nat]
  BY <1>1, JobsAssumption DEF TypeOK
<1> QED
  BY <1>1, <1>2 DEF Meta, Actual

LEMMA InvInit == Init => Inv
<1> SUFFICES ASSUME Init PROVE Inv
  OBVIOUS
<1>1. TypeOK
  <2>1. [pc |-> "start", try |-> 1, error |-> "none", peer |-> 0, dialled |-> FALSE] \in Job
    BY JobsAssumption DEF Job, Pcs
  <2>2. [state |-> "unsaved", retry |-> 0, finish |-> NULL] \in JobRow
    BY JobsAssumption DEF JobRow
  <2>3. 0 \in 0..MaxAnnouncements /\ 0 \in 0..DbFaults /\ 0 \in 0..MaxTime
    BY JobsAssumption
  <2> QED
    BY <2>1, <2>2, <2>3 DEF Init, TypeOK
<1>2. PinInv
  BY DEF Init, PinInv
<1>4. RemovedInv
  BY DEF Init, RemovedInv
<1>3. ASSUME NEW j \in Jobs PROVE SizeInv(j) /\ RowInv(j)
  <2>1. /\ job[j].pc = "start" /\ job[j].try = 1 /\ job[j].error = "none"
        /\ row[j].state = "unsaved" /\ row[j].retry = 0
    BY DEF Init
  <2> QED
    BY <2>1, JobsAssumption DEF SizeInv, RowInv, AfterStat
<1> QED
  BY <1>1, <1>2, <1>3, <1>4 DEF Inv

-----------------------------------------------------------------------------
(* What a step changes of its job and its row.                             *)
LEMMA GotoFacts ==
  ASSUME TypeOK, NEW j \in Jobs, NEW pc \in Pcs, Goto(j, pc)
  PROVE  /\ job' \in [Jobs -> Job]
         /\ \A i \in Jobs \ {j} : job'[i] = job[i]
         /\ job'[j].pc = pc /\ job'[j].error = job[j].error /\ job'[j].try = job[j].try
<1>1. job[j] \in Job
  BY DEF TypeOK
<1>2. [job[j] EXCEPT !.pc = pc] \in Job
  BY <1>1 DEF Job
<1> QED
  BY <1>1, <1>2 DEF TypeOK, Goto, Job

LEMMA FailsFacts ==
  ASSUME TypeOK, NEW j \in Jobs, NEW pc \in Pcs, NEW error \in {"size", "other"}, Fails(j, error, pc)
  PROVE  /\ job' \in [Jobs -> Job]
         /\ \A i \in Jobs \ {j} : job'[i] = job[i]
         /\ job'[j].pc = pc /\ job'[j].error = error /\ job'[j].try = job[j].try
<1>1. job[j] \in Job
  BY DEF TypeOK
<1>2. [job[j] EXCEPT !.pc = pc, !.error = error] \in Job
  BY <1>1 DEF Job
<1>3. job' = [job EXCEPT ![j] = [job[j] EXCEPT !.pc = pc, !.error = error]]
  BY <1>1 DEF TypeOK, Fails
<1> QED
  BY <1>1, <1>2, <1>3 DEF TypeOK, Job

-----------------------------------------------------------------------------
(* What every step of the run of j leaves alone.                           *)
StepOf(j) ==
  /\ TypeOK'
  /\ \A i \in Jobs \ {j} : job'[i] = job[i] /\ row'[i] = row[i]
  /\ content' = content /\ removed' = removed
  /\ faults' = 0 => faults = 0

LEMMA KeptStays ==
  ASSUME Inv, NEW j \in Jobs, StepOf(j), pins \subseteq pins', NEW i \in Jobs, Kept(i)
  PROVE  Kept(i)'
<1>1. ASSUME NEW k \in Jobs, OutbidBy(k, i) PROVE OutbidBy(k, i)'
  BY <1>1 DEF OutbidBy, StepOf, ref
<1> QED
  BY <1>1 DEF Kept, ref

LEMMA OthersKeepInv ==
  ASSUME Inv, NEW j \in Jobs, StepOf(j), pins \subseteq pins', NEW i \in Jobs \ {j}
  PROVE  SizeInv(i)' /\ RowInv(i)'
<1>1. SizeInv(i) /\ RowInv(i)
  BY DEF Inv
<1>2. job'[i] = job[i] /\ row'[i] = row[i] /\ (faults' = 0 => faults = 0)
  BY DEF StepOf
<1>3. Kept(i) => Kept(i)'
  BY KeptStays
<1>4. Meta(i)' = Meta(i) /\ Actual(i)' = Actual(i)
  BY DEF StepOf, Meta, Actual, ref
<1>5. SizeInv(i)'
  BY <1>1, <1>2, <1>3, <1>4 DEF SizeInv, TooBig
<1>6. RowInv(i)'
  BY <1>1, <1>2 DEF RowInv
<1> QED
  BY <1>5, <1>6

(* A step that leaves the pins alone disturbs only its own job's part.     *)
LEMMA QuietKeepsInv ==
  ASSUME Inv, NEW j \in Jobs, StepOf(j), UNCHANGED pins,
         job'[j].error = "size" => job[j].error = "size" \/ TooBig(j, Meta(j)),
         SizeInv(j)', RowInv(j)'
  PROVE  Inv'
<1>1. \A i \in Jobs : SizeInv(i)' /\ RowInv(i)'
  BY OthersKeepInv
<1>2. PinInv'
  <2> SUFFICES ASSUME NEW r \in pins
               PROVE  \E i \in Jobs : ref(i) = r /\ job'[i].error # "size" /\ ~TooBig(i, content[r].meta)
    BY DEF PinInv, StepOf, ref, TooBig
  <2>1. PICK i \in Jobs : ref(i) = r /\ job[i].error # "size" /\ ~TooBig(i, content[r].meta)
    BY DEF Inv, PinInv
  <2>2. job'[i].error # "size"
    BY <2>1 DEF StepOf, Meta
  <2> QED
    BY <2>1, <2>2
<1>3. RemovedInv'
  BY DEF Inv, RemovedInv, StepOf, TooBig, Actual, ref
<1> QED
  BY <1>1, <1>2, <1>3 DEF Inv, StepOf

-----------------------------------------------------------------------------
(* Steps that only move the program counter.                               *)
Moves(j, from, next) ==
  \/ from = "start" /\ next = "run"
  \/ from = "tellPinned" /\ next = "resolved"
  \/ from \in {"tellTooBig", "tellGeneral"} /\ next = "rejected"
  \/ from \in {"tellRetry", "retry"} /\ next = "rejected" /\ faults' # 0
  \/ from = "caught" /\ next = "tellTooBig"
  \/ from = "caught" /\ next = "tellGeneral" /\ job[j].error # "size"
  \/ from = "caught" /\ next = "retry" /\ job[j].error # "size" /\ job[j].try # Retries
  \/ from = "failed" /\ next = "hung"
  \/ from = "stat" /\ next = "find" /\ ~TooBig(j, Meta(j))
  \/ from \in {"find", "drop"} /\ next \in {"add", "connect"}
  \/ from = "disconnect" /\ next = "verify"
  \/ from = "verify" /\ next = "remove" /\ TooBig(j, Actual(j))
  \/ from = "verify" /\ next = "finish" /\ ~TooBig(j, Actual(j))

LEMMA MoveKeepsInv ==
  ASSUME Inv, NEW j \in Jobs, NEW from, NEW next, job[j].pc = from, Goto(j, next), Moves(j, from, next),
         UNCHANGED <<row, content, pins, removed, announced, now>>,
         addresses' \subseteq addresses,
         faults' \in 0..DbFaults, faults' = 0 => faults = 0
  PROVE  Inv'
<1>1. next \in Pcs
  BY DEF Moves, Pcs, Settled
<1>2. /\ job' \in [Jobs -> Job]
      /\ \A i \in Jobs \ {j} : job'[i] = job[i]
      /\ job'[j].pc = next /\ job'[j].error = job[j].error /\ job'[j].try = job[j].try
  BY <1>1, GotoFacts DEF Inv
<1>3. StepOf(j)
  BY <1>2 DEF Inv, TypeOK, StepOf
<1>4. /\ SizeInv(j) /\ RowInv(j)
      /\ Kept(j) => Kept(j)'
      /\ Meta(j)' = Meta(j) /\ Actual(j)' = Actual(j)
  BY <1>3, KeptStays DEF Inv, Meta, Actual, ref
<1>5. SizeInv(j)'
  BY <1>2, <1>4 DEF Moves, SizeInv, AfterStat, TooBig
<1>6. RowInv(j)'
  <2>1. job[j].try \in 1..Retries /\ Retries \in Nat
    BY JobsAssumption DEF Inv, TypeOK, Job
  <2> QED
    BY <1>2, <1>4, <2>1 DEF Moves, RowInv
<1> QED
  BY <1>2, <1>3, <1>5, <1>6, QuietKeepsInv

(* Steps that end in an error.                                             *)
Breaks(j, from, error, next) ==
  \/ from \in {"start", "tellPinned"} /\ error = "other" /\ next = "caught" /\ faults' # 0
  \/ from \in {"run", "finish"} /\ error = "other" /\ next = "failed" /\ faults' # 0
  \/ from = "stat" /\ error = "size" /\ next = "failed" /\ TooBig(j, Meta(j))
  \/ from \in {"stat", "add", "verify", "remove"} /\ error = "other" /\ next = "failed"

LEMMA BreakKeepsInv ==
  ASSUME Inv, NEW j \in Jobs, NEW from, NEW next, NEW error, job[j].pc = from, Fails(j, error, next),
         Breaks(j, from, error, next),
         UNCHANGED <<row, content, pins, removed, addresses, announced, now>>,
         faults' \in 0..DbFaults, faults' = 0 => faults = 0
  PROVE  Inv'
<1>1. next \in Pcs /\ error \in {"size", "other"}
  BY DEF Breaks, Pcs
<1>2. /\ job' \in [Jobs -> Job]
      /\ \A i \in Jobs \ {j} : job'[i] = job[i]
      /\ job'[j].pc = next /\ job'[j].error = error /\ job'[j].try = job[j].try
  BY <1>1, FailsFacts DEF Inv
<1>3. SizeInv(j) /\ RowInv(j) /\ job[j].error # "size"
  BY DEF Inv, Breaks, SizeInv
<1>4. StepOf(j)
  BY <1>2, <1>3 DEF Inv, TypeOK, StepOf
<1>5. /\ Kept(j) => Kept(j)'
      /\ Meta(j)' = Meta(j) /\ Actual(j)' = Actual(j)
  BY <1>4, KeptStays DEF StepOf, Meta, Actual, ref
<1>6. SizeInv(j)'
  BY <1>2, <1>3, <1>5 DEF Breaks, SizeInv, AfterStat, TooBig
<1>7. RowInv(j)'
  BY <1>2, <1>3 DEF Breaks, RowInv
<1>8. error = "size" => TooBig(j, Meta(j))
  BY DEF Breaks
<1> QED
  BY <1>2, <1>4, <1>6, <1>7, <1>8, QuietKeepsInv

LEMMA DbFailsFacts ==
  ASSUME TypeOK, DbFails
  PROVE  faults' \in 0..DbFaults /\ faults' # 0
BY JobsAssumption DEF TypeOK, DbFails

-----------------------------------------------------------------------------
LEMMA ManagerStepKeepsInv ==
  ASSUME Inv, NEW j \in Jobs, ManagerStep(j)
  PROVE  Inv'
<1> USE DEF At
<1>0. faults \in 0..DbFaults
  BY DEF Inv, TypeOK
<1>1. ASSUME NEW from, NEW next, Broadcast(j, from, next), Moves(j, from, next) PROVE Inv'
  BY <1>0, <1>1, MoveKeepsInv DEF Broadcast
<1>2. CASE AnnounceStart(j) \/ AnnouncePinned(j) \/ AnnounceTooBig(j) \/ AnnounceGeneral(j)
  <2>1. /\ Moves(j, "start", "run") /\ Moves(j, "tellPinned", "resolved")
        /\ Moves(j, "tellTooBig", "rejected") /\ Moves(j, "tellGeneral", "rejected")
    BY DEF Moves
  <2> QED
    BY <1>1, <1>2, <2>1 DEF AnnounceStart, AnnouncePinned, AnnounceTooBig, AnnounceGeneral
<1>3. CASE BroadcastFails(j)
  <2>1. /\ faults' \in 0..DbFaults /\ faults' # 0
        /\ UNCHANGED <<row, content, pins, removed, addresses, announced, now>>
    BY <1>3, DbFailsFacts DEF BroadcastFails, Inv
  <2>2. CASE /\ job[j].pc \in {"start", "tellPinned"} /\ Fails(j, "other", "caught")
    <3>1. Breaks(j, job[j].pc, "other", "caught")
      BY <2>1, <2>2 DEF Breaks
    <3> QED
      BY <2>1, <2>2, <3>1, BreakKeepsInv
  <2>3. CASE /\ job[j].pc \in {"tellTooBig", "tellGeneral", "tellRetry"} /\ Goto(j, "rejected")
    <3>1. Moves(j, job[j].pc, "rejected")
      BY <2>1, <2>3 DEF Moves
    <3> QED
      BY <2>1, <2>3, <3>1, MoveKeepsInv
  <2> QED
    BY <1>3, <2>2, <2>3 DEF BroadcastFails
<1>4. CASE Catch(j)
  <2> DEFINE next == IF job[j].error = "size" THEN "tellTooBig"
                     ELSE IF job[j].try = Retries THEN "tellGeneral" ELSE "retry"
  <2>1. Goto(j, next) /\ job[j].pc = "caught" /\ UNCHANGED <<row, content, pins, removed, addresses, announced, faults, now>>
    BY <1>4 DEF Catch
  <2>2. Moves(j, "caught", next)
    BY DEF Moves
  <2> QED
    BY <1>0, <2>1, <2>2, MoveKeepsInv
<1>5. CASE SaveBackoff(j)
  <2> DEFINE r == [row[j] EXCEPT !.state = "backoff", !.retry = job[j].try]
  <2>1. row[j] \in JobRow /\ job[j].try \in 1..Retries /\ Retries \in Nat /\ "tellRetry" \in Pcs
    BY JobsAssumption DEF Inv, TypeOK, Job, Pcs
  <2>2. r \in JobRow /\ r.state = "backoff" /\ r.retry = job[j].try
    <3>1. job[j].try \in 0..Retries
      BY <2>1
    <3> QED
      BY <2>1, <3>1 DEF JobRow
  <2>3. row' = [row EXCEPT ![j] = r]
    BY <1>5 DEF SaveBackoff, Inv, TypeOK
  <2>4. row' \in [Jobs -> JobRow] /\ row'[j] = r /\ \A i \in Jobs \ {j} : row'[i] = row[i]
    BY <2>2, <2>3 DEF Inv, TypeOK
  <2>5. /\ job' \in [Jobs -> Job]
        /\ \A i \in Jobs \ {j} : job'[i] = job[i]
        /\ job'[j].pc = "tellRetry" /\ job'[j].error = job[j].error /\ job'[j].try = job[j].try
    BY <1>5, <2>1, GotoFacts DEF Inv, SaveBackoff
  <2>6. SizeInv(j) /\ RowInv(j) /\ job[j].pc = "retry"
    BY <1>5 DEF Inv, SaveBackoff
  <2>7. StepOf(j)
    BY <1>5, <2>4, <2>5 DEF SaveBackoff, Inv, TypeOK, StepOf
  <2>8. SizeInv(j)'
    BY <2>2, <2>4, <2>5, <2>6 DEF SizeInv, AfterStat
  <2>9. RowInv(j)'
    BY <2>1, <2>2, <2>4, <2>5, <2>6 DEF RowInv
  <2> QED
    BY <1>5, <2>5, <2>7, <2>8, <2>9, QuietKeepsInv DEF SaveBackoff
<1>6. CASE SaveBackoffFails(j)
  <2>1. /\ faults' \in 0..DbFaults /\ faults' # 0 /\ job[j].pc = "retry" /\ Goto(j, "rejected")
        /\ UNCHANGED <<row, content, pins, removed, addresses, announced, now>>
    BY <1>6, DbFailsFacts DEF SaveBackoffFails, Inv
  <2>2. Moves(j, "retry", "rejected")
    BY <2>1 DEF Moves
  <2> QED
    BY <2>1, <2>2, MoveKeepsInv
<1>7. CASE AnnounceRetry(j)
  <2> DEFINE r == [job[j] EXCEPT !.pc = "start", !.try = @ + 1, !.error = "none"]
  <2>1. /\ SizeInv(j) /\ RowInv(j) /\ job[j].pc = "tellRetry"
        /\ job[j] \in Job /\ job[j].try \in 1..Retries /\ Retries \in Nat
        /\ UNCHANGED <<row, content, pins, removed, addresses, announced, faults, now>>
    BY <1>7, JobsAssumption DEF AnnounceRetry, Inv, TypeOK, Job
  <2>2. job[j].try < Retries /\ job[j].error # "size"
    BY <2>1 DEF SizeInv, RowInv
  <2>3. r \in Job /\ r.pc = "start" /\ r.try = job[j].try + 1 /\ r.error = "none"
    <3>1. job[j].try + 1 \in 1..Retries
      BY <2>1, <2>2
    <3> QED
      BY <2>1, <3>1 DEF Job, Pcs
  <2>4. job' = [job EXCEPT ![j] = r]
    BY <1>7 DEF AnnounceRetry, Inv, TypeOK
  <2>5. job' \in [Jobs -> Job] /\ job'[j] = r /\ \A i \in Jobs \ {j} : job'[i] = job[i]
    BY <2>3, <2>4 DEF Inv, TypeOK
  <2>6. StepOf(j)
    BY <2>1, <2>2, <2>5 DEF Inv, TypeOK, StepOf
  <2>7. Kept(j) => Kept(j)'
    BY <2>1, <2>6, KeptStays
  <2>8. SizeInv(j)'
    BY <2>1, <2>3, <2>5, <2>7 DEF SizeInv, AfterStat, Actual, TooBig, ref
  <2>9. RowInv(j)'
    BY <2>1, <2>2, <2>3, <2>5 DEF RowInv
  <2> QED
    BY <2>1, <2>2, <2>3, <2>5, <2>6, <2>8, <2>9, QuietKeepsInv
<1> QED
  BY <1>2, <1>3, <1>4, <1>5, <1>6, <1>7 DEF ManagerStep

-----------------------------------------------------------------------------
(* Job.run                                                                 *)
LEMMA SaveKeepsInv ==
  ASSUME Inv, NEW j \in Jobs, SaveRunning(j) \/ SaveFinished(j) \/ SaveErrored(j) \/ SaveFails(j)
  PROVE  Inv'
<1> USE DEF At
<1>1. CASE SaveRunning(j)
  <2> DEFINE r == [row[j] EXCEPT !.state = "running"]
  <2>1. row[j] \in JobRow /\ "stat" \in Pcs /\ now \in Nat /\ now # NULL
    BY JobsAssumption DEF Inv, TypeOK, Pcs
  <2>2. r \in JobRow /\ r.state = "running" /\ r.retry = row[j].retry
    BY <2>1 DEF JobRow
  <2>3. row' = [row EXCEPT ![j] = r]
    BY <1>1 DEF SaveRunning, Inv, TypeOK
  <2>4. row' \in [Jobs -> JobRow] /\ row'[j] = r /\ \A i \in Jobs \ {j} : row'[i] = row[i]
    BY <2>2, <2>3 DEF Inv, TypeOK
  <2>5. /\ job' \in [Jobs -> Job]
        /\ \A i \in Jobs \ {j} : job'[i] = job[i]
        /\ job'[j].pc = "stat" /\ job'[j].error = job[j].error /\ job'[j].try = job[j].try
    BY <1>1, <2>1, GotoFacts DEF Inv, SaveRunning
  <2>6. /\ SizeInv(j) /\ RowInv(j) /\ job[j].pc = "run"
        /\ UNCHANGED <<content, pins, removed, addresses, announced, faults, now>>
    BY <1>1 DEF Inv, SaveRunning
  <2>7. StepOf(j)
    BY <2>4, <2>5, <2>6 DEF Inv, TypeOK, StepOf
  <2>8. /\ Kept(j) => Kept(j)'
        /\ Meta(j)' = Meta(j) /\ Actual(j)' = Actual(j)
    BY <2>6, <2>7, KeptStays DEF Meta, Actual, ref
  <2>9. SizeInv(j)'
    BY <2>2, <2>4, <2>5, <2>6, <2>8 DEF SizeInv, AfterStat, TooBig
  <2>10. RowInv(j)'
    BY <2>2, <2>4, <2>5, <2>6 DEF RowInv
  <2> QED
    BY <2>5, <2>6, <2>7, <2>9, <2>10, QuietKeepsInv
<1>2. CASE SaveFinished(j)
  <2> DEFINE r == [row[j] EXCEPT !.state = "finished", !.finish = now]
  <2>1. row[j] \in JobRow /\ "tellPinned" \in Pcs /\ now \in Nat /\ now # NULL
    BY JobsAssumption DEF Inv, TypeOK, Pcs
  <2>2. r \in JobRow /\ r.state = "finished" /\ r.retry = row[j].retry /\ r.finish # NULL
    BY <2>1 DEF JobRow
  <2>3. row' = [row EXCEPT ![j] = r]
    BY <1>2 DEF SaveFinished, Inv, TypeOK
  <2>4. row' \in [Jobs -> JobRow] /\ row'[j] = r /\ \A i \in Jobs \ {j} : row'[i] = row[i]
    BY <2>2, <2>3 DEF Inv, TypeOK
  <2>5. /\ job' \in [Jobs -> Job]
        /\ \A i \in Jobs \ {j} : job'[i] = job[i]
        /\ job'[j].pc = "tellPinned" /\ job'[j].error = job[j].error /\ job'[j].try = job[j].try
    BY <1>2, <2>1, GotoFacts DEF Inv, SaveFinished
  <2>6. /\ SizeInv(j) /\ RowInv(j) /\ job[j].pc = "finish"
        /\ UNCHANGED <<content, pins, removed, addresses, announced, faults, now>>
    BY <1>2 DEF Inv, SaveFinished
  <2>7. StepOf(j)
    BY <2>4, <2>5, <2>6 DEF Inv, TypeOK, StepOf
  <2>8. /\ Kept(j) => Kept(j)'
        /\ Meta(j)' = Meta(j) /\ Actual(j)' = Actual(j)
    BY <2>6, <2>7, KeptStays DEF Meta, Actual, ref
  <2>9. SizeInv(j)'
    BY <2>2, <2>4, <2>5, <2>6, <2>8 DEF SizeInv, AfterStat, TooBig
  <2>10. RowInv(j)'
    BY <2>2, <2>4, <2>5, <2>6 DEF RowInv
  <2> QED
    BY <2>5, <2>6, <2>7, <2>9, <2>10, QuietKeepsInv
<1>3. CASE SaveErrored(j)
  <2> DEFINE r == [row[j] EXCEPT !.state = "errored", !.finish = now]
  <2>1. row[j] \in JobRow /\ "caught" \in Pcs /\ now \in Nat /\ now # NULL
    BY JobsAssumption DEF Inv, TypeOK, Pcs
  <2>2. r \in JobRow /\ r.state = "errored" /\ r.retry = row[j].retry /\ r.finish # NULL
    BY <2>1 DEF JobRow
  <2>3. row' = [row EXCEPT ![j] = r]
    BY <1>3 DEF SaveErrored, Inv, TypeOK
  <2>4. row' \in [Jobs -> JobRow] /\ row'[j] = r /\ \A i \in Jobs \ {j} : row'[i] = row[i]
    BY <2>2, <2>3 DEF Inv, TypeOK
  <2>5. /\ job' \in [Jobs -> Job]
        /\ \A i \in Jobs \ {j} : job'[i] = job[i]
        /\ job'[j].pc = "caught" /\ job'[j].error = job[j].error /\ job'[j].try = job[j].try
    BY <1>3, <2>1, GotoFacts DEF Inv, SaveErrored
  <2>6. /\ SizeInv(j) /\ RowInv(j) /\ job[j].pc = "failed"
        /\ UNCHANGED <<content, pins, removed, addresses, announced, faults, now>>
    BY <1>3 DEF Inv, SaveErrored
  <2>7. StepOf(j)
    BY <2>4, <2>5, <2>6 DEF Inv, TypeOK, StepOf
  <2>8. /\ Kept(j) => Kept(j)'
        /\ Meta(j)' = Meta(j) /\ Actual(j)' = Actual(j)
    BY <2>6, <2>7, KeptStays DEF Meta, Actual, ref
  <2>9. SizeInv(j)'
    BY <2>2, <2>4, <2>5, <2>6, <2>8 DEF SizeInv, AfterStat, TooBig
  <2>10. RowInv(j)'
    BY <2>2, <2>4, <2>5, <2>6 DEF RowInv
  <2> QED
    BY <2>5, <2>6, <2>7, <2>9, <2>10, QuietKeepsInv
<1>4. CASE SaveFails(j)
  <2>1. /\ faults' \in 0..DbFaults /\ faults' # 0
        /\ UNCHANGED <<row, content, pins, removed, addresses, announced, now>>
    BY <1>4, DbFailsFacts DEF SaveFails, Inv
  <2>2. CASE job[j].pc \in {"run", "finish"} /\ Fails(j, "other", "failed")
    <3>1. Breaks(j, job[j].pc, "other", "failed")
      BY <2>1, <2>2 DEF Breaks
    <3> QED
      BY <2>1, <2>2, <3>1, BreakKeepsInv
  <2>3. CASE job[j].pc = "failed" /\ Goto(j, "hung")
    <3>1. Moves(j, "failed", "hung")
      BY DEF Moves
    <3> QED
      BY <2>1, <2>3, <3>1, MoveKeepsInv
  <2> QED
    BY <1>4, <2>2, <2>3 DEF SaveFails
<1> QED
  BY <1>1, <1>2, <1>3, <1>4

-----------------------------------------------------------------------------
(* PinJob._run                                                             *)
LEMMA CheckKeepsInv ==
  ASSUME Inv, NEW j \in Jobs,
         Stat(j) \/ AddressesFail(j) \/ Disconnect(j) \/ Verify(j) \/ RemoveUnpinned(j)
           \/ (IpfsFails(j) /\ UNCHANGED <<pins, removed>>)
  PROVE  Inv'
<1> USE DEF At
<1>0. faults \in 0..DbFaults
  BY DEF Inv, TypeOK
<1>1. CASE Stat(j) /\ TooBig(j, Meta(j))
  <2>1. Breaks(j, "stat", "size", "failed")
    BY <1>1 DEF Breaks
  <2> QED
    BY <1>0, <1>1, <2>1, BreakKeepsInv DEF Stat, Meta
<1>2. CASE Stat(j) /\ ~TooBig(j, Meta(j))
  <2>1. Moves(j, "stat", "find")
    BY <1>2 DEF Moves
  <2> QED
    BY <1>0, <1>2, <2>1, MoveKeepsInv DEF Stat, Meta
<1>3. CASE Disconnect(j)
  <2>1. Moves(j, "disconnect", "verify")
    BY DEF Moves
  <2> QED
    BY <1>0, <1>3, <2>1, MoveKeepsInv DEF Disconnect
<1>4. CASE AddressesFail(j)
  <2>1. /\ faults' \in 0..DbFaults /\ faults' # 0 /\ job[j].pc \in {"find", "drop"} /\ Goto(j, "add")
        /\ UNCHANGED <<row, content, pins, removed, addresses, announced, now>>
    BY <1>4, DbFailsFacts DEF AddressesFail, Inv
  <2>2. Moves(j, job[j].pc, "add")
    BY <2>1 DEF Moves
  <2> QED
    BY <2>1, <2>2, MoveKeepsInv
<1>5. CASE Verify(j)
  <2> DEFINE next == IF TooBig(j, Actual(j)) THEN "remove" ELSE "finish"
  <2>1. Moves(j, "verify", next)
    BY DEF Moves
  <2>2. /\ job[j].pc = "verify" /\ Goto(j, next)
        /\ UNCHANGED <<row, content, pins, removed, addresses, announced, faults, now>>
    BY <1>5 DEF Verify, Actual
  <2> QED
    BY <1>0, <2>1, <2>2, MoveKeepsInv
<1>6. CASE RemoveUnpinned(j) \/ (IpfsFails(j) /\ UNCHANGED <<pins, removed>>)
  <2>1. /\ job[j].pc \in {"stat", "add", "verify", "remove"} /\ Fails(j, "other", "failed")
        /\ UNCHANGED <<row, content, pins, removed, addresses, announced, faults, now>>
    BY <1>6 DEF IpfsFails, RemoveUnpinned
  <2>2. Breaks(j, job[j].pc, "other", "failed")
    BY <2>1 DEF Breaks
  <2> QED
    BY <1>0, <2>1, <2>2, BreakKeepsInv
<1> QED
  BY <1>1, <1>2, <1>3, <1>4, <1>5, <1>6

LEMMA ConnectionKeepsInv ==
  ASSUME Inv, NEW j \in Jobs, FindAddress(j) \/ DropAddresses(j) \/ Connect(j)
  PROVE  Inv'
<1> USE DEF At
<1>1. PICK r \in Job :
        /\ job' = [job EXCEPT ![j] = r]
        /\ r.error = job[j].error /\ r.try = job[j].try
        /\ <<job[j].pc, r.pc>> \in {<<"find", "drop">>, <<"drop", "add">>, <<"drop", "connect">>, <<"connect", "add">>}
        /\ addresses' \subseteq addresses
        /\ UNCHANGED <<row, content, pins, removed, announced, faults, now>>
  <2>0. job[j] \in Job /\ {"drop", "add", "connect"} \subseteq Pcs
    BY DEF Inv, TypeOK, Pcs
  <2>1. CASE FindAddress(j)
    <3>1. PICK peer \in IF AddressesOf(j) = {} THEN {0} ELSE {x.id : x \in AddressesOf(j)} :
            job' = [job EXCEPT ![j].pc = "drop", ![j].peer = peer]
      BY <2>1 DEF FindAddress
    <3>2. peer \in Nat
      BY <3>1 DEF Inv, TypeOK, AddressesOf, Address
    <3> DEFINE r == [job[j] EXCEPT !.pc = "drop", !.peer = peer]
    <3>3. r \in Job /\ r.pc = "drop" /\ r.error = job[j].error /\ r.try = job[j].try
      BY <2>0, <3>2 DEF Job
    <3>4. job' = [job EXCEPT ![j] = r]
      BY <3>1 DEF Inv, TypeOK
    <3> QED
      BY <2>1, <3>3, <3>4 DEF FindAddress
  <2>2. CASE Connect(j)
    <3>1. PICK found \in BOOLEAN : job' = [job EXCEPT ![j].pc = "add", ![j].dialled = found]
      BY <2>2 DEF Connect
    <3> DEFINE r == [job[j] EXCEPT !.pc = "add", !.dialled = found]
    <3>3. r \in Job /\ r.pc = "add" /\ r.error = job[j].error /\ r.try = job[j].try
      BY <2>0 DEF Job
    <3>4. job' = [job EXCEPT ![j] = r]
      BY <3>1 DEF Inv, TypeOK
    <3> QED
      BY <2>2, <3>3, <3>4 DEF Connect
  <2>3. CASE DropAddresses(j) /\ job[j].peer = 0
    <3> DEFINE r == [job[j] EXCEPT !.pc = "add", !.dialled = FALSE]
    <3>1. r \in Job /\ r.pc = "add" /\ r.error = job[j].error /\ r.try = job[j].try
      BY <2>0 DEF Job
    <3>2. job' = [job EXCEPT ![j] = r]
      BY <2>3 DEF DropAddresses, Inv, TypeOK
    <3> QED
      BY <2>3, <3>1, <3>2 DEF DropAddresses
  <2>4. CASE DropAddresses(j) /\ job[j].peer # 0
    <3> DEFINE r == [job[j] EXCEPT !.pc = "connect"]
    <3>1. r \in Job /\ r.pc = "connect" /\ r.error = job[j].error /\ r.try = job[j].try
      BY <2>0 DEF Job
    <3>2. job' = [job EXCEPT ![j] = r]
      BY <2>4 DEF DropAddresses, Goto, Inv, TypeOK
    <3> QED
      BY <2>4, <3>1, <3>2 DEF DropAddresses
  <2> QED
    BY <2>1, <2>2, <2>3, <2>4
<1>2. job' \in [Jobs -> Job] /\ job'[j] = r /\ \A i \in Jobs \ {j} : job'[i] = job[i]
  BY <1>1 DEF Inv, TypeOK
<1>3. StepOf(j)
  BY <1>1, <1>2 DEF Inv, TypeOK, StepOf
<1>4. /\ SizeInv(j) /\ RowInv(j)
      /\ Kept(j) => Kept(j)'
      /\ Meta(j)' = Meta(j) /\ Actual(j)' = Actual(j)
  BY <1>1, <1>3, KeptStays DEF Inv, Meta, Actual, ref
<1>5. SizeInv(j)'
  BY <1>1, <1>2, <1>4 DEF SizeInv, AfterStat, TooBig
<1>6. RowInv(j)'
  BY <1>1, <1>2, <1>4 DEF RowInv
<1> QED
  BY <1>1, <1>2, <1>3, <1>5, <1>6, QuietKeepsInv

(* pin.add, answered or not: the job itself vouches for the data.          *)
LEMMA PinAddKeepsInv ==
  ASSUME Inv, NEW j \in Jobs, PinAdd(j) \/ (IpfsFails(j) /\ AddErrs(j))
  PROVE  Inv'
<1>1. /\ job[j].pc = "add" /\ pins' = pins \cup {ref(j)}
      /\ UNCHANGED <<row, content, removed, addresses, announced, faults, now>>
  BY DEF PinAdd, IpfsFails, AddErrs, At
<1>2. /\ job' \in [Jobs -> Job]
      /\ \A i \in Jobs \ {j} : job'[i] = job[i]
      /\ job'[j].try = job[j].try /\ job'[j].error # "size"
      /\ job'[j].pc \in {"disconnect", "verify", "failed"}
  <2>0. {"disconnect", "verify", "failed"} \subseteq Pcs /\ job[j].error # "size"
    BY <1>1 DEF Pcs, Inv, SizeInv
  <2>1. CASE PinAdd(j)
    <3>1. Goto(j, "disconnect") \/ Goto(j, "verify")
      BY <2>1 DEF PinAdd
    <3> QED
      BY <2>0, <3>1, GotoFacts DEF Inv
  <2>2. CASE IpfsFails(j)
    BY <2>0, <2>2, FailsFacts DEF Inv, IpfsFails
  <2> QED
    BY <2>1, <2>2
<1>3. StepOf(j)
  BY <1>1, <1>2, Sizes DEF Inv, TypeOK, StepOf
<1>4. SizeInv(j) /\ RowInv(j) /\ Kept(j)' /\ Meta(j)' = Meta(j) /\ Actual(j)' = Actual(j)
  BY <1>1 DEF Inv, Kept, Meta, Actual, ref
<1>5. SizeInv(j)'
  BY <1>1, <1>2, <1>4 DEF SizeInv, AfterStat, TooBig
<1>6. RowInv(j)'
  BY <1>1, <1>2, <1>4 DEF RowInv
<1>7. \A i \in Jobs : SizeInv(i)' /\ RowInv(i)'
  BY <1>1, <1>3, <1>5, <1>6, OthersKeepInv
<1>8. PinInv'
  <2> SUFFICES ASSUME NEW r \in pins \cup {ref(j)}
               PROVE  \E i \in Jobs : ref(i) = r /\ job'[i].error # "size" /\ ~TooBig(i, content[r].meta)
    BY <1>1 DEF PinInv, ref, TooBig
  <2>1. CASE r = ref(j)
    BY <1>1, <1>2, <1>4, <2>1 DEF SizeInv, AfterStat, Meta
  <2>2. CASE r # ref(j)
    <3>1. PICK i \in Jobs : ref(i) = r /\ job[i].error # "size" /\ ~TooBig(i, content[r].meta)
      BY <2>2 DEF Inv, PinInv
    <3> QED
      BY <1>2, <2>2, <3>1
  <2> QED
    BY <2>1, <2>2
<1>9. RemovedInv'
  BY <1>1 DEF Inv, RemovedInv, TooBig, Actual, ref
<1> QED
  BY <1>3, <1>7, <1>8, <1>9 DEF Inv, StepOf

(* pin.rm, answered or not: whoever has verified the same data has paid    *)
(* for more.                                                               *)
LEMMA RemoveKeepsInv ==
  ASSUME Inv, NEW j \in Jobs, Remove(j) \/ (IpfsFails(j) /\ RemoveErrs(j))
  PROVE  Inv'
<1>1. /\ job[j].pc = "remove" /\ pins' = pins \ {ref(j)} /\ removed' = removed \cup {j}
      /\ Fails(j, "size", "failed") \/ Fails(j, "other", "failed")
      /\ UNCHANGED <<row, content, addresses, announced, faults, now>>
  BY DEF Remove, IpfsFails, RemoveErrs, At
<1>2. /\ job' \in [Jobs -> Job]
      /\ \A i \in Jobs \ {j} : job'[i] = job[i]
      /\ job'[j].pc = "failed" /\ job'[j].try = job[j].try
  <2>1. "failed" \in Pcs
    BY DEF Pcs
  <2> QED
    BY <1>1, <2>1, FailsFacts DEF Inv
<1>3. SizeInv(j) /\ RowInv(j) /\ TooBig(j, Actual(j))
  BY <1>1 DEF Inv, SizeInv
<1>4. ASSUME NEW i \in Jobs, Kept(i) PROVE Kept(i)' \/ TooBig(i, Actual(i))
  <2>1. \A k \in Jobs : OutbidBy(k, i) => OutbidBy(k, i)'
    BY <1>1 DEF OutbidBy, ref
  <2>2. CASE ref(i) = ref(j) /\ ~TooBig(i, Actual(i))
    <3>1. PaidSize[AgreementOf[j]] < PaidSize[AgreementOf[i]]
      BY <1>3, <2>2, Sizes DEF Inv, TooBig, Actual
    <3>2. OutbidBy(j, i)'
      BY <1>1, <2>2, <3>1 DEF OutbidBy, ref
    <3> QED
      BY <3>2 DEF Kept
  <2>3. CASE ref(i) # ref(j)
    BY <1>1, <1>4, <2>1, <2>3 DEF Kept, ref
  <2> QED
    BY <2>2, <2>3
<1>5. ASSUME NEW i \in Jobs PROVE SizeInv(i)' /\ RowInv(i)'
  <2>1. SizeInv(i) /\ RowInv(i) /\ Meta(i)' = Meta(i) /\ Actual(i)' = Actual(i) /\ row'[i] = row[i] /\ faults' = faults
    BY <1>1 DEF Inv, Meta, Actual, ref
  <2>2. CASE i = j
    BY <1>1, <1>2, <1>3, <2>1, <2>2 DEF SizeInv, RowInv, AfterStat, TooBig
  <2>3. CASE i # j
    <3>1. job'[i] = job[i]
      BY <1>2, <2>3
    <3> QED
      BY <1>4, <2>1, <3>1 DEF SizeInv, RowInv, TooBig
  <2> QED
    BY <2>2, <2>3
<1>6. PinInv'
  <2> SUFFICES ASSUME NEW r \in pins, r # ref(j)
               PROVE  \E i \in Jobs : ref(i) = r /\ job'[i].error # "size" /\ ~TooBig(i, content[r].meta)
    BY <1>1 DEF PinInv, ref, TooBig
  <2>1. PICK i \in Jobs : ref(i) = r /\ job[i].error # "size" /\ ~TooBig(i, content[r].meta)
    BY DEF Inv, PinInv
  <2>2. i # j
    BY <1>1, <2>1
  <2> QED
    BY <1>2, <2>1, <2>2
<1>7. RemovedInv'
  BY <1>1, <1>3 DEF Inv, RemovedInv, TooBig, Actual, ref
<1>8. TypeOK'
  BY <1>1, <1>2 DEF Inv, TypeOK
<1> QED
  BY <1>5, <1>6, <1>7, <1>8 DEF Inv

-----------------------------------------------------------------------------
(* Announcements, the collector and the clock touch no job.                *)
LEMMA SurroundingsKeepInv ==
  ASSUME Inv, (\E a \in Agreements : Announce(a)) \/ CollectDirectAddresses \/ Tick
  PROVE  Inv'
<1>1. UNCHANGED <<job, row, content, pins, removed, faults>>
  BY DEF Announce, CollectDirectAddresses, Tick
<1>2. TypeOK'
  <2>1. ASSUME NEW a \in Agreements, Announce(a) PROVE TypeOK'
    <3>1. announced' \in 0..MaxAnnouncements
      BY <2>1, JobsAssumption DEF Announce, Inv, TypeOK
    <3>2. [id |-> announced + 1, agreement |-> a, createdAt |-> now] \in Address
      BY JobsAssumption DEF Address, Inv, TypeOK
    <3> QED
      BY <1>1, <2>1, <3>1, <3>2 DEF Announce, Inv, TypeOK
  <2>2. CASE CollectDirectAddresses
    BY <1>1, <2>2 DEF CollectDirectAddresses, Inv, TypeOK
  <2>3. CASE Tick
    <3>1. now' \in 0..MaxTime
      BY <2>3, JobsAssumption DEF Tick, Inv, TypeOK
    <3> QED
      BY <1>1, <2>3, <3>1 DEF Tick, Inv, TypeOK
  <2> QED
    BY <2>1, <2>2, <2>3
<1>3. PinInv' /\ RemovedInv'
  BY <1>1 DEF Inv, PinInv, RemovedInv, Actual, ref, TooBig
<1>4. \A j \in Jobs : SizeInv(j)' /\ RowInv(j)'
  BY <1>1 DEF Inv, SizeInv, RowInv, Kept, OutbidBy, Meta, Actual, ref, TooBig
<1> QED
  BY <1>2, <1>3, <1>4 DEF Inv

LEMMA NextKeepsInv ==
  ASSUME Inv, [Next]_vars
  PROVE  Inv'
<1>1. CASE UNCHANGED vars
  BY <1>1 DEF vars, Inv, TypeOK, PinInv, RemovedInv, SizeInv, RowInv, Kept, OutbidBy, Meta, Actual, ref, TooBig
<1>2. CASE \E j \in Jobs : RunStep(j)
  BY <1>2, ManagerStepKeepsInv, SaveKeepsInv, CheckKeepsInv, ConnectionKeepsInv, PinAddKeepsInv, RemoveKeepsInv
  DEF RunStep, JobStep, IpfsFails
<1> QED
  BY <1>1, <1>2, SurroundingsKeepInv DEF Next

THEOREM JobsInvariant == Spec => []Inv
<1>1. Inv /\ [Next]_vars => Inv'
  BY NextKeepsInv
<1> QED
  BY <1>1, InvInit, PTL DEF Spec

(* The variables stay in their types, and no address or row is written     *)
(* that is not of an agreement or job.                                     *)
THEOREM JobsTypeCorrect == Spec => []TypeOK
<1>1. Inv => TypeOK
  BY DEF Inv
<1> QED
  BY <1>1, JobsInvariant, PTL

(* Whatever run() tells its caller, the job's row says the same, with any  *)
(* number of jobs for the same data.                                       *)
THEOREM OutcomesAreInRows == Spec => []OutcomeInRow
<1>1. Inv => OutcomeInRow
  BY DEF Inv, SizeInv, RowInv, Kept, OutcomeInRow
<1> QED
  BY <1>1, JobsInvariant, PTL

(* Data every job found too large do not stay, however tries and jobs      *)
(* pinned and failed.                                                      *)
THEOREM OversizedAreNotKept == Spec => []OversizedNotKept
<1>1. Inv => OversizedNotKept
  BY DEF Inv, PinInv, OversizedNotKept
<1> QED
  BY <1>1, JobsInvariant, PTL

(* The row counts the tries, for any number of tries and failures.         *)
THEOREM RetriesAreCounted == Spec => []RetriesCounted
<1>1. Inv => RetriesCounted
  BY DEF Inv, RowInv, RetriesCounted
<1> QED
  BY <1>1, JobsInvariant, PTL

(* No statement takes an address before its time but the one of a job for  *)
(* its agreement, however many jobs there are for the same data.           *)
THEOREM AddressesAreKept == Spec => AddressKeptForItsJob
<1> DEFINE Stays == \A x \in addresses :
              \/ x \in addresses'
              \/ x.createdAt + Ttl <= now
              \/ \E j \in Jobs : AgreementOf[j] = x.agreement /\ At(j, "drop") /\ ~At(j, "drop")'
<1>1. Inv /\ [Next]_vars => [Stays]_vars
  <2> SUFFICES ASSUME Inv, Next, NEW x \in addresses, x \notin addresses'
               PROVE  \/ x.createdAt + Ttl <= now
                      \/ \E j \in Jobs : AgreementOf[j] = x.agreement /\ At(j, "drop") /\ ~At(j, "drop")'
    OBVIOUS
  <2>1. CASE CollectDirectAddresses
    <3>1. x.createdAt <= now - Ttl
      BY <2>1 DEF CollectDirectAddresses, Overdue
    <3>2. x.createdAt \in Nat /\ now \in Nat /\ Ttl \in Nat
      BY JobsAssumption DEF Inv, TypeOK, Address
    <3> QED
      BY <3>1, <3>2
  <2>2. ASSUME NEW j \in Jobs, DropAddresses(j)
        PROVE  AgreementOf[j] = x.agreement /\ At(j, "drop") /\ ~At(j, "drop")'
    <3>1. AgreementOf[j] = x.agreement /\ At(j, "drop")
      BY <2>2 DEF DropAddresses, AddressesOf
    <3>2. job'[j].pc \in {"add", "connect"}
      BY <2>2 DEF DropAddresses, Goto, Inv, TypeOK, Job
    <3> QED
      BY <3>1, <3>2 DEF At
  <2>3. ASSUME NEW j \in Jobs, RunStep(j), ~DropAddresses(j) PROVE FALSE
    <3>1. ~ManagerStep(j)
      BY DEF ManagerStep, AnnounceStart, AnnouncePinned, AnnounceTooBig, AnnounceGeneral, Broadcast,
             BroadcastFails, Catch, SaveBackoff, SaveBackoffFails, AnnounceRetry
    <3>2. ~JobStep(j)
      BY <2>3 DEF JobStep, SaveRunning, SaveFinished, SaveErrored, SaveFails, Stat, FindAddress, AddressesFail,
                  Connect, PinAdd, Disconnect, Verify, Remove, RemoveUnpinned, IpfsFails
    <3> QED
      BY <2>3, <3>1, <3>2 DEF RunStep
  <2>4. ~Tick /\ \A a \in Agreements : ~Announce(a)
    BY DEF Tick, Announce
  <2> QED
    BY <2>1, <2>2, <2>3, <2>4 DEF Next
<1> QED
  BY <1>1, JobsInvariant, PTL DEF Spec, AddressKeptForItsJob
=============================================================================
