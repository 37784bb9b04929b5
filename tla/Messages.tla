------------------------------ MODULE Messages ------------------------------
(***************************************************************************)
(* broadcast() of src/communication/index.ts and the resend request of     *)
(* src/communication/transport/libp2p/handler.ts.                          *)
(*                                                                         *)
(* A broadcast inserts its message, queries for the messages of the same   *)
(* topic beyond the newest Limit, deletes them one by one and only then    *)
(* hands the message to the network, which may lose it.  Every statement   *)
(* is awaited, so any number of broadcasts interleave.                     *)
(*                                                                         *)
(* A topic is a value of the agreementReference column; messages of one    *)
(* topic are numbered in the order of their ids.                           *)
(***************************************************************************)
EXTENDS Integers, FiniteSets

CONSTANTS
  Agreements,  \* agreement references
  NULL,        \* SQL null: the topic of messages about no agreement
  Callers,     \* broadcasts that may be in flight together
  Limit,       \* comms.countOfMessagesPersistedPerAgreement
  Codes,       \* codes a request may name, each as the numbers of its messages
  MaxMessages  \* bound: number of messages about one topic

Topics == Agreements \cup {NULL}

ASSUME LimitAssumption == Limit \in Nat \ {0} /\ Codes \subseteq SUBSET Nat /\ MaxMessages \in Nat

VARIABLES
  count,     \* messages created for each topic so far
  stored,    \* rows of the message table
  call,      \* the broadcast each caller is awaiting
  reply,     \* the resend request being answered
  received   \* messages a consumer has got

vars == <<count, stored, call, reply, received>>

Call == [pc : {"idle", "find", "prune", "publish"}, topic : Topics, id : Nat, old : SUBSET Nat]
Asked == {{a} : a \in Agreements} \cup {Topics}  \* one agreement, or no condition
AnyCode == 1..MaxMessages
Named == Codes \cup {AnyCode}                    \* one code, or no condition
Reply == [pc : {"idle", "send"}, asked : Asked, code : Named, batch : [Topics -> SUBSET Nat], asOf : [Topics -> Nat]]

IdleCall == [pc |-> "idle", topic |-> NULL, id |-> 0, old |-> {}]
IdleReply == [ pc |-> "idle", asked |-> Topics, code |-> AnyCode,
               batch |-> [t \in Topics |-> {}], asOf |-> [t \in Topics |-> 0] ]

TypeOK ==
  /\ count \in [Topics -> Nat]
  /\ stored \in [Topics -> SUBSET Nat] /\ \A t \in Topics : stored[t] \subseteq 1..count[t]
  /\ call \in [Callers -> Call]
  /\ reply \in Reply
  /\ received \in [Topics -> SUBSET Nat]

Init ==
  /\ count = [t \in Topics |-> 0]
  /\ stored = [t \in Topics |-> {}]
  /\ call = [s \in Callers |-> IdleCall]
  /\ reply = IdleReply
  /\ received = [t \in Topics |-> {}]

Quiet(s) == call[s].pc = "idle"

-----------------------------------------------------------------------------
(* Message.create                                                          *)
CreateUncounted(s, t) ==  \* mutant: the id is not drawn from a sequence
  /\ Quiet(s)
  /\ stored' = [stored EXCEPT ![t] = @ \cup {count[t] + 1}]
  /\ call' = [call EXCEPT ![s] = [pc |-> "find", topic |-> t, id |-> count[t] + 1, old |-> {}]]
  /\ UNCHANGED <<count, reply, received>>
Create(s, t) ==
  /\ Quiet(s)
  /\ count[t] < MaxMessages
  /\ count' = [count EXCEPT ![t] = @ + 1]
  /\ stored' = [stored EXCEPT ![t] = @ \cup {count[t] + 1}]
  /\ call' = [call EXCEPT ![s] = [pc |-> "find", topic |-> t, id |-> count[t] + 1, old |-> {}]]
  /\ UNCHANGED <<reply, received>>

(* findAll with offset Limit, newest first.                                *)
Newer(t, i) == {k \in stored[t] : k > i}
BeyondOldest(t) == {i \in stored[t] : Cardinality(stored[t] \ Newer(t, i)) > Limit}  \* mutant: order ASC
BeyondLimit(t) == {i \in stored[t] : Cardinality(Newer(t, i)) >= Limit}

FindOldOnce(s) ==  \* mutant: limit 1, one old message for all of them
  /\ call[s].pc = "find"
  /\ LET old == BeyondLimit(call[s].topic)
     IN  call' = [call EXCEPT ![s].pc = "prune",
                              ![s].old = {i \in old : \A k \in old : k <= i}]
  /\ UNCHANGED <<count, stored, reply, received>>
FindOld(s) ==
  /\ call[s].pc = "find"
  /\ call' = [call EXCEPT ![s].pc = "prune", ![s].old = BeyondLimit(call[s].topic)]
  /\ UNCHANGED <<count, stored, reply, received>>

(* Promise.all of the deletions: in any order, one statement each.         *)
Destroy(s) ==
  /\ call[s].pc = "prune"
  /\ \E i \in call[s].old :
       /\ stored' = [stored EXCEPT ![call[s].topic] = @ \ {i}]
       /\ call' = [call EXCEPT ![s].old = @ \ {i}]
  /\ UNCHANGED <<count, reply, received>>

Pruned(s) ==
  /\ call[s].pc = "prune" /\ call[s].old = {}
  /\ call' = [call EXCEPT ![s].pc = "publish"]
  /\ UNCHANGED <<count, stored, reply, received>>

(* transport.broadcast; an error is only logged.                           *)
Publish(s) ==
  /\ call[s].pc = "publish"
  /\ received' \in {received, [received EXCEPT ![call[s].topic] = @ \cup {call[s].id}]}
  /\ call' = [call EXCEPT ![s] = IdleCall]
  /\ UNCHANGED <<count, stored, reply>>

BroadcastStep(s) == FindOld(s) \/ Destroy(s) \/ Pruned(s) \/ Publish(s)

-----------------------------------------------------------------------------
(* handleResendLatestMessages: the messages of one agreement, or all of    *)
(* them, and with them those about none; of one code, or of any.           *)
FindLatestNull(asked, code) ==  \* mutant: agreementReference: null when the request names none
  /\ reply.pc = "idle"
  /\ reply' = [pc |-> "send", asked |-> asked, code |-> code, asOf |-> count,
               batch |-> [t \in Topics |-> IF asked = {t} \/ (asked = Topics /\ t = NULL)
                                           THEN stored[t] \cap code ELSE {}]]
  /\ UNCHANGED <<count, stored, call, received>>
FindLatest(asked, code) ==
  /\ reply.pc = "idle"
  /\ reply' = [pc |-> "send", asked |-> asked, code |-> code, asOf |-> count,
               batch |-> [t \in Topics |-> IF t \in asked THEN stored[t] \cap code ELSE {}]]
  /\ UNCHANGED <<count, stored, call, received>>

(* direct.sendTo: the batch arrives, or is lost as a whole.                *)
Arrived(t) == received[t] \cup reply.batch[t]
SendBatch ==
  /\ reply.pc = "send"
  /\ received' \in {received, [t \in Topics |-> Arrived(t)]}
  /\ reply' = IdleReply
  /\ UNCHANGED <<count, stored, call>>

Next ==
  \/ \E s \in Callers : (\E t \in Topics : Create(s, t)) \/ BroadcastStep(s)
  \/ \E asked \in Asked, code \in Named : FindLatest(asked, code)
  \/ SendBatch

Spec == Init /\ [][Next]_vars

-----------------------------------------------------------------------------
(* The last n messages of a topic of which m have been created.            *)
Newest(m, n) == {i \in 1..m : i > m - n}

(* "Remove old messages" (src/communication/index.ts): whatever broadcasts *)
(* interleave, none deletes one of the newest Limit messages.              *)
NewestKept == \A t \in Topics : Newest(count[t], Limit) \subseteq stored[t]

(* ... and nothing is left behind: a message beyond the limit is in the    *)
(* table only while a broadcast that will delete it is on its way.         *)
Doomed(t, i) ==
  \E s \in Callers :
    /\ call[s].topic = t
    /\ call[s].pc = "find" \/ (call[s].pc = "prune" /\ i \in call[s].old)
PrunedWhenQuiet ==
  \A t \in Topics : \A i \in stored[t] :
    i \in Newest(count[t], Limit) \/ Doomed(t, i)

(* A consumer that asks and gets the answer has, of what he asked for,     *)
(* every message a lost broadcast kept from him, back to the limit, though *)
(* broadcasts were creating and deleting rows meanwhile.                   *)
ResendCatchesUp ==
  [][reply.pc = "send" /\ reply'.pc = "idle" /\ (\A t \in Topics : reply.batch[t] \subseteq received'[t]) =>
       \A t \in reply.asked : Newest(reply.asOf[t], Limit) \cap reply.code \subseteq received'[t]]_vars
=============================================================================
