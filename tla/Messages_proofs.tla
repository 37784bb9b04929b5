--------------------------- MODULE Messages_proofs ---------------------------
(***************************************************************************)
(* Theorems about Messages, for any number of topics, of broadcasts in     *)
(* flight and of messages, and for every limit.                            *)
(***************************************************************************)
EXTENDS Messages, FiniteSetTheorems, TLAPS

(* What a broadcast is about to delete is beyond the limit by now.         *)
CallInv ==
  \A s \in Callers : call[s].pc = "prune" =>
    \A i \in call[s].old : i <= count[call[s].topic] - Limit

(* An answer on its way holds the newest messages of when it was queried.  *)
ReplyInv ==
  reply.pc = "send" => \A t \in reply.asked : Newest(reply.asOf[t], Limit) \cap reply.code \subseteq reply.batch[t]

Inv == TypeOK /\ CallInv /\ NewestKept /\ PrunedWhenQuiet /\ ReplyInv

-----------------------------------------------------------------------------
(* The query finds exactly the messages that are not among the newest.     *)
LEMMA BeyondLimitIsOld ==
  ASSUME TypeOK, NewestKept, NEW t \in Topics
  PROVE  BeyondLimit(t) = {i \in stored[t] : i <= count[t] - Limit}
<1> DEFINE c == count[t]
<1>1. c \in Nat /\ Limit \in Nat \ {0} /\ stored[t] \subseteq 1..c
  BY LimitAssumption DEF TypeOK
<1>2. IsFiniteSet(1..c)
  BY <1>1, FS_Interval
<1>3. ASSUME NEW i \in stored[t], i <= c - Limit
      PROVE  Cardinality(Newer(t, i)) >= Limit
  <2>1. (c - Limit + 1)..c \subseteq Newer(t, i)
    BY <1>1, <1>3 DEF NewestKept, Newest, Newer
  <2>2. Newer(t, i) \subseteq 1..c
    BY <1>1 DEF Newer
  <2>3. IsFiniteSet(Newer(t, i))
    BY <1>2, <2>2, FS_Subset
  <2>4. Cardinality((c - Limit + 1)..c) = Limit
    <3>1. c - Limit + 1 \in Int /\ c \in Int /\ ~(c - Limit + 1 > c)
      BY <1>1
    <3>2. Cardinality((c - Limit + 1)..c) = c - (c - Limit + 1) + 1
      BY <3>1, FS_Interval
    <3> QED
      BY <1>1, <3>2
  <2>5. Cardinality((c - Limit + 1)..c) <= Cardinality(Newer(t, i))
    BY <2>1, <2>3, FS_Subset
  <2>6. Cardinality(Newer(t, i)) \in Nat
    BY <2>3, FS_CardinalityType
  <2> QED
    BY <1>1, <2>4, <2>5, <2>6
<1>4. ASSUME NEW i \in stored[t], i > c - Limit
      PROVE  ~(Cardinality(Newer(t, i)) >= Limit)
  <2>1. i \in 1..c
    BY <1>1
  <2>2. Newer(t, i) \subseteq (i + 1)..c
    BY <1>1, <2>1 DEF Newer
  <2>3. IsFiniteSet((i + 1)..c) /\ Cardinality((i + 1)..c) = c - i
    <3>1. i + 1 \in Int /\ c \in Int
      BY <1>1, <2>1
    <3>2. /\ IsFiniteSet((i + 1)..c)
          /\ Cardinality((i + 1)..c) = IF i + 1 > c THEN 0 ELSE c - (i + 1) + 1
      BY <3>1, FS_Interval
    <3> QED
      BY <1>1, <2>1, <3>2
  <2>4. Cardinality(Newer(t, i)) <= c - i
    BY <2>2, <2>3, FS_Subset, ZenonT(40)
  <2>5. Cardinality(Newer(t, i)) \in Nat
    BY <2>2, <2>3, FS_Subset, FS_CardinalityType
  <2> QED
    BY <1>1, <1>4, <2>1, <2>4, <2>5
<1> QED
  BY <1>1, <1>3, <1>4 DEF BeyondLimit

LEMMA InvInit == Init => Inv
  BY LimitAssumption DEF Init, Inv, TypeOK, CallInv, NewestKept, PrunedWhenQuiet, ReplyInv, Newest,
     IdleCall, IdleReply, Call, Reply, Asked, Named, AnyCode, Topics

-----------------------------------------------------------------------------
LEMMA CreateInv ==
  ASSUME Inv, NEW s \in Callers, NEW t \in Topics, Create(s, t)
  PROVE  Inv'
<1>1. count[t] \in Nat /\ Limit \in Nat \ {0} /\ call[s].pc = "idle"
  BY LimitAssumption DEF Inv, TypeOK, Create, Quiet
<1> DEFINE c == [pc |-> "find", topic |-> t, id |-> count[t] + 1, old |-> {}]
<1>2. /\ count' = [count EXCEPT ![t] = count[t] + 1]
      /\ stored' = [stored EXCEPT ![t] = stored[t] \cup {count[t] + 1}]
      /\ call' = [call EXCEPT ![s] = c]
      /\ UNCHANGED <<reply, received>>
  BY DEF Create, Inv, TypeOK
<1>3. /\ count'[t] = count[t] + 1 /\ stored'[t] = stored[t] \cup {count[t] + 1}
      /\ \A u \in Topics \ {t} : count'[u] = count[u] /\ stored'[u] = stored[u]
      /\ call'[s] = c /\ \A r \in Callers \ {s} : call'[r] = call[r]
  BY <1>2 DEF Inv, TypeOK
<1>4. TypeOK'
  <2>1. c \in Call
    BY <1>1 DEF Call
  <2> QED
    BY <1>1, <1>2, <1>3, <2>1 DEF Inv, TypeOK
<1>5. CallInv'
  BY <1>1, <1>3 DEF Inv, CallInv, TypeOK, Call
<1>6. NewestKept'
  <2> SUFFICES ASSUME NEW u \in Topics, NEW i \in Newest(count'[u], Limit) PROVE i \in stored'[u]
    BY DEF NewestKept
  <2> QED
    BY <1>1, <1>3 DEF Inv, NewestKept, Newest
<1>7. PrunedWhenQuiet'
  <2> SUFFICES ASSUME NEW u \in Topics, NEW i \in stored'[u]
               PROVE  i \in Newest(count'[u], Limit) \/ Doomed(u, i)'
    BY DEF PrunedWhenQuiet
  <2>1. CASE u = t
    BY <1>3, <2>1 DEF Doomed
  <2>2. CASE u # t
    BY <1>1, <1>3, <2>2 DEF Inv, PrunedWhenQuiet, Doomed
  <2> QED
    BY <2>1, <2>2
<1>8. ReplyInv'
  BY <1>2 DEF Inv, ReplyInv
<1> QED
  BY <1>4, <1>5, <1>6, <1>7, <1>8 DEF Inv

LEMMA FindOldInv ==
  ASSUME Inv, NEW s \in Callers, FindOld(s)
  PROVE  Inv'
<1> DEFINE t == call[s].topic
<1>1. t \in Topics /\ call \in [Callers -> Call] /\ count[t] \in Nat /\ Limit \in Nat
  BY LimitAssumption DEF Inv, TypeOK, Call
<1>2. BeyondLimit(t) = {i \in stored[t] : i <= count[t] - Limit}
  BY <1>1, BeyondLimitIsOld DEF Inv
<1>3. /\ UNCHANGED <<count, stored, reply, received>>
      /\ call[s].pc = "find"
      /\ call' = [call EXCEPT ![s] = [call[s] EXCEPT !.pc = "prune", !.old = BeyondLimit(t)]]
  BY <1>1 DEF FindOld
<1>4. /\ call'[s].pc = "prune" /\ call'[s].topic = t /\ call'[s].old = BeyondLimit(t)
      /\ \A r \in Callers \ {s} : call'[r] = call[r]
  BY <1>1, <1>3 DEF Call
<1>5. TypeOK'
  <2>1. BeyondLimit(t) \subseteq Nat
    BY <1>1 DEF BeyondLimit, Inv, TypeOK
  <2>2. [call[s] EXCEPT !.pc = "prune", !.old = BeyondLimit(t)] \in Call
    BY <1>1, <2>1 DEF Call
  <2> QED
    BY <1>1, <1>3, <2>2 DEF Inv, TypeOK
<1>6. CallInv'
  BY <1>2, <1>3, <1>4 DEF Inv, CallInv
<1>7. PrunedWhenQuiet'
  <2> SUFFICES ASSUME NEW u \in Topics, NEW i \in stored[u], i \notin Newest(count[u], Limit)
               PROVE  Doomed(u, i)'
    BY <1>3 DEF PrunedWhenQuiet
  <2>1. PICK r \in Callers : /\ call[r].topic = u
                             /\ call[r].pc = "find" \/ (call[r].pc = "prune" /\ i \in call[r].old)
    BY DEF Inv, PrunedWhenQuiet, Doomed
  <2>2. CASE r = s
    <3>1. u = t /\ i \in 1..count[t]
      BY <2>1, <2>2 DEF Inv, TypeOK
    <3>2. i <= count[t] - Limit
      BY <1>1, <3>1 DEF Newest
    <3> QED
      BY <1>2, <1>4, <3>1, <3>2 DEF Doomed
  <2>3. CASE r # s
    BY <1>4, <2>1, <2>3 DEF Doomed
  <2> QED
    BY <2>2, <2>3
<1> QED
  BY <1>3, <1>5, <1>6, <1>7 DEF Inv, NewestKept, ReplyInv

LEMMA DestroyInv ==
  ASSUME Inv, NEW s \in Callers, Destroy(s)
  PROVE  Inv'
<1> DEFINE t == call[s].topic
<1>1. t \in Topics /\ call \in [Callers -> Call] /\ count \in [Topics -> Nat] /\ Limit \in Nat
  BY LimitAssumption DEF Inv, TypeOK, Call
<1>2. PICK i \in call[s].old :
        /\ stored' = [stored EXCEPT ![t] = stored[t] \ {i}]
        /\ call' = [call EXCEPT ![s] = [call[s] EXCEPT !.old = call[s].old \ {i}]]
  BY <1>1 DEF Destroy, Inv, TypeOK
<1>3. UNCHANGED <<count, reply, received>> /\ call[s].pc = "prune"
  BY DEF Destroy
<1>4. i <= count[t] - Limit /\ i \in Nat
  BY <1>1, <1>3 DEF Inv, CallInv, Call
<1>5. /\ call'[s].pc = "prune" /\ call'[s].topic = t /\ call'[s].old = call[s].old \ {i}
      /\ \A r \in Callers \ {s} : call'[r] = call[r]
      /\ stored'[t] = stored[t] \ {i} /\ \A u \in Topics \ {t} : stored'[u] = stored[u]
  BY <1>1, <1>2, <1>3 DEF Call, Inv, TypeOK
<1>6. TypeOK'
  <2>1. [call[s] EXCEPT !.old = call[s].old \ {i}] \in Call
    BY <1>1 DEF Call
  <2> QED
    BY <1>1, <1>2, <1>3, <1>5, <2>1 DEF Inv, TypeOK
<1>7. CallInv'
  BY <1>3, <1>5 DEF Inv, CallInv
<1>8. NewestKept'
  <2> SUFFICES ASSUME NEW u \in Topics, NEW k \in Newest(count[u], Limit) PROVE k \in stored'[u]
    BY <1>3 DEF NewestKept
  <2>1. k \in stored[u]
    BY DEF Inv, NewestKept
  <2>2. u = t => k # i
    BY <1>1, <1>4 DEF Newest
  <2> QED
    BY <1>5, <2>1, <2>2
<1>9. PrunedWhenQuiet'
  <2> SUFFICES ASSUME NEW u \in Topics, NEW k \in stored'[u], k \notin Newest(count[u], Limit)
               PROVE  Doomed(u, k)'
    BY <1>3 DEF PrunedWhenQuiet
  <2>1. k \in stored[u] /\ (u = t => k # i)
    BY <1>5
  <2>2. PICK r \in Callers : /\ call[r].topic = u
                             /\ call[r].pc = "find" \/ (call[r].pc = "prune" /\ k \in call[r].old)
    BY <2>1 DEF Inv, PrunedWhenQuiet, Doomed
  <2> QED
    BY <1>3, <1>5, <2>1, <2>2 DEF Doomed
<1> QED
  BY <1>3, <1>6, <1>7, <1>8, <1>9 DEF Inv, ReplyInv

(* A broadcast that has nothing left to delete.                            *)
LEMMA CallerLeavesInv ==
  ASSUME Inv, NEW s \in Callers, Pruned(s) \/ Publish(s)
  PROVE  Inv'
<1>1. call \in [Callers -> Call] /\ received \in [Topics -> SUBSET Nat]
  BY DEF Inv, TypeOK
<1>2. PICK c \in Call : call' = [call EXCEPT ![s] = c] /\ c.pc \in {"publish", "idle"}
  <2>1. CASE Pruned(s)
    <3>1. [call[s] EXCEPT !.pc = "publish"] \in Call /\ [call[s] EXCEPT !.pc = "publish"].pc = "publish"
      BY <1>1 DEF Call
    <3>2. call' = [call EXCEPT ![s] = [call[s] EXCEPT !.pc = "publish"]]
      BY <1>1, <2>1 DEF Pruned
    <3> QED
      BY <3>1, <3>2
  <2>2. CASE Publish(s)
    <3>1. IdleCall \in Call /\ IdleCall.pc = "idle"
      BY DEF IdleCall, Call, Topics
    <3> QED
      BY <2>2, <3>1 DEF Publish
  <2> QED
    BY <2>1, <2>2
<1>3. /\ UNCHANGED <<count, stored, reply>>
      /\ \/ call[s].pc = "prune" /\ call[s].old = {}
         \/ call[s].pc = "publish"
  BY DEF Pruned, Publish
<1>4. received' \in [Topics -> SUBSET Nat]
  BY <1>1 DEF Pruned, Publish, Call
<1>5. call'[s] = c /\ \A r \in Callers \ {s} : call'[r] = call[r]
  BY <1>1, <1>2
<1>6. TypeOK'
  BY <1>1, <1>2, <1>3, <1>4 DEF Inv, TypeOK
<1>7. CallInv'
  BY <1>2, <1>3, <1>5 DEF Inv, CallInv
<1>8. PrunedWhenQuiet'
  <2> SUFFICES ASSUME NEW u \in Topics, NEW i \in stored[u], i \notin Newest(count[u], Limit)
               PROVE  Doomed(u, i)'
    BY <1>3 DEF PrunedWhenQuiet
  <2>1. PICK r \in Callers : /\ call[r].topic = u
                             /\ call[r].pc = "find" \/ (call[r].pc = "prune" /\ i \in call[r].old)
    BY DEF Inv, PrunedWhenQuiet, Doomed
  <2>2. r # s
    BY <1>3, <2>1
  <2> QED
    BY <1>5, <2>1, <2>2 DEF Doomed
<1> QED
  BY <1>3, <1>6, <1>7, <1>8 DEF Inv, NewestKept, ReplyInv

LEMMA ResendInv ==
  ASSUME Inv, (\E asked \in Asked, code \in Named : FindLatest(asked, code)) \/ SendBatch
  PROVE  Inv'
<1>1. UNCHANGED <<count, stored, call>>
  BY DEF FindLatest, SendBatch
<1>2. reply' \in Reply /\ received' \in [Topics -> SUBSET Nat] /\ ReplyInv'
  <2>1. ASSUME NEW asked \in Asked, NEW code \in Named, FindLatest(asked, code)
        PROVE  reply' \in Reply /\ received' \in [Topics -> SUBSET Nat] /\ ReplyInv'
    <3> DEFINE b == [t \in Topics |-> IF t \in asked THEN stored[t] \cap code ELSE {}]
    <3>1. /\ reply' = [pc |-> "send", asked |-> asked, code |-> code, asOf |-> count, batch |-> b]
          /\ received' = received
      BY <2>1 DEF FindLatest
    <3>2. asked \subseteq Topics
      BY DEF Asked, Topics
    <3>3. b \in [Topics -> SUBSET Nat] /\ count \in [Topics -> Nat]
      BY DEF Inv, TypeOK
    <3>4. reply' \in Reply
      BY <3>1, <3>3 DEF Reply
    <3>5. ReplyInv'
      <4> SUFFICES ASSUME NEW t \in asked PROVE Newest(count[t], Limit) \cap code \subseteq b[t]
        BY <3>1 DEF ReplyInv
      <4> QED
        BY <3>2 DEF Inv, NewestKept
    <3> QED
      BY <3>1, <3>4, <3>5 DEF Inv, TypeOK
  <2>2. CASE SendBatch
    <3>1. IdleReply \in Reply /\ IdleReply.pc = "idle"
      BY DEF IdleReply, Reply, Asked, Named, AnyCode
    <3>2. received' \in [Topics -> SUBSET Nat]
      BY <2>2 DEF SendBatch, Arrived, Inv, TypeOK, Reply
    <3> QED
      BY <2>2, <3>1, <3>2 DEF SendBatch, ReplyInv
  <2> QED
    BY <2>1, <2>2
<1> QED
  BY <1>1, <1>2 DEF Inv, TypeOK, CallInv, NewestKept, PrunedWhenQuiet, Doomed

LEMMA InvStep == Inv /\ [Next]_vars => Inv'
<1> SUFFICES ASSUME Inv, [Next]_vars PROVE Inv'
  OBVIOUS
<1>1. CASE UNCHANGED vars
  BY <1>1 DEF vars, Inv, TypeOK, CallInv, NewestKept, PrunedWhenQuiet, ReplyInv, Doomed
<1>2. CASE Next
  BY <1>2, CreateInv, FindOldInv, DestroyInv, CallerLeavesInv, ResendInv DEF Next, BroadcastStep
<1> QED
  BY <1>1, <1>2

-----------------------------------------------------------------------------
(* Every variable stays in its type: ids are drawn once, and nothing is    *)
(* stored or answered that has not been created.                           *)
THEOREM MessagesTypeCorrect == Spec => []TypeOK
<1>1. Inv => TypeOK
  BY DEF Inv
<1> QED
  BY <1>1, InvInit, InvStep, PTL DEF Spec

(* However many broadcasts interleave, pruning never deletes one of the    *)
(* newest Limit messages of a topic.                                       *)
THEOREM NewestAreKept == Spec => []NewestKept
<1>1. Inv => NewestKept
  BY DEF Inv
<1> QED
  BY <1>1, InvInit, InvStep, PTL DEF Spec

(* ... and leaves none behind: once the broadcasts about a topic are done, *)
(* the table holds the newest Limit messages of it and no other.           *)
THEOREM OldArePruned == Spec => []PrunedWhenQuiet
<1>1. Inv => PrunedWhenQuiet
  BY DEF Inv
<1> QED
  BY <1>1, InvInit, InvStep, PTL DEF Spec

(* A resend that arrives brings everything back to the limit, whatever was *)
(* broadcast and deleted between its query and its arrival.                *)
THEOREM ResendIsComplete == Spec => ResendCatchesUp
<1> DEFINE CatchesUp ==
      reply.pc = "send" /\ reply'.pc = "idle" /\ (\A t \in Topics : reply.batch[t] \subseteq received'[t]) =>
        \A t \in reply.asked : Newest(reply.asOf[t], Limit) \cap reply.code \subseteq received'[t]
<1>1. Inv /\ [Next]_vars => [CatchesUp]_vars
  <2>1. Inv => reply.asked \subseteq Topics
    BY DEF Inv, TypeOK, Reply, Asked, Topics
  <2> QED
    BY <2>1 DEF Inv, ReplyInv
<1>2. Inv /\ [Next]_vars => Inv'
  BY InvStep
<1>3. Init => Inv
  BY InvInit
<1> QED
  BY <1>1, <1>2, <1>3, PTL DEF Spec, ResendCatchesUp
=============================================================================
