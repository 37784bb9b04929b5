--------------------------- MODULE AgreementMirror ---------------------------
(***************************************************************************)
(* What the table of agreements promises, whatever runs beside the event   *)
(* handlers: of the contract's agreements with one offer it keeps a copy   *)
(* that is at most one event behind, an agreement is active from its first *)
(* copy until it ends, by a stop or by expiry, and never again.            *)
(* BlockchainPinner implements it.                                         *)
(***************************************************************************)

CONSTANTS
  Agreements,  \* agreement references
  Billings,    \* what the contract may hold of an agreement
  NULL         \* no agreement, no copy

VARIABLES
  contract,  \* the contract's agreement, NULL when there is none
  copy,      \* the copy of it
  phase,     \* "absent", "active" or "ended"
  behind     \* agreements whose copy awaits an event

vars == <<contract, copy, phase, behind>>

Init ==
  /\ contract = [a \in Agreements |-> NULL]
  /\ copy = [a \in Agreements |-> NULL]
  /\ phase = [a \in Agreements |-> "absent"]
  /\ behind = {}

(* The contract changes, or ends, one agreement.                           *)
Change(a) ==
  /\ behind = {}
  /\ contract' \in [Agreements -> Billings \cup {NULL}]
  /\ \A b \in Agreements \ {a} : contract'[b] = contract[b]
  /\ behind' = {a}
  /\ UNCHANGED <<copy, phase>>

(* The copy catches up, as a whole.                                        *)
CopyContract(a) ==
  /\ a \in behind
  /\ contract[a] # NULL
  /\ copy' = [copy EXCEPT ![a] = contract[a]]
  /\ phase' = [phase EXCEPT ![a] = IF @ = "absent" THEN "active" ELSE @]
  /\ behind' = {}
  /\ UNCHANGED contract

(* The copy of an agreement the contract has ended stays, for the record.  *)
Stop(a) ==
  /\ a \in behind
  /\ contract[a] = NULL
  /\ phase[a] # "absent"
  /\ phase' = [phase EXCEPT ![a] = "ended"]
  /\ behind' = {}
  /\ UNCHANGED <<contract, copy>>

(* The collector ends an agreement, at any time.                           *)
Expire(a) ==
  /\ phase[a] = "active"
  /\ phase' = [phase EXCEPT ![a] = "ended"]
  /\ UNCHANGED <<contract, copy, behind>>

Next ==
  \E a \in Agreements :
    \/ Change(a)
    \/ CopyContract(a)
    \/ Stop(a)
    \/ Expire(a)

Spec == Init /\ [][Next]_vars
=============================================================================
