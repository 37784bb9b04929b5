----------------------------- MODULE PinnerState -----------------------------
(***************************************************************************)
(* What the garbage collector and the event handlers of one pinner share:  *)
(* the storage_agreement table, the pin set of the IPFS node, what each    *)
(* consumer was told last, and the clocks.                                 *)
(***************************************************************************)
EXTENDS AgreementModel, FiniteSets

CONSTANTS
  Agreements,      \* agreement references (the primary keys of the table)
  Refs,            \* data references
  RefOf,           \* the data reference each agreement is for
  UnsupportedRefs, \* data references that do not start with /ipfs/
  Terms,           \* [size, billingPrice, billingPeriod] an offer can bill
  Confirmations,   \* blockchain.eventsEmitter.confirmations
  GcRuns,          \* collector runs that may overlap (a bound: the code has none)
  IpfsMayFail,     \* whether requests of the event handlers to the IPFS node may fail
  DbMayFail,       \* whether database statements of the event handlers may fail
  FaultyBlocks,    \* blocks whose collector run may fail (a bound on its failures)
  MaxBlock,        \* bound: number of new-block events
  MaxTime,         \* bound: seconds on the clock
  NULL             \* SQL null, and "no such row"

PositiveNat == Nat \ {0}

Row == [ isActive : BOOLEAN,
         terms : Terms,
         availableFunds : Int,
         lastPayout : Nat,
         expiredAtBlockNumber : Nat \cup {NULL} ]

(* The last message about an agreement (MessageCodesEnum).                 *)
Codes == { "NONE", "I_AGREEMENT_NEW", "I_HASH_START", "W_HASH_RETRY",
           "I_HASH_PINNED", "E_AGREEMENT_SIZE_LIMIT_EXCEEDED",
           "I_AGREEMENT_EXPIRED", "I_AGREEMENT_STOPPED" }

ASSUME TermsAssumption ==
  Terms \subseteq [size : PositiveNat, billingPrice : PositiveNat, billingPeriod : PositiveNat]

ASSUME StateAssumption ==
  /\ UnsupportedRefs \subseteq Refs
  /\ RefOf \in [Agreements -> Refs]
  /\ Confirmations \in Nat
  /\ IpfsMayFail \in BOOLEAN
  /\ DbMayFail \in BOOLEAN
  /\ FaultyBlocks \subseteq Nat
  /\ MaxBlock \in Nat
  /\ MaxTime \in Nat

ASSUME NullAssumption ==
  /\ NULL \notin Nat
  /\ NULL \notin Agreements
  /\ NULL \notin Row

VARIABLES
  table,  \* storage_agreement: the row of each agreement, NULL when there is none
  pins,   \* data references pinned on the IPFS node
  told,   \* the code of the last message broadcast about each agreement
  block,  \* number of the last block the new-block emitter reported
  now     \* Date.now() in seconds

stateVars == <<table, pins, told, block, now>>

StateTypeOK ==
  /\ table \in [Agreements -> Row \cup {NULL}]
  /\ pins \subseteq Refs
  /\ told \in [Agreements -> Codes]
  /\ block \in Nat
  /\ now \in Nat

StateInit ==
  /\ table = [a \in Agreements |-> NULL]
  /\ pins = {}
  /\ told = [a \in Agreements |-> "NONE"]
  /\ block = 0
  /\ now = 0

-----------------------------------------------------------------------------
Exists(a) == table[a] # NULL
Active(a) == Exists(a) /\ table[a].isActive
Funded(a) == HasSufficientFunds(table[a], now)
Marked(a) == table[a].expiredAtBlockNumber # NULL

(* model.save() writes only the columns that changed in the instance:      *)
(* another process's update of the other columns of the row survives.      *)
SaveMark(a, mark)   == table' = [table EXCEPT ![a].expiredAtBlockNumber = mark]
SaveInactive(a)     == table' = [table EXCEPT ![a].isActive = FALSE]

(* broadcast() of a message about agreement a.                             *)
Broadcast(a, code) == told' = [told EXCEPT ![a] = code]

(* ProviderManager.unpin throws for a reference it does not know; a        *)
(* reference that is not pinned is no error to any caller.  A request to   *)
(* the IPFS node that errs may have taken effect, its answer lost.         *)
Supported(ref) == ref \notin UnsupportedRefs
UnpinPinned(ref) ==  \* mutant: "not pinned" is an error like any other
  Supported(ref) /\ ref \in pins /\ pins' = pins \ {ref}
Unpin(ref)     == Supported(ref) /\ pins' = pins \ {ref}
UnpinErrs(ref) ==
  \/ ~Supported(ref) /\ UNCHANGED pins
  \/ Supported(ref) /\ pins' \in {pins, pins \ {ref}}

Tick ==
  /\ now < MaxTime
  /\ now' = now + 1
  /\ UNCHANGED <<table, pins, told, block>>
=============================================================================
