--------------------------- MODULE ExecutionTypes ---------------------------
(***************************************************************************)
(* The enumerations of execution/control_models.py and the keys that the   *)
(* control plane and the broker have in common.                            *)
(***************************************************************************)
EXTENDS Integers

CONSTANTS
    Intents,            \* intent_id = client_order_key, one reservation each
    ExternalKeys,       \* client order keys only the broker knows
    Qty                 \* quantity of an intent

ASSUME TypesAssumption ==
    /\ Qty \in Nat \ {0}
    /\ Intents \intersect ExternalKeys = {}

Keys == Intents \union ExternalKeys

ExecutionStatus ==
    {"APPROVAL_PENDING", "APPROVED", "OUTBOXED", "SUBMITTING",
     "SUBMISSION_UNKNOWN", "ACKNOWLEDGED", "PARTIALLY_FILLED", "FILLED",
     "CANCEL_REQUESTED", "CANCEL_UNKNOWN", "CANCELLED", "REJECTED", "EXPIRED"}

ReservationStatus ==
    {"ACTIVE", "PARTIALLY_CONSUMED", "CONSUMED", "RELEASED", "EXPIRED"}

CommandStatus == {"PENDING", "CLAIMED", "UNKNOWN", "DELIVERED"}

BrokerEventType ==
    {"ACKNOWLEDGED", "PARTIAL_FILL", "FILL", "CANCELLED", "REJECTED", "COMMISSION"}

BrokerEvent == [key : Keys, type : BrokerEventType, qty : 0 .. Qty]

OrderStatus == {"ABSENT", "ACCEPTED", "PARTIALLY_FILLED", "FILLED", "CANCELLED", "REJECTED"}

BrokerOrder == [status : OrderStatus, filled : 0 .. Qty, protected : BOOLEAN]
=============================================================================
