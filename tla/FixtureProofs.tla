---------------------------- MODULE FixtureProofs ----------------------------
(***************************************************************************)
(* What the Paper fixture never does, for any number of commands, permits, *)
(* quotes and lifecycles, wherever the commands interleave or die: spend a *)
(* permit or a quote twice, write what is on no ledger, or issue a receipt *)
(* that claims a success the broker does not show.  And the acceptance     *)
(* evidence gathered around it, for any sessions, receipts and cases: no   *)
(* evidence counts twice, and its three readers agree.                     *)
(***************************************************************************)
EXTENDS PaperFixture, BurnInEvidence, SumProofs

USE DEF fixtureVars, ledgers, broker, papers

-----------------------------------------------------------------------------
(* Types.                                                                  *)

Decision ==
    {"OUTCOME_UNKNOWN", "BROKER_REJECTED", "BROKER_FILLED", "BROKER_CANCELLED",
     "BROKER_ACCEPTED_OPEN"}

OrderState == {"none", "sent", "Submitted", "Inactive", "Filled", "Cancelled"}

CapsuleRow == [feed : FeedScopes, expires : Nat]

PermitRow == [action : FixtureActions, quote : Nat, target : Nat, side : {"BUY", "SELL"},
              expires : Nat]

LedgerRow == [lifecycle : Lifecycles, decision : Decision \union {"AUTHORIZED_NOT_YET_SENT"}]

\* A command that runs execute, up to its decision and after it.
Executing == [pc : {"reserve", "consume", "write", "await"}, permit : PermitIds,
              lifecycle : Lifecycles]
Decided == [pc : {"post", "record"}, permit : PermitIds, lifecycle : Lifecycles,
            decision : Decision]

CommandState ==
    {Idle} \union [pc : {"start", "finish"}, lifecycle : Lifecycles]
           \union Executing \union Decided

FixtureTypeOK ==
    /\ fixtureNow \in Nat
    /\ capsules \in Seq(CapsuleRow)
    /\ permits \in Seq(PermitRow)
    /\ linked \in [PermitIds -> {NoRow} \union LedgerRow]
    /\ consumed \in SUBSET PermitIds
    /\ receipts \in SUBSET [permit : PermitIds, decision : Decision]
    /\ brokerOrder \in [PermitIds -> OrderState]
    /\ command \in [Commands -> CommandState]
    /\ brokerWrites \in [PermitIds -> Nat]

\* Permits are numbered within the bound, an order-bound one names an earlier permit,
\* and a command executes a permit that exists.
PermitsKnown ==
    /\ Len(permits) <= MaxPermits
    /\ \A p \in DOMAIN permits :
         order_bound(permits[p].action) => permits[p].target \in DOMAIN permits
    /\ \A c \in Commands :
         command[c] \in Executing \union Decided => command[c].permit \in DOMAIN permits
    /\ \A r \in receipts : r.permit \in DOMAIN permits

TypeInv == FixtureTypeOK /\ PermitsKnown

LEMMA BoundIsNat == MaxPermits \in Nat
  BY FixtureAssumption

\* The domain of the permits, as numbers.
LEMMA PermitDomain ==
  ASSUME TypeInv
  PROVE  /\ Len(permits) \in Nat /\ DOMAIN permits = 1 .. Len(permits)
         /\ DOMAIN permits \subseteq PermitIds
  BY BoundIsNat DEF TypeInv, FixtureTypeOK, PermitsKnown, PermitIds

\* A row of a ledger is told from no row.
LEMMA RowIsARow == \A row \in LedgerRow : row # NoRow
  BY DEF LedgerRow, NoRow

LEMMA InitTypes == FixtureInit => TypeInv
  <1> SUFFICES ASSUME FixtureInit PROVE TypeInv
    OBVIOUS
  <1>1. Idle \notin Executing \union Decided
    BY DEF Idle, Executing, Decided
  <1>2. FixtureTypeOK
    BY DEF FixtureInit, FixtureTypeOK, CommandState, OrderState
  <1>3. PermitsKnown
    BY <1>1, BoundIsNat DEF FixtureInit, PermitsKnown
  <1> QED
    BY <1>2, <1>3 DEF TypeInv

-----------------------------------------------------------------------------
(* What a step does to one command and to the permits.                     *)

\* The program counter tells which record a command is.
LEMMA CommandByPc ==
  ASSUME TypeInv, NEW c \in Commands
  PROVE  /\ command[c].pc \in {"reserve", "consume", "write", "await"} =>
              command[c] \in Executing
         /\ command[c].pc \in {"post", "record"} => command[c] \in Decided
         /\ command[c] \in Executing \union Decided => command[c].permit \in DOMAIN permits
  BY DEF TypeInv, FixtureTypeOK, PermitsKnown, CommandState, Idle, Executing, Decided

\* Moving one command leaves the others alone.
LEMMA Moved ==
  ASSUME TypeInv, NEW c \in Commands, NEW new, command' = [command EXCEPT ![c] = new]
  PROVE  /\ command'[c] = new
         /\ \A d \in Commands \ {c} : command'[d] = command[d]
         /\ new \in CommandState => command' \in [Commands -> CommandState]
  BY DEF TypeInv, FixtureTypeOK

LEMMA GotoMoves ==
  ASSUME TypeInv, NEW c \in Commands, NEW pc, goto(c, pc),
         \/ command[c] \in Executing /\ pc \in {"consume", "write", "await"}
         \/ command[c] \in Decided /\ pc = "record"
  PROVE  /\ \A d \in Commands \ {c} : command'[d] = command[d]
         /\ command'[c].pc = pc /\ command'[c].permit = command[c].permit
         /\ command'[c].decision = command[c].decision
         /\ command' \in [Commands -> CommandState]
  <1> DEFINE new == [command[c] EXCEPT !.pc = pc]
  <1>1. command' = [command EXCEPT ![c] = new]
    BY DEF goto, TypeInv, FixtureTypeOK
  <1>2. /\ new.pc = pc /\ new.permit = command[c].permit
        /\ new.decision = command[c].decision
        /\ new \in Executing \/ new \in Decided
    BY DEF Executing, Decided
  <1> HIDE DEF new
  <1>3. /\ command'[c] = new
        /\ \A d \in Commands \ {c} : command'[d] = command[d]
        /\ new \in CommandState => command' \in [Commands -> CommandState]
    BY <1>1, Moved
  <1> QED
    BY <1>2, <1>3 DEF CommandState

LEMMA DecidedMoves ==
  ASSUME TypeInv, NEW c \in Commands, NEW decision \in Decision, decided(c, decision),
         command[c] \in Executing
  PROVE  /\ \A d \in Commands \ {c} : command'[d] = command[d]
         /\ command'[c].pc = "post" /\ command'[c].decision = decision
         /\ command'[c].permit = command[c].permit
         /\ command'[c] \in Decided /\ command' \in [Commands -> CommandState]
  <1> DEFINE new == [pc |-> "post", permit |-> command[c].permit,
                     lifecycle |-> command[c].lifecycle, decision |-> decision]
  <1>1. command' = [command EXCEPT ![c] = new]
    BY DEF decided, TypeInv, FixtureTypeOK
  <1>2. /\ new \in Decided /\ new.pc = "post" /\ new.decision = decision
        /\ new.permit = command[c].permit
    BY DEF Decided, Executing
  <1> HIDE DEF new
  <1>3. command'[c] = new /\ new \in CommandState
    BY <1>1, <1>2, Moved DEF CommandState
  <1> QED
    BY <1>1, <1>2, <1>3, Moved

\* Every step of execute keeps the command's permit.
LEMMA ExecuteKeepsPermit ==
  ASSUME TypeInv, NEW c \in Commands, command[c] \in Executing,
         \/ goto(c, "consume") \/ goto(c, "write") \/ goto(c, "await")
         \/ \E d \in Decision : decided(c, d)
  PROVE  /\ \A d \in Commands \ {c} : command'[d] = command[d]
         /\ command'[c].permit = command[c].permit
         /\ command' \in [Commands -> CommandState]
  <1>1. ASSUME NEW pc \in {"consume", "write", "await"}, goto(c, pc)
        PROVE  /\ \A d \in Commands \ {c} : command'[d] = command[d]
               /\ command'[c].permit = command[c].permit
               /\ command' \in [Commands -> CommandState]
    BY <1>1, GotoMoves
  <1>2. ASSUME NEW d \in Decision, decided(c, d)
        PROVE  /\ \A e \in Commands \ {c} : command'[e] = command[e]
               /\ command'[c].permit = command[c].permit
               /\ command' \in [Commands -> CommandState]
    BY <1>2, DecidedMoves
  <1> QED
    BY <1>1, <1>2

\* A command that neither executes nor has decided.
Quiet == {Idle} \union [pc : {"start", "finish"}, lifecycle : Lifecycles]

LEMMA QuietCommands ==
  /\ Quiet \subseteq CommandState
  /\ \A q \in Quiet : /\ q \notin Executing \union Decided
                      /\ q.pc \notin {"reserve", "consume", "write", "await", "post", "record"}
  BY DEF Quiet, CommandState, Idle, Executing, Decided

\* The permits are only ever added to.
LEMMA PermitsGrow ==
  ASSUME TypeInv, create_permit
  PROVE  /\ permits' \in Seq(PermitRow) /\ Len(permits') <= MaxPermits
         /\ DOMAIN permits \subseteq DOMAIN permits'
         /\ \A p \in DOMAIN permits : permits'[p] = permits[p]
         /\ \A p \in DOMAIN permits' :
              order_bound(permits'[p].action) => permits'[p].target \in DOMAIN permits'
  <1>1. PICK action \in FixtureActions, side \in {"BUY", "SELL"}, price \in Prices,
             q \in 0..Len(capsules), target \in 0..Len(permits) :
          /\ Len(permits) < MaxPermits
          /\ order_bound(action) <=> target # NoOrder
          /\ quote_bound(action) <=> q # NoQuote
          /\ quote_bound(action) => load_quote_capsule(q)
          /\ permits' = Append(permits, permit_body(action, side, price, q, target))
    BY DEF create_permit
  <1> DEFINE new == permit_body(action, side, price, q, target)
  <1>2. /\ permits \in Seq(PermitRow) /\ capsules \in Seq(CapsuleRow) /\ fixtureNow \in Nat
        /\ \A p \in DOMAIN permits :
             order_bound(permits[p].action) => permits[p].target \in DOMAIN permits
    BY DEF TypeInv, FixtureTypeOK, PermitsKnown
  <1>3. quote_bound(action) => capsules[q].expires \in Nat
    <2> SUFFICES ASSUME quote_bound(action) PROVE capsules[q].expires \in Nat
      OBVIOUS
    <2>1. q \in DOMAIN capsules
      BY <1>1 DEF load_quote_capsule
    <2>2. capsules[q] \in CapsuleRow
      BY <2>1, <1>2
    <2> QED
      BY <2>2 DEF CapsuleRow
  <1>4. new \in PermitRow /\ new.action = action /\ new.target = target
    BY <1>2, <1>3 DEF permit_body, PermitRow, PERMIT_TTL
  <1> HIDE DEF new
  <1>5. /\ permits' \in Seq(PermitRow) /\ Len(permits') = Len(permits) + 1
        /\ DOMAIN permits = 1..Len(permits) /\ DOMAIN permits' = 1..Len(permits) + 1
        /\ \A p \in DOMAIN permits : permits'[p] = permits[p]
        /\ permits'[Len(permits) + 1] = new
        /\ Len(permits) \in Nat
    BY <1>1, <1>2, <1>4 DEF new
  <1>6. Len(permits') <= MaxPermits
    BY <1>1, <1>5, BoundIsNat
  <1>7. DOMAIN permits \subseteq DOMAIN permits'
    BY <1>5
  <1>8. ASSUME NEW p \in DOMAIN permits', order_bound(permits'[p].action)
        PROVE  permits'[p].target \in DOMAIN permits'
    <2>1. CASE p \in DOMAIN permits
      BY <2>1, <1>8, <1>2, <1>5, <1>7
    <2>2. CASE p \notin DOMAIN permits
      BY <2>2, <1>8, <1>1, <1>4, <1>5 DEF NoOrder
    <2> QED
      BY <2>1, <2>2
  <1> QED
    BY <1>5, <1>6, <1>7, <1>8

-----------------------------------------------------------------------------
(* The types are preserved.                                                *)

\* A step that moves one command and keeps the permits and the receipts.
LEMMA MoveKeepsKnown ==
  ASSUME TypeInv, NEW c \in Commands, UNCHANGED <<permits, receipts>>,
         \A d \in Commands \ {c} : command'[d] = command[d],
         command'[c] \in Executing \union Decided => command'[c].permit \in DOMAIN permits
  PROVE  PermitsKnown'
  BY DEF TypeInv, PermitsKnown

\* A step that makes a command quiet and touches no other typed state.
LEMMA QuietStep ==
  ASSUME TypeInv, NEW c \in Commands, NEW new \in Quiet,
         command' = [command EXCEPT ![c] = new],
         UNCHANGED <<fixtureNow, capsules, permits, linked, consumed, receipts, brokerOrder,
                     brokerWrites>>
  PROVE  TypeInv'
  <1>1. command'[c] = new /\ command' \in [Commands -> CommandState]
    BY Moved, QuietCommands
  <1>2. PermitsKnown'
    BY <1>1, Moved, QuietCommands, MoveKeepsKnown
  <1> QED
    BY <1>1, <1>2 DEF TypeInv, FixtureTypeOK

\* The steps that only move a command between quiet states.
QuietNext(c) ==
    \/ \E l \in Lifecycles : start_lifecycle_read(c, l) \/ finish_lifecycle_read(c, l)
    \/ start_lifecycle_insert(c) \/ finish_lifecycle_update(c) \/ fixture_crash(c)

LEMMA QuietNextIsQuiet ==
  ASSUME TypeInv, NEW c \in Commands, QuietNext(c)
  PROVE  /\ \E new \in Quiet : command' = [command EXCEPT ![c] = new]
         /\ UNCHANGED <<fixtureNow, capsules, permits, linked, consumed, receipts,
                        brokerOrder, brokerWrites>>
  BY DEF QuietNext, start_lifecycle_read, finish_lifecycle_read, start_lifecycle_insert,
     finish_lifecycle_update, fixture_crash, Quiet

LEMMA ClassifyDecides ==
  \A status, seen, errors : classify_outcome(status, seen, errors) \in Decision
  BY DEF classify_outcome, Decision

\* _record_lifecycle_action only updates a link row that is there.
LEMMA RecordUpdates ==
  ASSUME TypeInv, NEW c \in Commands, execute_record(c)
  PROVE  \/ linked' = linked
         \/ /\ linked[command[c].permit] \in LedgerRow
            /\ \E row \in LedgerRow : linked' = [linked EXCEPT ![command[c].permit] = row]
  <1> DEFINE p == command[c].permit
             row == [linked[p] EXCEPT !.decision = command[c].decision]
  <1>1. command[c] \in Decided /\ p \in PermitIds /\ command[c].decision \in Decision
    BY CommandByPc DEF execute_record, Decided
  <1>2. linked' = linked \/ (linked[p] # NoRow /\ linked' = [linked EXCEPT ![p].decision = command[c].decision])
    BY DEF execute_record
  <1>3. linked[p] # NoRow => linked[p] \in LedgerRow
    BY <1>1 DEF TypeInv, FixtureTypeOK
  <1>4. linked[p] \in LedgerRow => row \in LedgerRow
    BY <1>1 DEF LedgerRow
  <1>5. [linked EXCEPT ![p].decision = command[c].decision] = [linked EXCEPT ![p] = row]
    BY <1>1 DEF TypeInv, FixtureTypeOK
  <1> QED
    BY <1>2, <1>3, <1>4, <1>5

LEMMA TypeStep == TypeInv /\ [FixtureNext]_fixtureVars => TypeInv'
  <1> SUFFICES ASSUME TypeInv, [FixtureNext]_fixtureVars PROVE TypeInv'
    OBVIOUS
  <1>1. CASE UNCHANGED fixtureVars
    BY <1>1 DEF TypeInv, FixtureTypeOK, PermitsKnown
  <1>2. CASE capture_quote
    <2>1. capsules' \in Seq(CapsuleRow)
      BY <1>2 DEF capture_quote, quote_capsule, TypeInv, FixtureTypeOK, CapsuleRow, QUOTE_TTL
    <2> QED
      BY <1>2, <2>1 DEF capture_quote, TypeInv, FixtureTypeOK, PermitsKnown
  <1>3. CASE create_permit
    <2>1. UNCHANGED <<fixtureNow, capsules, linked, consumed, receipts, brokerOrder, command,
                      brokerWrites>>
      BY <1>3 DEF create_permit
    <2>2. FixtureTypeOK'
      BY <1>3, <2>1, PermitsGrow DEF TypeInv, FixtureTypeOK
    <2>3. PermitsKnown'
      BY <1>3, <2>1, PermitsGrow DEF TypeInv, PermitsKnown
    <2> QED
      BY <2>2, <2>3 DEF TypeInv
  <1>4. CASE tick
    BY <1>4 DEF tick, TypeInv, FixtureTypeOK, PermitsKnown
  <1>5. CASE broker_step
    <2>1. brokerOrder' \in [PermitIds -> OrderState]
      BY <1>5 DEF broker_step, broker_answers, TypeInv, FixtureTypeOK, OrderState
    <2> QED
      BY <1>5, <2>1 DEF broker_step, TypeInv, FixtureTypeOK, PermitsKnown
  <1>6. ASSUME NEW c \in Commands, QuietNext(c)
        PROVE  TypeInv'
    BY <1>6, QuietNextIsQuiet, QuietStep
  <1>7. ASSUME NEW c \in Commands, NEW p \in DOMAIN permits, NEW l \in Lifecycles,
               NEW cost, execute_load(c, p, l, cost)
        PROVE  TypeInv'
    <2> DEFINE new == [pc |-> "reserve", permit |-> p, lifecycle |-> l]
    <2>1. new \in Executing /\ new.permit = p
      BY PermitDomain DEF Executing
    <2>2. /\ command' = [command EXCEPT ![c] = new]
          /\ UNCHANGED <<fixtureNow, capsules, permits, linked, consumed, receipts,
                         brokerOrder, brokerWrites>>
      BY <1>7 DEF execute_load
    <2> HIDE DEF new
    <2>3. command'[c] = new /\ command' \in [Commands -> CommandState]
      BY <2>1, <2>2, Moved DEF CommandState
    <2>4. PermitsKnown'
      BY <2>1, <2>2, <2>3, Moved, MoveKeepsKnown
    <2> QED
      BY <2>2, <2>3, <2>4 DEF TypeInv, FixtureTypeOK
  <1>8. ASSUME NEW c \in Commands, execute_reserve(c)
        PROVE  TypeInv'
    <2> DEFINE p == command[c].permit
               l == command[c].lifecycle
    <2>1. /\ command[c] \in Executing /\ p \in DOMAIN permits /\ l \in Lifecycles
          /\ p \in PermitIds
      BY <1>8, CommandByPc DEF execute_reserve, Executing
    <2>2. UNCHANGED <<fixtureNow, capsules, permits, consumed, receipts, brokerOrder,
                      brokerWrites>>
      BY <1>8 DEF execute_reserve
    <2>3. linked' \in [PermitIds -> {NoRow} \union LedgerRow]
      BY <1>8, <2>1 DEF execute_reserve, TypeInv, FixtureTypeOK, LedgerRow
    <2>4. \/ goto(c, "consume")
          \/ \E d \in Decision : decided(c, d)
      BY <1>8 DEF execute_reserve, Decision
    <2>5. /\ \A d \in Commands \ {c} : command'[d] = command[d]
          /\ command'[c].permit = p /\ command' \in [Commands -> CommandState]
      BY <2>1, <2>4, ExecuteKeepsPermit
    <2>6. PermitsKnown'
      BY <2>1, <2>2, <2>5, MoveKeepsKnown
    <2> QED
      BY <2>2, <2>3, <2>5, <2>6 DEF TypeInv, FixtureTypeOK
  <1>9. ASSUME NEW c \in Commands, execute_consume(c)
        PROVE  TypeInv'
    <2> DEFINE p == command[c].permit
    <2>1. command[c] \in Executing /\ p \in DOMAIN permits /\ p \in PermitIds
      BY <1>9, CommandByPc DEF execute_consume, Executing
    <2>2. UNCHANGED <<fixtureNow, capsules, permits, linked, receipts, brokerOrder,
                      brokerWrites>>
      BY <1>9 DEF execute_consume
    <2>3. consumed' \in SUBSET PermitIds
      BY <1>9, <2>1 DEF execute_consume, TypeInv, FixtureTypeOK
    <2>4. \/ goto(c, "write")
          \/ \E d \in Decision : decided(c, d)
      BY <1>9 DEF execute_consume, Decision
    <2>5. /\ \A d \in Commands \ {c} : command'[d] = command[d]
          /\ command'[c].permit = p /\ command' \in [Commands -> CommandState]
      BY <2>1, <2>4, ExecuteKeepsPermit
    <2>6. PermitsKnown'
      BY <2>1, <2>2, <2>5, MoveKeepsKnown
    <2> QED
      BY <2>2, <2>3, <2>5, <2>6 DEF TypeInv, FixtureTypeOK
  <1>10. ASSUME NEW c \in Commands, execute_write(c)
         PROVE  TypeInv'
    <2> DEFINE p == command[c].permit
    <2>1. command[c] \in Executing /\ p \in DOMAIN permits /\ p \in PermitIds
      BY <1>10, CommandByPc DEF execute_write, Executing
    <2>2. UNCHANGED <<fixtureNow, capsules, permits, linked, consumed, receipts>>
      BY <1>10 DEF execute_write
    <2>3. /\ brokerOrder' \in [PermitIds -> OrderState]
          /\ brokerWrites' \in [PermitIds -> Nat]
      <3>1. \/ brokerOrder' = brokerOrder
            \/ brokerOrder' = [brokerOrder EXCEPT ![p] = "sent"]
        BY <1>10 DEF execute_write
      <3>2. \/ brokerWrites' = brokerWrites
            \/ brokerWrites' = [brokerWrites EXCEPT ![p] = @ + 1]
        BY <1>10 DEF execute_write
      <3> HIDE DEF p
      <3> QED
        BY <3>1, <3>2, <2>1 DEF TypeInv, FixtureTypeOK, OrderState
    <2>4. \/ goto(c, "await")
          \/ \E d \in Decision : decided(c, d)
      BY <1>10 DEF execute_write, Decision
    <2>5. /\ \A d \in Commands \ {c} : command'[d] = command[d]
          /\ command'[c].permit = p /\ command' \in [Commands -> CommandState]
      BY <2>1, <2>4, ExecuteKeepsPermit
    <2>6. PermitsKnown'
      BY <2>1, <2>2, <2>5, MoveKeepsKnown
    <2> QED
      BY <2>2, <2>3, <2>5, <2>6 DEF TypeInv, FixtureTypeOK
  <1>11. ASSUME NEW c \in Commands, execute_await(c)
         PROVE  TypeInv'
    <2> DEFINE p == command[c].permit
    <2>1. command[c] \in Executing /\ p \in DOMAIN permits
      BY <1>11, CommandByPc DEF execute_await
    <2>2. UNCHANGED <<fixtureNow, capsules, permits, linked, consumed, receipts, brokerOrder,
                      brokerWrites>>
      BY <1>11 DEF execute_await
    <2>3. \E d \in Decision : decided(c, d)
      BY <1>11, ClassifyDecides DEF execute_await
    <2>4. /\ \A d \in Commands \ {c} : command'[d] = command[d]
          /\ command'[c].permit = p /\ command' \in [Commands -> CommandState]
      BY <2>1, <2>3, ExecuteKeepsPermit
    <2>5. PermitsKnown'
      BY <2>1, <2>2, <2>4, MoveKeepsKnown
    <2> QED
      BY <2>2, <2>4, <2>5 DEF TypeInv, FixtureTypeOK
  <1>12. ASSUME NEW c \in Commands, execute_post(c)
         PROVE  TypeInv'
    <2> DEFINE p == command[c].permit
               new == [permit |-> p, decision |-> command[c].decision]
    <2>1. /\ command[c] \in Decided /\ p \in DOMAIN permits
          /\ new \in [permit : PermitIds, decision : Decision] /\ new.permit = p
      BY <1>12, CommandByPc DEF execute_post, Decided
    <2>2. /\ UNCHANGED <<fixtureNow, capsules, permits, linked, consumed, brokerOrder,
                         brokerWrites>>
          /\ receipts' = receipts \union {new} /\ goto(c, "record")
      BY <1>12 DEF execute_post
    <2>3. /\ \A d \in Commands \ {c} : command'[d] = command[d]
          /\ command'[c].permit = p /\ command' \in [Commands -> CommandState]
      BY <2>1, <2>2, GotoMoves
    <2> HIDE DEF new
    <2>4. PermitsKnown'
      BY <2>1, <2>2, <2>3 DEF TypeInv, PermitsKnown
    <2> QED
      BY <2>1, <2>2, <2>3, <2>4 DEF TypeInv, FixtureTypeOK
  <1>13. ASSUME NEW c \in Commands, execute_record(c)
         PROVE  TypeInv'
    <2> DEFINE p == command[c].permit
    <2>1. command[c] \in Decided /\ p \in PermitIds /\ command[c].decision \in Decision
      BY <1>13, CommandByPc DEF execute_record, Decided
    <2>2. /\ UNCHANGED <<fixtureNow, capsules, permits, consumed, receipts, brokerOrder,
                         brokerWrites>>
          /\ command' = [command EXCEPT ![c] = Idle]
      BY <1>13 DEF execute_record
    <2>3. linked' \in [PermitIds -> {NoRow} \union LedgerRow]
      BY <1>13, <2>1, RecordUpdates DEF execute_record, TypeInv, FixtureTypeOK
    <2>4. /\ command'[c] = Idle /\ command' \in [Commands -> CommandState]
          /\ Idle \notin Executing \union Decided
      BY <2>2, Moved, QuietCommands DEF Quiet
    <2>5. PermitsKnown'
      BY <2>2, <2>4, Moved, MoveKeepsKnown
    <2> QED
      BY <2>2, <2>3, <2>4, <2>5 DEF TypeInv, FixtureTypeOK
  <1> QED
    BY <1>1, <1>2, <1>3, <1>4, <1>5, <1>6, <1>7, <1>8, <1>9, <1>10, <1>11, <1>12, <1>13
    DEF FixtureNext, QuietNext

-----------------------------------------------------------------------------
(* One write per permit and per quote.                                     *)

\* The order of the paper trail: a link row first, then consumption, then the write.
PaperTrail ==
    /\ \A p \in PermitIds : linked[p] # NoRow => p \in DOMAIN permits
    /\ \A p \in consumed : linked[p] # NoRow
    /\ \A p \in PermitIds : brokerWrites[p] # 0 => brokerWrites[p] = 1 /\ p \in consumed

\* No quote stands behind two link rows.
LinkedQuotesDiffer ==
    \A p, r \in PermitIds :
        /\ linked[p] # NoRow /\ linked[r] # NoRow
        /\ p # r /\ permits[p].quote # NoQuote
        => permits[p].quote # permits[r].quote

\* A command about to consume has its link row; one about to write holds the only,
\* unspent, consumption of its permit.
WriterHoldsPermit ==
    /\ \A c \in Commands : command[c].pc = "consume" => linked[command[c].permit] # NoRow
    /\ \A c \in Commands : command[c].pc = "write" =>
         command[c].permit \in consumed /\ brokerWrites[command[c].permit] = 0
    /\ \A c, d \in Commands :
         command[c].pc = "write" /\ command[d].pc = "write" /\ c # d =>
             command[c].permit # command[d].permit

WriteInv == PaperTrail /\ LinkedQuotesDiffer /\ WriterHoldsPermit

\* What a decision claims of the order it is about.
Truth(decision, status) ==
    /\ decision = "BROKER_FILLED" => status = "Filled"
    /\ decision = "BROKER_CANCELLED" => status = "Cancelled"
    /\ decision = "BROKER_ACCEPTED_OPEN" => status \notin {"none", "sent", "Inactive"}

\* Only a write makes an order, and every decision taken so far is still true.
TruthInv ==
    /\ \A p \in PermitIds : brokerWrites[p] = 0 => brokerOrder[p] = "none"
    /\ \A c \in Commands : command[c].pc \in {"post", "record"} =>
         Truth(command[c].decision, brokerOrder[order_of(command[c].permit)])
    /\ \A r \in receipts : Truth(r.decision, brokerOrder[order_of(r.permit)])

LEMMA InitSafe == FixtureInit => WriteInv /\ TruthInv
  <1> SUFFICES ASSUME FixtureInit PROVE WriteInv /\ TruthInv
    OBVIOUS
  <1>1. Idle.pc = "idle"
    BY DEF Idle
  <1>2. WriteInv
    BY <1>1 DEF FixtureInit, WriteInv, PaperTrail, LinkedQuotesDiffer, WriterHoldsPermit
  <1>3. TruthInv
    BY <1>1 DEF FixtureInit, TruthInv
  <1> QED
    BY <1>2, <1>3

\* Every permit there was is still there, unchanged.
PermitsKept ==
    \A p \in DOMAIN permits : p \in DOMAIN permits' /\ permits'[p] = permits[p]

LEMMA StepKeepsPermits ==
  ASSUME TypeInv, [FixtureNext]_fixtureVars
  PROVE  PermitsKept
  <1>1. CASE create_permit
    BY <1>1, PermitsGrow DEF PermitsKept
  <1>2. CASE ~create_permit
    <2>1. permits' = permits
      BY <1>2 DEF FixtureNext, capture_quote, tick, broker_step, start_lifecycle_read,
         finish_lifecycle_read, start_lifecycle_insert, finish_lifecycle_update,
         execute_load, execute_reserve, execute_consume, execute_write, execute_await,
         execute_post, execute_record, fixture_crash
    <2> QED
      BY <2>1 DEF PermitsKept
  <1> QED
    BY <1>1, <1>2

\* A command elsewhere than before its consumption or its write.
Settled(state) == state.pc \notin {"consume", "write"}

\* A step that adds no link row, no consumption and no write, and sends no command
\* towards a write, keeps the write invariant.
LEMMA NoWrite ==
  ASSUME TypeInv, WriteInv, PermitsKept, UNCHANGED <<consumed, brokerWrites>>,
         \A p \in PermitIds : linked'[p] # NoRow <=> linked[p] # NoRow,
         \A d \in Commands : command'[d] = command[d] \/ Settled(command'[d])
  PROVE  WriteInv'
  <1>0. consumed \subseteq PermitIds
    BY DEF TypeInv, FixtureTypeOK
  <1>1. PaperTrail'
    BY <1>0 DEF WriteInv, PaperTrail, PermitsKept, PermitIds
  <1>2. LinkedQuotesDiffer'
    BY DEF WriteInv, PaperTrail, LinkedQuotesDiffer, PermitsKept, PermitIds
  <1>3. ASSUME NEW c \in Commands, command'[c].pc = "consume"
        PROVE  linked'[command'[c].permit] # NoRow
    <2>1. command'[c] = command[c]
      BY <1>3 DEF Settled
    <2>2. command[c].permit \in PermitIds
      BY <1>3, <2>1, CommandByPc, PermitDomain
    <2> QED
      BY <1>3, <2>1, <2>2 DEF WriteInv, WriterHoldsPermit
  <1>4. ASSUME NEW c \in Commands, command'[c].pc = "write"
        PROVE  command'[c] = command[c]
    BY <1>4 DEF Settled
  <1>5. WriterHoldsPermit'
    BY <1>3, <1>4 DEF WriteInv, WriterHoldsPermit
  <1> QED
    BY <1>1, <1>2, <1>5 DEF WriteInv

\* The new link row: its permit had none, nor had its quote.
LEMMA ReserveKeeps ==
  ASSUME TypeInv, WriteInv, NEW c \in Commands, execute_reserve(c)
  PROVE  WriteInv'
  <1> DEFINE p == command[c].permit
  <1>1. /\ command[c] \in Executing /\ p \in DOMAIN permits /\ p \in PermitIds
        /\ command[c].pc = "reserve"
    BY CommandByPc, PermitDomain DEF execute_reserve
  <1>2. UNCHANGED <<permits, consumed, brokerWrites>> /\ PermitsKept
    BY DEF execute_reserve, PermitsKept
  <1>3. CASE linked' = linked /\ \E d \in Decision : decided(c, d)
    <2>1. command'[c].pc = "post" /\ \A d \in Commands \ {c} : command'[d] = command[d]
      BY <1>1, <1>3, DecidedMoves
    <2>2. \A d \in Commands : command'[d] = command[d] \/ Settled(command'[d])
      BY <2>1 DEF Settled
    <2> QED
      BY <1>2, <1>3, <2>2, NoWrite
  <1>4. CASE /\ link_unique(p) /\ goto(c, "consume")
             /\ linked' = [linked EXCEPT ![p] = [lifecycle |-> command[c].lifecycle,
                                                 decision |-> "AUTHORIZED_NOT_YET_SENT"]]
    <2>1. /\ linked[p] = NoRow
          /\ \A r \in PermitIds : linked[r] # NoRow /\ permits[p].quote # NoQuote =>
                  permits[r].quote # permits[p].quote
      BY <1>1, <1>4 DEF link_unique, unique
    <2>2. linked'[p] # NoRow /\ \A r \in PermitIds \ {p} : linked'[r] = linked[r]
      <3>1. [lifecycle |-> command[c].lifecycle, decision |-> "AUTHORIZED_NOT_YET_SENT"] # NoRow
        BY <1>1, RowIsARow DEF LedgerRow, Executing
      <3> QED
        BY <1>1, <1>4, <3>1 DEF TypeInv, FixtureTypeOK
    <2>3. /\ command'[c].pc = "consume" /\ command'[c].permit = p
          /\ \A d \in Commands \ {c} : command'[d] = command[d]
      BY <1>1, <1>4, GotoMoves
    <2> HIDE DEF p
    <2>4. PaperTrail'
      BY <1>1, <1>2, <2>2 DEF WriteInv, PaperTrail, TypeInv, FixtureTypeOK
    <2>5. LinkedQuotesDiffer'
      BY <1>1, <1>2, <2>1, <2>2 DEF WriteInv, LinkedQuotesDiffer
    <2>6. ASSUME NEW d \in Commands, command'[d].pc = "consume"
          PROVE  linked'[command'[d].permit] # NoRow
      <3>1. CASE d = c
        BY <3>1, <2>2, <2>3
      <3>2. CASE d # c
        <4>1. command'[d] = command[d] /\ command[d].permit \in PermitIds
          BY <3>2, <2>3, <2>6, CommandByPc, PermitDomain
        <4> QED
          BY <4>1, <2>6, <2>2 DEF WriteInv, WriterHoldsPermit
      <3> QED
        BY <3>1, <3>2
    <2>7. \A d \in Commands : command'[d].pc = "write" => command'[d] = command[d]
      BY <2>3
    <2>8. WriterHoldsPermit'
      BY <2>6, <2>7, <1>2 DEF WriteInv, WriterHoldsPermit
    <2> QED
      BY <2>4, <2>5, <2>8 DEF WriteInv
  <1> QED
    BY <1>3, <1>4 DEF execute_reserve, Decision

\* The new consumption is the command's alone: nobody wrote, or is about to write, it.
LEMMA ConsumeKeeps ==
  ASSUME TypeInv, WriteInv, NEW c \in Commands, execute_consume(c)
  PROVE  WriteInv'
  <1> DEFINE p == command[c].permit
  <1>1. /\ command[c] \in Executing /\ p \in DOMAIN permits /\ p \in PermitIds
        /\ command[c].pc = "consume"
    BY CommandByPc, PermitDomain DEF execute_consume
  <1>2. UNCHANGED <<permits, linked, brokerWrites>> /\ PermitsKept
    BY DEF execute_consume, PermitsKept
  <1>3. CASE consumed' = consumed /\ decided(c, "BROKER_REJECTED")
    <2>1. command'[c].pc = "post" /\ \A d \in Commands \ {c} : command'[d] = command[d]
      BY <1>1, <1>3, DecidedMoves DEF Decision
    <2>2. \A d \in Commands : command'[d] = command[d] \/ Settled(command'[d])
      BY <2>1 DEF Settled
    <2> QED
      BY <1>2, <1>3, <2>2, NoWrite
  <1>4. CASE p \notin consumed /\ consumed' = consumed \union {p} /\ goto(c, "write")
    <2>1. /\ command'[c].pc = "write" /\ command'[c].permit = p
          /\ \A d \in Commands \ {c} : command'[d] = command[d]
      BY <1>1, <1>4, GotoMoves
    <2>2. linked[p] # NoRow
      BY <1>1 DEF WriteInv, WriterHoldsPermit
    <2>3. brokerWrites[p] = 0
      BY <1>1, <1>4 DEF WriteInv, PaperTrail
    <2> HIDE DEF p
    <2>4. PaperTrail'
      BY <1>2, <1>4, <2>2 DEF WriteInv, PaperTrail
    <2>5. LinkedQuotesDiffer'
      BY <1>2 DEF WriteInv, LinkedQuotesDiffer
    <2>6. \A d \in Commands : command'[d].pc = "consume" => linked'[command'[d].permit] # NoRow
      BY <2>1, <1>2 DEF WriteInv, WriterHoldsPermit
    <2>7. \A d \in Commands : command'[d].pc = "write" =>
            command'[d].permit \in consumed' /\ brokerWrites'[command'[d].permit] = 0
      BY <2>1, <2>3, <1>2, <1>4 DEF WriteInv, WriterHoldsPermit
    <2>8. \A d \in Commands \ {c} : command'[d].pc = "write" => command'[d].permit # p
      BY <2>1, <1>4 DEF WriteInv, WriterHoldsPermit
    <2>9. WriterHoldsPermit'
      BY <2>1, <2>6, <2>7, <2>8 DEF WriteInv, WriterHoldsPermit
    <2> QED
      BY <2>4, <2>5, <2>9 DEF WriteInv
  <1> QED
    BY <1>3, <1>4 DEF execute_consume, unique

\* The write is its permit's first, and no other command is about to write that permit.
LEMMA WriteKeeps ==
  ASSUME TypeInv, WriteInv, NEW c \in Commands, execute_write(c)
  PROVE  WriteInv'
  <1> DEFINE p == command[c].permit
  <1>1. /\ command[c] \in Executing /\ p \in DOMAIN permits /\ p \in PermitIds
        /\ command[c].pc = "write"
    BY CommandByPc, PermitDomain DEF execute_write
  <1>2. UNCHANGED <<permits, linked, consumed>> /\ PermitsKept
    BY DEF execute_write, PermitsKept
  <1>3. CASE brokerWrites' = brokerWrites /\ decided(c, "OUTCOME_UNKNOWN")
    <2>1. command'[c].pc = "post" /\ \A d \in Commands \ {c} : command'[d] = command[d]
      BY <1>1, <1>3, DecidedMoves DEF Decision
    <2>2. \A d \in Commands : command'[d] = command[d] \/ Settled(command'[d])
      BY <2>1 DEF Settled
    <2> QED
      BY <1>2, <1>3, <2>2, NoWrite
  <1>4. CASE brokerWrites' = [brokerWrites EXCEPT ![p] = @ + 1] /\ goto(c, "await")
    <2>1. command'[c].pc = "await" /\ \A d \in Commands \ {c} : command'[d] = command[d]
      BY <1>1, <1>4, GotoMoves
    <2>2. p \in consumed /\ brokerWrites[p] = 0
      BY <1>1 DEF WriteInv, WriterHoldsPermit
    <2>3. \A d \in Commands \ {c} : command[d].pc = "write" => command[d].permit # p
      BY <1>1 DEF WriteInv, WriterHoldsPermit
    <2>4. brokerWrites'[p] = 1 /\ \A r \in PermitIds \ {p} : brokerWrites'[r] = brokerWrites[r]
      BY <1>1, <1>4, <2>2 DEF TypeInv, FixtureTypeOK
    <2> HIDE DEF p
    <2>5. PaperTrail'
      BY <1>2, <2>2, <2>4 DEF WriteInv, PaperTrail
    <2>6. LinkedQuotesDiffer'
      BY <1>2 DEF WriteInv, LinkedQuotesDiffer
    <2>7. ASSUME NEW d \in Commands, command'[d].pc = "write"
          PROVE  /\ d # c /\ command'[d] = command[d]
                 /\ command[d].permit \in consumed /\ brokerWrites'[command[d].permit] = 0
      <3>1. d # c /\ command'[d] = command[d]
        BY <2>7, <2>1
      <3>2. command[d].permit \in PermitIds \ {p}
        BY <3>1, <2>7, <2>3, CommandByPc, PermitDomain
      <3> QED
        BY <3>1, <3>2, <2>4, <2>7 DEF WriteInv, WriterHoldsPermit
    <2>8. \A d \in Commands : command'[d].pc = "consume" => linked'[command'[d].permit] # NoRow
      BY <2>1, <1>2 DEF WriteInv, WriterHoldsPermit
    <2>9. WriterHoldsPermit'
      BY <2>7, <2>8, <1>2 DEF WriteInv, WriterHoldsPermit
    <2> QED
      BY <2>5, <2>6, <2>9 DEF WriteInv
  <1> QED
    BY <1>3, <1>4 DEF execute_write

LEMMA WriteStep == TypeInv /\ WriteInv /\ [FixtureNext]_fixtureVars => WriteInv'
  <1> SUFFICES ASSUME TypeInv, WriteInv, [FixtureNext]_fixtureVars PROVE WriteInv'
    OBVIOUS
  <1>0. PermitsKept
    BY StepKeepsPermits
  <1>1. CASE UNCHANGED fixtureVars \/ capture_quote \/ create_permit \/ tick \/ broker_step
    BY <1>0, <1>1, NoWrite DEF capture_quote, create_permit, tick, broker_step
  <1>2. ASSUME NEW c \in Commands, QuietNext(c)
        PROVE  WriteInv'
    <2>1. \A d \in Commands : command'[d] = command[d] \/ Settled(command'[d])
      BY <1>2, QuietNextIsQuiet, Moved, QuietCommands DEF Settled
    <2> QED
      BY <1>0, <1>2, <2>1, NoWrite, QuietNextIsQuiet
  <1>3. ASSUME NEW c \in Commands, NEW p \in DOMAIN permits, NEW l \in Lifecycles,
               NEW cost, execute_load(c, p, l, cost)
        PROVE  WriteInv'
    <2>1. \A d \in Commands : command'[d] = command[d] \/ Settled(command'[d])
      BY <1>3, Moved DEF execute_load, Settled
    <2> QED
      BY <1>0, <1>3, <2>1, NoWrite DEF execute_load
  <1>4. ASSUME NEW c \in Commands, execute_await(c)
        PROVE  WriteInv'
    <2>1. command[c] \in Executing /\ \E d \in Decision : decided(c, d)
      BY <1>4, CommandByPc, ClassifyDecides DEF execute_await
    <2>2. command'[c].pc = "post" /\ \A d \in Commands \ {c} : command'[d] = command[d]
      BY <2>1, DecidedMoves
    <2>3. \A d \in Commands : command'[d] = command[d] \/ Settled(command'[d])
      BY <2>2 DEF Settled
    <2> QED
      BY <1>0, <1>4, <2>3, NoWrite DEF execute_await
  <1>5. ASSUME NEW c \in Commands, execute_post(c)
        PROVE  WriteInv'
    <2>1. command[c] \in Decided /\ goto(c, "record")
      BY <1>5, CommandByPc DEF execute_post
    <2>2. command'[c].pc = "record"
      BY <2>1, GotoMoves
    <2>3. \A d \in Commands : command'[d] = command[d] \/ Settled(command'[d])
      BY <2>1, <2>2, GotoMoves DEF Settled
    <2> QED
      BY <1>0, <1>5, <2>3, NoWrite DEF execute_post
  <1>6. ASSUME NEW c \in Commands, execute_record(c)
        PROVE  WriteInv'
    <2>1. \A d \in Commands : command'[d] = command[d] \/ Settled(command'[d])
      BY <1>6, Moved DEF execute_record, Settled, Idle
    <2>2. \A p \in PermitIds : linked'[p] # NoRow <=> linked[p] # NoRow
      BY <1>6, RecordUpdates, RowIsARow DEF TypeInv, FixtureTypeOK
    <2> QED
      BY <1>0, <1>6, <2>1, <2>2, NoWrite DEF execute_record
  <1> QED
    BY <1>1, <1>2, <1>3, <1>4, <1>5, <1>6, ReserveKeeps, ConsumeKeeps, WriteKeeps
    DEF FixtureNext, QuietNext

-----------------------------------------------------------------------------
(* A decision stays true while the broker's order moves on.                *)

\* Nothing a step does to the broker's orders falsifies a decision.
OrdersAdvance ==
    \A o \in PermitIds, decision \in Decision :
        Truth(decision, brokerOrder[o]) => Truth(decision, brokerOrder'[o])

\* order_of in the state after the step.
OrderAfter(p) == IF order_bound(permits'[p].action) THEN permits'[p].target ELSE p

LEMMA OrderOfKnown ==
  ASSUME TypeInv, NEW p \in DOMAIN permits
  PROVE  /\ order_of(p) \in PermitIds
         /\ PermitsKept => OrderAfter(p) = order_of(p)
  BY PermitDomain DEF order_of, OrderAfter, TypeInv, PermitsKnown, PermitsKept

\* A step that only issues true decisions, and lets the orders advance, keeps them true.
LEMMA DecisionsStayTrue ==
  ASSUME TypeInv, TruthInv, PermitsKept, OrdersAdvance,
         \A p \in PermitIds : brokerWrites'[p] = 0 => brokerOrder'[p] = "none",
         \A d \in Commands : command'[d].pc \in {"post", "record"} =>
             \/ /\ command[d].pc \in {"post", "record"}
                /\ command'[d].permit = command[d].permit
                /\ command'[d].decision = command[d].decision
             \/ /\ command'[d].permit \in DOMAIN permits /\ command'[d].decision \in Decision
                /\ Truth(command'[d].decision, brokerOrder[order_of(command'[d].permit)]),
         \A r \in receipts' : r \in receipts \/
             \E d \in Commands : /\ command[d].pc \in {"post", "record"}
                                 /\ r.permit = command[d].permit
                                 /\ r.decision = command[d].decision
  PROVE  TruthInv'
  <1>1. ASSUME NEW p \in DOMAIN permits, NEW decision \in Decision,
               Truth(decision, brokerOrder[order_of(p)])
        PROVE  Truth(decision, brokerOrder'[OrderAfter(p)])
    BY <1>1, OrderOfKnown DEF OrdersAdvance
  <1>2. ASSUME NEW d \in Commands, command[d].pc \in {"post", "record"}
        PROVE  /\ command[d].permit \in DOMAIN permits /\ command[d].decision \in Decision
               /\ Truth(command[d].decision, brokerOrder[order_of(command[d].permit)])
    BY <1>2, CommandByPc DEF TruthInv, Decided
  <1>3. ASSUME NEW r \in receipts
        PROVE  /\ r.permit \in DOMAIN permits /\ r.decision \in Decision
               /\ Truth(r.decision, brokerOrder[order_of(r.permit)])
    BY DEF TruthInv, TypeInv, FixtureTypeOK, PermitsKnown
  <1>4. ASSUME NEW d \in Commands, command'[d].pc \in {"post", "record"}
        PROVE  Truth(command'[d].decision, brokerOrder'[OrderAfter(command'[d].permit)])
    BY <1>1, <1>2, <1>4
  <1>5. ASSUME NEW r \in receipts'
        PROVE  Truth(r.decision, brokerOrder'[OrderAfter(r.permit)])
    BY <1>1, <1>2, <1>3, <1>5
  <1> QED
    BY <1>4, <1>5 DEF TruthInv, order_of, OrderAfter

LEMMA StillOrdersAdvance == UNCHANGED brokerOrder => OrdersAdvance
  BY DEF OrdersAdvance

LEMMA TruthStep == TypeInv /\ WriteInv /\ TruthInv /\ [FixtureNext]_fixtureVars => TruthInv'
  <1> SUFFICES ASSUME TypeInv, WriteInv, TruthInv, [FixtureNext]_fixtureVars PROVE TruthInv'
    OBVIOUS
  <1>0. PermitsKept
    BY StepKeepsPermits
  <1>a. \A p \in PermitIds : brokerWrites[p] = 0 => brokerOrder[p] = "none"
    BY DEF TruthInv
  <1>1. CASE UNCHANGED fixtureVars \/ capture_quote \/ create_permit \/ tick
    <2>1. UNCHANGED <<receipts, brokerOrder, brokerWrites, command>>
      BY <1>1 DEF capture_quote, create_permit, tick
    <2> QED
      BY <1>0, <1>a, <2>1, StillOrdersAdvance, DecisionsStayTrue
  <1>2. CASE broker_step
    <2>1. PICK o \in DOMAIN permits : broker_answers(o)
      BY <1>2 DEF broker_step
    <2>2. /\ o \in PermitIds /\ brokerOrder[o] \in {"sent", "Submitted"}
          /\ brokerOrder'[o] \in {"Submitted", "Inactive", "Filled", "Cancelled"}
          /\ brokerOrder[o] = "Submitted" => brokerOrder'[o] \in {"Filled", "Cancelled"}
          /\ \A p \in PermitIds \ {o} : brokerOrder'[p] = brokerOrder[p]
      BY <2>1, PermitDomain DEF broker_answers, TypeInv, FixtureTypeOK
    <2>3. OrdersAdvance
      BY <2>2 DEF OrdersAdvance, Truth
    <2>4. UNCHANGED <<receipts, brokerWrites, command>>
      BY <1>2 DEF broker_step
    <2>5. \A p \in PermitIds : brokerWrites'[p] = 0 => brokerOrder'[p] = "none"
      BY <1>a, <2>2, <2>4
    <2> QED
      BY <1>0, <2>3, <2>4, <2>5, DecisionsStayTrue
  <1>3. ASSUME NEW c \in Commands, QuietNext(c)
        PROVE  TruthInv'
    <2>1. UNCHANGED <<receipts, brokerOrder, brokerWrites>>
      BY <1>3, QuietNextIsQuiet
    <2>2. \A d \in Commands : command'[d] = command[d] \/ command'[d].pc \notin {"post", "record"}
      BY <1>3, QuietNextIsQuiet, Moved, QuietCommands
    <2> QED
      BY <1>0, <1>a, <2>1, <2>2, StillOrdersAdvance, DecisionsStayTrue
  <1>4. ASSUME NEW c \in Commands, NEW p \in DOMAIN permits, NEW l \in Lifecycles,
               NEW cost, execute_load(c, p, l, cost)
        PROVE  TruthInv'
    <2>1. UNCHANGED <<receipts, brokerOrder, brokerWrites>>
      BY <1>4 DEF execute_load
    <2>2. \A d \in Commands : command'[d] = command[d] \/ command'[d].pc \notin {"post", "record"}
      BY <1>4, Moved DEF execute_load
    <2> QED
      BY <1>0, <1>a, <2>1, <2>2, StillOrdersAdvance, DecisionsStayTrue
  <1>5. ASSUME NEW c \in Commands, execute_reserve(c) \/ execute_consume(c)
        PROVE  TruthInv'
    <2>1. UNCHANGED <<receipts, brokerOrder, brokerWrites>>
      BY <1>5 DEF execute_reserve, execute_consume
    <2>2. command[c] \in Executing /\ command[c].permit \in DOMAIN permits
      BY <1>5, CommandByPc DEF execute_reserve, execute_consume
    <2>3. \/ goto(c, "consume") \/ goto(c, "write")
          \/ decided(c, "OUTCOME_UNKNOWN") \/ decided(c, "BROKER_REJECTED")
      BY <1>5 DEF execute_reserve, execute_consume
    <2>4. /\ \A d \in Commands \ {c} : command'[d] = command[d]
          /\ command'[c].permit = command[c].permit
          /\ \/ command'[c].pc \notin {"post", "record"}
             \/ command'[c].decision \in {"OUTCOME_UNKNOWN", "BROKER_REJECTED"}
      BY <2>2, <2>3, GotoMoves, DecidedMoves DEF Decision
    <2>5. \A status : \A d \in {"OUTCOME_UNKNOWN", "BROKER_REJECTED"} :
             d \in Decision /\ Truth(d, status)
      BY DEF Truth, Decision
    <2> QED
      BY <1>0, <1>a, <2>1, <2>2, <2>4, <2>5, StillOrdersAdvance, DecisionsStayTrue
  <1>6. ASSUME NEW c \in Commands, execute_write(c)
        PROVE  TruthInv'
    <2> DEFINE p == command[c].permit
    <2>1. UNCHANGED receipts
      BY <1>6 DEF execute_write
    <2>2. /\ command[c] \in Executing /\ p \in DOMAIN permits /\ p \in PermitIds
          /\ command[c].pc = "write"
      BY <1>6, CommandByPc, PermitDomain DEF execute_write
    <2>3. brokerWrites[p] = 0 /\ brokerOrder[p] = "none"
      BY <2>2, <1>a DEF WriteInv, WriterHoldsPermit
    <2>4. goto(c, "await") \/ decided(c, "OUTCOME_UNKNOWN")
      BY <1>6 DEF execute_write
    <2>5. /\ \A d \in Commands \ {c} : command'[d] = command[d]
          /\ command'[c].permit = command[c].permit
          /\ command'[c].pc \notin {"post", "record"} \/ command'[c].decision = "OUTCOME_UNKNOWN"
      BY <2>2, <2>4, GotoMoves, DecidedMoves DEF Decision
    <2>6. \A status : "OUTCOME_UNKNOWN" \in Decision /\ Truth("OUTCOME_UNKNOWN", status)
      BY DEF Truth, Decision
    <2>7. /\ \/ brokerOrder' = brokerOrder
             \/ brokerOrder' = [brokerOrder EXCEPT ![p] = "sent"] /\ brokerWrites'[p] = 1
          /\ \/ brokerWrites' = brokerWrites
             \/ brokerWrites' = [brokerWrites EXCEPT ![p] = @ + 1]
      BY <1>6, <2>2, <2>3 DEF execute_write, TypeInv, FixtureTypeOK
    <2> HIDE DEF p
    <2>8. \A o \in PermitIds : brokerOrder'[o] = brokerOrder[o] \/ brokerOrder[o] = "none"
      BY <2>2, <2>3, <2>7 DEF TypeInv, FixtureTypeOK
    <2>9. OrdersAdvance
      BY <2>8 DEF OrdersAdvance, Truth, Decision
    <2>10. \A o \in PermitIds : brokerWrites'[o] = 0 => brokerOrder'[o] = "none"
      BY <1>a, <2>2, <2>3, <2>7 DEF TypeInv, FixtureTypeOK
    <2> QED
      BY <1>0, <2>1, <2>2, <2>5, <2>6, <2>9, <2>10, DecisionsStayTrue DEF p
  <1>7. ASSUME NEW c \in Commands, execute_await(c)
        PROVE  TruthInv'
    <2> DEFINE status == brokerOrder[order_of(command[c].permit)]
    <2>1. UNCHANGED <<receipts, brokerOrder, brokerWrites>>
      BY <1>7 DEF execute_await
    <2>2. command[c] \in Executing /\ command[c].permit \in DOMAIN permits
      BY <1>7, CommandByPc DEF execute_await
    <2>3. PICK seenStatus \in {status, "none"}, seen \in BOOLEAN, errors \in BOOLEAN :
            decided(c, classify_outcome(seenStatus, seen, errors))
      BY <1>7 DEF execute_await
    <2>4. Truth(classify_outcome(seenStatus, seen, errors), status)
      BY <2>3 DEF classify_outcome, Truth
    <2> HIDE DEF status
    <2>5. /\ \A d \in Commands \ {c} : command'[d] = command[d]
          /\ command'[c].permit = command[c].permit /\ command'[c].decision \in Decision
          /\ Truth(command'[c].decision, status)
      BY <2>2, <2>3, <2>4, ClassifyDecides, DecidedMoves
    <2> QED
      BY <1>0, <1>a, <2>1, <2>2, <2>5, StillOrdersAdvance, DecisionsStayTrue DEF status
  <1>8. ASSUME NEW c \in Commands, execute_post(c)
        PROVE  TruthInv'
    <2> DEFINE new == [permit |-> command[c].permit, decision |-> command[c].decision]
    <2>1. /\ UNCHANGED <<brokerOrder, brokerWrites>> /\ receipts' = receipts \union {new}
          /\ command[c].pc = "post" /\ goto(c, "record")
      BY <1>8 DEF execute_post
    <2>2. new.permit = command[c].permit /\ new.decision = command[c].decision
      OBVIOUS
    <2> HIDE DEF new
    <2>3. command[c] \in Decided
      BY <2>1, CommandByPc
    <2>4. /\ \A d \in Commands \ {c} : command'[d] = command[d]
          /\ command'[c].permit = command[c].permit
          /\ command'[c].decision = command[c].decision
      BY <2>1, <2>3, GotoMoves
    <2> QED
      BY <1>0, <1>a, <2>1, <2>2, <2>4, StillOrdersAdvance, DecisionsStayTrue
  <1>9. ASSUME NEW c \in Commands, execute_record(c)
        PROVE  TruthInv'
    <2>1. UNCHANGED <<receipts, brokerOrder, brokerWrites>>
      BY <1>9 DEF execute_record
    <2>2. \A d \in Commands : command'[d] = command[d] \/ command'[d].pc \notin {"post", "record"}
      BY <1>9, Moved DEF execute_record, Idle
    <2> QED
      BY <1>0, <1>a, <2>1, <2>2, StillOrdersAdvance, DecisionsStayTrue
  <1> QED
    BY <1>1, <1>2, <1>3, <1>4, <1>5, <1>6, <1>7, <1>8, <1>9 DEF FixtureNext, QuietNext

-----------------------------------------------------------------------------
LEMMA FixtureInductive == FixtureSpec => [](TypeInv /\ WriteInv /\ TruthInv)
  BY InitTypes, InitSafe, TypeStep, WriteStep, TruthStep, PTL DEF FixtureSpec

(* However many commands race for a permit and wherever they die, a permit  *)
(* and a quote reach the broker at most once, and what was written is       *)
(* consumed and linked (_reserve_lifecycle_action, _consume_permit_once).   *)
THEOREM PermitWritesOnce == FixtureSpec => []OneWritePerPermit
  <1>1. TypeInv /\ WriteInv => OneWritePerPermit
    <2> SUFFICES ASSUME TypeInv, WriteInv PROVE OneWritePerPermit
      OBVIOUS
    <2>1. \A p \in written : /\ p \in PermitIds /\ p \in DOMAIN permits
                             /\ brokerWrites[p] = 1 /\ p \in consumed /\ linked[p] # NoRow
      BY PermitDomain DEF written, WriteInv, PaperTrail
    <2> QED
      BY <2>1 DEF OneWritePerPermit, WriteInv, LinkedQuotesDiffer
  <1> QED
    BY <1>1, FixtureInductive, PTL

(* A receipt that claims a fill, a cancellation or an open order is true of *)
(* the broker's order, in the state it was written and ever after           *)
(* (_classify_outcome, from the callbacks that came in time).               *)
THEOREM ReceiptsStayTrue == FixtureSpec => []SuccessReceiptIsTrue
  <1>1. TruthInv => SuccessReceiptIsTrue
    BY DEF TruthInv, Truth, SuccessReceiptIsTrue
  <1> QED
    BY <1>1, FixtureInductive, PTL

-----------------------------------------------------------------------------
(* The acceptance evidence: what an allocation of cases is.                *)

\* No session and no receipt proves two of the cases.
Exclusive(counted) ==
    \A k, l \in counted :
        k # l => k.children \intersect l.children = {} /\ k.receipts \intersect l.receipts = {}

AllocationGood(a, offered) ==
    /\ a.counted \subseteq offered /\ Exclusive(a.counted)
    /\ \A k \in a.counted : k.children \subseteq a.sessions /\ k.receipts \subseteq a.receipts

\* One case more.
LEMMA AllocatedGood ==
  ASSUME NEW a, NEW offered, AllocationGood(a, offered), NEW case \in offered,
         NEW current, NEW cross, NEW available
  PROVE  AllocationGood(allocated(a, case, current, cross, available), offered)
<1> DEFINE b == [counted |-> a.counted \union {case},
                 sessions |-> a.sessions \union case.children,
                 receipts |-> a.receipts \union case.receipts]
<1>1. CASE /\ case.children \intersect a.sessions = {} /\ case.receipts \intersect a.receipts = {}
           /\ allocated(a, case, current, cross, available) = b
  <2>1. /\ b.counted = a.counted \union {case}
        /\ b.sessions = a.sessions \union case.children
        /\ b.receipts = a.receipts \union case.receipts
    OBVIOUS
  <2> HIDE DEF b
  <2>2. b.counted \subseteq offered
    BY <2>1 DEF AllocationGood
  <2>3. \A k \in b.counted : k.children \subseteq b.sessions /\ k.receipts \subseteq b.receipts
    BY <2>1 DEF AllocationGood
  <2>4. ASSUME NEW k \in a.counted
        PROVE  /\ k.children \intersect case.children = {} /\ k.receipts \intersect case.receipts = {}
               /\ case.children \intersect k.children = {} /\ case.receipts \intersect k.receipts = {}
    BY <1>1 DEF AllocationGood
  <2>5. Exclusive(b.counted)
    BY <2>1, <2>4 DEF AllocationGood, Exclusive
  <2> QED BY <1>1, <2>2, <2>3, <2>5 DEF AllocationGood
<1>2. CASE allocated(a, case, current, cross, available) = a
  BY <1>2
<1> QED BY <1>1, <1>2 DEF allocated

\* The allocation after the case with the next id, if there is one.
Following(a, n, offered, current, cross, available) ==
    IF \E k \in offered : k.id = n
    THEN allocated(a, CHOOSE k \in offered : k.id = n, current, cross, available)
    ELSE a

LEMMA FollowingGood ==
  ASSUME NEW a, NEW offered, AllocationGood(a, offered), NEW n,
         NEW current, NEW cross, NEW available
  PROVE  AllocationGood(Following(a, n, offered, current, cross, available), offered)
<1>1. CASE \E k \in offered : k.id = n
  <2> DEFINE case == CHOOSE k \in offered : k.id = n
  <2>1. case \in offered
    BY <1>1
  <2>2. Following(a, n, offered, current, cross, available) = allocated(a, case, current, cross, available)
    BY <1>1 DEF Following
  <2> HIDE DEF case
  <2> QED BY <2>1, <2>2, AllocatedGood
<1>2. CASE ~ \E k \in offered : k.id = n
  BY <1>2 DEF Following
<1> QED BY <1>1, <1>2

IsAllocating(f, m, offered, current, cross, available) ==
    f = [n \in 0 .. m |-> IF n = 0 THEN allocation0
                          ELSE Following(f[n - 1], n, offered, current, cross, available)]

\* The recursion has a function: a part of it can be extended by one more id.
LEMMA AllocatingExists ==
  ASSUME NEW offered, NEW current, NEW cross, NEW available, NEW last \in Nat
  PROVE  \E f : IsAllocating(f, last, offered, current, cross, available)
<1> DEFINE Start(f, m) == IsAllocating(f, m, offered, current, cross, available)
           Bad == {m \in Nat : ~ \E f : Start(f, m)}
           Go(a, n) == Following(a, n, offered, current, cross, available)
<1>1. ASSUME NEW m \in Nat, NEW f, Start(f, m) PROVE \E g : Start(g, m + 1)
  <2> DEFINE g == [n \in 0 .. m + 1 |-> IF n = m + 1 THEN Go(f[m], m + 1) ELSE f[n]]
  <2>1. ASSUME NEW n \in 0 .. m + 1
        PROVE  g[n] = IF n = 0 THEN allocation0 ELSE Go(g[n - 1], n)
    <3>1. CASE n = m + 1
      <4>1. n - 1 = m /\ m \in 0 .. m + 1 /\ m # m + 1 /\ n # 0
        BY <3>1
      <4>2. g[m] = f[m]
        BY <4>1
      <4> QED BY <3>1, <4>1, <4>2
    <3>2. CASE n # m + 1
      <4>1. n \in 0 .. m /\ g[n] = f[n]
        BY <3>2
      <4>2. f[n] = IF n = 0 THEN allocation0 ELSE Go(f[n - 1], n)
        BY <1>1, <4>1 DEF IsAllocating
      <4>3. n # 0 => n - 1 \in 0 .. m + 1 /\ n - 1 # m + 1
        BY <4>1
      <4>4. n # 0 => g[n - 1] = f[n - 1]
        BY <4>3
      <4> QED BY <4>1, <4>2, <4>4
    <3> QED BY <3>1, <3>2
  <2>2. g = [n \in 0 .. m + 1 |-> g[n]]
    OBVIOUS
  <2> HIDE DEF g
  <2>3. g = [n \in 0 .. m + 1 |-> IF n = 0 THEN allocation0 ELSE Go(g[n - 1], n)]
    BY <2>1, <2>2
  <2> QED BY <2>3 DEF IsAllocating
<1>2. 0 \notin Bad
  <2> DEFINE f == [n \in 0 .. 0 |-> allocation0]
  <2>1. \A n \in 0 .. 0 : n = 0
    OBVIOUS
  <2>2. Start(f, 0)
    BY <2>1 DEF IsAllocating
  <2> QED BY <2>2
<1>3. Bad = {}
  <2> SUFFICES ASSUME Bad # {} PROVE FALSE
    OBVIOUS
  <2>1. PICK n \in Bad : \A m \in Bad : n <= m
    BY LeastNumber
  <2>2. n \in Nat /\ n # 0 /\ n - 1 \in Nat /\ n - 1 \notin Bad
    <3> HIDE DEF Bad
    <3>1. n \in Nat /\ n # 0
      BY <1>2, <2>1 DEF Bad
    <3> QED BY <2>1, <3>1
  <2>3. PICK f : Start(f, n - 1)
    BY <2>2
  <2>4. \E g : Start(g, (n - 1) + 1)
    BY <1>1, <2>2, <2>3
  <2>5. (n - 1) + 1 = n
    BY <2>2
  <2> QED BY <2>1, <2>4, <2>5
<1> QED BY <1>3

\* What allocate_scenario_cases counts was offered, and shares no evidence.
LEMMA CountedGood ==
  ASSUME NEW offered, NEW current, NEW cross, NEW available
  PROVE  LET counted == allocate_scenario_cases(offered, current, cross, available)
         IN  counted \subseteq offered /\ Exclusive(counted)
<1> DEFINE last == Cardinality(CaseIds)
           f == CHOOSE it : IsAllocating(it, last, offered, current, cross, available)
<1>1. last \in Nat
  BY BurnInAssumption, FS_CardinalityType
<1>2. allocate_scenario_cases(offered, current, cross, available) = f[last].counted
  BY DEF allocate_scenario_cases, IsAllocating, Following
<1> HIDE DEF last
<1>3. IsAllocating(f, last, offered, current, cross, available)
  BY <1>1, AllocatingExists
<1> HIDE DEF f
<1>4. /\ f[0] = allocation0
      /\ \A n \in 1 .. last : f[n] = Following(f[n - 1], n, offered, current, cross, available)
  BY <1>1, <1>3 DEF IsAllocating
<1> DEFINE Bad == {n \in 0 .. last : ~ AllocationGood(f[n], offered)}
<1>5. AllocationGood(allocation0, offered)
  BY DEF AllocationGood, allocation0, Exclusive
<1>6. Bad = {}
  <2> SUFFICES ASSUME Bad # {} PROVE FALSE
    OBVIOUS
  <2>0. Bad \in SUBSET Nat
    BY <1>1
  <2>1. PICK n \in Bad : \A m \in Bad : n <= m
    BY <2>0, LeastNumber
  <2>2. n # 0 /\ n \in 1 .. last /\ n - 1 \in 0 .. last /\ n - 1 \notin Bad
    BY <1>1, <1>4, <1>5, <2>1
  <2>3. AllocationGood(f[n - 1], offered)
    BY <2>2
  <2>4. AllocationGood(Following(f[n - 1], n, offered, current, cross, available), offered)
    BY <2>3, FollowingGood
  <2> QED BY <1>4, <2>1, <2>2, <2>4
<1>7. AllocationGood(f[last], offered)
  BY <1>1, <1>6
<1> QED BY <1>2, <1>7 DEF AllocationGood

-----------------------------------------------------------------------------
(* Documents and directories.                                              *)

CaptureState ==
    {NoCapture} \union [pc : {"manifest", "publish", "register"}, seen : Observations]

DiskTypes ==
    /\ staging \in [Observations -> SUBSET Files]
    /\ directory \in [Observations -> SUBSET Files]
    /\ capturing \in [Registrars -> CaptureState]

\* A directory with a manifest in it has that manifest; what is being registered as a
\* session has been published.
SessionsWritten ==
    /\ \A o \in Observations :
         "manifest.json" \in staging[o] \union directory[o] => \E m \in sessions : m.seen = o
    /\ \A m \in sessions : m.kind = "session"
    /\ \A r \in Registrars :
         capturing[r].pc = "register" => directory[capturing[r].seen] = Files
    /\ \A k \in cases : k.kind = "case"

\* What an object file says is on disk.
ObjectGood(d) ==
    /\ d.kind = "session" => d.seen \in Observations /\ directory[d.seen] = Files
    /\ d.kind = "case" => d \in cases
    /\ d.kind = "receipt" => d.receipt \in receiptFiles
    /\ d.kind = "corpus" => Exclusive(d.counted)

BurnInInv == DiskTypes /\ SessionsWritten /\ \A d \in objects : ObjectGood(d)

LEMMA BurnInStart == BurnInInit => BurnInInv
<1> SUFFICES ASSUME BurnInInit PROVE BurnInInv
  OBVIOUS
<1>1. DiskTypes
  BY DEF BurnInInit, DiskTypes, CaptureState, Files
<1>2. NoCapture.pc # "register"
  BY DEF NoCapture
<1> QED BY <1>1, <1>2 DEF BurnInInit, BurnInInv, SessionsWritten, RegistryInit

\* The manifest of a directory that has one.
LEMMA ManifestOf ==
  ASSUME BurnInInv, NEW o \in Observations, directory[o] = Files \/ staging[o] = Files
  PROVE  manifest_of(o) \in sessions /\ manifest_of(o).seen = o /\ manifest_of(o).kind = "session"
<1>1. \E m \in sessions : m.seen = o
  BY DEF BurnInInv, SessionsWritten, Files
<1>2. manifest_of(o) \in sessions /\ manifest_of(o).seen = o
  BY <1>1 DEF manifest_of
<1> QED BY <1>2 DEF BurnInInv, SessionsWritten

\* A step that publishes nothing and takes nothing away keeps what objects say.
LEMMA ObjectsKept ==
  ASSUME BurnInInv,
         \A o \in Observations : directory[o] = Files => directory'[o] = Files,
         cases \subseteq cases', receiptFiles \subseteq receiptFiles'
  PROVE  \A d \in objects : ObjectGood(d)'
  BY DEF BurnInInv, ObjectGood, Exclusive

\* A registration of a document that says what is on disk.
LEMMA RegisterGood ==
  ASSUME BurnInInv, NEW r, NEW doc, NEW status, register(r, doc, status), ObjectGood(doc)',
         directory' = directory, cases \subseteq cases', receiptFiles \subseteq receiptFiles'
  PROVE  \A d \in objects' : ObjectGood(d)'
<1>1. \A d \in objects : ObjectGood(d)'
  BY ObjectsKept
<1>2. objects' = objects \union {doc}
  BY DEF register
<1> QED BY <1>1, <1>2

LEMMA BurnInStep == BurnInInv /\ [BurnInNext]_burnInVars => BurnInInv'
<1> SUFFICES ASSUME BurnInInv, [BurnInNext]_burnInVars PROVE BurnInInv'
  OBVIOUS
<1> USE DEF disk, registryVars
<1>0. /\ DiskTypes /\ SessionsWritten
      /\ NoCapture.pc = "idle"
  BY DEF BurnInInv, NoCapture
<1>1. ASSUME UNCHANGED <<disk, capturing>> PROVE DiskTypes' /\ SessionsWritten'
  BY <1>0, <1>1 DEF DiskTypes, SessionsWritten
<1>2. ASSUME NEW r \in Registrars, capturing' = [capturing EXCEPT ![r] = NoCapture], UNCHANGED disk
      PROVE  DiskTypes' /\ SessionsWritten'
  BY <1>0, <1>2 DEF DiskTypes, SessionsWritten, CaptureState
<1>3. CASE UNCHANGED burnInVars
  BY <1>1, <1>3, ObjectsKept DEF BurnInInv, burnInVars
<1>4. CASE next_day
  BY <1>1, <1>4, ObjectsKept DEF BurnInInv, next_day
<1>5. ASSUME NEW r \in Registrars, NEW o \in Observations, begin_capture(r, o) PROVE BurnInInv'
  <2>1. DiskTypes'
    <3>1. [pc |-> "manifest", seen |-> o] \in CaptureState
      BY DEF CaptureState
    <3> QED BY <1>0, <1>5, <3>1 DEF begin_capture, DiskTypes, Files
  <2>2. SessionsWritten'
    BY <1>0, <1>5 DEF begin_capture, DiskTypes, SessionsWritten, Files
  <2>3. \A d \in objects : ObjectGood(d)'
    BY <1>5, ObjectsKept DEF begin_capture
  <2> QED BY <1>5, <2>1, <2>2, <2>3 DEF begin_capture, BurnInInv
<1>6. ASSUME NEW r \in Registrars, write_manifest_file(r) PROVE BurnInInv'
  <2> DEFINE o == capturing[r].seen
  <2>1. capturing[r] \in [pc : {"manifest", "publish", "register"}, seen : Observations]
    BY <1>0, <1>6 DEF write_manifest_file, DiskTypes, CaptureState
  <2>2. /\ o \in Observations /\ capturing'[r].pc = "publish" /\ capturing'[r] \in CaptureState
        /\ \A q \in Registrars \ {r} : capturing'[q] = capturing[q]
    BY <1>0, <1>6, <2>1 DEF write_manifest_file, DiskTypes, CaptureState
  <2>3. PICK converged \in o.outcomes : sessions' = sessions \union {build_manifest(o, converged)}
    BY <1>6 DEF write_manifest_file
  <2>4. PICK m : m = build_manifest(o, converged)
    OBVIOUS
  <2>5. m.seen = o /\ m.kind = "session" /\ sessions' = sessions \union {m}
    BY <2>3, <2>4 DEF build_manifest
  <2>6. DiskTypes'
    BY <1>0, <1>6, <2>2 DEF write_manifest_file, DiskTypes, Files
  <2>7. SessionsWritten'
    BY <1>0, <1>6, <2>2, <2>5 DEF write_manifest_file, DiskTypes, SessionsWritten
  <2>8. \A d \in objects : ObjectGood(d)'
    BY <1>6, ObjectsKept DEF write_manifest_file
  <2> QED BY <1>6, <2>6, <2>7, <2>8 DEF write_manifest_file, BurnInInv
<1>7. ASSUME NEW r \in Registrars, publish_session(r) PROVE BurnInInv'
  <2> DEFINE o == capturing[r].seen
  <2>1. capturing[r] \in [pc : {"manifest", "publish", "register"}, seen : Observations]
    BY <1>0, <1>7 DEF publish_session, DiskTypes, CaptureState
  <2>2. /\ o \in Observations /\ capturing'[r].pc = "register" /\ capturing'[r].seen = o
        /\ capturing'[r] \in CaptureState
        /\ \A q \in Registrars \ {r} : capturing'[q] = capturing[q]
    BY <1>0, <1>7, <2>1 DEF publish_session, DiskTypes, CaptureState
  <2>3. staging[o] = Files
    BY <1>7 DEF publish_session, verify_burn_in_manifest
  <2>4. /\ directory'[o] = Files /\ staging'[o] = {}
        /\ \A p \in Observations \ {o} : directory'[p] = directory[p] /\ staging'[p] = staging[p]
    BY <1>0, <1>7, <2>2, <2>3 DEF publish_session, DiskTypes
  <2>5. DiskTypes'
    BY <1>0, <1>7, <2>2 DEF publish_session, DiskTypes
  <2>6. SessionsWritten'
    <3>1. \E m \in sessions : m.seen = o
      BY <1>0, <2>2, <2>3 DEF SessionsWritten, Files
    <3>2. \A q \in Registrars : capturing'[q].pc = "register" => directory'[capturing'[q].seen] = Files
      <4> SUFFICES ASSUME NEW q \in Registrars, q # r, capturing[q].pc = "register"
                   PROVE  directory'[capturing[q].seen] = Files
        BY <2>2, <2>4
      <4>1. capturing[q].seen \in Observations
        BY <1>0 DEF DiskTypes, CaptureState
      <4> QED BY <1>0, <2>4, <4>1 DEF SessionsWritten
    <3> QED BY <1>0, <1>7, <2>4, <3>1, <3>2 DEF publish_session, SessionsWritten
  <2>7. \A d \in objects : ObjectGood(d)'
    BY <1>7, <2>4, ObjectsKept DEF publish_session
  <2> QED BY <1>7, <2>5, <2>6, <2>7 DEF publish_session, BurnInInv
<1>8. ASSUME NEW r \in Registrars, register_session(r) PROVE BurnInInv'
  <2> DEFINE o == capturing[r].seen
  <2>1. capturing[r] \in [pc : {"manifest", "publish", "register"}, seen : Observations]
    BY <1>0, <1>8 DEF register_session, DiskTypes, CaptureState
  <2>2. o \in Observations /\ directory[o] = Files
    BY <1>0, <1>8, <2>1 DEF register_session, SessionsWritten
  <2>3. PICK m : m = manifest_of(o)
    OBVIOUS
  <2>4. /\ \E status : register(r, m, status)
        /\ capturing' = [capturing EXCEPT ![r] = NoCapture] /\ UNCHANGED disk
        /\ m.seen \in Observations /\ directory[m.seen] = Files /\ m.kind = "session"
    BY <1>8, <2>2, <2>3, ManifestOf DEF register_session
  <2>5. ObjectGood(m)'
    BY <2>4 DEF ObjectGood
  <2>6. \A d \in objects' : ObjectGood(d)'
    BY <2>4, <2>5, RegisterGood
  <2> QED BY <1>2, <2>4, <2>6 DEF BurnInInv
<1>9. ASSUME NEW r \in Registrars, register_artifact(r) PROVE BurnInInv'
  <2>1. PICK request \in OperatorRequests :
           /\ directory[request.seen] = Files
           /\ register(r, manifest_of(request.seen), request.status)
    BY <1>9 DEF register_artifact, verify_burn_in_manifest
  <2>2. request.seen \in Observations
    BY BurnInAssumption
  <2>3. PICK m : m = manifest_of(request.seen)
    OBVIOUS
  <2>4. UNCHANGED <<disk, capturing>>
    BY <1>9 DEF register_artifact
  <2>5. /\ register(r, m, request.status)
        /\ m.seen \in Observations /\ directory[m.seen] = Files /\ m.kind = "session"
    BY <2>1, <2>2, <2>3, ManifestOf
  <2>6. ObjectGood(m)'
    BY <2>4, <2>5 DEF ObjectGood
  <2>7. \A d \in objects' : ObjectGood(d)'
    BY <2>4, <2>5, <2>6, RegisterGood
  <2> QED BY <1>1, <2>4, <2>7 DEF BurnInInv
<1>10. ASSUME NEW r \in Registrars, finish_registration(r) PROVE BurnInInv'
  <2>1. objects' = objects /\ UNCHANGED <<disk, capturing>>
    BY <1>10 DEF finish_registration, register_insert
  <2> QED BY <1>1, <2>1, ObjectsKept DEF BurnInInv
<1>11. ASSUME NEW r \in Registrars, NEW receipt, event_receipt(r, receipt) PROVE BurnInInv'
  <2> DEFINE doc == [kind |-> "receipt", receipt |-> receipt, passed |-> TRUE]
  <2>1. /\ register(r, doc, "VERIFIED") /\ receiptFiles' = receiptFiles \union {receipt}
        /\ UNCHANGED <<staging, directory, sessions, cases, capturing>>
    BY <1>11 DEF event_receipt
  <2>2. doc.kind = "receipt" /\ doc.receipt = receipt
    OBVIOUS
  <2> HIDE DEF doc
  <2>3. ObjectGood(doc)'
    BY <2>1, <2>2 DEF ObjectGood
  <2>4. \A d \in objects' : ObjectGood(d)'
    BY <2>1, <2>3, RegisterGood
  <2>5. DiskTypes' /\ SessionsWritten'
    BY <1>0, <2>1 DEF DiskTypes, SessionsWritten
  <2> QED BY <2>4, <2>5 DEF BurnInInv
<1>12. ASSUME NEW r \in Registrars, NEW id, NEW plan, build_case(r, id, plan) PROVE BurnInInv'
  <2>0. PICK doc : doc = scenario_case(id, plan.type, plan.children, plan.receipts, day + 1)
    OBVIOUS
  <2>1. /\ \E status : register(r, doc, status)
        /\ cases' = cases \union {doc}
        /\ UNCHANGED <<staging, directory, sessions, receiptFiles, capturing>>
    BY <1>12, <2>0 DEF build_case
  <2>2. doc.kind = "case"
    BY <2>0 DEF scenario_case
  <2>3. ObjectGood(doc)'
    BY <2>1, <2>2 DEF ObjectGood
  <2>4. \A d \in objects' : ObjectGood(d)'
    BY <2>1, <2>3, RegisterGood
  <2>5. DiskTypes' /\ SessionsWritten'
    BY <1>0, <2>1, <2>2 DEF DiskTypes, SessionsWritten
  <2> QED BY <2>4, <2>5 DEF BurnInInv
<1>13. ASSUME NEW r \in Registrars, evaluate_corpus(r) PROVE BurnInInv'
  <2>0. PICK doc : doc = [kind |-> "corpus", passed |-> corpus_passes, counted |-> corpus_counted]
    OBVIOUS
  <2>1. /\ \E status : register(r, doc, status)
        /\ UNCHANGED <<disk, capturing>>
    BY <1>13, <2>0 DEF evaluate_corpus
  <2>2. doc.kind = "corpus" /\ doc.counted = corpus_counted
    BY <2>0
  <2>3. Exclusive(doc.counted)
    BY <2>2, CountedGood DEF corpus_counted
  <2>4. ObjectGood(doc)'
    BY <2>1, <2>2, <2>3 DEF ObjectGood, Exclusive
  <2>5. \A d \in objects' : ObjectGood(d)'
    BY <2>1, <2>4, RegisterGood
  <2> QED BY <1>1, <2>1, <2>5 DEF BurnInInv
<1>14. ASSUME NEW r \in Registrars, process_dies(r) PROVE BurnInInv'
  <2>1. /\ objects' = objects /\ UNCHANGED disk
        /\ capturing' = capturing \/ capturing' = [capturing EXCEPT ![r] = NoCapture]
    BY <1>14 DEF process_dies, register_dies
  <2> QED BY <1>1, <1>2, <2>1, ObjectsKept DEF BurnInInv
<1> QED BY <1>3, <1>4, <1>5, <1>6, <1>7, <1>8, <1>9, <1>10, <1>11, <1>12, <1>13, <1>14
        DEF BurnInNext

-----------------------------------------------------------------------------
(* The readers.                                                            *)

LEMMA ReadersAgree == BurnInInv => VerdictsAgree
<1> SUFFICES ASSUME BurnInInv, corpus_passes, one_scope
             PROVE  progress_passes /\ (fully_registered /\ policy_labels => summary_passes)
  BY DEF VerdictsAgree
<1> DEFINE M == verified_observations
           cross == cross_scope(M)
           scoped == M \ cross
           valid == {k \in cases : Cardinality({o.binding : o \in scoped}) = 1 =>
                                      k.binding \in {o.binding : o \in scoped}}
<1>1. /\ {o.scope : o \in scoped} = {Scope}
      /\ Cardinality({o.binding : o \in scoped}) = 1
      /\ \A o \in M : manifest_of(o).passed
      /\ sessions_met(M) /\ corpus_counted = cases /\ cases_met(cases)
  BY DEF corpus_passes
<1>2. corpus_counted = allocate_scenario_cases(valid, scoped, cross, receiptFiles)
  BY DEF corpus_counted
<1>3. valid = cases
  BY <1>1, <1>2, CountedGood
<1>4. PICK p \in scoped : p.scope = Scope
  BY <1>1
<1>5. p \in M /\ \A o \in M : o.scope = Scope /\ o.binding = p.binding
  BY <1>4 DEF one_scope
<1>6. \A k \in cases : {o.binding : o \in M} = {k.binding}
  <2>1. \A k \in cases : k.binding \in {o.binding : o \in scoped}
    BY <1>1, <1>3
  <2>2. scoped \subseteq M
    OBVIOUS
  <2> HIDE DEF M, scoped
  <2>3. \A k \in cases : k.binding = p.binding
    BY <1>5, <2>1, <2>2
  <2> QED BY <1>5, <2>3
<1>7. cases_met(allocate_scenario_cases(cases, scoped, cross, receiptFiles))
  BY <1>1, <1>2, <1>3
<1>8. progress_passes
  <2> DEFINE manifests == {o \in M : manifest_of(o).passed /\ o.scope = Scope}
             accepted == {k \in cases : {o.binding : o \in manifests} = {k.binding}}
  <2>1. manifests = M
    BY <1>1, <1>5
  <2>2. accepted = cases
    BY <1>6, <2>1
  <2> HIDE DEF M
  <2> QED BY <1>1, <1>7, <2>1, <2>2 DEF progress_passes, M
<1>9. ASSUME fully_registered, policy_labels PROVE summary_passes
  <2> DEFINE manifests == {m.seen : m \in {d \in resolved("session") :
                                            d.seen.scope = Scope
                                            /\ d.seen.scenario \in DOMAIN SessionRequirements}}
             bound == {k \in resolved("case") : {o.binding : o \in manifests} = {k.binding}}
             available == {d.receipt : d \in resolved("receipt")}
  <2>1. manifests = M
    <3>1. ASSUME NEW d \in resolved("session") PROVE d.seen \in M
      BY <3>1 DEF resolved, BurnInInv, ObjectGood, verified_observations, verify_burn_in_manifest
    <3>2. ASSUME NEW o \in M PROVE \E d \in resolved("session") : d.seen = o
      <4>1. o \in Observations /\ (directory[o] = Files \/ staging[o] = Files)
        BY DEF verified_observations, verify_burn_in_manifest
      <4>2. manifest_of(o).seen = o /\ manifest_of(o).kind = "session"
        BY <4>1, ManifestOf
      <4>3. resolve(manifest_of(o))
        BY <1>9 DEF fully_registered
      <4> QED BY <4>2, <4>3 DEF resolve, resolved
    <3>3. \A o \in M : o.scenario \in DOMAIN SessionRequirements
      BY <1>9 DEF policy_labels
    <3> HIDE DEF M
    <3> QED BY <1>5, <3>1, <3>2, <3>3
  <2>2. resolved("case") = cases
    <3>1. \A k \in cases : k.kind = "case" /\ resolve(k)
      BY <1>9 DEF fully_registered, BurnInInv, SessionsWritten
    <3> QED BY <3>1 DEF resolved, resolve, BurnInInv, ObjectGood
  <2>3. bound = cases
    BY <1>6, <2>1, <2>2
  <2>4. available = receiptFiles
    <3>1. ASSUME NEW d \in resolved("receipt") PROVE d.receipt \in receiptFiles
      BY <3>1 DEF resolved, BurnInInv, ObjectGood
    <3>2. ASSUME NEW e \in receiptFiles PROVE \E d \in resolved("receipt") : d.receipt = e
      <4> DEFINE d == [kind |-> "receipt", receipt |-> e, passed |-> TRUE]
      <4>1. d.kind = "receipt" /\ d.receipt = e /\ resolve(d)
        BY <1>9 DEF fully_registered
      <4> HIDE DEF d
      <4> QED BY <4>1 DEF resolved, resolve
    <3> QED BY <3>1, <3>2
  <2>5. /\ sessions_met(manifests)
        /\ cases_met(allocate_scenario_cases(bound, manifests \ cross_scope(manifests),
                                              cross_scope(manifests), available))
    BY <1>1, <1>7, <2>1, <2>3, <2>4
  <2> QED BY <2>5 DEF summary_passes
<1> QED BY <1>8, <1>9

\* However many processes capture, register and die, a corpus registered as passing rests on
\* cases that share no session and no receipt (allocate_scenario_cases, called by
\* evaluate_burn_in_corpus).
THEOREM CorpusStaysExclusive == BurnInSpec => []CorpusEvidenceIsExclusive
<1>1. BurnInInv => CorpusEvidenceIsExclusive
  BY DEF BurnInInv, ObjectGood, Exclusive, CorpusEvidenceIsExclusive
<1> QED BY <1>1, BurnInStart, BurnInStep, PTL DEF BurnInSpec

\* The three readers of the acceptance evidence agree in every state any number of processes
\* can leave behind: a corpus that evaluate_burn_in_corpus passes, of one scope and binding,
\* passes e1_progress, and external_acceptance_summary once all of it is registered.
THEOREM VerdictsStayAgreed == BurnInSpec => []VerdictsAgree
BY ReadersAgree, BurnInStart, BurnInStep, PTL DEF BurnInSpec
=============================================================================
