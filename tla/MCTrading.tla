----------------------------- MODULE MCTrading ------------------------------
(***************************************************************************)
(* A TLC instance of the three ways the program trades without the durable *)
(* execution plane: the historical replay, the in-memory paper broker and  *)
(* the decision loop that stages intents.  They run in different processes *)
(* on state of their own; `desk` says which one a behaviour exercises.     *)
(***************************************************************************)
EXTENDS MCReplay, SimulatedBroker, TradingLoop

VARIABLE desk

order(key, symbol, side, quantity, limit) ==
    [key |-> key, symbol |-> symbol, side |-> side, quantity |-> quantity, limit |-> limit,
     stop |-> 8, target |-> 14]

MCSimOrders ==
    {order(<<1>>, "a", "BUY", 2, 11), order(<<2>>, "a", "BUY", 1, 9),
     order(<<3>>, "b", "BUY", 1, 11), order(<<4>>, "a", "SELL", 1, 9)}

\* At the stop, between stop and target, at the target.
MCSimQuotes == {[bid |-> 7, ask |-> 8], [bid |-> 10, ask |-> 11], [bid |-> 14, ask |-> 15]}

CallerSymmetry == Permutations(Callers)

MCInit ==
    /\ desk \in {"replay", "broker", "loop"}
    /\ Init /\ SimInit /\ DeskInit
    /\ desk # "loop" => host = "api"

MCNext ==
    /\ UNCHANGED desk
    /\ \/ desk = "replay" /\ Next /\ UNCHANGED <<simVars, deskVars>>
       \/ desk = "broker" /\ SimNext /\ UNCHANGED <<vars, deskVars>>
       \/ desk = "loop" /\ DeskNext /\ UNCHANGED <<vars, simVars>>

MCSpec == MCInit /\ [][MCNext]_<<desk, vars, simVars, deskVars>>
=============================================================================
