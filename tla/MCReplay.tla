------------------------------ MODULE MCReplay ------------------------------
(***************************************************************************)
(* A TLC instance of PortfolioReplay: one instrument, entries near 100     *)
(* with a stop at 80 and a target at 120, and bars that touch none, one or *)
(* both of them, gap, are thin, late or halted.                            *)
(***************************************************************************)
EXTENDS PortfolioReplay

ohlc(open, low, high, close, volume) ==
    [instrument |-> "A", open |-> open, low |-> low, high |-> high, close |-> close,
     volume |-> volume, halted |-> FALSE, late |-> FALSE]

MCBars ==
    {ohlc(100, 90, 110, 100, 4),
     ohlc(100, 70, 130, 100, 4),
     ohlc(60, 40, 80, 60, 4),
     ohlc(100, 90, 130, 120, 1),
     ohlc(100, 70, 110, 80, 1),
     [ohlc(100, 70, 130, 100, 4) EXCEPT !.late = TRUE],
     [ohlc(100, 70, 130, 100, 4) EXCEPT !.halted = TRUE]}

action(type, amount) ==
    [instrument |-> "A", type |-> type, amount |-> amount, announced |-> FALSE]

MCActions ==
    {action("SPLIT", 2), action("DIVIDEND", 4), action("DELIST", 20),
     action("SYMBOL_CHANGE", 0), [action("DIVIDEND", 4) EXCEPT !.announced = TRUE]}

entry(kind, limit, stop, target, expires) ==
    [instrument |-> "A", side |-> "BUY", kind |-> kind, quantity |-> 2, planned |-> 100,
     limit |-> limit, stop |-> stop, protective_stop |-> 80, protective_target |-> target,
     expires |-> expires]

MCProposals ==
    {entry("MARKET", 0, 0, 120, 0), entry("LIMIT", 100, 0, 0, 8),
     entry("STOP_LIMIT", 120, 110, 120, 0),
     [entry("MARKET", 0, 0, 0, 0) EXCEPT !.side = "SELL", !.quantity = 1]}
=============================================================================
