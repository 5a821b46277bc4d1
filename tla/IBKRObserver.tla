---------------------------- MODULE IBKRObserver ----------------------------
(***************************************************************************)
(* The read-only IBKR observer: observe_read_only of execution/ibkr.py,    *)
(* run MaxSessions times by one process, with the threads it uses.         *)
(*                                                                         *)
(*   main     observe_read_only: installs the collector, asks, polls,      *)
(*            shuts down, issues the completeness certificate;             *)
(*   net[s]   the network thread of session s, which runs the callbacks of *)
(*            the TWS API and hands their facts to the bridge;             *)
(*   writer   the thread of IBKRFactBridge, the only writer of the tape.   *)
(*                                                                         *)
(* A request is answered by Items facts and an end marker, in this order;  *)
(* answers to different requests interleave.  A fact carries the session   *)
(* of the collector that recorded it and, as its request id, the session   *)
(* whose request it answers.                                               *)
(***************************************************************************)
EXTENDS Integers, Sequences, FiniteSets

CONSTANTS
    Requests,           \* the requests of a session
    Items,              \* the facts that answer a request, before the end marker
    QueueSize,          \* max_queue of the bridge
    LateThread,         \* may the join of the network thread time out?
    MayFail,            \* may the writer's database raise?
    MaxSessions,        \* bound on observations
    MaxUnsolicited      \* bound on callbacks nobody asked for, per session

ASSUME ObserverAssumption ==
    /\ Requests \subseteq {"account", "executions", "positions", "open_orders", "completed"}
    /\ Items \in Nat \ {0}
    /\ QueueSize \in Nat \ {0}
    /\ LateThread \in BOOLEAN /\ MayFail \in BOOLEAN
    /\ MaxSessions \in Nat /\ MaxUnsolicited \in Nat

VARIABLES
    session,            \* the current session, 0 before the first
    pc,                 \* the next step of observe_read_only
    observer,           \* app.observer: is the collector installed?
    see,                \* the counters read for the next certificate
    certs,              \* the saved certificate of each session
    model,              \* the facts the returned read model was reduced from
    sent,               \* per session and request, the answers the broker has sent
    extra,              \* per session, the callbacks nobody asked for
    conn,               \* per session, the connection
    net,                \* per session, the network thread
    queue, acceptedCount, written, dropped, error, closed,   \* the bridge
    writer,             \* its thread
    tape,               \* ibkr_facts
    lost                \* facts handed to this session's bridge and not kept

mainVars == <<session, pc, observer, see, certs, model>>
brokerVars == <<sent, extra, conn>>
bridgeVars == <<queue, acceptedCount, written, dropped, error, closed>>
obsVars == <<mainVars, brokerVars, net, bridgeVars, writer, tape, lost>>

Sessions == 1 .. MaxSessions

\* The requests whose callbacks carry the request id; the others are stamped with the
\* epoch of the collector that is installed when they arrive.
Numbered == {"account", "executions"}

fact(s, type, request, n, origin) ==
    [session |-> s, type |-> type, request |-> request, n |-> n, origin |-> origin]

NoCertificate == [components |-> {}, complete |-> FALSE, disconnected |-> FALSE,
                  facts |-> {}, watermark |-> 0]

NoFact == fact(1, "UPDATE", "-", 0, 1)

\* A thread between two calls, in one, or at its end.
Busy(step, f) == [pc |-> step, fact |-> f]
Ready == Busy("idle", NoFact)
Gone == Busy("gone", NoFact)

Unseen == [final |-> FALSE, drained |-> FALSE, depth |-> 0, accepted |-> 0, written |-> 0,
           dropped |-> 0, error |-> FALSE, watermark |-> 0]

ObsInit ==
    /\ session = 0
    /\ pc = "idle"
    /\ observer = FALSE
    /\ see = Unseen
    /\ certs = [s \in Sessions |-> NoCertificate]
    /\ model = {}
    /\ sent = [s \in Sessions |-> [r \in Requests |-> 0]]
    /\ extra = [s \in Sessions |-> 0]
    /\ conn = [s \in Sessions |-> "none"]
    /\ net = [s \in Sessions |-> Gone]
    /\ queue = <<>>
    /\ acceptedCount = 0 /\ written = 0 /\ dropped = 0
    /\ error = FALSE /\ closed = FALSE
    /\ writer = Gone
    /\ tape = {}
    /\ lost = {}
-----------------------------------------------------------------------------
(* IBKRFactBridge, as the calling threads see it.                          *)

\* The sentinel that stops the writer.
Sentinel == fact(1, "UPDATE", "-", -1, 1)

\* put_nowait does not raise queue.Full.
room == Len(queue) < QueueSize

put(f) == queue' = Append(queue, f)

\* write_draft by the main thread.  The put and the counting are one step: nobody but
\* the main thread reads the counters.
write_draft_main(f) ==
    /\ IF room
       THEN /\ put(f)
            /\ acceptedCount' = acceptedCount + 1
            /\ UNCHANGED <<dropped, error, lost>>
       ELSE /\ dropped' = dropped + 1
            /\ error' = TRUE
            /\ lost' = lost \union {f}
            /\ UNCHANGED <<queue, acceptedCount>>
    /\ UNCHANGED <<written, closed>>

-----------------------------------------------------------------------------
(* The network threads.                                                    *)

\* _observe looks whether a collector is installed; it looks again when it uses it.
callback(s, type, request, n) ==
    net' = [net EXCEPT ![s] = IF observer THEN Busy("record", fact(s, type, request, n, s))
                              ELSE IF type = "DISCONNECT" THEN Gone ELSE Ready]

\* The requests of session s are out.
requested(s) == s < session \/ pc \notin {"connect", "connected", "request"}

\* The next answer to request r of session s: an item, or after the last one the end.
answer(s, r) ==
    /\ net[s] = Ready
    /\ requested(s)
    /\ sent[s][r] <= Items
    /\ sent' = [sent EXCEPT ![s][r] = @ + 1]
    /\ callback(s, IF sent[s][r] < Items THEN "ITEM" ELSE "END", r, sent[s][r])
    /\ UNCHANGED <<mainVars, extra, conn, bridgeVars, writer, tape, lost>>

\* orderStatus, execDetails or a commission of a running order, or a critical error.
unsolicited(s, type) ==
    /\ net[s] = Ready
    /\ extra[s] < MaxUnsolicited
    /\ extra' = [extra EXCEPT ![s] = @ + 1]
    /\ callback(s, type, "-", 0)
    /\ UNCHANGED <<mainVars, sent, conn, bridgeVars, writer, tape, lost>>

connection_lost(s) ==
    /\ conn[s] = "up"
    /\ extra[s] < MaxUnsolicited
    /\ extra' = [extra EXCEPT ![s] = @ + 1]
    /\ conn' = [conn EXCEPT ![s] = "lost"]
    /\ UNCHANGED <<mainVars, sent, net, bridgeVars, writer, tape, lost>>

\* The message loop of a closed connection ends, at the latest when what it has
\* received is processed, with the callback connectionClosed.
connectionClosed(s) ==
    /\ net[s] = Ready
    /\ conn[s] \in {"lost", "closed"}
    /\ callback(s, "DISCONNECT", "-", 0)
    /\ UNCHANGED <<mainVars, brokerVars, bridgeVars, writer, tape, lost>>

\* The thread after a callback.
after(s) == IF net[s].fact.type = "DISCONNECT" THEN Gone ELSE Ready

\* record stamps the fact with the collector's session.  Without a collector the
\* attribute lookup raises, which ends the thread.
record(s) ==
    /\ net[s].pc = "record"
    /\ net' = [net EXCEPT ![s] = IF observer
                                 THEN Busy("check", [@.fact EXCEPT !.session = session])
                                 ELSE Gone]
    /\ UNCHANGED <<mainVars, brokerVars, bridgeVars, writer, tape, lost>>

\* write_draft, first line: a closed bridge returns without a trace.
write_draft_check(s) ==
    /\ net[s].pc = "check"
    /\ IF closed
       THEN /\ net' = [net EXCEPT ![s] = after(s)]
            /\ lost' = lost \union {net[s].fact}
       ELSE /\ net' = [net EXCEPT ![s].pc = "put"]
            /\ UNCHANGED lost
    /\ UNCHANGED <<mainVars, brokerVars, bridgeVars, writer, tape>>

write_draft_put(s) ==
    /\ net[s].pc = "put"
    /\ IF room
       THEN /\ put(net[s].fact)
            /\ net' = [net EXCEPT ![s].pc = "accept"]
            /\ UNCHANGED lost
       ELSE /\ net' = [net EXCEPT ![s].pc = "drop"]
            /\ lost' = lost \union {net[s].fact}
            /\ UNCHANGED queue
    /\ UNCHANGED <<mainVars, brokerVars, acceptedCount, written, dropped, error, closed, writer, tape>>

write_draft_accept(s) ==
    /\ net[s].pc = "accept"
    /\ acceptedCount' = acceptedCount + 1
    /\ net' = [net EXCEPT ![s] = after(s)]
    /\ UNCHANGED <<mainVars, brokerVars, queue, written, dropped, error, closed, writer,
                   tape, lost>>

write_draft_drop(s) ==
    /\ net[s].pc = "drop"
    /\ dropped' = dropped + 1
    /\ error' = TRUE
    /\ net' = [net EXCEPT ![s] = after(s)]
    /\ UNCHANGED <<mainVars, brokerVars, queue, acceptedCount, written, closed, writer, tape, lost>>

network(s) ==
    \/ \E r \in Requests : answer(s, r)
    \/ \E type \in {"UPDATE", "ERROR"} : unsolicited(s, type)
    \/ connection_lost(s)
    \/ connectionClosed(s)
    \/ record(s)
    \/ write_draft_check(s)
    \/ write_draft_put(s)
    \/ write_draft_accept(s)
    \/ write_draft_drop(s)

-----------------------------------------------------------------------------
(* The writer thread: _run of the bridge.                                  *)

run_get ==
    /\ writer.pc = "idle"
    /\ queue # <<>>
    /\ queue' = Tail(queue)
    /\ writer' = IF Head(queue) = Sentinel THEN Gone ELSE Busy("write", Head(queue))
    /\ UNCHANGED <<mainVars, brokerVars, net, acceptedCount, written, dropped, error, closed,
                   tape, lost>>

\* IBKRFactStore.append: a fact already on the tape is ignored.
run_write ==
    /\ writer.pc = "write"
    /\ tape' = tape \union {writer.fact}
    /\ writer' = Busy("written", NoFact)
    /\ UNCHANGED <<mainVars, brokerVars, net, bridgeVars, lost>>

run_written ==
    /\ writer.pc = "written"
    /\ written' = written + 1
    /\ writer' = Ready
    /\ UNCHANGED <<mainVars, brokerVars, net, queue, acceptedCount, dropped, error, closed,
                   tape, lost>>

\* The store raises: the thread records the error and ends.
run_raises ==
    /\ MayFail
    /\ writer.pc = "write"
    /\ error' = TRUE
    /\ lost' = lost \union {writer.fact}
    /\ writer' = Gone
    /\ UNCHANGED <<mainVars, brokerVars, net, queue, acceptedCount, written, dropped, closed, tape>>

run == run_get \/ run_write \/ run_written \/ run_raises

-----------------------------------------------------------------------------
(* The certificate.                                                        *)

facts_of(s) == {f \in tape : f.session = s}

\* The end marker of request r: by request id where the callback carries one, by the
\* epoch the collector stamped it with elsewhere.  COMPLETED_ORDER_END is not compared.
end_seen(facts, r) ==
    \E f \in facts :
        f.type = "END" /\ f.request = r /\ (r \in Numbered => f.origin = f.session)

\* _REQUIRED_TAGS: three of the five account tags asked for must have been seen under
\* the session's request id.
required_tags(facts) ==
    "account" \in Requests =>
        \A n \in 0 .. Items \div 2 :
            \E f \in facts : /\ f.type = "ITEM" /\ f.request = "account" /\ f.n = n
                              /\ f.origin = f.session

\* The orders are complete with the end of the open and of the completed ones.
Orders == {"open_orders", "completed"}
ends_of(r) == IF r \in Orders THEN Requests \intersect Orders ELSE {r}

fact_delivery_complete(v) ==
    /\ v.dropped = 0
    /\ v.accepted = v.written
    /\ v.depth = 0
    /\ v.drained
    /\ ~v.error

critical(facts) == \E f \in facts : f.type = "ERROR"
disconnected(facts) == \E f \in facts : f.type = "DISCONNECT"

\* Mutant: a component is complete with its end markers, whatever was dropped.
component_complete_at_end(facts, v, r) ==
    /\ \A q \in ends_of(r) : end_seen(facts, q)
    /\ r = "account" => required_tags(facts)

component_complete(facts, v, r) ==
    /\ \A q \in ends_of(r) : end_seen(facts, q)
    /\ r = "account" => required_tags(facts)
    /\ fact_delivery_complete(v)

\* The singletons next order id, managed accounts and server time are taken as received.
certificate(facts, v) ==
    [components |-> {r \in Requests : component_complete(facts, v, r)},
     complete |-> /\ \E f \in facts : f.type = "CONNECTION"
                  /\ \A r \in Requests : end_seen(facts, r)
                  /\ required_tags(facts)
                  /\ fact_delivery_complete(v)
                  /\ ~critical(facts)
                  /\ ~disconnected(facts),
     disconnected |-> disconnected(facts),
     facts |-> facts,
     watermark |-> v.watermark]

-----------------------------------------------------------------------------
(* observe_read_only                                                       *)

at(step) == pc = step
goto(step) == pc' = step

\* A new session, bridge and collector.  What an old network thread is just doing, it
\* does to the old bridge, which nobody reads any more.
begin ==
    /\ pc \in {"idle", "returned"}
    /\ session < MaxSessions
    /\ session' = session + 1
    /\ observer' = TRUE
    /\ net' = [s \in Sessions |-> IF net[s] = Gone THEN Gone ELSE Ready]
    /\ queue' = <<>>
    /\ acceptedCount' = 0 /\ written' = 0 /\ dropped' = 0
    /\ error' = FALSE /\ closed' = FALSE
    /\ writer' = Ready
    /\ lost' = {}
    /\ goto("connect")
    /\ UNCHANGED <<see, certs, model, brokerVars, tape>>

\* connect_transport_only starts the network thread, and waits for nextValidId.
connect ==
    /\ at("connect")
    /\ conn[session] = "none"
    /\ conn' = [conn EXCEPT ![session] = "up"]
    /\ net' = [net EXCEPT ![session] = Ready]
    /\ goto("connected")
    /\ UNCHANGED <<session, observer, see, certs, model, sent, extra, bridgeVars, writer,
                   tape, lost>>

\* nextValidId does not come in time: TimeoutError, with the collector still installed.
connect_timeout ==
    /\ at("connect")
    /\ goto("raised")
    /\ UNCHANGED <<session, observer, see, certs, model, brokerVars, net, bridgeVars,
                   writer, tape, lost>>

\* CONNECTION, NEXT_VALID_ID and the REQUEST_START facts, as one; then the requests.
record_connection ==
    /\ at("connected")
    /\ write_draft_main(fact(session, "CONNECTION", "-", 0, session))
    /\ goto("request")
    /\ UNCHANGED <<session, observer, see, certs, model, brokerVars, net, writer, tape>>

request ==
    /\ at("request")
    /\ goto("drain")
    /\ UNCHANGED <<session, observer, see, certs, model, brokerVars, net, bridgeVars,
                   writer, tape, lost>>

\* The variables the reading steps leave alone.
reading == UNCHANGED <<session, observer, certs, model, brokerVars, net, bridgeVars, writer,
                       tape, lost>>

\* drain: under the lock the counters agree; then, outside it, the queue is empty.
drain_caught_up ==
    /\ at("drain")
    /\ written = acceptedCount
    /\ see' = [Unseen EXCEPT !.drained = ~error /\ dropped = 0]
    /\ goto("empty")
    /\ reading

drain_empty ==
    /\ at("empty")
    /\ IF queue = <<>> THEN goto("depth") ELSE goto("drain")
    /\ UNCHANGED see
    /\ reading

drain_timeout ==
    /\ at("drain")
    /\ see' = Unseen
    /\ goto("depth")
    /\ reading

\* The arguments of certificate, each read under the lock by itself.
read_depth ==
    /\ at("depth")
    /\ see' = [see EXCEPT !.depth = Len(queue)]
    /\ goto("accepted")
    /\ reading

read_accepted ==
    /\ at("accepted")
    /\ see' = [see EXCEPT !.accepted = acceptedCount]
    /\ goto("written")
    /\ reading

read_written ==
    /\ at("written")
    /\ see' = [see EXCEPT !.written = written]
    /\ goto("dropped")
    /\ reading

read_dropped ==
    /\ at("dropped")
    /\ see' = [see EXCEPT !.dropped = dropped]
    /\ goto("error")
    /\ reading

read_writer_error ==
    /\ at("error")
    /\ see' = [see EXCEPT !.error = error]
    /\ goto("count")
    /\ reading

read_fact_count ==
    /\ at("count")
    /\ see' = [see EXCEPT !.watermark = Cardinality(tape)]
    /\ goto("certify")
    /\ reading

read == read_depth \/ read_accepted \/ read_written \/ read_dropped \/ read_writer_error
        \/ read_fact_count

\* The certificate is issued and saved.  While polling: done if it is complete or the
\* session has failed, else again until the deadline.
certify ==
    LET c == certificate(facts_of(session), see)
    IN  /\ at("certify")
        /\ certs' = [certs EXCEPT ![session] = c]
        /\ IF see.final THEN goto("reduce")
           ELSE \/ goto("watermark")
                \/ ~c.complete /\ ~critical(c.facts) /\ ~c.disconnected /\ goto("drain")
        /\ see' = Unseen
        /\ UNCHANGED <<session, observer, model, brokerVars, net, bridgeVars, writer, tape,
                       lost>>

\* The two drains around it are waited for and their results ignored.
record_watermark ==
    /\ at("watermark")
    /\ write_draft_main(fact(session, "DRAIN_WATERMARK", "-", 0, session))
    /\ goto("detach")
    /\ UNCHANGED <<session, observer, see, certs, model, brokerVars, net, writer, tape>>

\* Mutant: the collector stays installed.
detach_forgotten ==
    /\ at("detach")
    /\ goto("disconnect")
    /\ UNCHANGED <<session, observer, see, certs, model, brokerVars, net, bridgeVars, writer,
                   tape, lost>>

\* From here on callbacks find no collector.
detach ==
    /\ at("detach")
    /\ observer' = FALSE
    /\ goto("disconnect")
    /\ UNCHANGED <<session, see, certs, model, brokerVars, net, bridgeVars, writer, tape, lost>>

disconnect ==
    /\ at("disconnect")
    /\ conn' = [conn EXCEPT ![session] = IF @ = "lost" THEN @ ELSE "closed"]
    /\ goto("join")
    /\ UNCHANGED <<session, observer, see, certs, model, sent, extra, net, bridgeVars,
                   writer, tape, lost>>

\* The join has a time-out, and its outcome is not looked at.
join_network ==
    /\ at("join")
    /\ net[session] = Gone \/ LateThread
    /\ goto("close")
    /\ UNCHANGED <<session, observer, see, certs, model, brokerVars, net, bridgeVars,
                   writer, tape, lost>>

close_closed ==
    /\ at("close")
    /\ closed' = TRUE
    /\ goto("sentinel")
    /\ UNCHANGED <<session, observer, see, certs, model, brokerVars, net, queue, acceptedCount,
                   written, dropped, error, writer, tape, lost>>

\* The sentinel; if the queue stays full, put raises queue.Full.
close_put ==
    /\ at("sentinel")
    /\ IF room
       THEN put(Sentinel) /\ goto("join_writer")
       ELSE UNCHANGED queue /\ goto("raised")
    /\ UNCHANGED <<session, observer, see, certs, model, brokerVars, net, acceptedCount, written,
                   dropped, error, closed, writer, tape, lost>>

\* Mutant: the certificate of the polling loop is returned.
close_join_polled ==
    /\ at("join_writer")
    /\ error' = (error \/ writer # Gone)
    /\ goto("reduce")
    /\ UNCHANGED <<session, observer, see, certs, model, brokerVars, net, queue, acceptedCount,
                   written, dropped, closed, writer, tape, lost>>

\* A writer that is still alive after the time-out is an error.
close_join ==
    /\ at("join_writer")
    /\ error' = (error \/ writer # Gone)
    /\ goto("final")
    /\ UNCHANGED <<session, observer, see, certs, model, brokerVars, net, queue, acceptedCount,
                   written, dropped, closed, writer, tape, lost>>

\* queue_drained of the last certificate.
final_drained ==
    /\ at("final")
    /\ see' = [Unseen EXCEPT !.final = TRUE,
                             !.drained = queue = <<>> /\ written = acceptedCount]
    /\ goto("depth")
    /\ reading

\* The tape is read once more for the read model.
reduce ==
    /\ at("reduce")
    /\ model' = facts_of(session)
    /\ goto("returned")
    /\ UNCHANGED <<session, observer, see, certs, brokerVars, net, bridgeVars, writer,
                   tape, lost>>

main ==
    \/ begin \/ connect \/ connect_timeout \/ record_connection \/ request
    \/ drain_caught_up \/ drain_empty \/ drain_timeout \/ read \/ certify
    \/ record_watermark \/ detach \/ disconnect \/ join_network
    \/ close_closed \/ close_put \/ close_join \/ final_drained \/ reduce

ObsNext ==
    \/ main
    \/ \E s \in Sessions : network(s)
    \/ run

ObsSpec == ObsInit /\ [][ObsNext]_obsVars

-----------------------------------------------------------------------------
(* Properties.                                                             *)

\* A certificate that calls a component complete was computed from a tape with every
\* fact the broker answered that request with, although callbacks, writer and main
\* thread run concurrently, the queue may overflow and the writer may die.
ComponentHasAllItems ==
    pc = "returned" =>
        \A r \in certs[session].components : \A n \in 0 .. Items - 1 :
            fact(session, "ITEM", r, n, session) \in certs[session].facts

\* A read model returned with a complete certificate is whole: it is reduced from the
\* very facts the certificate describes, and no fact handed to the bridge is missing,
\* neither dropped by a full queue, nor by a failing database, nor by the closed bridge.
CertifiedModelIsWhole ==
    pc = "returned" /\ certs[session].complete =>
        model = certs[session].facts /\ lost = {}

\* The observer's own shutdown is never taken for a lost connection.
OwnShutdownIsNoLoss ==
    \A s \in Sessions : certs[s].disconnected => conn[s] = "lost"
=============================================================================
