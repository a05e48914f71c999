---------------------------- MODULE GuestBridge ----------------------------
(***************************************************************************)
(* The guest's end of the connection (internal/guest/bridge, cmd/gcs): the *)
(* agent dials the host, serves the connection with ListenAndServe until   *)
(* it drops, and dials again.                                              *)
(*                                                                         *)
(* Each ListenAndServe has its own channels and starts a reader and a      *)
(* writer, which outlive it: they are indexed by the connection.  A        *)
(* request is served by a goroutine that sends its response on whatever    *)
(* responseChan the bridge has then.  A container's exit is published by   *)
(* another one; while the bridge is not connected it is queued.  Returning *)
(* closes the channels on which the reader and the writer report, and a    *)
(* send on a closed channel crashes the agent.                             *)
(***************************************************************************)
EXTENDS GcsWire

VARIABLES
    main,       \* where the agent's loop is
    served,     \* the connection of the last ListenAndServe: its responseChan is current
    protVer,    \* the protocol was negotiated on this connection
    reader,     \* connection -> where its reader is
    writer,     \* connection -> where its writer is
    handler,    \* call -> the goroutine that serves it
    connected,
    queue,      \* pendingNotifications
    draining,   \* what drainPendingNotifications has still to send
    publisher,  \* container -> where the goroutine that publishes its exit is
    exited,     \* the processes (by their wait) and containers that have exited
    crashed     \* the agent has panicked

guest == <<main, served, protVer, reader, writer, handler, connected, queue, draining, publisher,
           exited, crashed>>

NoHandler == [pc |-> "none", id |-> 0, ok |-> FALSE]
Torn(g) == g < served \/ (g = served /\ main = "dialing")

Crash ==
    /\ crashed' = TRUE
    /\ Shut(Conns)

-----------------------------------------------------------------------------
(* The agent's loop.                                                        *)

\* tport.Dial, and the start of ListenAndServe: fresh channels, nothing
\* negotiated, and the queued notifications about to be drained.
Dial ==
    /\ ~crashed /\ main = "dialing" /\ served < MaxConns
    /\ served' = served + 1
    /\ link' = [link EXCEPT ![served + 1] = "up"]
    /\ protVer' = FALSE
    /\ reader' = [reader EXCEPT ![served + 1] = "reading"]
    /\ writer' = [writer EXCEPT ![served + 1] = "ready"]
    /\ main' = "draining" /\ connected' = TRUE /\ draining' = queue /\ queue' = <<>>
    /\ UNCHANGED <<toGuest, toHost, handler, publisher, exited, crashed>>

\* The response writer takes m from the channel of connection g and writes it;
\* it stops at the first write that fails.
WriterTakes(g, m) ==
    /\ writer[g] = "ready"
    /\ IF Up(g)
       THEN toHost' = [toHost EXCEPT ![g] = Append(@, m)] /\ UNCHANGED writer
       ELSE writer' = [writer EXCEPT ![g] = "failed"] /\ UNCHANGED toHost
    /\ UNCHANGED <<link, toGuest>>

DrainOne ==
    /\ ~crashed /\ main = "draining"
    /\ \/ /\ draining # <<>>
          /\ WriterTakes(served, Notification(Head(draining)))
          /\ draining' = Tail(draining) /\ UNCHANGED main
       \/ /\ draining = <<>>
          /\ main' = "serving" /\ UNCHANGED <<draining, wire, writer>>
    /\ UNCHANGED <<served, protVer, reader, handler, connected, queue, publisher, exited, crashed>>

Disconnects == connected' = FALSE

\* ListenAndServe returns with the reader's error, and the agent dials again.
\* Both ends of the connection are closed.
ServeReturns ==
    /\ ~crashed /\ main = "serving" /\ reader[served] = "failed"
    /\ main' = "dialing" /\ Disconnects
    /\ reader' = [reader EXCEPT ![served] = "none"]
    /\ Shut({served})
    /\ UNCHANGED <<served, protVer, writer, handler, queue, draining, publisher, exited, crashed>>

\* It returns with the writer's error: the reader has lost the channel it is
\* about to report on.
WriterReports(g) ==
    /\ ~crashed /\ writer[g] = "failed"
    /\ Torn(g) \/ (g = served /\ main = "serving")
    /\ Crash
    /\ UNCHANGED <<main, served, protVer, reader, writer, handler, connected, queue, draining,
                   publisher, exited>>

-----------------------------------------------------------------------------
(* Requests.                                                                *)

\* A malformed request, or one of a protocol that was not negotiated, is
\* answered with an error; a NegotiateProtocol is only known before.
Understood(r) == ~r.bad /\ (protVer <=> r.call \notin Negotiates)

\* The reader passes the request, with the protocol version of the moment, to
\* the dispatcher, which starts a goroutine for it.
Read(g) ==
    /\ ~crashed /\ reader[g] = "reading"
    /\ \/ /\ Up(g) /\ toGuest[g] # <<>>
          /\ toGuest' = [toGuest EXCEPT ![g] = Tail(@)]
          /\ LET r == Head(toGuest[g]) IN
             handler' = [handler EXCEPT ![r.call] = [pc |-> "running", id |-> r.id,
                                                     ok |-> Understood(r)]]
          /\ UNCHANGED reader
       \/ /\ ~Up(g)
          /\ reader' = [reader EXCEPT ![g] = "failed"]
          /\ UNCHANGED <<toGuest, handler>>
    /\ UNCHANGED <<link, toHost, main, served, protVer, writer, connected, queue, draining,
                   publisher, exited, crashed>>

ResponseChan == served

\* The handler is done, a wait when its process has exited, and sends its
\* response.
Serve(c) ==
    /\ ~crashed /\ handler[c].pc = "running"
    /\ c \in Waits /\ handler[c].ok => c \in exited
    /\ WriterTakes(ResponseChan, Response(handler[c].id, c, handler[c].ok))
    /\ handler' = [handler EXCEPT ![c] = NoHandler]
    /\ protVer' = (protVer \/ (c \in Negotiates /\ handler[c].ok))
    /\ UNCHANGED <<main, served, reader, connected, queue, draining, publisher, exited, crashed>>

-----------------------------------------------------------------------------
(* Exits.                                                                   *)

ProcessExits(c) ==
    /\ ~crashed /\ c \in Waits \ exited
    /\ exited' = exited \cup {c}
    /\ UNCHANGED <<wire, main, served, protVer, reader, writer, handler, connected, queue,
                   draining, publisher, crashed>>

\* The container exits: publishNotification queues the notification, or has
\* seen the bridge connected and will send it.
ContainerExits(k) ==
    /\ ~crashed /\ k \in Containers \ exited
    /\ exited' = exited \cup {k}
    /\ IF connected
       THEN publisher' = [publisher EXCEPT ![k] = "publishing"] /\ UNCHANGED queue
       ELSE queue' = Append(queue, k) /\ UNCHANGED publisher
    /\ UNCHANGED <<wire, main, served, protVer, reader, writer, handler, connected, draining,
                   crashed>>

\* PublishNotification sends on the responseChan of the moment.
Publish(k) ==
    /\ ~crashed /\ publisher[k] = "publishing"
    /\ WriterTakes(served, Notification(k))
    /\ publisher' = [publisher EXCEPT ![k] = "none"]
    /\ UNCHANGED <<main, served, protVer, reader, handler, connected, queue, draining, exited,
                   crashed>>
=============================================================================
