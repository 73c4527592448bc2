---------------------------- MODULE RpcConnection -----------------------------
(***************************************************************************)
(* rpc::Client and rpc::Server at the two ends of a local socket.  A frame *)
(* is one message: reassembly from bytes is the framer's business.  Each   *)
(* connection carries requests up and responses down in order; a frame is  *)
(* first queued in the writer's socket, later taken by the kernel (which   *)
(* acknowledges it to the writer), and only then readable by the peer,     *)
(* even after the writer has closed.  Connections of earlier sessions of   *)
(* the same client may still be read by the server.                        *)
(***************************************************************************)
EXTENDS Naturals, Sequences, FiniteSets, Functions

CONSTANTS
    Sessions,        \* connections the client makes, 1, 2, ...
    Calls,           \* numbers of the typed calls a user makes, from 1
    MaxPending,      \* ClientOptions::max_pending_requests
    OutLimit,        \* max_queued_output_bytes, counted in frames
    MaxConnections,  \* ServerOptions::max_connections
    MaxFaults       \* bound on the daemon\'s failures: it dies, stops, or sends an invalid response

ASSUME SessionsFromOne == Sessions = 1..Cardinality(Sessions)

VARIABLES
    cur,         \* session the client is in, 0 before the first
    device,      \* the client's socket is open
    rpc,         \* Client::Private: closed, pending_ids, last_issued_id
    up,          \* per session, request frames not yet read by the server
    upUnsent,    \* how many of the last frames of up[cur] the kernel has not taken
    down,        \* per session, response frames not yet read by the client
    downUnsent,  \* the same for the server's socket, per session
    conn,        \* ConnectionState of the server, per session
    faults

linkVars == <<cur, device, rpc, up, upUnsent, down, downUnsent, conn, faults>>

FreshRpc == [closed |-> FALSE, pending |-> {}, issued |-> 0]

Taken(frames, unsent) == SubSeq(frames, 1, Len(frames) - unsent)

-----------------------------------------------------------------------------
(* The client's end.                                                       *)

\* Client::Private::write_frame up to the device: the frame is queued.
QueueRequest(frame) ==
    /\ up' = [up EXCEPT ![cur] = Append(@, frame)]
    /\ upUnsent' = upUnsent + 1

OutputFits == upUnsent < OutLimit

\* Mutant of NextWire: an identifier is free again once nobody awaits it.
LowestFreeWire == CHOOSE w \in 1..(rpc.issued + 1) :
    w \notin rpc.pending /\ \A v \in 1..(w - 1) : v \in rpc.pending

\* advance_request_id: identifiers are never used twice in a session.
NextWire == rpc.issued + 1

\* LocalSocket::release_socket: what the kernel took stays, the rest of the
\* output and all input is dropped.
Released(frames) ==
    /\ device' = FALSE
    /\ up' = [up EXCEPT ![cur] = IF conn[cur] = "gone" THEN << >> ELSE frames]
    /\ upUnsent' = 0
    /\ down' = [down EXCEPT ![cur] = << >>]
    /\ downUnsent' = [downUnsent EXCEPT ![cur] = 0]

ReleaseDevice == Released(Taken(up[cur], upUnsent))

\* The same from a callback under a write that sent everything up to frame.
ReleaseSent(frame) == Released(Append(up[cur], frame))

\* bytes_written -> acknowledge_output.
ClientSend ==
    /\ device /\ conn[cur] # "gone" /\ upUnsent > 0
    /\ upUnsent' = upUnsent - 1
    /\ UNCHANGED <<cur, device, rpc, up, down, downUnsent, conn, faults>>

Readable(s) == Len(down[s]) > downUnsent[s]

\* The peer has closed and everything it sent has been read.
AtEnd == device /\ conn[cur] = "gone" /\ down[cur] = << >>

-----------------------------------------------------------------------------
(* The server's end.                                                       *)

Open == {s \in Sessions : conn[s] \in {"open", "closing"}}

Gone(s) ==
    /\ conn' = [conn EXCEPT ![s] = "gone"]
    /\ up' = [up EXCEPT ![s] = << >>]
    /\ down' = [down EXCEPT ![s] = Taken(@, downUnsent[s])]
    /\ downUnsent' = [downUnsent EXCEPT ![s] = 0]
    /\ upUnsent' = IF s = cur THEN 0 ELSE upUnsent

\* Server::add_connection: above the limit the accepted socket is dropped.
Accept(s) ==
    /\ s <= cur /\ conn[s] = "none"
    /\ conn' = [conn EXCEPT ![s] =
                    IF Cardinality(Open) < MaxConnections THEN "open" ELSE "gone"]
    /\ UNCHANGED <<cur, device, rpc, up, upUnsent, down, downUnsent, faults>>

ServerReadable(s) ==
    /\ conn[s] = "open"
    /\ Len(up[s]) > (IF s = cur THEN upUnsent ELSE 0)

\* The client's socket of session s is open.
Listening(s) == s = cur /\ device

\* write_response: queue the frame, or fail the connection over its output
\* limit, which closes it once the earlier responses are flushed, or because
\* the client has closed.
Respond(s, response) ==
    /\ \/ /\ Listening(s) /\ downUnsent[s] < OutLimit
          /\ up' = [up EXCEPT ![s] = Tail(@)]
          /\ down' = [down EXCEPT ![s] = Append(@, response)]
          /\ downUnsent' = [downUnsent EXCEPT ![s] = @ + 1]
          /\ UNCHANGED <<conn, upUnsent>>
       \/ /\ Listening(s) /\ downUnsent[s] >= OutLimit
          /\ up' = [up EXCEPT ![s] = Tail(@)]
          /\ conn' = [conn EXCEPT ![s] = "closing"]
          /\ UNCHANGED <<down, downUnsent, upUnsent>>
       \/ ~Listening(s) /\ Gone(s)
    /\ UNCHANGED <<cur, device, rpc, faults>>

ServerSend(s) ==
    /\ s \in Open /\ Listening(s) /\ downUnsent[s] > 0
    /\ downUnsent' = [downUnsent EXCEPT ![s] = @ - 1]
    /\ UNCHANGED <<cur, device, rpc, up, upUnsent, down, conn, faults>>

\* Server::close when the daemon stops: no more input, queued output is still
\* written, and the daemon is started again.
ServerStop ==
    /\ faults < MaxFaults
    /\ faults' = faults + 1
    /\ conn' = [s \in Sessions |-> CASE conn[s] = "open" -> "closing"
                                     [] conn[s] = "none" /\ s <= cur -> "gone"
                                     [] OTHER -> conn[s]]
    /\ UNCHANGED <<cur, device, rpc, up, upUnsent, down, downUnsent>>

\* LocalSocket::Private::write_pending in state Closing, then retire_connection.
ServerClosed(s) ==
    /\ conn[s] = "closing" /\ downUnsent[s] = 0
    /\ Gone(s)
    /\ UNCHANGED <<cur, device, rpc, faults>>

\* End of input after the client closed: closed -> retire_connection.
ServerLosesPeer(s) ==
    /\ s \in Open /\ ~Listening(s)
    /\ conn[s] = "closing" \/ up[s] = << >>
    /\ Gone(s)
    /\ UNCHANGED <<cur, device, rpc, faults>>

\* The daemon dies; the kernel closes its sockets, the unaccepted ones included.
ServerCrash ==
    /\ faults < MaxFaults
    /\ faults' = faults + 1
    /\ conn' = [s \in Sessions |-> IF s <= cur THEN "gone" ELSE conn[s]]
    /\ up' = [s \in Sessions |-> << >>]
    /\ upUnsent' = 0
    /\ down' = [s \in Sessions |-> Taken(down[s], downUnsent[s])]
    /\ downUnsent' = [s \in Sessions |-> 0]
    /\ UNCHANGED <<cur, device, rpc>>

ServerStep ==
    \/ ServerCrash
    \/ ServerStop
    \/ \E s \in Sessions :
           Accept(s) \/ ServerSend(s) \/ ServerClosed(s) \/ ServerLosesPeer(s)

=============================================================================
