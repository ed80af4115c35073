----------------------------- MODULE EgressRelay ----------------------------
(***************************************************************************)
(* The relay through which a contained native client reaches the network   *)
(* (executors/egress.py, _egress_bridge.py): one handler per connection    *)
(* judges a CONNECT head and the first ClientHello, dials the sealed       *)
(* address and pumps bytes.  Control over the acquisition and the shared   *)
(* deadline can be lost at any await, and between two writes of one        *)
(* sock_sendall, which asks nothing again.  Hosts are abstracted to        *)
(* whether they are the sealed destination, bytes to how many writes of an *)
(* admitted chunk are left.  The downstream direction of a pump only ends  *)
(* a connection.                                                           *)
(***************************************************************************)
EXTENDS Naturals, FiniteSets

CONSTANTS
    Conns,              \* the connections the client may open
    MaxConnections,     \* the policy's bound on accepted ones
    ChunkWrites         \* the most partial writes one admitted chunk takes

ASSUME RelayBounds == MaxConnections \in Nat \ {0} /\ IsFiniteSet(Conns) /\ ChunkWrites \in Nat \ {0}

VARIABLES
    relay,              \* the relay's life: new, live, exited or failed
    stopping,           \* the stop latch
    accepted,           \* connections counted against the bound
    conn,               \* connection -> its handler's progress
    denied,             \* connections refused so far, each counted in observed
    control,            \* whether the acquisition is still controlled
    late,               \* whether the deadline has passed
    left,               \* connection -> the writes left of the chunk it is sending
    stray,              \* connection -> its writes since control or the deadline was lost
    unauthorised        \* connections that began to send a chunk after that

relayVars == <<relay, stopping, accepted, conn, denied, control, late, left, stray, unauthorised>>
traffic == <<left, stray, unauthorised>>

RelayInit ==
    /\ relay = "new" /\ stopping = FALSE /\ accepted = 0 /\ conn = [k \in Conns |-> "none"]
    /\ denied = {} /\ control = TRUE /\ late = FALSE
    /\ left = [k \in Conns |-> 0] /\ stray = [k \in Conns |-> 0] /\ unauthorised = {}

\* __aenter__: a fresh directory and a bound socket, or nothing.
RelayEnters ==
    /\ relay = "new" /\ relay' \in {"live", "failed"}
    /\ UNCHANGED <<stopping, accepted, conn, denied, control, late, traffic>>

\* _require_live, at every step after an await.
Live == ~ late /\ ~ stopping

\* _admit: liveness, then the owner's control check; its loss latches the stop.
Admitted == Live /\ control
Latched == stopping' = (stopping \/ (~ late /\ ~ control))

Denies(k) == conn' = [conn EXCEPT ![k] = "closed"] /\ denied' = denied \cup {k}
Proceeds(k, at) == conn' = [conn EXCEPT ![k] = at] /\ UNCHANGED denied

\* _accept_loop: every connection is counted, or closed and counted as denied.
Accept(k) ==
    /\ relay = "live" /\ conn[k] = "none"
    /\ IF Live THEN accepted' = accepted + 1 ELSE UNCHANGED accepted
    /\ IF Live /\ accepted < MaxConnections THEN Proceeds(k, "accepted") ELSE Denies(k)
    /\ UNCHANGED <<relay, stopping, control, late, traffic>>

\* parse_connect and the sealed policy; an early end of the stream is refused too.
Connect(k) ==
    /\ relay = "live" /\ conn[k] = "accepted"
    /\ \E sealed \in BOOLEAN : IF Live /\ sealed THEN Proceeds(k, "established") ELSE Denies(k)
    /\ UNCHANGED <<relay, stopping, accepted, control, late, traffic>>

\* client_hello_sni: the one name must be the host that was asked for.
Hello(k) ==
    /\ relay = "live" /\ conn[k] = "established"
    /\ \/ Latched /\ (IF Admitted THEN Proceeds(k, "dialing") ELSE Denies(k))
       \/ Denies(k) /\ UNCHANGED stopping
    /\ UNCHANGED <<relay, accepted, control, late, traffic>>

Authorised == control /\ ~ late

\* sock_sendall takes a whole buffer, and will not ask again; what is left dies with the socket.
Loads(k) ==
    /\ \E n \in 1 .. ChunkWrites : left' = [left EXCEPT ![k] = n]
    /\ unauthorised' = IF Authorised THEN unauthorised ELSE unauthorised \cup {k}
Discards(k) == left' = [left EXCEPT ![k] = 0] /\ UNCHANGED unauthorised

\* Variant: the check before the dial is enough.
DialedIsAdmitted == TRUE

\* _open, second half: what held before the dial is asked again after it.
StillAdmitted == Admitted

Dial(k) ==
    /\ relay = "live" /\ conn[k] = "dialing"
    /\ \/ /\ Latched
          /\ IF StillAdmitted THEN Proceeds(k, "greeting") /\ Loads(k) ELSE Denies(k) /\ UNCHANGED <<left, unauthorised>>
       \/ Denies(k) /\ UNCHANGED <<stopping, left, unauthorised>>
    /\ UNCHANGED <<relay, accepted, control, late, stray>>

\* _pump, what a read returned: a chunk to send, an end of stream or a reset.
Pump(k) ==
    /\ relay = "live" /\ conn[k] = "open"
    /\ \/ Admitted /\ Loads(k) /\ Proceeds(k, "sending") /\ UNCHANGED stopping
       \/ Live /\ Proceeds(k, "closed") /\ UNCHANGED <<stopping, left, unauthorised>>
       \/ ~ Admitted /\ Denies(k) /\ Latched /\ UNCHANGED <<left, unauthorised>>
    /\ UNCHANGED <<relay, accepted, control, late, stray>>

Sending == {"greeting", "sending"}

\* A write of sock_sendall: the rest of the buffer goes out from an I/O callback, whatever was
\* lost meanwhile; after the last one the pump reads again.
Write(k) ==
    /\ relay = "live" /\ conn[k] \in Sending /\ left[k] > 0
    /\ left' = [left EXCEPT ![k] = @ - 1]
    /\ stray' = IF Authorised THEN stray ELSE [stray EXCEPT ![k] = @ + 1]
    /\ Proceeds(k, IF left[k] = 1 THEN "open" ELSE conn[k])
    /\ UNCHANGED <<relay, stopping, accepted, control, late, unauthorised>>

\* A send that does not end: the handler's timeout, a refusal in the other direction once both
\* run, or a reset, which _io takes for a refusal when the relay is no longer live.
Cut(k) ==
    /\ relay = "live" /\ conn[k] \in Sending /\ Discards(k)
    /\ \/ late /\ Denies(k) /\ UNCHANGED stopping
       \/ conn[k] = "sending" /\ ~ Admitted /\ Denies(k) /\ Latched
       \/ (conn[k] = "greeting" \/ Live) /\ Proceeds(k, "closed") /\ UNCHANGED stopping
    /\ UNCHANGED <<relay, accepted, control, late, stray>>

\* __aexit__: latch, cancel and join every handler, which resets its sockets and drops what is
\* unsent, then release the path; a socket that is not the relay's own is a failure.
RelayExits ==
    /\ relay = "live" /\ relay' \in {"exited", "failed"} /\ stopping' = TRUE
    /\ conn' = [k \in Conns |-> IF conn[k] = "none" THEN "none" ELSE "closed"]
    /\ left' = [k \in Conns |-> 0]
    /\ UNCHANGED <<accepted, denied, control, late, stray, unauthorised>>

ControlLost == control /\ control' = FALSE /\ UNCHANGED <<relay, stopping, accepted, conn, denied, late, traffic>>
DeadlinePasses == ~ late /\ late' = TRUE /\ UNCHANGED <<relay, stopping, accepted, conn, denied, control, traffic>>

RelayStep(k) == Accept(k) \/ Connect(k) \/ Hello(k) \/ Dial(k) \/ Pump(k) \/ Write(k) \/ Cut(k)
=============================================================================
