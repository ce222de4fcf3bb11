--------------------------- MODULE WATEROutbound ---------------------------
(***************************************************************************)
(* protocol/water/outbound.go and transport/water/conn.go.  The WASM       *)
(* module of a dial learns the destination from a map that all dials       *)
(* share; dialMutex is held until the dial is over, however long it takes. *)
(* The connection writes the destination before the first payload.         *)
(***************************************************************************)
EXTENDS Dialing

CONSTANTS Domains,     \* the destinations that are names, not addresses
          Writers,     \* the goroutines that write to one connection
          MaxStream    \* bounds what is written to one connection

VARIABLES
    dialMutex,  \* who holds it
    shared,     \* options.Config is not nil: the module is told the destination
    skip,       \* options.SkipHandshake
    remote,     \* transportModuleConfig["remote_addr"], ["remote_port"]
    config,     \* the module configuration of each dial
    handshake,  \* WATERConn.handshake
    writer,     \* where each writer of each connection is
    stream      \* what each connection has written

water == <<dialMutex, shared, skip, remote, config, handshake, writer, stream>>
dialer == <<dialMutex, remote, config>>
writing == <<handshake, writer, stream>>

WaterInit ==
    /\ dialMutex = Nobody
    /\ shared \in BOOLEAN
    /\ skip \in BOOLEAN
    /\ remote = Nobody
    /\ config = [c \in Callers |-> Nobody]
    /\ handshake = [c \in Callers |-> skip]
    /\ writer = [c \in Callers |-> [w \in Writers |-> "idle"]]
    /\ stream = [c \in Callers |-> <<>>]

-----------------------------------------------------------------------------
(* DialContext *)

\* Does not wait.
UnlockedDial(c) ==
    /\ at[c] = "water"
    /\ dialMutex' = c
    /\ GoTo(c, "water.share")
    /\ UNCHANGED <<shared, skip, remote, config, writing>>

WaterLock(c) ==
    /\ at[c] = "water"
    /\ dialMutex = Nobody
    /\ dialMutex' = c
    /\ GoTo(c, "water.share")
    /\ UNCHANGED <<shared, skip, remote, config, writing>>

\* Socksaddr.AddrPort: a name has no address, and "invalid IP" stands for it.
AddrPort(d) == IF d \in Domains THEN Nobody ELSE d

\* newDialer puts the destination into the shared map.
WaterShare(c) ==
    /\ at[c] = "water.share"
    /\ remote' = IF shared THEN AddrPort(want[c]) ELSE remote
    /\ GoTo(c, "water.new")
    /\ UNCHANGED <<dialMutex, shared, skip, config, writing>>

\* The rest of newDialer: the map is marshalled, the module is made.
WaterNew(c) ==
    /\ at[c] = "water.new"
    /\ config' = [config EXCEPT ![c] = IF shared THEN remote ELSE Nobody]
    /\ \/ GoTo(c, "water.dial") /\ UNCHANGED dialMutex
       \/ Fail(c) /\ dialMutex' = Nobody
    /\ UNCHANGED <<shared, skip, remote, writing>>

\* dialer.DialContext on context.Background(): it may never return.
WaterDial(c) ==
    /\ at[c] = "water.dial"
    /\ \/ Succeed(c, "water", (IF shared THEN {config[c]} ELSE {})
                                \union (IF skip THEN {} ELSE {want[c]}))
       \/ Fail(c)
    /\ dialMutex' = Nobody
    /\ UNCHANGED <<shared, skip, remote, config, writing>>

WaterStep(c) == WaterLock(c) \/ WaterShare(c) \/ WaterNew(c) \/ WaterDial(c)

-----------------------------------------------------------------------------
(* WATERConn.Write *)

MoveWriter(c, w, place) == writer' = [writer EXCEPT ![c][w] = place]
Send(c, piece) == stream' = [stream EXCEPT ![c] = Append(@, piece)]

\* Without the mutex.
UnlockedWrite(c, w) ==
    /\ conn[c].via = "water"
    /\ writer[c][w] = "idle"
    /\ MoveWriter(c, w, IF handshake[c] THEN "payload" ELSE "address")
    /\ UNCHANGED <<dialer, shared, skip, handshake, stream>>

\* c.mu, and whether the address has been written.
WriteLock(c, w) ==
    /\ conn[c].via = "water"
    /\ writer[c][w] = "idle"
    /\ \A v \in Writers : writer[c][v] = "idle"
    /\ MoveWriter(c, w, IF handshake[c] THEN "payload" ELSE "address")
    /\ UNCHANGED <<dialer, shared, skip, handshake, stream>>

\* Bound: MaxStream pieces are written to a connection.
Room(c) == Len(stream[c]) < MaxStream

\* WriteAddrPort; it may fail with nothing or a part of it written, and the
\* next Write begins again.
WriteAddress(c, w) ==
    /\ writer[c][w] = "address"
    /\ Room(c)
    /\ \/ /\ Send(c, "address")
          /\ handshake' = [handshake EXCEPT ![c] = TRUE]
          /\ MoveWriter(c, w, "payload")
       \/ /\ Send(c, "part") \/ UNCHANGED stream
          /\ UNCHANGED handshake
          /\ MoveWriter(c, w, "idle")
    /\ UNCHANGED <<dialer, shared, skip>>

WritePayload(c, w) ==
    /\ writer[c][w] = "payload"
    /\ Room(c)
    /\ Send(c, "payload") \/ UNCHANGED stream
    /\ MoveWriter(c, w, "idle")
    /\ UNCHANGED <<dialer, shared, skip, handshake>>

WriteStep(c, w) == WriteLock(c, w) \/ WriteAddress(c, w) \/ WritePayload(c, w)
=============================================================================
