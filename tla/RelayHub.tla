------------------------------ MODULE RelayHub ------------------------------
(***************************************************************************)
(* The WebSocket relay (services/relay): each sidecar connection has a     *)
(* read loop and a write loop, the hub maps a user to one connection, and  *)
(* every POST /dispatch handler is a goroutine that looks the connection   *)
(* up, enters itself in the connection's pending table, queues a frame and *)
(* waits on its own channel.  The sidecar (desktop relay_client.rs) reads  *)
(* one frame at a time and runs its task before it reads the next one.     *)
(*                                                                         *)
(* One action per critical section: between two actions any other          *)
(* goroutine may run.                                                      *)
(***************************************************************************)
EXTENDS Naturals, Sequences

CONSTANTS
  Users,       \* user ids, the "sub" of the sidecar's JWT
  Conns,       \* WebSocket connections; each is dialled once
  Reqs,        \* dispatch requests, each with its own random request_id
  UserOf,      \* the user each connection authenticated as
  Target,      \* the user_id each request is addressed to
  BufCap,      \* capacity of a connection's send channel (16 in the code)
  Hasty,       \* connections whose client speaks before it registers
  NoConn,
  NoReq        \* the request_id of a frame that answers no dispatch

ASSUME RelayAssumption ==
  /\ UserOf \in [Conns -> Users]
  /\ Target \in [Reqs -> Users]
  /\ BufCap \in Nat \ {0}
  /\ Hasty \subseteq Conns
  /\ NoConn \notin Conns
  /\ NoReq \notin Reqs

VARIABLES
  sock,        \* the socket of each connection
  reader,      \* progress of each connection's readLoop
  writer,      \* progress of each connection's writeLoop
  hub,         \* user -> registered connection (hub.conns)
  send,        \* the connection's send channel
  pending,     \* the request ids in the connection's pending table
  respCh,      \* the one-slot response channel of each request
  disp,        \* progress of each dispatch handler
  link,        \* the connection a dispatch handler got from the hub
  outcome,     \* how each dispatch handler answered
  late,        \* history: requests that entered a table already drained
  side,        \* the sidecar's end of the connection
  up, down,    \* frames on the wire, to the relay and to the sidecar
  ran          \* requests whose task a sidecar has started (history)

relayVars == <<sock, reader, writer, hub, send, pending, respCh>>
dispVars  == <<disp, link, outcome, late>>
sideVars  == <<side, up, down, ran>>
vars      == <<relayVars, dispVars, sideVars>>

-----------------------------------------------------------------------------
(* Frames and types. *)

Ack         == [type |-> "ack"]
Register    == [type |-> "register"]
Dispatch(r) == [type |-> "dispatch", id |-> r]
Response(r) == [type |-> "response", id |-> r]
Early       == [type |-> "response", id |-> NoReq]

ToSidecar == {Ack} \cup {Dispatch(r) : r \in Reqs}
ToRelay   == {Register, Early} \cup {Response(r) : r \in Reqs}

Reading     == [at |-> "reading"]
Handling(r) == [at |-> "handling", id |-> r]
SideStates  == {[at |-> a] : a \in {"off", "hasty", "dialed", "reading", "gone"}}
                 \cup {Handling(r) : r \in Reqs}

ReaderStates == {"off", "fresh", "registering", "running", "leaving", "done"}
DispStates   == {"new", "found", "entered", "waiting", "leaving", "done"}

TypeOK ==
  /\ sock    \in [Conns -> {"unused", "open", "closed"}]
  /\ reader  \in [Conns -> ReaderStates]
  /\ writer  \in [Conns -> {"off", "running", "done"}]
  /\ hub     \in [Users -> Conns \cup {NoConn}]
  /\ send    \in [Conns -> Seq(ToSidecar)]
  /\ \A c \in Conns : Len(send[c]) <= BufCap
  /\ pending \in [Conns -> SUBSET Reqs]
  /\ respCh  \in [Reqs -> {"empty", "response", "disconnect"}]
  /\ disp    \in [Reqs -> DispStates]
  /\ link    \in [Reqs -> Conns \cup {NoConn}]
  /\ outcome \in [Reqs -> {"none", "ok", "offline", "timeout", "disconnect"}]
  /\ late    \in SUBSET Reqs
  /\ side    \in [Conns -> SideStates]
  /\ up      \in [Conns -> Seq(ToRelay)]
  /\ down    \in [Conns -> Seq(ToSidecar)]
  /\ ran     \in SUBSET Reqs

Init ==
  /\ sock    = [c \in Conns |-> "unused"]
  /\ reader  = [c \in Conns |-> "off"]
  /\ writer  = [c \in Conns |-> "off"]
  /\ hub     = [u \in Users |-> NoConn]
  /\ send    = [c \in Conns |-> <<>>]
  /\ pending = [c \in Conns |-> {}]
  /\ respCh  = [r \in Reqs |-> "empty"]
  /\ disp    = [r \in Reqs |-> "new"]
  /\ link    = [r \in Reqs |-> NoConn]
  /\ outcome = [r \in Reqs |-> "none"]
  /\ late    = {}
  /\ side    = [c \in Conns |-> [at |-> "off"]]
  /\ up      = [c \in Conns |-> <<>>]
  /\ down    = [c \in Conns |-> <<>>]
  /\ ran     = {}

-----------------------------------------------------------------------------
(* The sidecar: connect_once dials, registers, and then serves one frame   *)
(* after another.                                                          *)

SidecarAt(c, a) == side[c].at = a

\* The upgrade starts both loops; the connection is not registered yet.
Dial(c) ==
  /\ sock[c] = "unused"
  /\ sock'   = [sock EXCEPT ![c] = "open"]
  /\ reader' = [reader EXCEPT ![c] = "fresh"]
  /\ writer' = [writer EXCEPT ![c] = "running"]
  /\ side'   = [side EXCEPT ![c] = [at |-> IF c \in Hasty THEN "hasty" ELSE "dialed"]]
  /\ UNCHANGED <<hub, send, pending, respCh, dispVars, up, down, ran>>

\* A client other than ours: its first frame is not a register frame.
SidecarSpeaksEarly(c) ==
  /\ SidecarAt(c, "hasty")
  /\ up'   = [up EXCEPT ![c] = Append(@, Early)]
  /\ side' = [side EXCEPT ![c] = [at |-> "dialed"]]
  /\ UNCHANGED <<relayVars, dispVars, down, ran>>

SidecarRegister(c) ==
  /\ SidecarAt(c, "dialed")
  /\ up'   = [up EXCEPT ![c] = Append(@, Register)]
  /\ side' = [side EXCEPT ![c] = Reading]
  /\ UNCHANGED <<relayVars, dispVars, down, ran>>

\* The next frame off the wire: anything but a dispatch is skipped, a
\* dispatch is handled before the stream is polled again.
SidecarRead(c) ==
  /\ SidecarAt(c, "reading")
  /\ down[c] # <<>>
  /\ down' = [down EXCEPT ![c] = Tail(@)]
  /\ LET f == Head(down[c]) IN
       IF f.type = "dispatch"
         THEN /\ side' = [side EXCEPT ![c] = Handling(f.id)]
              /\ ran'  = ran \cup {f.id}
         ELSE UNCHANGED <<side, ran>>
  /\ UNCHANGED <<relayVars, dispVars, up>>

\* The handler returned; sending on a closed socket ends the connection.
SidecarReply(c) ==
  /\ SidecarAt(c, "handling")
  /\ IF sock[c] = "open"
       THEN /\ up'   = [up EXCEPT ![c] = Append(@, Response(side[c].id))]
            /\ side' = [side EXCEPT ![c] = Reading]
       ELSE /\ side' = [side EXCEPT ![c] = [at |-> "gone"]]
            /\ UNCHANGED up
  /\ UNCHANGED <<relayVars, dispVars, down, ran>>

\* The stream ends after the frames that were already on the wire.
SidecarSeesClose(c) ==
  /\ SidecarAt(c, "reading")
  /\ sock[c] = "closed"
  /\ down[c] = <<>>
  /\ side' = [side EXCEPT ![c] = [at |-> "gone"]]
  /\ UNCHANGED <<relayVars, dispVars, up, down, ran>>

\* The app quits (the socket closes) or the machine vanishes (it does not).
SidecarGone(c) ==
  /\ side[c].at \in {"hasty", "dialed", "reading", "handling"}
  /\ side' = [side EXCEPT ![c] = [at |-> "gone"]]
  /\ sock' \in {sock, [sock EXCEPT ![c] = "closed"]}
  /\ UNCHANGED <<reader, writer, hub, send, pending, respCh, dispVars,
                 up, down, ran>>

-----------------------------------------------------------------------------
(* readLoop and the hub. *)

\* A defect: the channel grows instead of dropping the frame.
QueueSendUnbounded(c, f) == send' = [send EXCEPT ![c] = Append(@, f)]

\* queueSend: a full channel drops the frame.
QueueSend(c, f) ==
  send' = [send EXCEPT ![c] = IF Len(@) < BufCap THEN Append(@, f) ELSE @]

\* The loop takes the next frame.
ReadFrame(c, kind) ==
  /\ up[c] # <<>>
  /\ Head(up[c]).type = kind
  /\ up' = [up EXCEPT ![c] = Tail(@)]

\* hub.register: the previous connection of the user is closed, the last
\* one to register wins.
ReadRegister(c) ==
  LET u == UserOf[c] IN
  /\ reader[c] = "fresh"
  /\ ReadFrame(c, "register")
  /\ reader' = [reader EXCEPT ![c] = "registering"]
  /\ sock' = IF hub[u] \notin {NoConn, c}
               THEN [sock EXCEPT ![hub[u]] = "closed"]
               ELSE sock
  /\ hub' = [hub EXCEPT ![u] = c]
  /\ UNCHANGED <<writer, send, pending, respCh, dispVars, side, down, ran>>

\* The ack is queued after the hub's lock is released.
QueueAck(c) ==
  /\ reader[c] = "registering"
  /\ reader' = [reader EXCEPT ![c] = "running"]
  /\ QueueSend(c, Ack)
  /\ UNCHANGED <<sock, writer, hub, pending, respCh, dispVars, sideVars>>

\* A response before register is skipped and the loop goes on.
ReadEarly(c) ==
  /\ reader[c] = "fresh"
  /\ ReadFrame(c, "response")
  /\ UNCHANGED <<relayVars, dispVars, side, down, ran>>

\* deliverResponse: whoever removes the entry from the pending table is the
\* one to fill the channel; a response nobody waits for is dropped.
ReadResponse(c) ==
  /\ reader[c] = "running"
  /\ ReadFrame(c, "response")
  /\ LET r == Head(up[c]).id IN
       IF r \in pending[c]
         THEN /\ pending' = [pending EXCEPT ![c] = @ \ {r}]
              /\ respCh'  = [respCh EXCEPT ![r] = IF @ = "empty" THEN "response" ELSE @]
         ELSE UNCHANGED <<pending, respCh>>
  /\ UNCHANGED <<sock, reader, writer, hub, send, dispVars, side, down, ran>>

\* ReadMessage fails: the socket is closed, or readWait passed without a pong
\* (other frames do not extend it).  A sidecar that is running a task or is
\* gone sends no pong.  The loop ends; it does not close the socket.
ReadFails(c) ==
  /\ reader[c] \in {"fresh", "running"}
  /\ \/ sock[c] = "closed"
     \/ side[c].at \in {"handling", "gone"}
  /\ reader' = [reader EXCEPT ![c] = "leaving"]
  /\ UNCHANGED <<sock, writer, hub, send, pending, respCh, dispVars, sideVars>>

\* Three defects of unregister: it removes whichever connection its user has;
\* it removes none; it forgets the waiting requests without waking them.
UnregisterUser(c) ==
  /\ reader[c] = "leaving"
  /\ reader'  = [reader EXCEPT ![c] = "done"]
  /\ hub'     = [hub EXCEPT ![UserOf[c]] = NoConn]
  /\ respCh'  = [r \in Reqs |-> IF r \in pending[c] /\ respCh[r] = "empty"
                                  THEN "disconnect" ELSE respCh[r]]
  /\ pending' = [pending EXCEPT ![c] = {}]
  /\ UNCHANGED <<sock, writer, send, dispVars, sideVars>>

UnregisterKeepsHub(c) ==
  /\ reader[c] = "leaving"
  /\ reader'  = [reader EXCEPT ![c] = "done"]
  /\ respCh'  = [r \in Reqs |-> IF r \in pending[c] /\ respCh[r] = "empty"
                                  THEN "disconnect" ELSE respCh[r]]
  /\ pending' = [pending EXCEPT ![c] = {}]
  /\ UNCHANGED <<sock, writer, hub, send, dispVars, sideVars>>

UnregisterSilently(c) ==
  /\ reader[c] = "leaving"
  /\ reader'  = [reader EXCEPT ![c] = "done"]
  /\ hub'     = [hub EXCEPT ![UserOf[c]] = IF @ = c THEN NoConn ELSE @]
  /\ pending' = [pending EXCEPT ![c] = {}]
  /\ UNCHANGED <<sock, writer, send, respCh, dispVars, sideVars>>

\* hub.unregister, deferred by readLoop: only the connection itself is
\* taken out of the hub, and every request still pending is woken.
Unregister(c) ==
  LET u == UserOf[c] IN
  /\ reader[c] = "leaving"
  /\ reader'  = [reader EXCEPT ![c] = "done"]
  /\ hub'     = [hub EXCEPT ![u] = IF @ = c THEN NoConn ELSE @]
  /\ respCh'  = [r \in Reqs |-> IF r \in pending[c] /\ respCh[r] = "empty"
                                  THEN "disconnect" ELSE respCh[r]]
  /\ pending' = [pending EXCEPT ![c] = {}]
  /\ UNCHANGED <<sock, writer, send, dispVars, sideVars>>

-----------------------------------------------------------------------------
(* writeLoop. *)

WriteFrame(c) ==
  /\ writer[c] = "running"
  /\ sock[c] = "open"
  /\ send[c] # <<>>
  /\ send' = [send EXCEPT ![c] = Tail(@)]
  /\ down' = [down EXCEPT ![c] = Append(@, Head(send[c]))]
  /\ UNCHANGED <<sock, reader, writer, hub, pending, respCh, dispVars,
                 side, up, ran>>

\* A frame or a ping cannot be written: the loop closes the socket.
WriteFails(c) ==
  /\ writer[c] = "running"
  /\ sock[c] = "closed" \/ SidecarAt(c, "gone")
  /\ writer' = [writer EXCEPT ![c] = "done"]
  /\ sock'   = [sock EXCEPT ![c] = "closed"]
  /\ UNCHANGED <<reader, hub, send, pending, respCh, dispVars, sideVars>>

-----------------------------------------------------------------------------
(* handleDispatch and dispatchToUser. *)

\* hub.get: an offline user is answered at once.
Lookup(r) ==
  LET c == hub[Target[r]] IN
  /\ disp[r] = "new"
  /\ IF c = NoConn
       THEN /\ disp'    = [disp EXCEPT ![r] = "done"]
            /\ outcome' = [outcome EXCEPT ![r] = "offline"]
            /\ UNCHANGED link
       ELSE /\ disp' = [disp EXCEPT ![r] = "found"]
            /\ link' = [link EXCEPT ![r] = c]
            /\ UNCHANGED outcome
  /\ UNCHANGED <<relayVars, late, sideVars>>

\* The lookup and this are two critical sections: the connection may have
\* been unregistered, and its table drained, in between.
EnterPending(r) ==
  /\ disp[r] = "found"
  /\ disp'    = [disp EXCEPT ![r] = "entered"]
  /\ pending' = [pending EXCEPT ![link[r]] = @ \cup {r}]
  /\ late'    = IF reader[link[r]] = "done" THEN late \cup {r} ELSE late
  /\ UNCHANGED <<sock, reader, writer, hub, send, respCh, link, outcome,
                 sideVars>>

\* A defect: a full channel blocks the handler.
QueueDispatchBlocking(r) ==
  /\ disp[r] = "entered"
  /\ Len(send[link[r]]) < BufCap
  /\ disp' = [disp EXCEPT ![r] = "waiting"]
  /\ QueueSend(link[r], Dispatch(r))
  /\ UNCHANGED <<sock, reader, writer, hub, pending, respCh, link, outcome,
                 late, sideVars>>

QueueDispatch(r) ==
  /\ disp[r] = "entered"
  /\ disp' = [disp EXCEPT ![r] = "waiting"]
  /\ QueueSend(link[r], Dispatch(r))
  /\ UNCHANGED <<sock, reader, writer, hub, pending, respCh, link, outcome,
                 late, sideVars>>

\* A defect: any frame on the channel counts as the sidecar's answer.
TakeAnyFrame(r) ==
  /\ disp[r] = "waiting"
  /\ respCh[r] # "empty"
  /\ respCh'  = [respCh EXCEPT ![r] = "empty"]
  /\ disp'    = [disp EXCEPT ![r] = "leaving"]
  /\ outcome' = [outcome EXCEPT ![r] = "ok"]
  /\ UNCHANGED <<sock, reader, writer, hub, send, pending, link, late, sideVars>>

TakeResponse(r) ==
  /\ disp[r] = "waiting"
  /\ respCh[r] # "empty"
  /\ respCh'  = [respCh EXCEPT ![r] = "empty"]
  /\ disp'    = [disp EXCEPT ![r] = "leaving"]
  /\ outcome' = [outcome EXCEPT ![r] = IF respCh[r] = "response" THEN "ok" ELSE "disconnect"]
  /\ UNCHANGED <<sock, reader, writer, hub, send, pending, link, late, sideVars>>

\* ctx.Done: select may take it even when a response is there.
Timeout(r) ==
  /\ disp[r] = "waiting"
  /\ disp'    = [disp EXCEPT ![r] = "leaving"]
  /\ outcome' = [outcome EXCEPT ![r] = "timeout"]
  /\ UNCHANGED <<relayVars, link, late, sideVars>>

\* A defect: only an answered handler cleans up.
LeavePendingIfAnswered(r) ==
  /\ disp[r] = "leaving"
  /\ disp'    = [disp EXCEPT ![r] = "done"]
  /\ pending' = IF outcome[r] = "timeout" THEN pending
                 ELSE [pending EXCEPT ![link[r]] = @ \ {r}]
  /\ UNCHANGED <<sock, reader, writer, hub, send, respCh, link, outcome,
                 late, sideVars>>

\* The deferred delete.
LeavePending(r) ==
  /\ disp[r] = "leaving"
  /\ disp'    = [disp EXCEPT ![r] = "done"]
  /\ pending' = [pending EXCEPT ![link[r]] = @ \ {r}]
  /\ UNCHANGED <<sock, reader, writer, hub, send, respCh, link, outcome,
                 late, sideVars>>

-----------------------------------------------------------------------------
Sidecar(c)    == \/ SidecarSpeaksEarly(c) \/ SidecarRegister(c) \/ SidecarRead(c)
                 \/ SidecarReply(c) \/ SidecarSeesClose(c)
ReadLoop(c)   == \/ ReadRegister(c) \/ QueueAck(c) \/ ReadEarly(c)
                 \/ ReadResponse(c) \/ ReadFails(c) \/ Unregister(c)
WriteLoop(c)  == WriteFrame(c) \/ WriteFails(c)
Dispatcher(r) == \/ EnterPending(r) \/ QueueDispatch(r) \/ TakeResponse(r)
                 \/ Timeout(r) \/ LeavePending(r)

Next == \/ \E c \in Conns : \/ Dial(c) \/ Sidecar(c) \/ SidecarGone(c)
                            \/ ReadLoop(c) \/ WriteLoop(c)
        \/ \E r \in Reqs : Lookup(r) \/ Dispatcher(r)

Spec == Init /\ [][Next]_vars

\* Goroutines are scheduled, a failed read or write is eventually noticed, a
\* context deadline expires, a running sidecar goes on; nobody has to dial,
\* quit or send a request.
Fairness ==
  /\ \A c \in Conns : /\ WF_vars(Sidecar(c))
                      /\ WF_vars(ReadLoop(c))
                      /\ WF_vars(WriteLoop(c))
  /\ \A r \in Reqs : WF_vars(Dispatcher(r))

FairSpec == Spec /\ Fairness

-----------------------------------------------------------------------------
(* Safety. *)

Registered(c) == reader[c] \in {"registering", "running"}

\* A registered connection whose socket is open is the one the hub finds for
\* its user: the late unregister of a connection it replaced, or a second
\* register racing it, never makes the user look offline.
LiveIsReachable ==
  \A c \in Conns : Registered(c) /\ sock[c] = "open" => hub[UserOf[c]] = c

\* The hub never finds a connection of another user, one that has not
\* registered, or one whose read loop has finished.
HubNotStale ==
  \A u \in Users : hub[u] # NoConn =>
    UserOf[hub[u]] = u /\ (Registered(hub[u]) \/ reader[hub[u]] = "leaving")

\* A pending entry belongs to a dispatch handler that is still running on
\* that connection: neither a timeout nor an entry made after the table was
\* drained leaves one behind.
NoPendingLeak ==
  \A c \in Conns : \A r \in pending[c] :
    link[r] = c /\ disp[r] \in {"entered", "waiting", "leaving"}

\* Nobody who waits is forgotten: its entry is in the table of a connection
\* whose reader will still drain it, or its channel holds what woke it.
\* Response and disconnect may race, but the one that removes the entry fills
\* the channel.  Left out is who entered a table that had been drained: the
\* deadline alone wakes it (ws.go:277-278 promises a disconnect frame).
WaiterCanBeWoken ==
  \A r \in Reqs \ late : disp[r] \in {"entered", "waiting"} =>
    \/ respCh[r] # "empty"
    \/ r \in pending[link[r]] /\ reader[link[r]] # "done"

\* The relay is an implementation of the dispatch service.
Service == INSTANCE RelayDispatch
ServiceSpec == Service!Spec

(* Liveness. *)

\* Every dispatch is answered, whatever the sidecar does.
EveryDispatchAnswered == \A r \in Reqs : (disp[r] # "new") ~> (disp[r] = "done")

\* A sidecar that is gone is not offered to dispatchers for ever.
GoneIsForgotten ==
  \A c \in Conns : SidecarAt(c, "gone") ~> (hub[UserOf[c]] # c)
=============================================================================
