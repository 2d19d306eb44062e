--------------------------- MODULE RelayHub_proofs ---------------------------
(***************************************************************************)
(* Proofs about RelayHub, for any number of users, connections, requests   *)
(* and any channel capacity.                                               *)
(***************************************************************************)
EXTENDS RelayHub, TLAPS

-----------------------------------------------------------------------------
(* Frames and types. *)

\* A frame of type dispatch on its way to a sidecar names a request.
LEMMA DispatchFrame ==
  ASSUME NEW f \in ToSidecar, f.type = "dispatch"
  PROVE  \E r \in Reqs : f = Dispatch(r) /\ f.id = r
BY DEF ToSidecar, Ack, Dispatch

\* What the frame constructors build.
LEMMA FrameTypes ==
  /\ Ack \in ToSidecar
  /\ \A r \in Reqs : Dispatch(r) \in ToSidecar
  /\ Register \in ToRelay /\ Early \in ToRelay
  /\ \A r \in Reqs : Response(r) \in ToRelay
BY DEF ToSidecar, ToRelay

\* Queueing a frame keeps every send channel within its capacity.
LEMMA QueueSendType ==
  ASSUME TypeOK, NEW c \in Conns, NEW f \in ToSidecar, QueueSend(c, f)
  PROVE  /\ send' \in [Conns -> Seq(ToSidecar)]
         /\ \A d \in Conns : Len(send'[d]) <= BufCap
<1>1. send'[c] \in Seq(ToSidecar) /\ Len(send'[c]) <= BufCap
  <2>1. CASE Len(send[c]) < BufCap
    <3>1. send'[c] = Append(send[c], f)
      BY <2>1 DEF TypeOK, QueueSend
    <3> QED BY <2>1, <3>1, RelayAssumption DEF TypeOK
  <2>2. CASE ~(Len(send[c]) < BufCap)
    BY <2>2 DEF TypeOK, QueueSend
  <2> QED BY <2>1, <2>2
<1>2. \A d \in Conns : d # c => send'[d] = send[d]
  BY DEF TypeOK, QueueSend
<1>3. send' = [send EXCEPT ![c] = send'[c]]
  BY DEF TypeOK, QueueSend
<1> QED BY <1>1, <1>2, <1>3 DEF TypeOK

\* Reading a frame shortens the queue.
LEMMA ReadFrameType ==
  ASSUME TypeOK, NEW c \in Conns, NEW kind, ReadFrame(c, kind)
  PROVE  up' \in [Conns -> Seq(ToRelay)]
BY DEF TypeOK, ReadFrame

LEMMA InitTypeOK == Init => TypeOK
<1> SUFFICES ASSUME Init PROVE TypeOK
  OBVIOUS
<1>1. \A c \in Conns : send[c] = <<>> /\ Len(send[c]) = 0
  BY DEF Init
<1>2. \A c \in Conns : Len(send[c]) <= BufCap
  BY <1>1, RelayAssumption
<1> QED BY <1>2 DEF Init, TypeOK, SideStates, ReaderStates, DispStates

\* The sidecar's steps.
LEMMA SidecarType ==
  ASSUME TypeOK, NEW c \in Conns, Dial(c) \/ Sidecar(c) \/ SidecarGone(c)
  PROVE  TypeOK'
<1> USE FrameTypes DEF SideStates, ReaderStates
<1>1. CASE Dial(c)
  BY <1>1 DEF TypeOK, Dial, dispVars
<1>2. CASE SidecarSpeaksEarly(c)
  BY <1>2 DEF TypeOK, SidecarSpeaksEarly, relayVars, dispVars
<1>3. CASE SidecarRegister(c)
  BY <1>3 DEF TypeOK, SidecarRegister, relayVars, dispVars, Reading
<1>4. CASE SidecarRead(c)
  <2> DEFINE f == Head(down[c])
  <2>1. f \in ToSidecar /\ Tail(down[c]) \in Seq(ToSidecar)
    BY <1>4 DEF SidecarRead, TypeOK
  <2>2. CASE f.type = "dispatch"
    <3>1. f.id \in Reqs
      BY <2>1, <2>2, DispatchFrame
    <3>2. Handling(f.id) \in SideStates
      BY <3>1
    <3>3. side' = [side EXCEPT ![c] = Handling(f.id)] /\ ran' = ran \cup {f.id}
      BY <1>4, <2>2 DEF SidecarRead
    <3>4. side' \in [Conns -> SideStates] /\ ran' \in SUBSET Reqs
      BY <3>1, <3>2, <3>3 DEF TypeOK
    <3> QED BY <1>4, <2>1, <3>4 DEF TypeOK, SidecarRead, relayVars, dispVars
  <2>3. CASE f.type # "dispatch"
    BY <1>4, <2>1, <2>3 DEF TypeOK, SidecarRead, relayVars, dispVars
  <2> QED BY <2>2, <2>3
<1>5. CASE SidecarReply(c)
  <2>1. side[c] \in SideStates /\ side[c].at = "handling"
    BY <1>5 DEF TypeOK, SidecarReply, SidecarAt
  <2>2. Response(side[c].id) \in ToRelay
    BY <2>1, FrameTypes DEF Handling
  <2>3. Reading \in SideStates
    BY DEF Reading
  <2>4. side' \in [Conns -> SideStates]
    BY <1>5, <2>3 DEF TypeOK, SidecarReply
  <2>5. up' \in [Conns -> Seq(ToRelay)]
    <3>1. up' = [up EXCEPT ![c] = Append(@, Response(side[c].id))] \/ up' = up
      BY <1>5 DEF SidecarReply
    <3>2. up \in [Conns -> Seq(ToRelay)]
      BY DEF TypeOK
    <3>3. Append(up[c], Response(side[c].id)) \in Seq(ToRelay)
      BY <2>2, <3>2
    <3> QED BY <3>1, <3>2, <3>3
  <2> QED BY <1>5, <2>4, <2>5 DEF TypeOK, SidecarReply, relayVars, dispVars
<1>6. CASE SidecarSeesClose(c)
  BY <1>6 DEF TypeOK, SidecarSeesClose, relayVars, dispVars
<1>7. CASE SidecarGone(c)
  BY <1>7 DEF TypeOK, SidecarGone, dispVars
<1> QED BY <1>1, <1>2, <1>3, <1>4, <1>5, <1>6, <1>7 DEF Sidecar

\* The connection's loops.
LEMMA LoopType ==
  ASSUME TypeOK, NEW c \in Conns, ReadLoop(c) \/ WriteLoop(c)
  PROVE  TypeOK'
<1> USE DEF ReaderStates
<1>0. UserOf[c] \in Users
  BY RelayAssumption
<1>1. CASE ReadRegister(c)
  <2>1. /\ sock' \in [Conns -> {"unused", "open", "closed"}]
        /\ reader' \in [Conns -> ReaderStates]
        /\ hub' \in [Users -> Conns \cup {NoConn}]
    BY <1>0, <1>1 DEF TypeOK, ReadRegister
  <2>2. up' \in [Conns -> Seq(ToRelay)]
    BY <1>1, ReadFrameType DEF ReadRegister
  <2> QED BY <1>1, <2>1, <2>2 DEF TypeOK, ReadRegister, dispVars
<1>2. CASE QueueAck(c)
  BY <1>2, FrameTypes, QueueSendType DEF TypeOK, QueueAck, dispVars, sideVars
<1>3. CASE ReadEarly(c)
  BY <1>3 DEF TypeOK, ReadEarly, ReadFrame, relayVars, dispVars
<1>4. CASE ReadResponse(c)
  <2>1. pending' \in [Conns -> SUBSET Reqs]
    <3>1. \/ pending' = [pending EXCEPT ![c] = @ \ {Head(up[c]).id}]
          \/ pending' = pending
      BY <1>4 DEF ReadResponse
    <3>2. pending \in [Conns -> SUBSET Reqs]
      BY DEF TypeOK
    <3> QED BY <3>1, <3>2
  <2>2. respCh' \in [Reqs -> {"empty", "response", "disconnect"}]
    <3> DEFINE r == Head(up[c]).id
    <3>1. respCh' = respCh \/ respCh' = [respCh EXCEPT ![r] = "response"]
      <4>1. \/ respCh' = [respCh EXCEPT ![r] = IF @ = "empty" THEN "response" ELSE @]
            \/ respCh' = respCh
        BY <1>4 DEF ReadResponse
      <4> QED BY <4>1 DEF TypeOK
    <3> QED BY <3>1 DEF TypeOK
  <2>3. ReadFrame(c, "response")
    BY <1>4 DEF ReadResponse
  <2> QED BY <1>4, <2>1, <2>2, <2>3, ReadFrameType DEF TypeOK, ReadResponse, dispVars
<1>5. CASE ReadFails(c)
  BY <1>5 DEF TypeOK, ReadFails, dispVars, sideVars
<1>6. CASE Unregister(c)
  BY <1>0, <1>6 DEF TypeOK, Unregister, dispVars, sideVars
<1>7. CASE WriteFrame(c)
  <2>1. send[c] \in Seq(ToSidecar) /\ Len(send[c]) <= BufCap /\ send[c] # <<>>
    BY <1>7 DEF TypeOK, WriteFrame
  <2>2. /\ Head(send[c]) \in ToSidecar
        /\ Tail(send[c]) \in Seq(ToSidecar)
        /\ Len(Tail(send[c])) <= BufCap
    BY <2>1, RelayAssumption
  <2>3. Append(down[c], Head(send[c])) \in Seq(ToSidecar)
    BY <2>2 DEF TypeOK
  <2> QED BY <1>7, <2>2, <2>3 DEF TypeOK, WriteFrame, dispVars
<1>8. CASE WriteFails(c)
  BY <1>8 DEF TypeOK, WriteFails, dispVars, sideVars
<1> QED BY <1>1, <1>2, <1>3, <1>4, <1>5, <1>6, <1>7, <1>8 DEF ReadLoop, WriteLoop

\* The dispatch handlers.
LEMMA HandlerType ==
  ASSUME TypeOK, NEW r \in Reqs, Lookup(r) \/ Dispatcher(r)
  PROVE  TypeOK'
<1> USE DEF DispStates
<1>0. Target[r] \in Users
  BY RelayAssumption
<1>1. CASE Lookup(r)
  <2>1. hub[Target[r]] \in Conns \cup {NoConn}
    BY <1>0 DEF TypeOK
  <2>2. /\ disp' \in [Reqs -> DispStates]
        /\ link' \in [Reqs -> Conns \cup {NoConn}]
        /\ outcome' \in [Reqs -> {"none", "ok", "offline", "timeout", "disconnect"}]
    <3>1. CASE hub[Target[r]] = NoConn
      <4>1. /\ disp' = [disp EXCEPT ![r] = "done"]
            /\ outcome' = [outcome EXCEPT ![r] = "offline"]
            /\ link' = link
        BY <1>1, <3>1 DEF Lookup
      <4> QED BY <4>1 DEF TypeOK
    <3>2. CASE hub[Target[r]] # NoConn
      <4>1. /\ disp' = [disp EXCEPT ![r] = "found"]
            /\ link' = [link EXCEPT ![r] = hub[Target[r]]]
            /\ outcome' = outcome
        BY <1>1, <3>2 DEF Lookup
      <4> QED BY <2>1, <4>1 DEF TypeOK
    <3> QED BY <3>1, <3>2
  <2> QED BY <1>1, <2>2 DEF TypeOK, Lookup, relayVars, sideVars
<1>2. CASE EnterPending(r)
  BY <1>2 DEF TypeOK, EnterPending, sideVars
<1>3. CASE QueueDispatch(r)
  <2>1. CASE link[r] \in Conns
    BY <1>3, <2>1, FrameTypes, QueueSendType DEF TypeOK, QueueDispatch, sideVars
  <2>2. CASE link[r] \notin Conns
    <3>1. send' = send
      BY <1>3, <2>2 DEF TypeOK, QueueDispatch, QueueSend
    <3> QED BY <1>3, <3>1 DEF TypeOK, QueueDispatch, sideVars
  <2> QED BY <2>1, <2>2
<1>4. CASE TakeResponse(r)
  BY <1>4 DEF TypeOK, TakeResponse, sideVars
<1>5. CASE Timeout(r)
  BY <1>5 DEF TypeOK, Timeout, relayVars, sideVars
<1>6. CASE LeavePending(r)
  BY <1>6 DEF TypeOK, LeavePending, sideVars
<1> QED BY <1>1, <1>2, <1>3, <1>4, <1>5, <1>6 DEF Dispatcher

LEMMA StutterType == TypeOK /\ UNCHANGED vars => TypeOK'
BY DEF TypeOK, vars, relayVars, dispVars, sideVars

\* Type correctness, with the bound on every send channel (queueSend drops
\* a frame rather than grow it).
THEOREM TypeCorrect == Spec => []TypeOK
<1>1. TypeOK /\ [Next]_vars => TypeOK'
  BY SidecarType, LoopType, HandlerType, StutterType DEF Next
<1> QED BY <1>1, InitTypeOK, PTL DEF Spec
-----------------------------------------------------------------------------
(* The hub.  Its invariant needs one more fact than the two properties: a  *)
(* connection that was never dialled has no read loop, so Dial cannot      *)
(* restart a loop whose connection the hub still holds.                    *)

Undialed == \A c \in Conns : sock[c] = "unused" => reader[c] = "off"

HubInv == Undialed /\ LiveIsReachable /\ HubNotStale

LEMMA HubInit == Init => HubInv
BY RelayAssumption DEF Init, HubInv, Undialed, LiveIsReachable, HubNotStale, Registered

\* A step that touches neither socket, read loop nor hub keeps the invariant.
LEMMA HubUntouched ==
  ASSUME HubInv, UNCHANGED <<sock, reader, hub>>
  PROVE  HubInv'
BY DEF HubInv, Undialed, LiveIsReachable, HubNotStale, Registered

\* The steps of a connection that do touch them.
LEMMA HubConn ==
  ASSUME TypeOK, HubInv, NEW c \in Conns,
         \/ Dial(c) \/ SidecarGone(c) \/ ReadRegister(c) \/ QueueAck(c)
         \/ ReadFails(c) \/ Unregister(c) \/ WriteFails(c)
  PROVE  HubInv'
<1> USE DEF TypeOK, HubInv, Undialed, LiveIsReachable, HubNotStale, Registered
<1>0. UserOf \in [Conns -> Users] /\ NoConn \notin Conns
  BY RelayAssumption
<1>1. CASE Dial(c)
  BY <1>0, <1>1 DEF Dial
<1>2. CASE SidecarGone(c)
  BY <1>0, <1>2 DEF SidecarGone
<1>3. CASE ReadRegister(c)
  <2> DEFINE u == UserOf[c]
  <2>1. /\ reader[c] = "fresh"
        /\ reader' = [reader EXCEPT ![c] = "registering"]
        /\ hub' = [hub EXCEPT ![u] = c]
        /\ sock' = IF hub[u] \notin {NoConn, c}
                     THEN [sock EXCEPT ![hub[u]] = "closed"] ELSE sock
    BY <1>3 DEF ReadRegister
  <2>2. Undialed'
    BY <1>0, <2>1
  <2>3. LiveIsReachable'
    BY <1>0, <2>1
  <2>4. HubNotStale'
    BY <1>0, <2>1
  <2> QED BY <2>2, <2>3, <2>4
<1>4. CASE QueueAck(c)
  BY <1>0, <1>4 DEF QueueAck
<1>5. CASE ReadFails(c)
  BY <1>0, <1>5 DEF ReadFails
<1>6. CASE Unregister(c)
  <2>1. /\ reader[c] = "leaving"
        /\ reader' = [reader EXCEPT ![c] = "done"]
        /\ hub' = [hub EXCEPT ![UserOf[c]] = IF @ = c THEN NoConn ELSE @]
        /\ sock' = sock
    BY <1>6 DEF Unregister
  <2>2. Undialed'
    BY <2>1
  <2>3. LiveIsReachable'
    BY <1>0, <2>1
  <2>4. HubNotStale'
    BY <1>0, <2>1
  <2> QED BY <2>2, <2>3, <2>4
<1>7. CASE WriteFails(c)
  BY <1>0, <1>7 DEF WriteFails
<1> QED BY <1>1, <1>2, <1>3, <1>4, <1>5, <1>6, <1>7

LEMMA HubStep == TypeOK /\ HubInv /\ [Next]_vars => HubInv'
<1> SUFFICES ASSUME TypeOK, HubInv, [Next]_vars
             PROVE  HubInv'
  OBVIOUS
<1>1. ASSUME NEW c \in Conns, Sidecar(c) \/ ReadEarly(c) \/ ReadResponse(c) \/ WriteFrame(c)
      PROVE  UNCHANGED <<sock, reader, hub>>
  BY <1>1 DEF Sidecar, SidecarSpeaksEarly, SidecarRegister, SidecarRead, SidecarReply,
              SidecarSeesClose, ReadEarly, ReadResponse, WriteFrame, relayVars
<1>2. ASSUME NEW r \in Reqs, Lookup(r) \/ Dispatcher(r)
      PROVE  UNCHANGED <<sock, reader, hub>>
  BY <1>2 DEF Dispatcher, Lookup, EnterPending, QueueDispatch, TakeResponse, Timeout,
              LeavePending, relayVars
<1>3. CASE UNCHANGED vars
  BY <1>3, HubUntouched DEF vars, relayVars
<1> QED BY <1>1, <1>2, <1>3, HubConn, HubUntouched DEF Next, ReadLoop, WriteLoop

\* Whatever connections replace one another, the hub finds the live one and
\* never a connection of another user or one whose read loop has ended
\* (register and unregister in ws.go).
THEOREM HubCorrect == Spec => [](LiveIsReachable /\ HubNotStale)
<1>1. TypeOK /\ HubInv /\ [Next]_vars => HubInv'
  BY HubStep
<1>2. HubInv => LiveIsReachable /\ HubNotStale
  BY DEF HubInv
<1> QED BY <1>1, <1>2, HubInit, TypeCorrect, PTL DEF Spec

-----------------------------------------------------------------------------
(* The pending tables.  A handler past the lookup has a connection, which  *)
(* is what makes its own entry land in a table.                            *)

LinkIsConn ==
  \A r \in Reqs : disp[r] \in {"found", "entered", "waiting", "leaving"} => link[r] \in Conns

PendingInv == LinkIsConn /\ NoPendingLeak /\ WaiterCanBeWoken

LEMMA PendingInit == Init => PendingInv
BY DEF Init, PendingInv, LinkIsConn, NoPendingLeak, WaiterCanBeWoken

LEMMA PendingUntouched ==
  ASSUME TypeOK, PendingInv, UNCHANGED <<pending, respCh, disp, link, late>>,
         \A c \in Conns : reader'[c] = "done" => reader[c] = "done"
  PROVE  PendingInv'
BY DEF PendingInv, LinkIsConn, NoPendingLeak, WaiterCanBeWoken

\* The read loop removes an entry only together with filling its channel.
LEMMA PendingConn ==
  ASSUME TypeOK, PendingInv, NEW c \in Conns, ReadResponse(c) \/ Unregister(c)
  PROVE  PendingInv'
<1> USE DEF TypeOK, PendingInv, LinkIsConn, NoPendingLeak, WaiterCanBeWoken
<1>1. CASE ReadResponse(c)
  <2> DEFINE q == Head(up[c]).id
  <2>1. UNCHANGED <<disp, link, late, reader>>
    BY <1>1 DEF ReadResponse, dispVars
  <2>2. CASE q \in pending[c]
    <3>1. /\ pending' = [pending EXCEPT ![c] = @ \ {q}]
          /\ respCh'  = [respCh EXCEPT ![q] = IF @ = "empty" THEN "response" ELSE @]
      BY <1>1, <2>2 DEF ReadResponse
    <3> HIDE DEF q
    <3> QED BY <2>1, <2>2, <3>1
  <2>3. CASE q \notin pending[c]
    <3>1. UNCHANGED <<pending, respCh>>
      BY <1>1, <2>3 DEF ReadResponse
    <3> QED BY <2>1, <3>1
  <2> QED BY <2>2, <2>3
<1>2. CASE Unregister(c)
  <2>1. /\ UNCHANGED <<disp, link, late>>
        /\ reader'  = [reader EXCEPT ![c] = "done"]
        /\ respCh'  = [r \in Reqs |-> IF r \in pending[c] /\ respCh[r] = "empty"
                                        THEN "disconnect" ELSE respCh[r]]
        /\ pending' = [pending EXCEPT ![c] = {}]
    BY <1>2 DEF Unregister, dispVars
  <2> QED BY <2>1
<1> QED BY <1>1, <1>2

\* The handler's own steps.
LEMMA PendingHandler ==
  ASSUME TypeOK, PendingInv, NEW r \in Reqs, Lookup(r) \/ Dispatcher(r)
  PROVE  PendingInv'
<1> USE DEF TypeOK, PendingInv, LinkIsConn, NoPendingLeak, WaiterCanBeWoken
<1>1. CASE Lookup(r)
  <2>1. hub[Target[r]] \in Conns \cup {NoConn}
    BY RelayAssumption
  <2>2. /\ disp[r] = "new"
        /\ UNCHANGED <<pending, respCh, late, reader>>
        /\ \/ disp' = [disp EXCEPT ![r] = "done"] /\ link' = link
           \/ /\ disp' = [disp EXCEPT ![r] = "found"]
              /\ link' = [link EXCEPT ![r] = hub[Target[r]]]
              /\ hub[Target[r]] # NoConn
    BY <1>1 DEF Lookup, relayVars
  <2>3. \A q \in Reqs : q # r => disp'[q] = disp[q] /\ link'[q] = link[q]
    BY <2>2
  <2>4. disp'[r] \in {"found", "done"} /\ (disp'[r] = "found" => link'[r] \in Conns)
    BY <2>1, <2>2
  <2>5. \A c \in Conns : r \notin pending[c]
    BY <2>2
  <2>6. LinkIsConn'
    BY <2>3, <2>4
  <2>7. NoPendingLeak'
    BY <2>2, <2>3, <2>5
  <2>8. WaiterCanBeWoken'
    BY <2>2, <2>3, <2>4
  <2> QED BY <2>6, <2>7, <2>8
<1>2. CASE EnterPending(r)
  BY <1>2 DEF EnterPending
<1>3. CASE QueueDispatch(r)
  BY <1>3 DEF QueueDispatch
<1>4. CASE TakeResponse(r)
  BY <1>4 DEF TakeResponse
<1>5. CASE Timeout(r)
  BY <1>5 DEF Timeout, relayVars
<1>6. CASE LeavePending(r)
  BY <1>6 DEF LeavePending
<1> QED BY <1>1, <1>2, <1>3, <1>4, <1>5, <1>6 DEF Dispatcher

LEMMA PendingStep == TypeOK /\ PendingInv /\ [Next]_vars => PendingInv'
<1> SUFFICES ASSUME TypeOK, PendingInv, [Next]_vars
             PROVE  PendingInv'
  OBVIOUS
<1>1. ASSUME NEW c \in Conns,
             \/ Dial(c) \/ Sidecar(c) \/ SidecarGone(c) \/ ReadRegister(c) \/ QueueAck(c)
             \/ ReadEarly(c) \/ ReadFails(c) \/ WriteLoop(c)
      PROVE  /\ UNCHANGED <<pending, respCh, disp, link, late>>
             /\ \A d \in Conns : reader'[d] = "done" => reader[d] = "done"
  BY <1>1 DEF TypeOK, Dial, Sidecar, SidecarSpeaksEarly, SidecarRegister, SidecarRead,
              SidecarReply, SidecarSeesClose, SidecarGone, ReadRegister, QueueAck,
              ReadEarly, ReadFails, WriteLoop, WriteFrame, WriteFails,
              relayVars, dispVars
<1>2. CASE UNCHANGED vars
  BY <1>2, PendingUntouched DEF vars, relayVars, dispVars
<1> QED BY <1>1, <1>2, PendingConn, PendingHandler, PendingUntouched DEF Next, ReadLoop

\* No table keeps an entry of a handler that is gone, and a handler that
\* waits can be woken without its deadline or has been woken already.
THEOREM PendingCorrect == Spec => [](NoPendingLeak /\ WaiterCanBeWoken)
<1>1. TypeOK /\ PendingInv /\ [Next]_vars => PendingInv'
  BY PendingStep
<1>2. PendingInv => NoPendingLeak /\ WaiterCanBeWoken
  BY DEF PendingInv
<1> QED BY <1>1, <1>2, PendingInit, TypeCorrect, PTL DEF Spec
-----------------------------------------------------------------------------
(* The relay implements RelayDispatch.  What makes it true is where the    *)
(* dispatch frame of a request can be: nowhere before the handler queues   *)
(* it, then in one send channel, then on the wire to that one sidecar, and *)
(* nowhere once the task has started.                                      *)

InFlight(s, r) == \E i \in 1..Len(s) : s[i] = Dispatch(r)
Twice(s, r)    == \E i, j \in 1..Len(s) : i # j /\ s[i] = Dispatch(r) /\ s[j] = Dispatch(r)

\* The handler has queued its frame (or dropped it).
Sent(r) == disp[r] \in {"waiting", "leaving", "done"} /\ outcome[r] # "offline"

FrameInv ==
  \A c \in Conns : \A r \in Reqs :
    /\ InFlight(send[c], r) \/ InFlight(down[c], r) => r \notin ran /\ Sent(r) /\ link[r] = c
    /\ ~Twice(send[c], r) /\ ~Twice(down[c], r)
    /\ ~(InFlight(send[c], r) /\ InFlight(down[c], r))

Says(s, r) == \E i \in 1..Len(s) : s[i] = Response(r)

\* Only a task that was started answers.
RanInv ==
  /\ \A r \in ran : Sent(r)
  /\ \A c \in Conns : side[c].at = "handling" => side[c].id \in ran
  /\ \A c \in Conns : \A r \in Reqs : Says(up[c], r) => r \in ran
  /\ \A r \in Reqs : respCh[r] = "response" => r \in ran
  /\ \A r \in Reqs : disp[r] \in {"new", "found", "entered", "waiting"} => outcome[r] = "none"

ServiceInv == FrameInv /\ RanInv

LEMMA DispatchUnique ==
  ASSUME NEW q, NEW r, Dispatch(q) = Dispatch(r)
  PROVE  q = r
<1>1. Dispatch(q).id = q /\ Dispatch(r).id = r
  BY DEF Dispatch
<1> QED BY <1>1

LEMMA AppendFrame ==
  ASSUME NEW s \in Seq(ToSidecar), NEW f \in ToSidecar, NEW r
  PROVE  /\ InFlight(Append(s, f), r) => InFlight(s, r) \/ f = Dispatch(r)
         /\ Twice(Append(s, f), r) => Twice(s, r) \/ (InFlight(s, r) /\ f = Dispatch(r))
<1> HIDE DEF Dispatch, ToSidecar
<1>1. /\ Len(Append(s, f)) = Len(s) + 1
      /\ Append(s, f)[Len(s) + 1] = f
      /\ \A i \in 1..Len(s) : Append(s, f)[i] = s[i]
      /\ Len(s) \in Nat
  OBVIOUS
<1>2. \A i \in 1..(Len(s) + 1) : i \in 1..Len(s) \/ i = Len(s) + 1
  BY <1>1
<1> QED BY <1>1, <1>2 DEF InFlight, Twice

LEMMA TailFrame ==
  ASSUME NEW s \in Seq(ToSidecar), s # <<>>, NEW r
  PROVE  /\ InFlight(Tail(s), r) => InFlight(s, r)
         /\ Twice(Tail(s), r) => Twice(s, r)
         /\ Head(s) = Dispatch(r) => InFlight(s, r)
         /\ Head(s) = Dispatch(r) /\ ~Twice(s, r) => ~InFlight(Tail(s), r)
<1>1. /\ Len(s) \in Nat \ {0}
      /\ Len(Tail(s)) = Len(s) - 1
      /\ Head(s) = s[1]
      /\ \A i \in 1..Len(Tail(s)) : Tail(s)[i] = s[i + 1]
  OBVIOUS
<1>2. /\ 1 \in 1..Len(s)
      /\ \A i \in 1..Len(Tail(s)) : i + 1 \in 1..Len(s) /\ i + 1 # 1
      /\ \A i, j \in 1..Len(Tail(s)) : i # j => i + 1 # j + 1
  BY <1>1
<1>3. InFlight(Tail(s), r) => InFlight(s, r)
  BY <1>1, <1>2 DEF InFlight
<1>4. Twice(Tail(s), r) => Twice(s, r)
  BY <1>1, <1>2 DEF Twice
<1>5. Head(s) = Dispatch(r) => InFlight(s, r)
  BY <1>1, <1>2 DEF InFlight
<1>6. Head(s) = Dispatch(r) /\ ~Twice(s, r) => ~InFlight(Tail(s), r)
  BY <1>1, <1>2 DEF InFlight, Twice
<1> QED BY <1>3, <1>4, <1>5, <1>6

LEMMA NoFrames == \A r : ~InFlight(<<>>, r) /\ ~Twice(<<>>, r)
BY DEF InFlight, Twice

LEMMA AppendResponse ==
  ASSUME NEW s \in Seq(ToRelay), NEW f \in ToRelay, NEW r, Says(Append(s, f), r)
  PROVE  Says(s, r) \/ f = Response(r)
<1>1. /\ Len(Append(s, f)) = Len(s) + 1
      /\ Append(s, f)[Len(s) + 1] = f
      /\ \A i \in 1..Len(s) : Append(s, f)[i] = s[i]
      /\ Len(s) \in Nat
  OBVIOUS
<1>2. \A i \in 1..(Len(s) + 1) : i \in 1..Len(s) \/ i = Len(s) + 1
  BY <1>1
<1> QED BY <1>1, <1>2 DEF Says

LEMMA TailResponse ==
  ASSUME NEW s \in Seq(ToRelay), s # <<>>, NEW r
  PROVE  /\ Says(Tail(s), r) => Says(s, r)
         /\ Head(s) = Response(r) => Says(s, r)
<1>1. /\ Len(s) \in Nat \ {0}
      /\ Len(Tail(s)) = Len(s) - 1
      /\ Head(s) = s[1]
      /\ \A i \in 1..Len(Tail(s)) : Tail(s)[i] = s[i + 1]
  OBVIOUS
<1>2. 1 \in 1..Len(s) /\ \A i \in 1..Len(Tail(s)) : i + 1 \in 1..Len(s)
  BY <1>1
<1> QED BY <1>1, <1>2 DEF Says

\* A frame of type response with the id of a request is its answer.
LEMMA ResponseFrame ==
  ASSUME NEW f \in ToRelay, f.type = "response", f.id \in Reqs
  PROVE  f = Response(f.id)
BY RelayAssumption DEF ToRelay, Register, Early, Response

LEMMA ServiceInit == Init => ServiceInv
<1> SUFFICES ASSUME Init PROVE ServiceInv
  OBVIOUS
<1>1. FrameInv
  BY NoFrames DEF Init, FrameInv
<1>2. RanInv
  BY DEF Init, RanInv, Says
<1> QED BY <1>1, <1>2 DEF ServiceInv
\* What a handler has sent stays sent, and its connection does not change.
LEMMA SentStable ==
  ASSUME TypeOK, RanInv, NEW r \in Reqs, Lookup(r) \/ Dispatcher(r), NEW q \in Reqs, Sent(q)
  PROVE  Sent(q)' /\ link'[q] = link[q]
<1> USE DEF TypeOK, Sent
<1>1. CASE Lookup(r)
  <2>1. disp[r] = "new"
    BY <1>1 DEF Lookup
  <2>2. q # r
    BY <2>1
  <2> QED BY <1>1, <2>2 DEF Lookup
<1>2. CASE EnterPending(r)
  BY <1>2 DEF EnterPending
<1>3. CASE QueueDispatch(r)
  BY <1>3 DEF QueueDispatch
<1>4. CASE TakeResponse(r)
  BY <1>4 DEF TakeResponse
<1>5. CASE Timeout(r)
  BY <1>5 DEF Timeout
<1>6. CASE LeavePending(r)
  BY <1>6 DEF LeavePending
<1> QED BY <1>1, <1>2, <1>3, <1>4, <1>5, <1>6 DEF Dispatcher

\* The sidecar takes a frame off the wire.
LEMMA FrameRead ==
  ASSUME TypeOK, FrameInv, NEW c \in Conns, SidecarRead(c)
  PROVE  FrameInv'
<1> DEFINE f == Head(down[c])
<1>1. /\ down[c] \in Seq(ToSidecar) /\ down[c] # <<>> /\ f \in ToSidecar
      /\ down' = [down EXCEPT ![c] = Tail(@)]
      /\ UNCHANGED <<send, disp, link, outcome>>
  BY DEF SidecarRead, TypeOK, relayVars, dispVars
<1>2. \A d \in Conns : \A r \in Reqs :
        /\ InFlight(down'[d], r) => InFlight(down[d], r)
        /\ Twice(down'[d], r) => Twice(down[d], r)
        /\ send'[d] = send[d]
        /\ Sent(r)' = Sent(r)
        /\ link'[r] = link[r]
  BY <1>1, TailFrame DEF TypeOK, Sent
<1>3. CASE f.type = "dispatch"
  <2>1. PICK q \in Reqs : f = Dispatch(q) /\ f.id = q
    BY <1>1, <1>3, DispatchFrame
  <2>2. ran' = ran \cup {q}
    BY <1>3, <2>1 DEF SidecarRead
  <2>3. InFlight(down[c], q) /\ ~InFlight(down'[c], q)
    BY <1>1, <2>1, TailFrame DEF FrameInv, TypeOK
  <2>4. \A d \in Conns : ~InFlight(send'[d], q) /\ ~InFlight(down'[d], q)
    BY <1>2, <2>3 DEF FrameInv
  <2> HIDE DEF f
  <2> QED BY <1>2, <2>2, <2>4 DEF FrameInv
<1>4. CASE f.type # "dispatch"
  <2>1. ran' = ran
    BY <1>4 DEF SidecarRead
  <2> HIDE DEF f
  <2> QED BY <1>2, <2>1 DEF FrameInv
<1> QED BY <1>3, <1>4

\* writeLoop moves a frame from the channel to the wire.
LEMMA FrameWrite ==
  ASSUME TypeOK, FrameInv, NEW c \in Conns, WriteFrame(c)
  PROVE  FrameInv'
<1> DEFINE f == Head(send[c])
<1>1. /\ send[c] \in Seq(ToSidecar) /\ send[c] # <<>> /\ f \in ToSidecar
      /\ down[c] \in Seq(ToSidecar)
      /\ send' = [send EXCEPT ![c] = Tail(@)]
      /\ down' = [down EXCEPT ![c] = Append(@, f)]
      /\ UNCHANGED <<disp, link, outcome, ran>>
  BY DEF WriteFrame, TypeOK, dispVars
<1>2. send'[c] = Tail(send[c]) /\ down'[c] = Append(down[c], f)
  BY <1>1 DEF TypeOK
<1> HIDE DEF f
<1>3. \A d \in Conns : d # c => send'[d] = send[d] /\ down'[d] = down[d]
  BY <1>1 DEF TypeOK
<1>4. \A r \in Reqs : Sent(r)' = Sent(r) /\ link'[r] = link[r]
  BY <1>1 DEF Sent
<1>5. ASSUME NEW r \in Reqs
      PROVE  /\ InFlight(send'[c], r) => InFlight(send[c], r)
             /\ ~Twice(send'[c], r)
             /\ InFlight(down'[c], r) => InFlight(down[c], r) \/ f = Dispatch(r)
             /\ f = Dispatch(r) => InFlight(send[c], r) /\ ~InFlight(send'[c], r)
             /\ ~Twice(down'[c], r)
  BY <1>1, <1>2, AppendFrame, TailFrame DEF FrameInv, f
<1> QED BY <1>1, <1>3, <1>4, <1>5 DEF FrameInv

\* A frame enters the channel, or is dropped.
LEMMA FrameQueue ==
  ASSUME TypeOK, FrameInv, NEW c \in Conns, NEW f \in ToSidecar, QueueSend(c, f),
         UNCHANGED <<down, ran>>,
         \A q \in Reqs : Sent(q) => Sent(q)' /\ link'[q] = link[q],
         \A r \in Reqs : f = Dispatch(r) =>
            r \notin ran /\ ~Sent(r) /\ Sent(r)' /\ link'[r] = c
  PROVE  FrameInv'
<1>1. send'[c] = send[c] \/ send'[c] = Append(send[c], f)
  BY DEF QueueSend, TypeOK
<1>2. \A d \in Conns : d # c => send'[d] = send[d]
  BY DEF QueueSend, TypeOK
<1>3. send[c] \in Seq(ToSidecar)
  BY DEF TypeOK
<1>4. \A r \in Reqs : f = Dispatch(r) =>
        \A d \in Conns : ~InFlight(send[d], r) /\ ~InFlight(down[d], r)
  BY DEF FrameInv
<1>5. ASSUME NEW r \in Reqs
      PROVE  /\ InFlight(send'[c], r) => InFlight(send[c], r) \/ f = Dispatch(r)
             /\ ~Twice(send'[c], r)
  <2>1. /\ InFlight(Append(send[c], f), r) => InFlight(send[c], r) \/ f = Dispatch(r)
        /\ Twice(Append(send[c], f), r) => Twice(send[c], r)
                                          \/ (InFlight(send[c], r) /\ f = Dispatch(r))
    BY <1>3, AppendFrame
  <2>2. ~Twice(send[c], r)
    BY DEF FrameInv
  <2>3. CASE send'[c] = send[c]
    BY <2>2, <2>3
  <2>4. CASE send'[c] = Append(send[c], f)
    BY <1>4, <2>1, <2>2, <2>4
  <2> QED BY <1>1, <2>3, <2>4
<1>6. ASSUME NEW d \in Conns, NEW r \in Reqs
      PROVE  /\ InFlight(send'[d], r) \/ InFlight(down'[d], r)
                  => r \notin ran' /\ Sent(r)' /\ link'[r] = d
             /\ ~Twice(send'[d], r) /\ ~Twice(down'[d], r)
             /\ ~(InFlight(send'[d], r) /\ InFlight(down'[d], r))
  <2>1. CASE InFlight(send[d], r) \/ InFlight(down[d], r)
    BY <1>2, <1>4, <1>5, <2>1 DEF FrameInv
  <2>2. CASE ~(InFlight(send[d], r) \/ InFlight(down[d], r))
    BY <1>2, <1>5, <2>2 DEF FrameInv
  <2> QED BY <2>1, <2>2
<1> QED BY <1>6 DEF FrameInv

LEMMA FrameStep == TypeOK /\ PendingInv /\ ServiceInv /\ [Next]_vars => FrameInv'
<1> SUFFICES ASSUME TypeOK, PendingInv, FrameInv, RanInv, [Next]_vars
             PROVE  FrameInv'
  BY DEF ServiceInv
<1>1. ASSUME NEW c \in Conns, QueueAck(c)
      PROVE  FrameInv'
  <2>1. \A r \in Reqs : Ack # Dispatch(r)
    BY DEF Ack, Dispatch
  <2>2. UNCHANGED <<down, ran, disp, outcome, link>> /\ QueueSend(c, Ack)
    BY <1>1 DEF QueueAck, dispVars, sideVars
  <2>3. \A q \in Reqs : Sent(q) => Sent(q)' /\ link'[q] = link[q]
    BY <2>2 DEF Sent
  <2> QED BY <2>1, <2>2, <2>3, FrameTypes, FrameQueue
<1>2. ASSUME NEW r \in Reqs, QueueDispatch(r)
      PROVE  FrameInv'
  <2>1. /\ disp[r] = "entered" /\ disp'[r] = "waiting"
        /\ UNCHANGED <<down, ran, outcome, link>>
        /\ QueueSend(link[r], Dispatch(r))
    BY <1>2 DEF QueueDispatch, TypeOK, sideVars
  <2>2. link[r] \in Conns /\ outcome[r] = "none"
    BY <2>1 DEF PendingInv, LinkIsConn, RanInv
  <2>3. \A q \in Reqs : Sent(q) => Sent(q)' /\ link'[q] = link[q]
    BY <1>2, SentStable DEF Dispatcher
  <2>4. ~Sent(r) /\ Sent(r)' /\ r \notin ran
    BY <2>1, <2>2 DEF Sent, RanInv
  <2>5. \A q \in Reqs : Dispatch(r) = Dispatch(q) => q = r
    BY DispatchUnique
  <2> QED BY <2>1, <2>2, <2>3, <2>4, <2>5, FrameTypes, FrameQueue
<1>3. ASSUME NEW r \in Reqs,
             Lookup(r) \/ EnterPending(r) \/ TakeResponse(r) \/ Timeout(r) \/ LeavePending(r)
      PROVE  FrameInv'
  <2>1. UNCHANGED <<send, down, ran>>
    BY <1>3 DEF Lookup, EnterPending, TakeResponse, Timeout, LeavePending, relayVars, sideVars
  <2>2. \A q \in Reqs : Sent(q) => Sent(q)' /\ link'[q] = link[q]
    BY <1>3, SentStable DEF Dispatcher
  <2> QED BY <2>1, <2>2 DEF FrameInv
<1>4. ASSUME UNCHANGED <<send, down, ran, disp, link, outcome>>
      PROVE  FrameInv'
  BY <1>4 DEF FrameInv, Sent
<1>5. ASSUME NEW c \in Conns,
             \/ Dial(c) \/ SidecarSpeaksEarly(c) \/ SidecarRegister(c) \/ SidecarReply(c)
             \/ SidecarSeesClose(c) \/ SidecarGone(c) \/ ReadRegister(c) \/ ReadEarly(c)
             \/ ReadResponse(c) \/ ReadFails(c) \/ Unregister(c) \/ WriteFails(c)
      PROVE  UNCHANGED <<send, down, ran, disp, link, outcome>>
  BY <1>5 DEF Dial, SidecarSpeaksEarly, SidecarRegister, SidecarReply, SidecarSeesClose,
              SidecarGone, ReadRegister, ReadEarly, ReadResponse, ReadFails, Unregister,
              WriteFails, relayVars, dispVars, sideVars
<1>6. CASE UNCHANGED vars
  BY <1>4, <1>6 DEF vars, relayVars, dispVars, sideVars
<1> QED BY <1>1, <1>2, <1>3, <1>4, <1>5, <1>6, FrameRead, FrameWrite
        DEF Next, Sidecar, ReadLoop, WriteLoop, Dispatcher
\* The sidecar starts tasks and answers those it started.
LEMMA RanSidecar ==
  ASSUME TypeOK, ServiceInv, NEW c \in Conns, Dial(c) \/ Sidecar(c) \/ SidecarGone(c)
  PROVE  RanInv'
<1> USE DEF ServiceInv, RanInv, TypeOK, Sent
<1>0. up[c] \in Seq(ToRelay) /\ \A r \in Reqs : Register # Response(r) /\ Early # Response(r)
  BY RelayAssumption DEF Register, Early, Response
<1>1. CASE Dial(c)
  BY <1>1 DEF Dial, dispVars
<1>2. CASE SidecarSpeaksEarly(c)
  <2>1. \A d \in Conns : \A r \in Reqs : Says(up'[d], r) => Says(up[d], r)
    BY <1>0, <1>2, FrameTypes, AppendResponse DEF SidecarSpeaksEarly
  <2> QED BY <1>2, <2>1 DEF SidecarSpeaksEarly, relayVars, dispVars
<1>3. CASE SidecarRegister(c)
  <2>1. \A d \in Conns : \A r \in Reqs : Says(up'[d], r) => Says(up[d], r)
    BY <1>0, <1>3, FrameTypes, AppendResponse DEF SidecarRegister
  <2> QED BY <1>3, <2>1 DEF SidecarRegister, Reading, relayVars, dispVars
<1>4. CASE SidecarRead(c)
  <2> DEFINE f == Head(down[c])
  <2>1. f \in ToSidecar /\ down[c] # <<>> /\ down[c] \in Seq(ToSidecar)
    BY <1>4 DEF SidecarRead
  <2>2. CASE f.type = "dispatch"
    <3>1. PICK q \in Reqs : f = Dispatch(q) /\ f.id = q
      BY <2>1, <2>2, DispatchFrame
    <3>2. ran' = ran \cup {q} /\ side' = [side EXCEPT ![c] = Handling(q)]
      BY <1>4, <2>2, <3>1 DEF SidecarRead
    <3>3. Sent(q)
      BY <2>1, <3>1, TailFrame DEF FrameInv
    <3>4. Handling(q).id = q
      BY DEF Handling
    <3>5. UNCHANGED <<up, respCh, disp, outcome>>
      BY <1>4 DEF SidecarRead, relayVars, dispVars
    <3> HIDE DEF f
    <3> QED BY <3>2, <3>3, <3>4, <3>5
  <2>3. CASE f.type # "dispatch"
    BY <1>4, <2>3 DEF SidecarRead, relayVars, dispVars
  <2> QED BY <2>2, <2>3
<1>5. CASE SidecarReply(c)
  <2>1. /\ side[c].at = "handling" /\ side[c].id \in ran
        /\ up' = [up EXCEPT ![c] = Append(@, Response(side[c].id))] \/ up' = up
    BY <1>5 DEF SidecarReply, SidecarAt
  <2>2. ASSUME NEW d \in Conns, NEW r \in Reqs, Says(up'[d], r)
        PROVE  r \in ran
    <3>1. Response(side[c].id) \in ToRelay
      BY <2>1, FrameTypes
    <3>2. CASE Says(up[d], r)
      BY <3>2
    <3>3. CASE d = c /\ up'[c] = Append(up[c], Response(side[c].id))
      <4>1. Says(up[c], r) \/ Response(side[c].id) = Response(r)
        BY <1>0, <2>2, <3>1, <3>3, AppendResponse
      <4>2. Response(side[c].id).id = side[c].id /\ Response(r).id = r
        BY DEF Response
      <4> QED BY <2>1, <4>1, <4>2
    <3>4. up'[d] = up[d] \/ (d = c /\ up'[c] = Append(up[c], Response(side[c].id)))
      BY <2>1
    <3> QED BY <2>2, <3>2, <3>3, <3>4
  <2>3. \A d \in Conns : side'[d].at = "handling" => side'[d] = side[d]
    BY <1>5 DEF SidecarReply, Reading
  <2>4. UNCHANGED <<ran, respCh, disp, outcome>>
    BY <1>5 DEF SidecarReply, relayVars, dispVars
  <2> QED BY <2>2, <2>3, <2>4
<1>6. CASE SidecarSeesClose(c)
  BY <1>6 DEF SidecarSeesClose, relayVars, dispVars
<1>7. CASE SidecarGone(c)
  BY <1>7 DEF SidecarGone, dispVars
<1> QED BY <1>1, <1>2, <1>3, <1>4, <1>5, <1>6, <1>7 DEF Sidecar

\* The read loop delivers only answers.
LEMMA RanLoop ==
  ASSUME TypeOK, ServiceInv, NEW c \in Conns, ReadLoop(c) \/ WriteLoop(c)
  PROVE  RanInv'
<1> USE DEF ServiceInv, RanInv, Sent
<1>1. ASSUME NEW kind, ReadFrame(c, kind)
      PROVE  \A d \in Conns : \A r \in Reqs : Says(up'[d], r) => Says(up[d], r)
  <2>1. up[c] \in Seq(ToRelay) /\ up[c] # <<>> /\ up' = [up EXCEPT ![c] = Tail(@)]
    BY <1>1 DEF ReadFrame, TypeOK
  <2> QED BY <2>1, TailResponse DEF TypeOK
<1>2. CASE ReadRegister(c)
  BY <1>1, <1>2 DEF ReadRegister, dispVars
<1>3. CASE QueueAck(c)
  BY <1>3 DEF QueueAck, dispVars, sideVars
<1>4. CASE ReadEarly(c)
  BY <1>1, <1>4 DEF ReadEarly, relayVars, dispVars
<1>5. CASE ReadResponse(c)
  <2> DEFINE q == Head(up[c]).id
  <2>1. ReadFrame(c, "response") /\ UNCHANGED <<side, ran, disp, outcome>>
    BY <1>5 DEF ReadResponse, dispVars
  <2>2. \A d \in Conns : \A r \in Reqs : Says(up'[d], r) => Says(up[d], r)
    BY <1>1, <2>1
  <2>3. q \in pending[c] => q \in ran
    <3>1. /\ up[c] \in Seq(ToRelay) /\ up[c] # <<>>
          /\ Head(up[c]) \in ToRelay /\ Head(up[c]).type = "response"
      BY <2>1 DEF ReadFrame, TypeOK
    <3>2. q \in Reqs => Says(up[c], q)
      BY <3>1, ResponseFrame, TailResponse
    <3> QED BY <3>2 DEF TypeOK
  <2>4. \A r \in Reqs : respCh'[r] = "response" => respCh[r] = "response" \/ (r = q /\ q \in pending[c])
    <3>1. CASE q \in pending[c]
      <4>1. respCh' = [respCh EXCEPT ![q] = IF @ = "empty" THEN "response" ELSE @]
        BY <1>5, <3>1 DEF ReadResponse
      <4> HIDE DEF q
      <4> QED BY <3>1, <4>1 DEF TypeOK
    <3>2. CASE q \notin pending[c]
      BY <1>5, <3>2 DEF ReadResponse
    <3> QED BY <3>1, <3>2
  <2> HIDE DEF q
  <2> QED BY <2>1, <2>2, <2>3, <2>4
<1>6. CASE ReadFails(c)
  BY <1>6 DEF ReadFails, dispVars, sideVars
<1>7. CASE Unregister(c)
  <2>1. \A r \in Reqs : respCh'[r] = "response" => respCh[r] = "response"
    BY <1>7 DEF Unregister
  <2> QED BY <1>7, <2>1 DEF Unregister, dispVars, sideVars
<1>8. CASE WriteFrame(c)
  BY <1>8 DEF WriteFrame, dispVars
<1>9. CASE WriteFails(c)
  BY <1>9 DEF WriteFails, dispVars, sideVars
<1> QED BY <1>2, <1>3, <1>4, <1>5, <1>6, <1>7, <1>8, <1>9 DEF ReadLoop, WriteLoop

\* The handlers answer once, and "offline" only before anything was queued.
LEMMA RanHandler ==
  ASSUME TypeOK, ServiceInv, NEW r \in Reqs, Lookup(r) \/ Dispatcher(r)
  PROVE  RanInv'
<1> USE DEF ServiceInv, RanInv
<1>1. UNCHANGED <<ran, side, up>>
  BY DEF Dispatcher, Lookup, EnterPending, QueueDispatch, TakeResponse, Timeout,
         LeavePending, sideVars
<1>2. \A q \in ran : Sent(q)'
  BY SentStable DEF TypeOK
<1>3. \A q \in Reqs : respCh'[q] = "response" => respCh[q] = "response"
  BY DEF TypeOK, Dispatcher, Lookup, EnterPending, QueueDispatch, TakeResponse, Timeout,
         LeavePending, relayVars
<1>4. \A q \in Reqs : disp'[q] \in {"new", "found", "entered", "waiting"}
                        => /\ disp[q] \in {"new", "found", "entered", "waiting"}
                           /\ outcome'[q] = outcome[q]
  BY DEF TypeOK, Dispatcher, Lookup, EnterPending, QueueDispatch, TakeResponse, Timeout,
         LeavePending
<1> QED BY <1>1, <1>2, <1>3, <1>4

LEMMA RanStep == TypeOK /\ ServiceInv /\ [Next]_vars => RanInv'
<1>1. ServiceInv /\ UNCHANGED vars => RanInv'
  BY DEF ServiceInv, RanInv, Sent, Says, vars, relayVars, dispVars, sideVars
<1> QED BY <1>1, RanSidecar, RanLoop, RanHandler DEF Next

-----------------------------------------------------------------------------
\* The initial state of the relay is one of the service.
LEMMA RefinesInit == Init => Service!Init
BY DEF Init, Service!Init

\* Every step of the relay is a step of the service or changes nothing it
\* can see.
LEMMA RefinesStep ==
  ASSUME TypeOK, ServiceInv, [Next]_vars
  PROVE  [Service!Next]_(Service!vars)
<1> USE DEF Service!vars
<1>1. ASSUME NEW c \in Conns, SidecarRead(c)
      PROVE  [Service!Next]_(Service!vars)
  <2> DEFINE f == Head(down[c])
  <2>1. f \in ToSidecar /\ down[c] # <<>> /\ down[c] \in Seq(ToSidecar) /\ outcome' = outcome
    BY <1>1 DEF SidecarRead, TypeOK, dispVars
  <2>2. CASE f.type = "dispatch"
    <3>1. PICK q \in Reqs : f = Dispatch(q) /\ f.id = q
      BY <2>1, <2>2, DispatchFrame
    <3>2. ran' = ran \cup {q}
      BY <1>1, <2>2, <3>1 DEF SidecarRead
    <3>3. q \notin ran /\ outcome[q] # "offline"
      BY <2>1, <3>1, TailFrame DEF ServiceInv, FrameInv, Sent
    <3> QED BY <2>1, <3>2, <3>3 DEF Service!Next, Service!Run
  <2>3. CASE f.type # "dispatch"
    BY <1>1, <2>1, <2>3 DEF SidecarRead
  <2> QED BY <2>2, <2>3
<1>2. ASSUME NEW r \in Reqs, NEW o \in Service!Outcomes, outcome[r] = "none", ran' = ran,
             o = "ok" => r \in ran, o = "offline" => r \notin ran,
             outcome' = [outcome EXCEPT ![r] = o]
      PROVE  Service!Next
  BY <1>2 DEF Service!Next, Service!Answer
<1>3. ASSUME NEW r \in Reqs, Lookup(r)
      PROVE  [Service!Next]_(Service!vars)
  <2>1. disp[r] = "new" /\ ran' = ran
    BY <1>3 DEF Lookup, sideVars
  <2>2. outcome[r] = "none" /\ r \notin ran
    BY <2>1 DEF ServiceInv, RanInv, Sent
  <2>3. outcome' = outcome \/ outcome' = [outcome EXCEPT ![r] = "offline"]
    BY <1>3 DEF Lookup
  <2> QED BY <1>2, <2>1, <2>2, <2>3 DEF Service!Outcomes
<1>4. ASSUME NEW r \in Reqs, TakeResponse(r)
      PROVE  [Service!Next]_(Service!vars)
  <2>1. /\ disp[r] = "waiting" /\ ran' = ran
        /\ outcome' = [outcome EXCEPT ![r] = IF respCh[r] = "response" THEN "ok" ELSE "disconnect"]
    BY <1>4 DEF TakeResponse, sideVars
  <2>2. outcome[r] = "none" /\ (respCh[r] = "response" => r \in ran)
    BY <2>1 DEF ServiceInv, RanInv
  <2> QED BY <1>2, <2>1, <2>2 DEF Service!Outcomes
<1>5. ASSUME NEW r \in Reqs, Timeout(r)
      PROVE  [Service!Next]_(Service!vars)
  <2>1. /\ disp[r] = "waiting" /\ ran' = ran
        /\ outcome' = [outcome EXCEPT ![r] = "timeout"]
    BY <1>5 DEF Timeout, sideVars
  <2>2. outcome[r] = "none"
    BY <2>1 DEF ServiceInv, RanInv
  <2> QED BY <1>2, <2>1, <2>2 DEF Service!Outcomes
<1>6. ASSUME NEW c \in Conns,
             \/ Dial(c) \/ SidecarSpeaksEarly(c) \/ SidecarRegister(c) \/ SidecarReply(c)
             \/ SidecarSeesClose(c) \/ SidecarGone(c) \/ ReadLoop(c) \/ WriteLoop(c)
      PROVE  UNCHANGED <<ran, outcome>>
  BY <1>6 DEF Dial, SidecarSpeaksEarly, SidecarRegister, SidecarReply, SidecarSeesClose,
              SidecarGone, ReadLoop, ReadRegister, QueueAck, ReadEarly, ReadResponse,
              ReadFails, Unregister, WriteLoop, WriteFrame, WriteFails, dispVars, sideVars
<1>7. ASSUME NEW r \in Reqs, EnterPending(r) \/ QueueDispatch(r) \/ LeavePending(r)
      PROVE  UNCHANGED <<ran, outcome>>
  BY <1>7 DEF EnterPending, QueueDispatch, LeavePending, sideVars
<1>8. CASE UNCHANGED vars
  BY <1>8 DEF vars, dispVars, sideVars
<1> QED BY <1>1, <1>3, <1>4, <1>5, <1>6, <1>7, <1>8 DEF Next, Sidecar, Dispatcher

\* The relay, for any number of users, connections and requests: a task runs
\* at most once, "ok" is said only of a task that ran, "offline" only of one
\* that never will, and each request gets one answer.
THEOREM RelayImplementsService == Spec => ServiceSpec
<1>1. TypeOK /\ PendingInv /\ ServiceInv /\ [Next]_vars => PendingInv' /\ ServiceInv'
  BY PendingStep, FrameStep, RanStep DEF ServiceInv
<1>2. TypeOK /\ ServiceInv /\ [Next]_vars => [Service!Next]_(Service!vars)
  BY RefinesStep
<1> QED BY <1>1, <1>2, PendingInit, ServiceInit, RefinesInit, TypeCorrect, PTL
        DEF Spec, ServiceSpec, Service!Spec
=============================================================================
