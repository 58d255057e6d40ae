------------------------------ MODULE Messages ------------------------------
(***************************************************************************)
(* Requests to the engine other than tag batches: the one-shot wrappers,   *)
(* raw CIP messages (c/src/message.c), structures (c/src/struct.c), the    *)
(* bytes of Large_Forward_Open and Forward_Close (c/src/conn.c), routed    *)
(* requests (c/src/route.c), and the record of the last CIP rejection      *)
(* (c/src/client.c).                                                       *)
(*                                                                         *)
(* Requests are built byte by byte as the code builds them; the controller *)
(* at the other end takes them apart by the CIP rules and answers.  Its    *)
(* answers may be rejections, cut short or lost, and it drops connections  *)
(* it has not heard of.                                                    *)
(*                                                                         *)
(* An answer is that of the call's own request: after a call that gave up  *)
(* the dispatcher does not promise this (OwnReply of SlotIpc), and the     *)
(* properties below are about runs in which it is so.                      *)
(***************************************************************************)
EXTENDS SlotLayout, Integers, Sequences, FiniteSets

CONSTANTS
    Threads,
    Calls,      \* the calls threads may make
    Structs,    \* Structs[tag]: handle and data of the controller's structures
    MaxReq,     \* BP_MSG_MAX_REQ, 500
    ReqBuf,     \* write_struct's request buffer, 761
    MaxTag,     \* longest tag name, 250
    MaxSlot,    \* BP_MSG_MAX_SLOT, 0x13
    MinCap,     \* smallest buffer read_struct takes, 16
    RespBuf,    \* read_struct's reply buffer, 512
    MaxRoute,   \* longest route, 0x1FE
    MaxCalls,   \* bound: calls made
    MaxFaults,  \* bound: rejections, cut and lost answers the controller makes up
    None

ASSUME MessagesAssumption ==
    /\ {MaxReq, ReqBuf, MaxTag, MaxSlot, MinCap, RespBuf, MaxRoute, MaxCalls, MaxFaults} \subseteq Nat
    /\ 50 <= MaxReq /\ MaxReq <= ReqBuf /\ MaxReq <= 102400 /\ MaxTag <= 250 /\ MaxRoute <= 510
    /\ 8 <= MinCap /\ MinCap <= RespBuf /\ RespBuf <= 102400

\* Bytes, 16-bit words, strings of bytes, and the serials that name a connection.
Byte == 0 .. 255
Word == {v \in Nat : v < 65536}
Bytes == Seq(Byte)
ConnIds == [serial : {s \in Bytes : Len(s) = 2}, orig : {s \in Bytes : Len(s) = 4}]

\* The C types of the arguments; a wrapper is one of SlotLayout's operations.
ASSUME CallTypes ==
    /\ None # "CIP_STATUS" /\ None \notin [status : Nat, ext : Nat, id : Nat]
    /\ Structs \in [DOMAIN Structs -> [handle : Word, data : Bytes]]
    /\ \A c \in Calls :
          /\ c.op = "wrap" => c.fn \in Layouts
          /\ c.op \in {"read_struct", "write_struct"} => c.tag \in Bytes
          /\ c.op = "read_struct" => c.cap \in Nat
          /\ c.op = "write_struct" => c.handle \in Word /\ c.data \in Bytes
          /\ c.op = "routed" =>
                /\ c.req \in Bytes /\ c.ms \in Nat /\ c.cap \in Nat
                /\ c.route \in Bytes /\ c.hop \in Bytes /\ Len(c.hop) = 2
          /\ c.op = "open" => c.params \in Nat
          /\ c.op \in {"open", "close"} => c.conn \in ConnIds

VARIABLES
    thr,      \* thr[t]: the call thread t is in, or the outcome of its last one
    structs,  \* the controller's structures
    conns,    \* connections the controller has
    expired,  \* connections it dropped by its idle timeout, not opened or closed since
    opened,   \* connections in the client's table
    cipErr,   \* cl->cip_err when cip_err_present, else None
    rejected, \* rejections recorded so far
    taken,    \* the latest rejection handed out
    calls, faults

vars == <<thr, structs, conns, expired, opened, cipErr, rejected, taken, calls, faults>>

Min2(x, y) == IF x <= y THEN x ELSE y
U16(v) == <<v % 256, v \div 256>>
LdU16(bytes, at) == bytes[at] + 256 * bytes[at + 1]
Zeros(n) == [i \in 1 .. n |-> 0]

-----------------------------------------------------------------------------
(* Requests *)

\* Wrong variant of IoiPath: odd names are not padded.
IoiPathUnpadded(tag) == <<145, Len(tag)>> \o tag

\* symbolic_ioi_path: a symbol segment, padded to whole words.
IoiPath(tag) ==
    LET seg == <<145, Len(tag)>> \o tag
    IN IF Len(seg) % 2 = 0 THEN seg ELSE Append(seg, 0)

ReadTagRequest(tag) == <<76, Len(IoiPath(tag)) \div 2>> \o IoiPath(tag) \o U16(1)

WriteTagRequest(tag, handle, data) ==
    <<77, Len(IoiPath(tag)) \div 2>> \o IoiPath(tag) \o <<160, 2>> \o U16(handle) \o U16(1) \o data

\* A connection's identity: serial, vendor, originator serial, as bytes.
ConnManager == <<2, 32, 6, 36, 1>>
Identity(conn) == conn.serial \o U16(1) \o conn.orig

\* build_lfo; the size is 4000 by default and at most 4002.
OtSize(params) == Min2(IF params = 0 THEN 4000 ELSE params, 4002)
BuildLfo(conn, params) ==
    LET size == U16(OtSize(params)) \o <<0, 66>>
        rpi == <<128, 150, 152, 0>>
    IN <<91>> \o ConnManager \o <<5, 247>> \o <<0, 0, 1, 128>> \o <<1, 0, 0, 128>>
       \o Identity(conn) \o <<3, 0, 0, 0>> \o rpi \o size \o rpi \o size
       \o <<163, 2, 32, 2, 36, 1>>

\* Wrong variant of BuildFc: the originator's serial goes first.
BuildFcSwapped(conn) ==
    <<78>> \o ConnManager \o <<10, 14>> \o conn.orig \o conn.serial \o U16(1) \o <<2, 0, 32, 2, 36, 1>>

\* build_fc.
BuildFc(conn) ==
    <<78>> \o ConnManager \o <<10, 14>> \o Identity(conn) \o <<2, 0, 32, 2, 36, 1>>

\* extract_slot: only {1, slot} is supported.
ExtractSlot(path) ==
    CASE Len(path) # 2 \/ path[1] # 1 -> "PARAM_RANGE"
      [] path[2] > MaxSlot -> "SLOT_TOO_LARGE"
      [] OTHER -> "OK"

\* Ticks of 32 ms, rounded up, between 1 and 255.
Ticks(ms) == Min2(IF ms = 0 THEN 1 ELSE (ms + 31) \div 32, 255)

\* bp_build_unconnected_send: an error, or OK.
UnconnectedSendRc(msg, route, cap) ==
    CASE Len(route) % 2 # 0 \/ msg = <<>> \/ Len(msg) > 65535 -> "EINVAL"
      [] route = <<>> \/ Len(route) > MaxRoute -> "EINVAL"
      [] 12 + Len(msg) + (Len(msg) % 2) + Len(route) > cap -> "ENOSPC"
      [] OTHER -> "OK"

\* Wrong variant of UnconnectedSend: an odd request is not padded.
UnconnectedSendUnpadded(msg, route, ms) ==
    <<82>> \o ConnManager \o <<5, Ticks(ms)>> \o U16(Len(msg)) \o msg
    \o <<Len(route) \div 2, 0>> \o route

\* The bytes.
UnconnectedSend(msg, route, ms) ==
    <<82>> \o ConnManager \o <<5, Ticks(ms)>> \o U16(Len(msg)) \o msg \o Zeros(Len(msg) % 2)
    \o <<Len(route) \div 2, 0>> \o route

\* bp_route_append_port, for each hop.
AppendPort(route, cap, hop) ==
    IF Len(route) + 2 > cap THEN [rc |-> "PARAM_RANGE", route |-> route]
    ELSE [rc |-> "OK", route |-> route \o hop]

-----------------------------------------------------------------------------
(* Calls *)

Idle == [pc |-> "idle", call |-> None, msg |-> <<>>, cap |-> 0, reply |-> <<>>, plc |-> None,
         out |-> [rc |-> None, val |-> None], id |-> 0]

Init ==
    /\ thr = [t \in Threads |-> Idle]
    /\ structs = Structs
    /\ conns = {} /\ expired = {} /\ opened = {}
    /\ cipErr = None /\ rejected = 0 /\ taken = 0
    /\ calls = 0 /\ faults = 0

Fault == faults < MaxFaults /\ faults' = faults + 1
Begin(t, c, op) ==
    thr[t].pc = "idle" /\ c.op = op /\ calls < MaxCalls /\ calls' = calls + 1
Becomes(t, c, rest) ==
    thr' = [thr EXCEPT ![t] = [f \in DOMAIN Idle |->
              IF f = "call" THEN c ELSE IF f \in DOMAIN rest THEN rest[f] ELSE Idle[f]]]
Returns(t, c, rc, val) ==
    Becomes(t, c, [out |-> [rc |-> rc, val |-> val], plc |-> thr[t].plc, id |-> 0])
Fails(t, c, rc) == Becomes(t, None, [out |-> [rc |-> rc, val |-> None]])

plcVars == <<structs, conns, expired>>
recordVars == <<cipErr, rejected, taken>>

\* bp_client_message_send.
MessageRc(msg, cap, slot) ==
    CASE msg = <<>> \/ Len(msg) > MaxReq -> "PARAM_RANGE"
      [] cap = 0 -> "NULL_ARG"
      [] slot > MaxSlot -> "SLOT_TOO_LARGE"
      [] OTHER -> "OK"
SendMessage(t, c, msg, cap, slot) ==
    LET rc == MessageRc(msg, cap, slot)
    IN IF rc # "OK" THEN Fails(t, c, rc) ELSE Becomes(t, c, [pc |-> "sent", msg |-> msg, cap |-> cap])

\* A wrapper: one call to the engine, with the path's text when there is one.
Wrapper(t, c) ==
    /\ Begin(t, c, "wrap")
    /\ IF PathText \in c.fn.fill /\ c.text > MaxPathText THEN Fails(t, c, "PARAM_RANGE")
       ELSE Becomes(t, c, [pc |-> "engine"])
    /\ UNCHANGED <<plcVars, recordVars, opened, faults>>

\* The engine answers a wrapper, or its answer is lost.
WrapperAnswer(t) ==
    /\ thr[t].pc = "engine"
    /\ \/ Becomes(t, None, [out |-> [rc |-> "OK", val |-> None]]) /\ UNCHANGED faults
       \/ Fault /\ Fails(t, thr[t].call, "RECV_ANSWER")
    /\ UNCHANGED <<plcVars, recordVars, opened, calls>>

\* bp_client_read_struct.
ReadStruct(t, c) ==
    /\ Begin(t, c, "read_struct")
    /\ IF c.tag = <<>> \/ Len(c.tag) > MaxTag \/ c.cap < MinCap THEN Fails(t, c, "PARAM_RANGE")
       ELSE SendMessage(t, c, ReadTagRequest(c.tag), Min2(c.cap, RespBuf), c.slot)
    /\ UNCHANGED <<plcVars, recordVars, opened, faults>>

\* bp_client_write_struct: the request is put together in a buffer of ReqBuf bytes and
\* measured afterwards.  A longer one overruns the buffer, which the C language leaves
\* undefined: the call goes on to its error, or never comes back.
WriteStruct(t, c) ==
    /\ Begin(t, c, "write_struct")
    /\ LET req == WriteTagRequest(c.tag, c.handle, c.data)
       IN CASE c.tag = <<>> \/ Len(c.tag) > MaxTag \/ c.data = <<>> -> Fails(t, c, "PARAM_RANGE")
            [] c.tag # <<>> /\ Len(c.tag) <= MaxTag /\ c.data # <<>> /\ Len(req) > MaxReq ->
                 \/ Fails(t, c, "PARAM_RANGE")
                 \/ Len(req) > ReqBuf /\ Becomes(t, c, [pc |-> "overrun"])
            [] OTHER -> SendMessage(t, c, req, 64, c.slot)
    /\ UNCHANGED <<plcVars, recordVars, opened, faults>>

\* A raw request behind a route: the caller appends hops, wraps the request and sends
\* it as a message.
RoutedSend(t, c) ==
    /\ Begin(t, c, "routed")
    /\ LET hop == AppendPort(c.route, c.routeCap, c.hop)
           rc == UnconnectedSendRc(c.req, hop.route, c.cap)
       IN CASE hop.rc # "OK" -> Fails(t, c, hop.rc)
            [] hop.rc = "OK" /\ rc # "OK" -> Fails(t, c, rc)
            [] OTHER -> SendMessage(t, c, UnconnectedSend(c.req, hop.route, c.ms), RespBuf, 0)
    /\ UNCHANGED <<plcVars, recordVars, opened, faults>>

\* The identities in the client's table, and those of the opens and closes under way.
Tabled == {Identity(c) : c \in opened}
Moving ==
    {Identity(thr[t].call.conn) :
        t \in {u \in Threads : thr[u].pc # "idle" /\ thr[u].call.op \in {"open", "close"}}}

\* bp_client_txrx_open, as far as the connection is on the wire.  rand_conn_serial is
\* "unique within a few seconds": the draw avoids what this client still holds.
OpenConn(t, c) ==
    /\ Begin(t, c, "open")
    /\ IF ExtractSlot(c.path) # "OK" THEN Fails(t, c, ExtractSlot(c.path))
       ELSE /\ Identity(c.conn) \notin Tabled \cup Moving
            /\ SendMessage(t, c, BuildLfo(c.conn, c.params), 64, c.path[2])
    /\ UNCHANGED <<plcVars, recordVars, opened, faults>>

\* bp_client_txrx_close: the entry is given up before the message goes out.
CloseConn(t, c) ==
    /\ Begin(t, c, "close")
    /\ IF c.conn \notin opened THEN Fails(t, c, "NOT_OPEN") /\ UNCHANGED opened
       ELSE /\ opened' = opened \ {c.conn}
            /\ SendMessage(t, c, BuildFc(c.conn), 64, 0)
    /\ UNCHANGED <<plcVars, recordVars, faults>>

\* bp_client_last_cip_error: reading clears the record.
TakeCipError(t, c) ==
    /\ Begin(t, c, "last_error")
    /\ IF cipErr = None THEN Fails(t, c, "GENERIC") /\ UNCHANGED <<cipErr, taken>>
       ELSE Returns(t, c, "OK", cipErr) /\ taken' = cipErr.id /\ cipErr' = None
    /\ UNCHANGED <<plcVars, rejected, opened, faults>>

-----------------------------------------------------------------------------
(* The controller *)

\* The symbol of a tag request and what follows its path.
Named(msg) ==
    IF Len(msg) >= 4 /\ msg[3] = 145 /\ Len(msg) >= 4 + msg[4] THEN SubSeq(msg, 5, 4 + msg[4]) ELSE <<>>
Body(msg) == SubSeq(msg, 3 + 2 * msg[2], Len(msg))

\* Takes an Unconnected_Send apart: embedded request, route, timeout.
Unwrap(msg) ==
    LET n == LdU16(msg, 9)
        at == 11 + n + (n % 2)
    IN [req |-> SubSeq(msg, 11, 10 + n), route |-> SubSeq(msg, at + 2, at + 1 + 2 * msg[at]),
        end |-> at + 1 + 2 * msg[at], wait |-> 32 * msg[8]]

\* What the controller did: what it read or wrote, or why it would not, and whether its
\* answer is whole.
Done(handle, data) ==
    [status |-> 0, ext |-> 0, handle |-> handle, data |-> data, answer |-> "whole"]
Refused(status, ext) ==
    [status |-> status, ext |-> ext, handle |-> 0, data |-> <<>>, answer |-> "whole"]
Reply(msg, status, ext, body) == <<msg[1] + 128, 0, status, Len(ext) \div 2>> \o ext \o body

\* A read: the structure, or rejection 4 (path segment error).
PlcRead(t, req) ==
    LET known == Named(req) \in DOMAIN structs /\ Body(req) = <<1, 0>>
        x == structs[Named(req)]
    IN /\ thr' = [thr EXCEPT ![t].pc = "back",
             ![t].plc = IF known THEN Done(x.handle, x.data) ELSE Refused(4, 0),
             ![t].reply = IF known THEN Reply(req, 0, <<>>, <<160, 2>> \o U16(x.handle) \o x.data)
                          ELSE Reply(req, 4, <<>>, <<>>)]
       /\ UNCHANGED plcVars

\* A write: the handle and the size must be the structure's, else rejection 0x13,
\* here with an extended status.
PlcWrite(t, req) ==
    LET b == Body(req)
        x == structs[Named(req)]
        fits == /\ Named(req) \in DOMAIN structs /\ Len(b) > 6
                /\ SubSeq(b, 1, 2) = <<160, 2>> /\ SubSeq(b, 5, 6) = U16(1)
                /\ LdU16(b, 3) = x.handle /\ Len(b) - 6 = Len(x.data)
    IN /\ IF fits THEN structs' = [structs EXCEPT ![Named(req)].data = SubSeq(b, 7, Len(b))]
          ELSE UNCHANGED structs
       /\ thr' = [thr EXCEPT ![t].pc = "back",
             ![t].plc = IF fits THEN Done(x.handle, SubSeq(b, 7, Len(b))) ELSE Refused(19, 515),
             ![t].reply = IF fits THEN Reply(req, 0, <<>>, <<>>) ELSE Reply(req, 19, U16(515), <<>>)]
       /\ UNCHANGED <<conns, expired>>

\* A connection is opened under the serials of the request, once.
PlcOpen(t, req) ==
    LET id == SubSeq(req, 17, 24)
        free == id \notin conns
    IN /\ conns' = conns \cup {id} /\ expired' = expired \ {id}
       /\ thr' = [thr EXCEPT ![t].pc = "back",
             ![t].plc = IF free THEN Done(0, id) ELSE Refused(1, 256),
             ![t].reply = IF free THEN Reply(req, 0, <<>>, Zeros(8)) ELSE Reply(req, 1, U16(256), <<>>)]
       /\ UNCHANGED structs

PlcClose(t, req) ==
    LET id == SubSeq(req, 9, 16)
        known == id \in conns
    IN /\ conns' = conns \ {id} /\ expired' = expired \ {id}
       /\ thr' = [thr EXCEPT ![t].pc = "back",
             ![t].plc = IF known THEN Done(0, id) ELSE Refused(1, 263),
             ![t].reply = IF known THEN Reply(req, 0, <<>>, <<>>) ELSE Reply(req, 1, U16(263), <<>>)]
       /\ UNCHANGED structs

\* The device at the end of a route answers the request the gateway took out.
PlcRouted(t, req) ==
    /\ thr' = [thr EXCEPT ![t].pc = "back", ![t].plc = Done(0, req),
                          ![t].reply = Reply(req, 0, <<>>, <<>>)]
    /\ UNCHANGED plcVars

\* The controller answers by the service code.
Plc(t) ==
    /\ thr[t].pc = "sent"
    /\ LET msg == thr[t].msg
       IN \/ msg[1] = 76 /\ PlcRead(t, msg)
          \/ msg[1] = 77 /\ PlcWrite(t, msg)
          \/ msg[1] = 91 /\ PlcOpen(t, msg)
          \/ msg[1] = 78 /\ PlcClose(t, msg)
          \/ msg[1] = 82 /\ PlcRouted(t, Unwrap(msg).req)
    /\ UNCHANGED <<recordVars, opened, calls, faults>>

\* The controller has no resources.
PlcRefuses(t) ==
    /\ thr[t].pc = "sent" /\ Fault
    /\ thr' = [thr EXCEPT ![t].pc = "back", ![t].plc = Refused(2, 0),
                          ![t].reply = Reply(thr[t].msg, 2, <<>>, <<>>)]
    /\ UNCHANGED <<plcVars, recordVars, opened, calls>>

\* The controller drops a connection it has heard nothing on.
PlcTimeout(id) ==
    /\ id \in conns
    /\ conns' = conns \ {id} /\ expired' = expired \cup {id}
    /\ UNCHANGED <<thr, structs, recordVars, opened, calls, faults>>

\* The answer is cut short, anywhere.
Cut(t) ==
    /\ thr[t].pc = "back" /\ Fault
    /\ \E n \in 0 .. Len(thr[t].reply) - 1 :
          thr' = [thr EXCEPT ![t].reply = SubSeq(@, 1, n), ![t].plc.answer = "cut"]
    /\ UNCHANGED <<plcVars, recordVars, opened, calls>>

\* The call gives up, before or after the controller has acted.
Lost(t) ==
    /\ thr[t].pc \in {"sent", "back"} /\ Fault
    /\ Fails(t, thr[t].call, "RECV_ANSWER")
    /\ UNCHANGED <<plcVars, recordVars, opened, calls>>

-----------------------------------------------------------------------------
(* Answers *)

\* msg_read: at most the capacity.
Received(t) == SubSeq(thr[t].reply, 1, Min2(Len(thr[t].reply), thr[t].cap))

Back(t, op) ==
    /\ thr[t].pc = "back" /\ thr[t].call.op = op
    /\ UNCHANGED <<plcVars, taken, calls, faults>>

\* Wrong variant of RecordCipError: a record that was not read is kept.
RecordCipErrorOnce(status, ext) ==
    /\ rejected' = rejected + 1
    /\ cipErr' = IF cipErr = None THEN [status |-> status, ext |-> ext, id |-> rejected + 1] ELSE cipErr

\* bp_record_cip_error: the latest rejection replaces the one before.
RecordCipError(status, ext) ==
    /\ rejected' = rejected + 1
    /\ cipErr' = [status |-> status, ext |-> ext, id |-> rejected + 1]

Rejected(t, status, ext) ==
    /\ RecordCipError(status, ext)
    /\ Becomes(t, thr[t].call, [out |-> [rc |-> "CIP_STATUS", val |-> [status |-> status, ext |-> ext]],
                                plc |-> thr[t].plc, id |-> rejected + 1])
Settles(t, rc, val) == Returns(t, thr[t].call, rc, val) /\ UNCHANGED <<cipErr, rejected>>

\* The extended status, when the reply has it.
ExtOf(r) == IF Len(r) >= 4 /\ r[4] >= 1 /\ Len(r) >= 4 + 2 * r[4] THEN LdU16(r, 5) ELSE 0

\* Handle and payload of a structure's reply.
StructOf(r) ==
    LET off == 4 + 2 * r[4] IN [handle |-> LdU16(r, off + 3), data |-> SubSeq(r, off + 5, Len(r))]

\* The reply to a raw message is the caller's to take apart.
RoutedBack(t) ==
    /\ Back(t, "routed")
    /\ Settles(t, "OK", None) /\ UNCHANGED opened

\* bp_client_read_struct.
ReadStructBack(t) ==
    /\ Back(t, "read_struct")
    /\ LET r == Received(t)
       IN CASE Len(r) < 4 -> Settles(t, "GENERIC", None)
            [] Len(r) >= 4 /\ r[3] # 0 -> Rejected(t, r[3], ExtOf(r))
            [] Len(r) >= 4 /\ r[3] = 0 /\ Len(r) < 8 + 2 * r[4] -> Settles(t, "GENERIC", None)
            [] OTHER -> Settles(t, "OK", StructOf(r))
    /\ UNCHANGED opened

WriteStructBack(t) ==
    /\ Back(t, "write_struct")
    /\ LET r == Received(t)
       IN CASE Len(r) < 3 -> Settles(t, "GENERIC", None)
            [] Len(r) >= 3 /\ r[3] # 0 -> Rejected(t, r[3], ExtOf(r))
            [] OTHER -> Settles(t, "OK", None)
    /\ UNCHANGED opened

\* A reply to Large_Forward_Open that is no success is a rejection, an empty one
\* with status 0xFF.
OpenConnBack(t) ==
    /\ Back(t, "open")
    /\ LET r == Received(t)
       IN IF Len(r) < 12 \/ r[1] \notin {219, 212} \/ r[3] # 0
          THEN Rejected(t, IF Len(r) >= 3 THEN r[3] ELSE 255, IF Len(r) >= 6 /\ r[4] # 0 THEN LdU16(r, 5) ELSE 0)
               /\ UNCHANGED opened
          ELSE Settles(t, "OK", None) /\ opened' = opened \cup {thr[t].call.conn}

CloseConnBack(t) ==
    /\ Back(t, "close")
    /\ LET r == Received(t)
       IN IF Len(r) < 4 \/ r[1] # 206 \/ r[3] # 0
          THEN Rejected(t, IF Len(r) >= 3 THEN r[3] ELSE 255, IF Len(r) >= 6 /\ r[4] # 0 THEN LdU16(r, 5) ELSE 0)
          ELSE Settles(t, "OK", None)
    /\ UNCHANGED opened

-----------------------------------------------------------------------------

Free(t) == thr[t].pc = "idle" /\ calls < MaxCalls
Start(t, c) ==
    \/ Wrapper(t, c) \/ ReadStruct(t, c) \/ WriteStruct(t, c) \/ RoutedSend(t, c)
    \/ OpenConn(t, c) \/ CloseConn(t, c) \/ TakeCipError(t, c)

Answer(t) ==
    \/ WrapperAnswer(t) \/ RoutedBack(t) \/ ReadStructBack(t) \/ WriteStructBack(t)
    \/ OpenConnBack(t) \/ CloseConnBack(t)

\* Begin's guard is repeated before the choice of a call, which TLC would try in vain.
Next ==
    \/ \E id \in conns : PlcTimeout(id)
    \/ \E t \in Threads :
        (Free(t) /\ \E c \in Calls : Start(t, c)) \/ Plc(t) \/ PlcRefuses(t) \/ Cut(t) \/ Lost(t) \/ Answer(t)

Spec == Init /\ [][Next]_vars

-----------------------------------------------------------------------------
(* Properties *)

\* Types; a request is bytes, and fits a message.
TypeOK ==
    /\ calls \in 0 .. MaxCalls /\ faults \in 0 .. MaxFaults
    /\ taken \in 0 .. rejected /\ rejected \in Nat
    /\ cipErr = None \/ cipErr.id \in 1 .. rejected
    /\ \A x \in DOMAIN structs : Len(structs[x].data) = Len(Structs[x].data)
    /\ \A t \in Threads :
          /\ thr[t].pc \in {"idle", "engine", "sent", "back", "overrun"}
          /\ Len(thr[t].msg) <= MaxReq
          /\ \A i \in DOMAIN thr[t].msg : thr[t].msg[i] \in 0 .. 255

\* The fields of every request in a slot lie in the payload it announces, the
\* payload in the slot, and no two fields of one direction overlap.
FieldsFit ==
    /\ TypeOK
    /\ \A t \in Threads :
          /\ thr[t].pc = "engine" => Fits(thr[t].call.fn)
          /\ thr[t].pc = "sent" => Fits(MessageLayout(Len(thr[t].msg), thr[t].cap))

Ended(t, op) == thr[t].pc = "idle" /\ thr[t].call # None /\ thr[t].call.op = op

\* A structure that was read is the controller's at the moment of the read: its handle,
\* and the beginning of its data.  As much of it as the buffer holds beside 8 bytes of
\* header, unless the answer was cut short: bp_client_read_struct cannot tell a short
\* structure from a short answer, and returns the length it has.  A write that succeeds
\* has put the caller's bytes, all of them, into the structure the caller named, and one
\* that names a structure, its handle and its size is not rejected unless the controller
\* is at fault.
StructTrue ==
    /\ \A t \in Threads : Ended(t, "read_struct") /\ thr[t].out.rc = "OK" =>
          LET got == thr[t].out.val
              was == thr[t].plc
              most == Min2(Len(was.data), Min2(thr[t].call.cap, RespBuf) - 8)
          IN /\ got.handle = was.handle
             /\ Len(got.data) <= most /\ got.data = SubSeq(was.data, 1, Len(got.data))
             /\ was.answer = "whole" => Len(got.data) = most
    /\ \A t \in Threads : Ended(t, "write_struct") =>
          LET c == thr[t].call
          IN /\ thr[t].out.rc = "OK" => thr[t].plc.data = c.data
             /\ thr[t].out.rc = "CIP_STATUS" /\ faults = 0 =>
                   ~(/\ c.tag \in DOMAIN Structs /\ c.handle = Structs[c.tag].handle
                     /\ Len(c.data) = Len(Structs[c.tag].data))

\* The request of the routed call c, m, comes apart into u: what the caller put together,
\* for the time the caller gave.
ComesApart(c, m, u) ==
    /\ u.req = c.req /\ Len(m) <= c.cap
    /\ u.route = c.route \o c.hop /\ u.end = Len(m)
    /\ Min2(c.ms, 8160) <= u.wait /\ (u.wait < c.ms + 32 \/ u.wait = 32)

\* A routed request comes apart at the gateway into what the caller put together, its
\* padding gone, and waits at least as long as asked, up to 8160 ms, and less than a tick
\* longer (bp_build_unconnected_send).
RouteSound ==
    \A t \in Threads : thr[t].pc = "sent" /\ thr[t].call.op = "routed" =>
        ComesApart(thr[t].call, thr[t].msg, Unwrap(thr[t].msg))

\* The identities Forward_Close requests name, by their bytes.
ClosedOnWire ==
    {SubSeq(thr[t].msg, 9, 16) : t \in {u \in Threads : thr[u].pc = "sent" /\ thr[u].call.op = "close"}}

\* Forward_Close names a connection as Large_Forward_Open did.  A connection that the
\* controller has and the client has forgotten, unless a call is about to settle it, was
\* lost with an answer.  A connection in the client's table or in a Forward_Close is one
\* the controller has, or had until its idle timeout: the client does not learn of that
\* (conn.c:337-339), so the timeout is the only way for the two to differ.
ConnsAgree ==
    /\ Cardinality(conns \ (Tabled \cup Moving)) <= faults
    /\ Tabled \cup ClosedOnWire \subseteq conns \cup expired

\* A call that returns BP_ERR_CIP_STATUS has left its rejection, or a later one has
\* taken its place, until someone reads it.  It is the controller's status, and its
\* extended status; only of an answer that was cut short before them it is 0xFF, and 0.
\* "reading clears the recorded value" (bpclient.h:84): what is still recorded is
\* newer than what anyone has read.
RejectionReported ==
    /\ cipErr # None => cipErr.id > taken
    /\ \A t \in Threads : thr[t].pc = "idle" /\ thr[t].out.rc = "CIP_STATUS" =>
          LET was == thr[t].plc
              got == thr[t].out.val
          IN /\ taken >= thr[t].id \/ (cipErr # None /\ cipErr.id >= thr[t].id)
             /\ got.status = was.status \/ (was.answer = "cut" /\ got.status = 255)
             /\ got.ext = was.ext \/ (was.answer = "cut" /\ got.ext = 0)
=============================================================================
