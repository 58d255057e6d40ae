------------------------------ MODULE TagAccess ------------------------------
(***************************************************************************)
(* Reading and writing tags (c/src/access.c, accessdb.c, multitag.c).      *)
(*                                                                         *)
(* Every operation becomes one or two batches: descriptors and a data area *)
(* in a slot.  fill copies the values to be written into the data area,    *)
(* the engine executes the descriptors one after another, and read copies  *)
(* results and data back; all three walk the data area by the sizes of the *)
(* descriptors.  Threads interleave between the descriptors of a batch and *)
(* between the two batches of a string.  A descriptor may be refused by    *)
(* the controller, and an answer may be lost, in which case the engine may *)
(* still carry out the rest of the batch later.                            *)
(*                                                                         *)
(* An answer is that of the call's own batch: after a call that gave up    *)
(* the dispatcher does not promise this (OwnReply of SlotIpc), and the     *)
(* properties below are about runs in which it is so.  Of an abandoned     *)
(* batch they have what it does to the tags, not its answer.               *)
(*                                                                         *)
(* A tag is named by the sequence of its dotted parts.  A byte has         *)
(* ByteBits bits, 8 in the code: widths, byte order and signs are kept.    *)
(***************************************************************************)
EXTENDS Integers, Sequences, FiniteSets

CONSTANTS
    Threads,
    Calls,      \* the calls threads may make
    Symbols,    \* Symbols[name]: the descriptor the symbol cache finds
    Memory,     \* Memory[tag]: type and first bytes of the controller's tags
    ByteBits,   \* bits of a byte, 8
    MaxBatch,   \* descriptors a batch may have, 16
    SlotRoom,   \* BP_SLOT_STRIDE - 0x80
    MaxCount,   \* UINT16_MAX, elements a descriptor can count
    MaxPayload, \* UINT32_MAX, bytes payload_size can count
    MaxCalls,   \* bound: calls made
    MaxFaults,  \* bound: failures
    None

ASSUME TagAccessAssumption ==
    /\ {ByteBits, MaxBatch} \subseteq Nat \ {0}
    /\ {SlotRoom, MaxCount, MaxPayload, MaxCalls, MaxFaults} \subseteq Nat

VARIABLES
    thr,    \* thr[t]: the call thread t is in, or the outcome of its last one
    mem,    \* mem[tag]: the bytes the controller's tags hold
    late,   \* requests of abandoned batches the engine may still execute
    held,   \* held[t][tag]: values the tag has had during t's call
    alone,  \* alone[t]: nothing else has touched the string of t's call
    whole,  \* whole[tag]: the string last written by a call that was alone, or None
    calls, faults

vars == <<thr, mem, late, held, alone, whole, calls, faults>>

-----------------------------------------------------------------------------
(* Types and their bytes *)

Pow2[n \in Nat] == IF n = 0 THEN 1 ELSE 2 * Pow2[n - 1]

Byte == Pow2[ByteBits]
WordBits == 4 * ByteBits

\* Sums(g)[i]: the sum of the first i elements of g.
Sums(g) ==
    LET s[i \in 0 .. Len(g)] == IF i = 0 THEN 0 ELSE s[i - 1] + g[i]
    IN s

\* The element sizes of the typed helpers; REAL and LREAL stand for their bits.
Width == [BOOL |-> 1, SINT |-> 1, USINT |-> 1, INT |-> 2, UINT |-> 2, DINT |-> 4, UDINT |-> 4,
          REAL |-> 4, LINT |-> 8, ULINT |-> 8, LREAL |-> 8, BIT_ARRAY |-> 4]
SignedTypes == {"SINT", "INT", "DINT", "LINT"}

\* kind_for_atomic: a supported type whose size is the expected one.
KindForAtomic(sym) ==
    IF sym.type \in DOMAIN Width \ {"BIT_ARRAY"} /\ sym.size = Width[sym.type]
    THEN sym.type ELSE "NONE"

\* The first byte is the least significant one.
Unsigned(bytes) ==
    Sums([i \in 1 .. Len(bytes) |-> bytes[i] * Pow2[ByteBits * (i - 1)]])[Len(bytes)]

DecodeScalar(kind, bytes) ==
    LET u == Unsigned(bytes)
        span == Pow2[ByteBits * Width[kind]]
    IN CASE kind = "BOOL" -> IF bytes[1] # 0 THEN 1 ELSE 0
         [] kind \in SignedTypes /\ 2 * u >= span -> u - span
         [] OTHER -> u

EncodeScalar(kind, v) ==
    IF kind = "BOOL" THEN <<IF v # 0 THEN 1 ELSE 0>>
    ELSE [i \in 1 .. Width[kind] |->
            ((v % Pow2[ByteBits * Width[kind]]) \div Pow2[ByteBits * (i - 1)]) % Byte]

\* The k-th element of n bytes each, and a whole array.
Element(bytes, n, k) == SubSeq(bytes, (k - 1) * n + 1, k * n)
DecodeArray(type, bytes) ==
    [k \in 1 .. Len(bytes) \div Width[type] |-> DecodeScalar(type, Element(bytes, Width[type], k))]
EncodeArray(type, vals) ==
    [j \in 1 .. Len(vals) * Width[type] |->
        EncodeScalar(type, vals[(j - 1) \div Width[type] + 1])[((j - 1) % Width[type]) + 1]]

\* What the controller means by bytes: the most significant byte, the last one,
\* carries the sign, and a BOOL is true or false.
PlcValue(type, b) ==
    LET n == Len(b)
        top == IF type \in SignedTypes /\ b[n] >= Byte \div 2 THEN b[n] - Byte ELSE b[n]
        horner[i \in 1 .. n] == IF i = 1 THEN top ELSE horner[i - 1] * Byte + b[n + 1 - i]
    IN IF type = "BOOL" THEN IF b[1] = 0 THEN 0 ELSE 1 ELSE horner[n]

\* BOOL arrays travel as words of WordBits bits; bits past the count are zero.
DwordsForBits(n) == (n + WordBits - 1) \div WordBits
BitOf(word, b) == (word \div Pow2[b]) % 2
PackBits(bools) ==
    [w \in 1 .. DwordsForBits(Len(bools)) |->
        LET bit(b) == (w - 1) * WordBits + b
        IN Sums([b \in 1 .. WordBits |->
                   IF bit(b) <= Len(bools) /\ bools[bit(b)] # 0 THEN Pow2[b - 1] ELSE 0])[WordBits]]
UnpackBits(words, n) ==
    [i \in 1 .. n |-> BitOf(words[(i - 1) \div WordBits + 1], (i - 1) % WordBits)]

-----------------------------------------------------------------------------
(* Batches: bp_tagdb_access and bp_tagdb_access_db *)

\* Slot offsets: first descriptor, bytes per descriptor, data area of one descriptor,
\* and the descriptor's last field, which the engine writes.
Form == [path |-> [req0 |-> 384, stride |-> 288, area0 |-> 672, result |-> 280],
         db   |-> [req0 |-> 136, stride |-> 296, area0 |-> 432, result |-> 288]]

Request(tag, type, size, count, act, data) ==
    [tag |-> tag, type |-> type, size |-> size, count |-> count, act |-> act, data |-> data]
ReadOf(tag, type, count) == Request(tag, type, Width[type], count, "read", <<>>)
WriteOf(tag, type, data) ==
    Request(tag, type, Width[type], Len(data) \div Width[type], "write", data)

\* The bytes of a request in the data area, and where they end: Offsets(reqs)[i].
Bytes(r) == r.size * r.count
Offsets(reqs) == Sums([i \in DOMAIN reqs |-> Bytes(reqs[i])])
AreaOf(reqs) == Offsets(reqs)[Len(reqs)]

AreaStart(n, form) == Form[form].area0 + (n - 1) * Form[form].stride

AccessRc(reqs, form) ==
    CASE Len(reqs) = 0 -> "NULL_ARG"
      [] Len(reqs) > MaxBatch -> "PARAM_RANGE"
      [] AreaStart(Len(reqs), form) + AreaOf(reqs) > SlotRoom -> "SLOT_TOO_LARGE"
      [] OTHER -> "OK"

\* access_fill, accessdb_fill: a read leaves its part of the area as it was, here 1.
AccessFill(reqs) ==
    LET off == Offsets(reqs)
        owner(j) == CHOOSE i \in DOMAIN reqs : off[i - 1] < j /\ j <= off[i]
    IN [j \in 1 .. AreaOf(reqs) |->
          LET r == reqs[owner(j)]
          IN IF r.act = "write" THEN r.data[j - off[owner(j) - 1]] ELSE 1]

\* Wrong variant of AccessRead: the data of requests that failed is skipped.
AccessReadSkips(reqs, res, area) ==
    LET off == Sums([i \in DOMAIN reqs |-> IF res[i] = 0 THEN Bytes(reqs[i]) ELSE 0])
    IN [i \in DOMAIN reqs |->
          IF reqs[i].act = "read" THEN SubSeq(area, off[i - 1] + 1, off[i - 1] + Bytes(reqs[i]))
          ELSE <<>>]

\* access_read, accessdb_read: the bytes each request gets back, whatever its result.
AccessRead(reqs, res, area) ==
    LET off == Offsets(reqs)
    IN [i \in DOMAIN reqs |->
          IF reqs[i].act = "read" THEN SubSeq(area, off[i - 1] + 1, off[i]) ELSE <<>>]

-----------------------------------------------------------------------------
(* What callers pass and the controller holds *)

\* What the C type of a value can hold.
Values(type) ==
    LET span == Pow2[ByteBits * Width[type]]
    IN CASE type = "BOOL" -> {0, 1}
         [] type \in SignedTypes -> -(span \div 2) .. (span \div 2) - 1
         [] OTHER -> 0 .. span - 1

Elems(s) == {s[i] : i \in DOMAIN s}

\* A request whose buffer has the bytes it announces.
IsRequest(r) ==
    /\ r.size \in Nat /\ r.count \in Nat /\ r.act \in {"read", "write"}
    /\ r.act = "write" => r.data \in Seq(0 .. Byte - 1) /\ Len(r.data) = Bytes(r)
IsBatch(reqs) == reqs \in Seq(Elems(reqs)) /\ \A i \in DOMAIN reqs : IsRequest(reqs[i])

StringOps == {"read_string", "write_string"}

\* The types of the arguments in bpclient.h.  payload_size does not wrap, which the
\* code leaves to its callers.  A string holds no NUL, so that a NUL read back is a
\* byte nobody has written.
IsCall(c) ==
    /\ c.op = "access" => /\ c.form \in DOMAIN Form /\ IsBatch(c.reqs)
                         /\ AreaStart(Len(c.reqs), c.form) + AreaOf(c.reqs) <= MaxPayload
    /\ c.op \in {"read_tags", "write_tags"} => c.names \in Seq(Elems(c.names))
    /\ c.op = "write_tags" =>
          \A i \in DOMAIN c.names :
              c.vals[i].kind \in DOMAIN Width => c.vals[i].v \in Values(c.vals[i].kind)
    /\ c.op \in {"read", "write"} => c.type \in DOMAIN Width
    /\ c.op \in {"read", "read_bools"} => c.count \in Nat
    /\ c.op = "write" => c.vals \in Seq(Values(c.type))
    /\ c.op = "write_bools" => c.bools \in Seq({0, 1})
    /\ c.op \in StringOps => c.tag \in Seq(Elems(c.tag))
    /\ c.op = "read_string" => c.room \in Nat
    /\ c.op = "write_string" => c.str \in Seq(Values("SINT") \ {0})

\* The members of a tag that string calls name.
LenOf(tag) == Append(tag, "LEN")
DataOf(tag) == Append(tag, "DATA")
StringTags == {c.tag : c \in {d \in Calls : d.op \in StringOps}}
Members == {LenOf(x) : x \in StringTags} \cup {DataOf(x) : x \in StringTags}

\* The tags a call other than write_string may write.
Written(c) ==
    CASE c.op = "access" -> {c.reqs[i].tag : i \in {j \in DOMAIN c.reqs : c.reqs[j].act = "write"}}
      [] c.op = "write_tags" -> Elems(c.names)
      [] c.op \in {"write", "write_bools"} -> {c.tag}
      [] OTHER -> {}

ASSUME CallsAssumption == \A c \in Calls : IsCall(c)

ASSUME MemoryAssumption ==
    \A x \in DOMAIN Memory :
        Memory[x].type \in DOMAIN Width /\ Memory[x].bytes \in Seq(0 .. Byte - 1)

\* Strings are written by write_string only, and are empty at first; a length that
\* write_string accepts fits the DINT it is stored in.
ASSUME StringsAssumption ==
    /\ \A c \in Calls : Written(c) \cap Members = {}
    /\ \A x \in DOMAIN Memory \cap {LenOf(y) : y \in StringTags} :
          \A j \in DOMAIN Memory[x].bytes : Memory[x].bytes[j] = 0
    /\ 2 * MaxCount < Pow2[WordBits]

-----------------------------------------------------------------------------
(* Calls *)

Idle == [pc |-> "idle", call |-> None, form |-> "path", reqs |-> <<>>, res |-> <<>>,
         area |-> <<>>, len |-> 0, out |-> [rc |-> None, val |-> None, str |-> None]]

Unheld == [x \in DOMAIN Memory |-> {}]

Init ==
    /\ thr = [t \in Threads |-> Idle]
    /\ mem = [x \in DOMAIN Memory |-> Memory[x].bytes]
    /\ late = <<>>
    /\ held = [t \in Threads |-> Unheld]
    /\ alone = [t \in Threads |-> FALSE]
    /\ whole = [x \in StringTags |-> <<>>]
    /\ calls = 0 /\ faults = 0

Busy(t) == thr[t].pc = "engine"
Fault == faults < MaxFaults /\ faults' = faults + 1

\* A call begins: held and alone start afresh, and a writer of a string disturbs
\* everyone else at work on it.  The outcomes of finished calls are forgotten.
StringTag(c) == IF c.op \in StringOps THEN c.tag ELSE None
Begin(t, c, op) ==
    /\ ~Busy(t) /\ c.op = op
    /\ calls < MaxCalls /\ calls' = calls + 1
    /\ held' = [u \in Threads |-> CASE u = t -> [x \in DOMAIN Memory |-> {mem[x]}]
                                    [] u # t /\ Busy(u) -> held[u]
                                    [] OTHER -> Unheld]
    /\ LET others == {u \in Threads \ {t} : Busy(u) /\ StringTag(thr[u].call) = StringTag(c)}
       IN alone' = [u \in Threads |->
             CASE u = t -> \A v \in others : op = "read_string" /\ thr[v].call.op = op
               [] u \in others -> alone[u] /\ op # "write_string"
               [] OTHER -> Busy(u) /\ alone[u]]
    /\ UNCHANGED <<mem, late>>

Becomes(t, r) == thr' = [u \in Threads |-> IF u = t THEN r ELSE IF Busy(u) THEN thr[u] ELSE Idle]
Returns(t, c, rc, val, str) ==
    Becomes(t, [Idle EXCEPT !.call = c, !.out = [rc |-> rc, val |-> val, str |-> str]])
Fails(t, c, rc) == Returns(t, c, rc, None, None)

\* bp_tagdb_access: a batch is refused, or goes to the engine.
Send(t, c, reqs, form, len) ==
    LET rc == AccessRc(reqs, form)
    IN IF rc # "OK" THEN Fails(t, c, rc)
       ELSE Becomes(t, [Idle EXCEPT !.pc = "engine", !.call = c, !.form = form, !.reqs = reqs,
                                    !.area = AccessFill(reqs), !.len = len])

\* bp_tagdb_access, bp_tagdb_access_db.
Access(t, c) ==
    /\ Begin(t, c, "access")
    /\ Send(t, c, c.reqs, c.form, 0)
    /\ UNCHANGED <<whole, faults>>

\* The check a name must pass before the batch is sent.
Resolve(name) ==
    CASE name \notin DOMAIN Symbols -> "NONE"
      [] Symbols[name].dim0 # 0 \/ Symbols[name].struct # 0 -> "NONE"
      [] OTHER -> KindForAtomic(Symbols[name])

\* bp_tagdb_read_tags: a lookup or an allocation may fail as well.
ReadTags(t, c) ==
    /\ Begin(t, c, "read_tags")
    /\ \/ UNCHANGED faults
          /\ CASE c.names = <<>> -> Returns(t, c, "OK", <<>>, None)
               [] \E i \in DOMAIN c.names : Resolve(c.names[i]) = "NONE" ->
                     Fails(t, c, "PARAM_RANGE")
               [] OTHER ->
                     Send(t, c, [i \in DOMAIN c.names |->
                                    ReadOf(c.names[i], Resolve(c.names[i]), 1)], "path", 0)
       \/ c.names # <<>> /\ Fault /\ Fails(t, c, "RECV_ANSWER")
    /\ UNCHANGED whole

\* Wrong variant of Writable: the kind of the value is not compared.
WritableAny(name, v) == Resolve(name) # "NONE"

\* The value's kind is the tag's.
Writable(name, v) == Resolve(name) # "NONE" /\ v.kind = Resolve(name)

\* bp_tagdb_write_tags.
WriteTags(t, c) ==
    /\ Begin(t, c, "write_tags")
    /\ \/ UNCHANGED faults
          /\ CASE c.names = <<>> -> Returns(t, c, "OK", <<>>, None)
               [] \E i \in DOMAIN c.names : ~Writable(c.names[i], c.vals[i]) ->
                     Fails(t, c, "PARAM_RANGE")
               [] OTHER ->
                     Send(t, c, [i \in DOMAIN c.names |->
                                    WriteOf(c.names[i], Resolve(c.names[i]),
                                            EncodeScalar(c.vals[i].kind, c.vals[i].v))], "path", 0)
       \/ c.names # <<>> /\ Fault /\ Fails(t, c, "RECV_ANSWER")
    /\ UNCHANGED whole

\* bp_tagdb_read_<type>, bp_tagdb_read_<type>_array.
ReadTyped(t, c) ==
    /\ Begin(t, c, "read")
    /\ IF c.count = 0 THEN Fails(t, c, "NULL_ARG")
       ELSE Send(t, c, <<ReadOf(c.tag, c.type, c.count)>>, "path", 0)
    /\ UNCHANGED <<whole, faults>>

\* bp_tagdb_write_<type>, bp_tagdb_write_<type>_array.
WriteTyped(t, c) ==
    /\ Begin(t, c, "write")
    /\ IF c.vals = <<>> THEN Fails(t, c, "NULL_ARG")
       ELSE Send(t, c, <<WriteOf(c.tag, c.type, EncodeArray(c.type, c.vals))>>, "path", 0)
    /\ UNCHANGED <<whole, faults>>

\* bp_tagdb_read_bool_array.
ReadBools(t, c) ==
    /\ Begin(t, c, "read_bools")
    /\ IF c.count = 0 THEN Fails(t, c, "NULL_ARG")
       ELSE Send(t, c, <<ReadOf(c.tag, "BIT_ARRAY", DwordsForBits(c.count))>>, "path", 0)
    /\ UNCHANGED <<whole, faults>>

\* bp_tagdb_write_bool_array.
WriteBools(t, c) ==
    /\ Begin(t, c, "write_bools")
    /\ IF c.bools = <<>> THEN Fails(t, c, "NULL_ARG")
       ELSE Send(t, c, <<WriteOf(c.tag, "BIT_ARRAY", EncodeArray("BIT_ARRAY", PackBits(c.bools)))>>,
                 "path", 0)
    /\ UNCHANGED <<whole, faults>>

\* bp_tagdb_read_string: LEN first.
ReadString(t, c) ==
    /\ Begin(t, c, "read_string")
    /\ IF c.room = 0 THEN Fails(t, c, "NULL_ARG")
       ELSE Send(t, c, <<ReadOf(LenOf(c.tag), "DINT", 1)>>, "path", 0)
    /\ UNCHANGED <<whole, faults>>

SendLen(t, c) ==
    Send(t, c, <<WriteOf(LenOf(c.tag), "DINT", EncodeScalar("DINT", Len(c.str)))>>, "path", 0)
SendData(t, c) ==
    Send(t, c, <<WriteOf(DataOf(c.tag), "SINT", EncodeArray("SINT", c.str))>>, "path", 0)

\* bp_tagdb_write_string: DATA first, unless there is none, then LEN.  Until it is
\* done the tag holds no whole string.
WriteString(t, c) ==
    /\ Begin(t, c, "write_string")
    /\ IF Len(c.str) > MaxCount THEN Fails(t, c, "PARAM_RANGE") /\ UNCHANGED whole
       ELSE /\ whole' = [whole EXCEPT ![c.tag] = None]
            /\ IF c.str = <<>> THEN SendLen(t, c) ELSE SendData(t, c)
    /\ UNCHANGED faults

-----------------------------------------------------------------------------
(* The engine *)

Accepts(r) ==
    /\ r.tag \in DOMAIN Memory
    /\ r.type = Memory[r.tag].type /\ r.size = Width[r.type]
    /\ Bytes(r) <= Len(mem[r.tag])

\* A write of bytes into a tag, seen by every call in progress.
Store(r, data) ==
    LET bytes == [j \in DOMAIN mem[r.tag] |-> IF j <= Bytes(r) THEN data[j] ELSE mem[r.tag][j]]
    IN /\ mem' = [mem EXCEPT ![r.tag] = bytes]
       /\ held' = [u \in Threads |->
                     IF Busy(u) THEN [held[u] EXCEPT ![r.tag] = @ \cup {bytes}] ELSE held[u]]

\* The next descriptor of t's batch: executed, or refused with a CIP status.
Exec(t) ==
    /\ Busy(t) /\ Len(thr[t].res) < Len(thr[t].reqs)
    /\ LET i == Len(thr[t].res) + 1
           r == thr[t].reqs[i]
           from == Offsets(thr[t].reqs)[i - 1]
           upto == Offsets(thr[t].reqs)[i]
       IN \/ /\ Accepts(r) /\ r.act = "write"
             /\ Store(r, SubSeq(thr[t].area, from + 1, upto))
             /\ thr' = [thr EXCEPT ![t].res = Append(@, 0)]
             /\ UNCHANGED faults
          \/ /\ Accepts(r) /\ r.act = "read"
             /\ thr' = [thr EXCEPT ![t].res = Append(@, 0),
                          ![t].area = [j \in DOMAIN @ |-> IF from < j /\ j <= upto
                                                          THEN mem[r.tag][j - from] ELSE @[j]]]
             /\ UNCHANGED <<mem, held, faults>>
          \/ /\ IF Accepts(r) THEN Fault ELSE UNCHANGED faults
             /\ thr' = [thr EXCEPT ![t].res = Append(@, 1)]
             /\ UNCHANGED <<mem, held>>
    /\ UNCHANGED <<late, alone, whole, calls>>

\* bp_client_call gives up on the answer; the engine may not have finished.
Lost(t) ==
    /\ Busy(t) /\ Fault
    /\ late' = late \o SubSeq(thr[t].reqs, Len(thr[t].res) + 1, Len(thr[t].reqs))
    /\ Fails(t, thr[t].call, "RECV_ANSWER")
    /\ UNCHANGED <<mem, held, alone, whole, calls>>

\* The engine executes, or drops, what is left of an abandoned batch.
Late ==
    /\ late # <<>> /\ late' = Tail(late)
    /\ \/ /\ Accepts(Head(late)) /\ Head(late).act = "write"
          /\ Store(Head(late), Head(late).data)
          /\ alone' = [t \in Threads |-> FALSE]
          /\ whole' = [x \in StringTags |-> None]
       \/ UNCHANGED <<mem, held, alone, whole>>
    /\ UNCHANGED <<thr, calls, faults>>

-----------------------------------------------------------------------------
(* Answers *)

Answered(t, op) ==
    /\ Busy(t) /\ thr[t].call.op = op /\ Len(thr[t].res) = Len(thr[t].reqs)
    /\ UNCHANGED <<mem, late, held, alone, calls, faults>>
Data(t) == AccessRead(thr[t].reqs, thr[t].res, thr[t].area)
Refused(t) == \E i \in DOMAIN thr[t].res : thr[t].res[i] # 0

\* Wrong variant of BatchRc: the last tag decides.
BatchRcLast(t) == IF thr[t].res[Len(thr[t].res)] # 0 THEN "GENERIC" ELSE "OK"

\* One refused tag fails the whole batch.
BatchRc(t) == IF Refused(t) THEN "GENERIC" ELSE "OK"

AccessAnswer(t) ==
    /\ Answered(t, "access")
    /\ Returns(t, thr[t].call, "OK", [res |-> thr[t].res, data |-> Data(t)], None)
    /\ UNCHANGED whole

ReadTagsAnswer(t) ==
    /\ Answered(t, "read_tags")
    /\ Returns(t, thr[t].call, BatchRc(t),
               [i \in DOMAIN thr[t].reqs |->
                  IF thr[t].res[i] # 0 THEN None
                  ELSE DecodeScalar(thr[t].reqs[i].type, Data(t)[i])], None)
    /\ UNCHANGED whole

\* Every tag's result comes back in its value (cip_status).
WriteTagsAnswer(t) ==
    /\ Answered(t, "write_tags")
    /\ Returns(t, thr[t].call, BatchRc(t), thr[t].res, None)
    /\ UNCHANGED whole

WriteAnswer(t) ==
    /\ \E op \in {"write", "write_bools"} : Answered(t, op)
    /\ Returns(t, thr[t].call, BatchRc(t), <<>>, None)
    /\ UNCHANGED whole

ReadTypedAnswer(t) ==
    /\ Answered(t, "read")
    /\ IF Refused(t) THEN Fails(t, thr[t].call, "GENERIC")
       ELSE Returns(t, thr[t].call, "OK", DecodeArray(thr[t].reqs[1].type, Data(t)[1]), None)
    /\ UNCHANGED whole

ReadBoolsAnswer(t) ==
    /\ Answered(t, "read_bools")
    /\ IF Refused(t) THEN Fails(t, thr[t].call, "GENERIC")
       ELSE Returns(t, thr[t].call, "OK",
                    UnpackBits(DecodeArray("BIT_ARRAY", Data(t)[1]), thr[t].call.count), None)
    /\ UNCHANGED whole

InLen(t) == thr[t].reqs[1].tag = LenOf(thr[t].call.tag)
Least(S) == CHOOSE x \in S : \A y \in S : x <= y

\* A string and the LEN it was read with; str is what it should be when nothing
\* else has touched the tag.
ReturnsString(t, len, chars) ==
    Returns(t, thr[t].call, "OK", [len |-> len, chars |-> chars],
            IF alone[t] THEN whole[thr[t].call.tag] ELSE None)

\* LEN has arrived: a negative one is an error, and it is cut to the caller's room.
ReadStringLen(t) ==
    /\ Answered(t, "read_string") /\ InLen(t)
    /\ LET len == DecodeScalar("DINT", Data(t)[1])
           toRead == Least({len, thr[t].call.room - 1, MaxCount})
       IN CASE Refused(t) \/ len < 0 -> Fails(t, thr[t].call, "GENERIC")
            [] ~Refused(t) /\ len >= 0 /\ toRead = 0 -> ReturnsString(t, len, <<>>)
            [] OTHER -> Send(t, thr[t].call, <<ReadOf(DataOf(thr[t].call.tag), "SINT", toRead)>>,
                             "path", len)
    /\ UNCHANGED whole

ReadStringData(t) ==
    /\ Answered(t, "read_string") /\ ~InLen(t)
    /\ IF Refused(t) THEN Fails(t, thr[t].call, "GENERIC")
       ELSE ReturnsString(t, thr[t].len, DecodeArray("SINT", Data(t)[1]))
    /\ UNCHANGED whole

\* Wrong variant of WriteStringData: LEN follows whatever became of DATA.
WriteStringDataAnyway(t) ==
    /\ Answered(t, "write_string") /\ ~InLen(t)
    /\ SendLen(t, thr[t].call)
    /\ UNCHANGED whole

\* DATA is written: LEN follows, and not when DATA was refused.
WriteStringData(t) ==
    /\ Answered(t, "write_string") /\ ~InLen(t)
    /\ IF Refused(t) THEN Fails(t, thr[t].call, "GENERIC") ELSE SendLen(t, thr[t].call)
    /\ UNCHANGED whole

WriteStringLen(t) ==
    /\ Answered(t, "write_string") /\ InLen(t)
    /\ Returns(t, thr[t].call, BatchRc(t), <<>>, None)
    /\ whole' = [whole EXCEPT ![thr[t].call.tag] =
                    IF alone[t] /\ ~Refused(t) THEN thr[t].call.str ELSE @]

-----------------------------------------------------------------------------

Free(t) == ~Busy(t) /\ calls < MaxCalls
Start(t, c) ==
    \/ Access(t, c) \/ ReadTags(t, c) \/ WriteTags(t, c) \/ ReadTyped(t, c) \/ WriteTyped(t, c)
    \/ ReadBools(t, c) \/ WriteBools(t, c) \/ ReadString(t, c) \/ WriteString(t, c)

Answer(t) ==
    \/ AccessAnswer(t) \/ ReadTagsAnswer(t) \/ WriteTagsAnswer(t) \/ WriteAnswer(t)
    \/ ReadTypedAnswer(t) \/ ReadBoolsAnswer(t) \/ ReadStringLen(t) \/ ReadStringData(t)
    \/ WriteStringData(t) \/ WriteStringLen(t)

\* Begin's guard is repeated before the choice of a call, which TLC would try in vain.
Next ==
    \/ \E t \in Threads : (Free(t) /\ \E c \in Calls : Start(t, c)) \/ Exec(t) \/ Lost(t) \/ Answer(t)
    \/ Late

Spec == Init /\ [][Next]_vars

-----------------------------------------------------------------------------
(* Properties *)

\* Types; a batch at the engine fits its slot and is not longer than the engine takes.
TypeOK ==
    /\ calls \in 0 .. MaxCalls /\ faults \in 0 .. MaxFaults
    /\ alone \in [Threads -> BOOLEAN]
    /\ \A x \in DOMAIN Memory : mem[x] \in [DOMAIN Memory[x].bytes -> 0 .. Byte - 1]
    /\ \A t \in Threads :
          /\ thr[t].pc \in {"idle", "engine"} /\ thr[t].form \in DOMAIN Form
          /\ Len(thr[t].reqs) <= MaxBatch /\ Len(thr[t].res) <= Len(thr[t].reqs)
          /\ Len(thr[t].area) <= SlotRoom /\ \A j \in DOMAIN thr[t].area : thr[t].area[j] \in 0 .. Byte - 1

\* "mismatches are rejected before any IPC" (bpclient.h:1042): the engine sees the
\* batch the caller asked for, tag by tag and kind by kind, or nothing of it; its
\* descriptors, results and data do not overlap, and end before the slot's reserve
\* (the offsets of access.c and accessdb.c).
BatchFaithful ==
    /\ TypeOK
    /\ \A t \in Threads : Busy(t) =>
          LET c == thr[t].call
              reqs == thr[t].reqs
              f == Form[thr[t].form]
              start == AreaStart(Len(reqs), thr[t].form)
          IN /\ f.result + 4 <= f.stride
             /\ f.req0 + Len(reqs) * f.stride <= start /\ start + Len(thr[t].area) <= SlotRoom
             /\ c.op \in {"read_tags", "write_tags"} =>
                   /\ Len(reqs) = Len(c.names)
                   /\ \A i \in DOMAIN c.names :
                         /\ reqs[i].tag = c.names[i]
                         /\ Symbols[c.names[i]].struct = 0 /\ Symbols[c.names[i]].dim0 = 0
                         /\ c.op = "write_tags" => c.vals[i].kind = Symbols[c.names[i]].type

Done(t, op) == thr[t].pc = "idle" /\ thr[t].call # None /\ thr[t].call.op = op

\* What element k, and bit i, of tag x are when its bytes are h.
ValueAt(x, h, k) == PlcValue(Memory[x].type, Element(h, Width[Memory[x].type], k))
BitAt(x, h, i) == BitOf(ValueAt(x, h, (i - 1) \div WordBits + 1), (i - 1) % WordBits)

\* A value handed to a caller is one its own tag has had during the call: never
\* another tag's, a refused tag's, or what the slot held before.
ReadTrue ==
    \A t \in Threads :
        LET c == thr[t].call
            out == thr[t].out
        IN /\ Done(t, "read_tags") /\ out.val # None =>
                 \A i \in DOMAIN out.val : out.val[i] # None =>
                    \E h \in held[t][c.names[i]] : out.val[i] = ValueAt(c.names[i], h, 1)
           /\ Done(t, "access") /\ out.rc = "OK" =>
                 \A i \in DOMAIN c.reqs : c.reqs[i].act = "read" /\ out.val.res[i] = 0 =>
                    \E h \in held[t][c.reqs[i].tag] :
                        out.val.data[i] = SubSeq(h, 1, Bytes(c.reqs[i]))
           /\ Done(t, "read") /\ out.rc = "OK" =>
                 \E h \in held[t][c.tag] : out.val = [k \in 1 .. c.count |-> ValueAt(c.tag, h, k)]
           /\ Done(t, "read_bools") /\ out.rc = "OK" =>
                 \E h \in held[t][c.tag] : out.val = [i \in 1 .. c.count |-> BitAt(c.tag, h, i)]

\* A write that reports success has put every value of the call into its tag.  A batch
\* that fails tells which: of write_tags and access, every tag whose own status is 0 has
\* had its value, whatever became of the others.
WriteTrue ==
    \A t \in Threads :
        LET c == thr[t].call
            out == thr[t].out
        IN /\ Done(t, "write_tags") /\ (out.rc = "OK" \/ out.val # None) =>
                 \A i \in DOMAIN c.names : out.rc = "OK" \/ out.val[i] = 0 =>
                    \E h \in held[t][c.names[i]] : c.vals[i].v = ValueAt(c.names[i], h, 1)
           /\ Done(t, "access") /\ out.rc = "OK" =>
                 \A i \in DOMAIN c.reqs : c.reqs[i].act = "write" /\ out.val.res[i] = 0 =>
                    \E h \in held[t][c.reqs[i].tag] : c.reqs[i].data = SubSeq(h, 1, Bytes(c.reqs[i]))
           /\ Done(t, "write") /\ out.rc = "OK" =>
                 \E h \in held[t][c.tag] :
                    \A k \in DOMAIN c.vals : c.vals[k] = ValueAt(c.tag, h, k)
           /\ Done(t, "write_bools") /\ out.rc = "OK" =>
                 \E h \in held[t][c.tag] :
                    \A i \in DOMAIN c.bools : c.bools[i] = BitAt(c.tag, h, i)

\* A string read while nobody writes it, after a write nobody disturbed, is the
\* string that was written, cut to the caller's buffer, with its full length.  And
\* because DATA is written before LEN and LEN is read before DATA, no reader gets
\* a byte no writer has ever put there (0), even when calls overlap, fail half-way
\* or are executed late.
StringWhole ==
    \A t \in Threads : Done(t, "read_string") /\ thr[t].out.rc = "OK" =>
        LET out == thr[t].out
        IN /\ out.str # None =>
                 /\ out.val.len = Len(out.str)
                 /\ out.val.chars =
                       SubSeq(out.str, 1, Least({Len(out.str), thr[t].call.room - 1, MaxCount}))
           /\ \A i \in DOMAIN out.val.chars : out.val.chars[i] # 0
=============================================================================
