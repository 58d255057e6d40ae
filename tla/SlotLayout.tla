----------------------------- MODULE SlotLayout -----------------------------
(***************************************************************************)
(* Where the one-shot operations keep their fields in a slot: the payload  *)
(* size each announces in the header, the fields it fills, and the fields  *)
(* it reads back (c/src/proto.h and the fill and read functions of         *)
(* client.c, tagdb.c, module.c, identity.c, path.c, wctime.c, errors.c,    *)
(* message.c).  Offsets are bytes from the start of the slot.              *)
(***************************************************************************)
EXTENDS Naturals

PayloadStart == \h78
SlotStride == \h4B000

Field(off, len) == [off |-> off, len |-> len]
Op(fn, size, fill, read) == [fn |-> fn, size |-> size, fill |-> fill, read |-> read]

\* A path is at most MaxPathText characters and a NUL, in 256 bytes.
MaxPathText == 254
PathText == Field(PayloadStart, MaxPathText + 1)

SessionLayout ==
    {Op("Open", \h80, {}, {Field(\h78, 4)}), Op("Close", \h78, {}, {}), Op("Dummy", \h78, {}, {})}

TagDbLayout ==
    {Op("CreateTagDbHandle", \h180, {Field(\h78, 256), Field(\h178, 2)}, {Field(\h17C, 4)}),
     Op("DeleteTagDbHandle", \h80, {Field(\h78, 4)}, {}),
     Op("BuildTagDb", \h80, {Field(\h78, 4)}, {Field(\h7C, 2)}),
     Op("TestTagDbVer", \h80, {Field(\h78, 4)}, {})}

SymbolLayout ==
    {Op("GetSymbolInfo", \h100, {Field(\h78, 4), Field(\h7C, 2)}, {Field(\h80, 128)})}

StructLayout ==
    {Op("GetStructInfo", \hB8, {Field(\h78, 4), Field(\h7C, 2)}, {Field(\h80, 56)}),
     Op("GetStructMbrInfo", \hD0, {Field(\h78, 4), Field(\h7C, 2), Field(\h7E, 2)},
        {Field(\h80, 76)})}

ModuleLayout ==
    {Op("GetSwitchPosition", \h80, {}, {Field(\h78, 4)}),
     Op("GetLED", \h80, {Field(\h78, 4)}, {Field(\h7C, 4)}),
     Op("SetLED", \h80, {Field(\h78, 4), Field(\h7C, 4)}, {}),
     Op("GetDisplay", \h80, {}, {Field(\h78, 4)}),
     Op("SetDisplay", \h80, {Field(\h78, 5)}, {})}

\* decode_id reads 46 bytes.
IdentityLayout ==
    {Op("GetIdObject", \hA8, {}, {Field(\h78, 46)}),
     Op("GetDeviceIdObject", \h1B0, {PathText, Field(\h178, 2)}, {Field(\h178, 46)}),
     Op("GetDeviceIdStatus", \h180, {PathText, Field(\h178, 2), Field(\h17A, 2)},
        {Field(\h178, 2)}),
     Op("GetActiveNodeTable", \h80, {}, {Field(\h78, 4), Field(\h7C, 4)})}

\* Wrong variant of DeviceLayout: the payload ends before the instance field.
DeviceLayoutShort ==
    {Op("GetExDevObject", \h25A, {PathText, Field(\h25A, 2)}, {Field(\h178, 226)}),
     Op("GetDeviceICPObject", \h190, {PathText, Field(\h18C, 2)}, {Field(\h178, 20)})}

DeviceLayout ==
    {Op("GetExDevObject", \h260, {PathText, Field(\h25A, 2)}, {Field(\h178, 226)}),
     Op("GetDeviceICPObject", \h190, {PathText, Field(\h18C, 2)}, {Field(\h178, 20)})}

\* The encoded path is cut to 256 bytes, whatever size the engine reports.
PathLayout ==
    {Op("ParsePath", \h288, {PathText, Field(\h280, 2)},
        {Field(\h178, 2), Field(\h17A, 1), Field(\h17C, 4), Field(\h180, 256), Field(\h280, 2),
         Field(\h282, 1)})}

ClockFields == {Field(\h180 + 8 * k, 8) : k \in 0 .. 5}
ClockLayout ==
    {Op(fn, \h1B0, {PathText, Field(\h178, 2), Field(\h17A, 1)}, ClockFields) :
        fn \in {"GetWCTime", "GetWCTimeUTC"}}
    \cup {Op(fn, \h1B0, {PathText, Field(\h178, 2), Field(\h17A, 1)} \cup ClockFields, {}) :
        fn \in {"SetWCTime", "SetWCTimeUTC"}}

ErrorLayout == {Op("ErrorString", \hD0, {Field(\h78, 4)}, {Field(\h7C, 78)})}

Layouts ==
    SessionLayout \cup TagDbLayout \cup SymbolLayout \cup StructLayout \cup ModuleLayout
    \cup IdentityLayout \cup DeviceLayout \cup PathLayout \cup ClockLayout \cup ErrorLayout

\* OCXcip_MessageSend, for a request and a response buffer of the given sizes.
MessageLayout(reqSize, respCap) ==
    Op("MessageSend", \h32088,
       {Field(\h78, reqSize), Field(\h19078, 2), Field(\h3207A, 2), Field(\h32080, 1),
        Field(\h32082, 2)},
       {Field(\h1907A, respCap), Field(\h3207A, 2), Field(\h3207C, 4)})

-----------------------------------------------------------------------------

Disjoint(fields) ==
    \A f, g \in fields : f = g \/ f.off + f.len <= g.off \/ g.off + g.len <= f.off

\* Fields of one direction do not overlap, and all lie in the announced payload.
Fits(op) ==
    /\ PayloadStart <= op.size /\ op.size <= SlotStride
    /\ Disjoint(op.fill) /\ Disjoint(op.read)
    /\ \A f \in op.fill \cup op.read : PayloadStart <= f.off /\ f.off + f.len <= op.size
=============================================================================
