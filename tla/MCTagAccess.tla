---------------------------- MODULE MCTagAccess ----------------------------
(* TagAccess for TLC, with bytes of two bits: two scalars of different widths,
   an array, a structure, a BOOL array of two words and a string. *)
EXTENDS TagAccess, TLC

CONSTANTS t1, t2

a == <<"a">>
b == <<"b">>
arr == <<"arr">>
bits == <<"bits">>
s == <<"s">>

Sym(type, size, dim0, struct) == [type |-> type, size |-> size, dim0 |-> dim0, struct |-> struct]
MCSymbols ==
    a :> Sym("SINT", 1, 0, 0) @@ b :> Sym("INT", 2, 0, 0) @@ arr :> Sym("INT", 2, 2, 0)
    @@ s :> Sym("UDINT", 4, 0, 1) @@ <<"odd">> :> Sym("DINT", 2, 0, 0)

\* b is -6, arr 3 and -3, bits the words 129 and 2.
Tag(type, bytes) == [type |-> type, bytes |-> bytes]
MCMemory ==
    a :> Tag("SINT", <<0>>) @@ b :> Tag("INT", <<2, 2>>) @@ arr :> Tag("INT", <<3, 0, 1, 3>>)
    @@ bits :> Tag("BIT_ARRAY", <<1, 0, 0, 2, 2, 0, 0, 0>>)
    @@ LenOf(s) :> Tag("DINT", <<0, 0, 0, 0>>) @@ DataOf(s) :> Tag("SINT", <<0, 0, 0>>)

V(kind, v) == [kind |-> kind, v |-> v]
TagCalls ==
    {[op |-> "read_tags", names |-> n] : n \in {<<a, b>>, <<b, arr>>, <<a, b, a>>}}
    \cup {[op |-> "write_tags", names |-> <<a, b>>, vals |-> v] :
        v \in {<<V("SINT", -2), V("INT", 5)>>, <<V("SINT", 1), V("SINT", 1)>>}}
RawCalls ==
    {[op |-> "access", form |-> "db", reqs |-> <<WriteOf(b, "INT", <<2, 1>>), ReadOf(a, "SINT", 1)>>]}
    \cup {[op |-> "access", form |-> "path", reqs |-> <<ReadOf(arr, "INT", 3), ReadOf(b, "INT", 1)>>]}
TypedCalls ==
    {[op |-> "read", tag |-> arr, type |-> "INT", count |-> n] : n \in {0, 2}}
    \cup {[op |-> "write", tag |-> arr, type |-> "INT", vals |-> v] : v \in {<<-8>>}}
    \cup {[op |-> "read_bools", tag |-> bits, count |-> 9]}
    \cup {[op |-> "write_bools", tag |-> bits, bools |-> v] :
        v \in {<<1, 1, 0, 0, 0, 0, 0, 1, 1>>}}
StringCalls ==
    {[op |-> "read_string", tag |-> s, room |-> n] : n \in {2, 4}}
    \cup {[op |-> "write_string", tag |-> s, str |-> v] :
        v \in {<<>>, <<1>>, <<-1, 1, 1>>, <<1, 1, 1, 1, 1>>}}

MCCalls == TagCalls \cup RawCalls \cup TypedCalls \cup StringCalls

AccessSymmetry == Permutations(Threads)
=============================================================================
