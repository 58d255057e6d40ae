----------------------------- MODULE MCMessages -----------------------------
(* Messages for TLC: two structures whose names have odd and even lengths, two
   connections, and routed requests of odd and even length at the edges of the tick
   computation. *)
EXTENDS Messages, TLC

CONSTANTS t1, t2

one == <<97>>
two == <<97, 98>>
MCStructs ==
    one :> [handle |-> 7, data |-> <<1, 2, 3, 4, 5, 6>>]
    @@ two :> [handle |-> 300, data |-> <<1, 2, 3, 4, 5, 6, 7, 8, 9, 10>>]

c1 == [serial |-> <<239, 190>>, orig |-> <<1, 2, 3, 4>>]
c2 == [serial |-> <<7, 0>>, orig |-> <<1, 2, 3, 4>>]

StructCalls ==
    {[op |-> "read_struct", tag |-> one, cap |-> 16, slot |-> 0],
     [op |-> "read_struct", tag |-> two, cap |-> 30, slot |-> 0]}
    \cup {[op |-> "read_struct", tag |-> <<99>>, cap |-> 8, slot |-> 0],
          [op |-> "read_struct", tag |-> <<99>>, cap |-> 16, slot |-> 0],
          [op |-> "read_struct", tag |-> <<97, 98, 99, 100, 101>>, cap |-> 16, slot |-> 0],
          [op |-> "read_struct", tag |-> one, cap |-> 16, slot |-> 20]}
    \cup {[op |-> "write_struct", tag |-> w[1], handle |-> w[2], data |-> <<6, 5, 4, 3, 2, 1>>, slot |-> 0] :
            w \in {<<one, 7>>, <<one, 300>>, <<two, 300>>}}
    \cup {[op |-> "write_struct", tag |-> one, handle |-> 7, data |-> Zeros(n), slot |-> 0] : n \in {45, 49}}
\* GetAttributesAll of the Identity object, and a request with a byte of data.
identity == <<1, 2, 32, 1, 36, 1>>
odd == <<16, 2, 32, 1, 36, 1, 9>>
RouteCall(q, ms, route, routeCap, cap) ==
    [op |-> "routed", req |-> q, ms |-> ms, route |-> route, routeCap |-> routeCap,
     hop |-> <<1, 3>>, cap |-> cap]
RouteCalls ==
    {RouteCall(identity, ms, <<>>, 4, 20) : ms \in {0, 32, 33, 8161}}
    \cup {RouteCall(odd, 32, <<>>, 4, n) : n \in {21, 22}}
    \cup {RouteCall(odd, 32, <<2, 5>>, n, 64) : n \in {2, 4}}
    \cup {RouteCall(identity, 32, <<2>>, 4, 64), RouteCall(identity, 32, <<>>, 4, 18),
          RouteCall(identity, 32, <<2, 5, 2, 5>>, 6, 64)}
ConnCalls ==
    {[op |-> "open", path |-> <<1, 0>>, params |-> 5000, conn |-> c1],
     [op |-> "open", path |-> <<1, 0>>, params |-> 0, conn |-> c2]}
    \cup {[op |-> "open", path |-> p, params |-> 0, conn |-> c1] : p \in {<<2, 0>>, <<1, 20>>}}
    \cup {[op |-> "close", conn |-> c] : c \in {c1, c2}}
\* Every wrapper, and a path that is too long for those that send one.
WrapCalls ==
    {[op |-> "wrap", fn |-> l, text |-> 254] : l \in Layouts}
    \cup {[op |-> "wrap", fn |-> l, text |-> 255] : l \in {k \in Layouts : PathText \in k.fill}}

MCCalls == StructCalls \cup RouteCalls \cup ConnCalls \cup WrapCalls \cup {[op |-> "last_error"]}

MessageSymmetry == Permutations(Threads)
=============================================================================
