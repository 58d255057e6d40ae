----------------------------- MODULE ConnTable -----------------------------
(***************************************************************************)
(* What the TxRx connection table promises its users, with nothing of how  *)
(* it is done: a client holds at most MaxConns connections, each under an  *)
(* app_handle of its own; opening a handle that is open changes nothing;   *)
(* a handle is given up only by closing it.  TxRxConn implements this.     *)
(***************************************************************************)
EXTENDS FiniteSets, Naturals

CONSTANTS Handles, MaxConns

VARIABLE held   \* the app_handles that are open

Init == held = {}

Open(x) ==
    /\ x \notin held
    /\ Cardinality(held) < MaxConns
    /\ held' = held \cup {x}

Close(x) ==
    /\ x \in held
    /\ held' = held \ {x}

Next == \E x \in Handles : Open(x) \/ Close(x)

Spec == Init /\ [][Next]_held
=============================================================================
