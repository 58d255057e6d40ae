------------------------------ MODULE MCSlotIpc ------------------------------
(* Small instances of SlotIpc for TLC. *)
EXTENDS SlotIpc, TLC

CONSTANTS t1, t2, t3

MCTwo == {t1, t2}

SdkAllC   == [t \in Threads |-> "c"]
SdkCGo    == [t \in Threads |-> IF t = t1 THEN "c" ELSE "go"]
SdkMixed  == [t \in Threads |-> IF t = t1 THEN "c" ELSE IF t = t2 THEN "python" ELSE "go"]

NoThreads == {}
OnlyT2 == {t2}
T1andT2 == {t1, t2}
=============================================================================
