------------------------------ MODULE MCRunner ------------------------------
(* Small instances of Runner for TLC. *)
EXTENDS Runner, TLC

CONSTANTS s1, s2, j1, j2, j3, i1, i2, fast, hq

SameSpec  == [s \in Session |-> fast]
OtherSpec == [s \in Session |-> IF s = s1 THEN fast ELSE hq]
FirstSlot == [j \in Job |-> s1]
OneEach   == [j \in Job |-> IF j = j1 THEN i1 ELSE i2]
Retry     == [j \in Job |-> IF j = j2 THEN i2 ELSE i1]
TwoAndOne == [j \in Job |-> IF j = j2 THEN s2 ELSE s1]
=============================================================================
