---------------------------- MODULE StableMerge ----------------------------
(***************************************************************************)
(* Abstract specification of one base merge (spec 4.3 step 1): N sorted   *)
(* inputs are drained one line at a time, and the line emitted next is    *)
(* always the head with the least (key, input index).  No heap, no file   *)
(* handles: only how far each input has been consumed and what has been   *)
(* emitted.                                                                *)
(***************************************************************************)
EXTENDS EventOrder

CONSTANTS N, Inputs
VARIABLES ins, consumed, out

Live == {i \in 1..N : consumed[i] < Len(ins[i])}

HeadOf(i) == ins[i][consumed[i] + 1]

(* Input i holds the least head, with the lower index winning ties.        *)
IsLeast(i) ==
    \A j \in Live \ {i} :
        \/ KeyLess(HeadOf(i).key, HeadOf(j).key)
        \/ HeadOf(i).key = HeadOf(j).key /\ i < j

Init ==
    /\ ins \in Inputs
    /\ consumed = [i \in 1..N |-> 0]
    /\ out = <<>>

Emit ==
    \E i \in Live :
        /\ IsLeast(i)
        /\ out' = Append(out, HeadOf(i))
        /\ consumed' = [consumed EXCEPT ![i] = @ + 1]
        /\ UNCHANGED ins

(* A base merge runs to completion: every input is drained.               *)
Spec ==
    /\ Init
    /\ [][Emit]_<<ins, consumed, out>>
    /\ WF_<<ins, consumed, out>>(Emit)

=============================================================================
