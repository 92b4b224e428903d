---------------------------- MODULE MCMergeBatch ----------------------------
(***************************************************************************)
(* merge_batch over three inputs of up to two lines, keys drawn from two  *)
(* channels and two sequence numbers: every tie between inputs, inside an *)
(* input, and across channels occurs.                                      *)
(***************************************************************************)
EXTENDS MergeBatch, TLC

MCKeys == {1, 2} \X {1, 2}
MCMaxLen == 2

(* Every key-sorted content per input; line identity is <<input, line>>.  *)
MCInputs ==
    { [i \in 1..N |-> [j \in 1..Len(ks[i]) |-> [key |-> ks[i][j], id |-> <<i, j>>]]] :
        ks \in [1..N -> SortedKeySeqs(MCKeys, MCMaxLen)] }

Line == [key : MCKeys, id : (1..N) \X (1..MCMaxLen)]

TypeOK ==
    /\ nopen \in 0..N
    /\ cursor \in [1..N -> 0..MCMaxLen]
    /\ heap \subseteq (MCKeys \X (1..N) \X Line)
    /\ out \in Seq(Line)
    /\ pc \in {"open", "merge", "done"}

(* When merge_batch returns, the output is exactly the reference merge of *)
(* its inputs: every line once, ordered by (channel, sequence), ties by   *)
(* input position then line position (spec 4.3, 8).                       *)
MergedIsRefMerge == pc = "done" => out = RefMerge(files)

(* The heap loop of merge_batch implements the abstract stable merge: the *)
(* consumed prefix of input i is what was read minus the one line of i    *)
(* still waiting on the heap.                                              *)
Abs == INSTANCE StableMerge WITH
    Inputs <- MCInputs,
    ins <- files,
    out <- out,
    consumed <- [i \in 1..N |-> cursor[i] - (IF \E e \in heap : e[2] = i THEN 1 ELSE 0)]

ImplementsStableMerge == Abs!Spec

=============================================================================
