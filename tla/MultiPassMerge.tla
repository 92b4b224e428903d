--------------------------- MODULE MultiPassMerge ---------------------------
(***************************************************************************)
(* multi_pass_merge(input_paths, output_path, max_open),                   *)
(* merge_szse_l3.py lines 213-229, with the max_open it is called with    *)
(* (lines 330 and 332).                                                    *)
(*                                                                         *)
(* Each round cuts the path list into consecutive batches of max_open;    *)
(* a batch of one is carried to the next round as it is, a larger batch   *)
(* is merged by merge_batch into output_path.merge_<round>_<i//max_open>  *)
(* .tmp.  When one path is left it is moved onto output_path.  The files  *)
(* the process sees are the function fs from file name to content.         *)
(* merge_batch is one step whose result is HeapMerge (EventOrder), the     *)
(* operator MCMergeBatch shows the heap loop computes.                     *)
(***************************************************************************)
EXTENDS EventOrder, TLC

CONSTANTS
    MaxSources,     \* the largest number of input paths
    MaxOpenArgs,    \* values of --max-open
    Contents        \* the possible key sequences of one input (sorted)

Out == <<"out">>                    \* output_path
Src(k) == <<"src", k>>              \* input_paths[k], an .events.csv file
Tmp(r, b) == <<"tmp", r, b>>        \* f"{output_path}.merge_{r}_{b}.tmp"

VARIABLES
    inputs,     \* the keys of each of input_paths, never changed
    maxOpen,    \* max_open
    fs,         \* file name -> content of every existing file
    paths,      \* paths
    nextPaths,  \* next_paths
    i,          \* the loop index of "for i in range(0, len(paths), max_open)"
    roundId,    \* round_id
    pc          \* "loop", "batch", "done"

vars == <<inputs, maxOpen, fs, paths, nextPaths, i, roundId, pc>>

(* Lines 330 and 332: max_open=max(2, args.max_open).                      *)
MaxOpenUnclamped(arg) == arg

MaxOpenOf(arg) == IF arg < 2 THEN 2 ELSE arg

Min2(a, b) == IF a < b THEN a ELSE b

(* The lines of input k: its keys, each tagged with <<k, position>>.      *)
SrcLines(k) == [j \in 1..Len(inputs[k]) |-> [key |-> inputs[k][j], id |-> <<k, j>>]]

BatchShort == SubSeq(paths, i + 1, Min2(i + maxOpen - 1, Len(paths)))

(* paths[i : i + max_open]                                                 *)
Batch == SubSeq(paths, i + 1, Min2(i + maxOpen, Len(paths)))

AnyPathLeft == Len(paths) > 0

(* Line 216: "while len(paths) > 1".                                       *)
MoreThanOnePath == Len(paths) > 1

Init ==
    /\ \E n \in 1..MaxSources : inputs \in [1..n -> Contents]
    /\ maxOpen \in {MaxOpenOf(a) : a \in MaxOpenArgs}
    /\ fs = [n \in {Src(k) : k \in DOMAIN inputs} |-> SrcLines(n[2])]
    /\ paths = [k \in DOMAIN inputs |-> Src(k)]
    /\ nextPaths = <<>>
    /\ i = 0
    /\ roundId = 0
    /\ pc = "loop"

(* Line 216: another round while more than one path is left.               *)
StartRound ==
    /\ pc = "loop"
    /\ MoreThanOnePath
    /\ nextPaths' = <<>>
    /\ i' = 0
    /\ pc' = "batch"
    /\ UNCHANGED <<inputs, maxOpen, fs, paths, roundId>>

(* Lines 220-222: a batch of one path goes to the next round unmerged.     *)
CarryOver ==
    /\ pc = "batch"
    /\ i < Len(paths)
    /\ Len(Batch) = 1
    /\ nextPaths' = Append(nextPaths, Batch[1])
    /\ i' = i + maxOpen
    /\ UNCHANGED <<inputs, maxOpen, fs, paths, roundId, pc>>

MergedNameByOffset(r, x) == Tmp(r, x)

(* Line 223: merged_path for the batch starting at offset x of round r.    *)
MergedName(r, x) == Tmp(r, x \div maxOpen)

(* Lines 223-225: merge_batch(batch, merged_path).                         *)
MergeStep ==
    /\ pc = "batch"
    /\ i < Len(paths)
    /\ Len(Batch) > 1
    /\ LET merged == MergedName(roundId, i)
           content == HeapMerge([k \in 1..Len(Batch) |-> fs[Batch[k]]])
       IN  /\ fs' = [n \in DOMAIN fs \cup {merged} |->
                        IF n = merged THEN content ELSE fs[n]]
           /\ nextPaths' = Append(nextPaths, merged)
    /\ i' = i + maxOpen
    /\ UNCHANGED <<inputs, maxOpen, paths, roundId, pc>>

(* Lines 226-227: the round's outputs become the next round's inputs.      *)
EndRound ==
    /\ pc = "batch"
    /\ i >= Len(paths)
    /\ paths' = nextPaths
    /\ roundId' = roundId + 1
    /\ pc' = "loop"
    /\ UNCHANGED <<inputs, maxOpen, fs, nextPaths, i>>

(* Lines 216 and 228-229: one path left, shutil.move(paths[0], output).   *)
MoveResult ==
    /\ pc = "loop"
    /\ ~MoreThanOnePath
    /\ fs' = IF paths = <<>> THEN fs
             ELSE [n \in (DOMAIN fs \ {paths[1]}) \cup {Out} |->
                      IF n = Out THEN fs[paths[1]] ELSE fs[n]]
    /\ pc' = "done"
    /\ UNCHANGED <<inputs, maxOpen, paths, nextPaths, i, roundId>>

(* multi_pass_merge has returned.                                          *)
Returned ==
    /\ pc = "done"
    /\ UNCHANGED vars

Next ==
    \/ StartRound \/ CarryOver \/ MergeStep \/ EndRound \/ MoveResult
    \/ Returned

(* A single thread runs the loop: weak fairness on its steps.              *)
Spec == Init /\ [][Next]_vars
             /\ WF_vars(StartRound \/ CarryOver \/ MergeStep \/ EndRound \/ MoveResult)

=============================================================================
