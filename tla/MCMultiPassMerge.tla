-------------------------- MODULE MCMultiPassMerge --------------------------
(***************************************************************************)
(* multi_pass_merge over one to four inputs of one or two lines, keys     *)
(* from two channels and two sequence numbers, with --max-open 1 (clamped *)
(* to 2: three rounds for four inputs, a carried-over path for three) and *)
(* --max-open 3 (a batch of three and a carried-over fourth path).         *)
(***************************************************************************)
EXTENDS MultiPassMerge

MCKeys == {1, 2} \X {1, 2}
MCContents == SortedKeySeqs(MCKeys, 2)

(* For termination only the number of paths and max_open matter; two    *)
(* one-line contents keep the run above a hundred states.                *)
MCOneLine == {<<<<1, 1>>>>, <<<<2, 1>>>>}

FileName == {Out} \cup {Src(k) : k \in 1..MaxSources}
                  \cup {Tmp(r, b) : r \in 0..MaxSources, b \in 0..(MaxSources - 1) \div 2}

Line == [key : MCKeys, id : (1..MaxSources) \X (1..2)]

TypeOK ==
    /\ maxOpen \in Nat
    /\ DOMAIN fs \subseteq FileName
    /\ \A n \in DOMAIN fs : fs[n] \in Seq(Line)
    /\ paths \in Seq(FileName)
    /\ nextPaths \in Seq(FileName)
    /\ i \in Nat /\ roundId \in Nat
    /\ pc \in {"loop", "batch", "done"}

Originals == [k \in DOMAIN inputs |-> SrcLines(k)]

(* However many rounds the reduction takes, the file left at output_path  *)
(* is the single base merge of the original inputs: every line once, in  *)
(* (channel, sequence) order, ties by original input position (spec 4.3, *)
(* 5 and 8: multi-round reduction refines the same comparator).           *)
OutputIsRefMerge ==
    pc = "done" => Out \in DOMAIN fs /\ fs[Out] = RefMerge(Originals)

(* ceil(log_b(n)) for b >= 2, n >= 1 (0 for a degenerate b).              *)
RECURSIVE CeilLog(_, _)
CeilLog(b, n) == IF n <= 1 \/ b < 2 THEN 0 ELSE 1 + CeilLog(b, (n + b - 1) \div b)

(* round_id only names the .tmp files; states that differ in it alone are *)
(* identified, so a loop that makes no progress shows up as a cycle.      *)
RoundFreeView == <<inputs, maxOpen, fs, paths, nextPaths, i, pc>>

(* The while loop of multi_pass_merge ends for every --max-open.           *)
Terminates == <>(pc = "done")

(* Each round divides the number of paths by max_open, rounding up, so   *)
(* the loop takes at most ceil(log_max_open(n)) rounds (spec 4.3 step 2). *)
RoundsWithinLog == roundId <= CeilLog(maxOpen, Len(inputs))

(* No merge_*.tmp file is left beside output_path once the merge returned *)
(* (spec 5: intermediates are consumed; spec 6: work artifacts do not     *)
(* remain when cleanup was requested, the default).                        *)
NoTmpLeftBehind ==
    pc = "done" => DOMAIN fs \subseteq {Out} \cup {Src(k) : k \in 1..MaxSources}

=============================================================================
