----------------------------- MODULE EventOrder -----------------------------
(***************************************************************************)
(* The data shared by every component of the SZSE L3 merge: an event line  *)
(* of an intermediate ".events.csv" file, abstracted to its sort key and   *)
(* an identity, and the order the merge is meant to produce.               *)
(*                                                                         *)
(* A line is the record [key |-> <<ChannelNo, ApplSeqNum>>, id |-> x]; the *)
(* other fourteen columns of EVENT_HEADER are payload no property reads,   *)
(* so they are folded into the identity x.                                 *)
(***************************************************************************)
EXTENDS Integers, Sequences, FiniteSets

(* parse_key: the first two comma-separated fields as integers; Python    *)
(* compares the resulting pair lexicographically.                          *)
ParseKeySwapped(line) == <<line.key[2], line.key[1]>>

ParseKey(line) == line.key

KeyLess(a, b) == a[1] < b[1] \/ (a[1] = b[1] /\ a[2] < b[2])

KeyLeq(a, b) == KeyLess(a, b) \/ a = b

(* A file content is sorted when consecutive keys never decrease.          *)
IsKeySorted(s) == \A k \in 1..(Len(s) - 1) : KeyLeq(ParseKey(s[k]), ParseKey(s[k + 1]))

(* All sequences of keys over Keys of length 1..n in non-decreasing order: *)
(* the contents the merge may be handed.                                   *)
SortedKeySeqs(Keys, n) ==
    {s \in UNION {[1..m -> Keys] : m \in 1..n} :
        \A k \in 1..(Len(s) - 1) : KeyLeq(s[k], s[k + 1])}

(***************************************************************************)
(* Reference definition of the merge (spec 4.3 and 8): the lines of all    *)
(* inputs, ordered by (channel, sequence), ties broken by the position of  *)
(* the input in the list and then by the position of the line inside it.  *)
(* Written as a rank over the set of positions, independent of any heap.  *)
(***************************************************************************)
RefMerge(ins) ==
    LET Pos == UNION {{<<i, j>> : j \in 1..Len(ins[i])} : i \in 1..Len(ins)}
        At(p) == ins[p[1]][p[2]]
        Before(p, q) ==
            \/ KeyLess(At(p).key, At(q).key)
            \/ /\ At(p).key = At(q).key
               /\ \/ p[1] < q[1]
                  \/ p[1] = q[1] /\ p[2] < q[2]
        Rank(p) == Cardinality({q \in Pos : Before(q, p)}) + 1
    IN  [k \in 1..Cardinality(Pos) |-> At(CHOOSE p \in Pos : Rank(p) = k)]

(***************************************************************************)
(* What merge_batch (merge_szse_l3.py 180-210) writes, as a pure operator: *)
(* repeatedly the head of the live input with the least (key, idx), the   *)
(* order heappop yields on (key, idx, line) tuples.                         *)
(***************************************************************************)
RECURSIVE HeapMerge(_)
HeapMerge(ins) ==
    LET Live == {i \in 1..Len(ins) : ins[i] # <<>>}
        Least(i) == \A j \in Live \ {i} :
                        \/ KeyLess(ParseKey(Head(ins[i])), ParseKey(Head(ins[j])))
                        \/ ParseKey(Head(ins[i])) = ParseKey(Head(ins[j])) /\ i < j
    IN  IF Live = {} THEN <<>>
        ELSE LET i == CHOOSE i \in Live : Least(i)
             IN  <<Head(ins[i])>> \o HeapMerge([ins EXCEPT ![i] = Tail(@)])

(***************************************************************************)
(* What multi_pass_merge (merge_szse_l3.py 213-229) leaves at output_path *)
(* as a pure operator: rounds of HeapMerge over consecutive batches of b, *)
(* a batch of one carried over, until one content is left.                *)
(***************************************************************************)
RECURSIVE MultiPass(_, _)
MultiPass(ins, b) ==
    IF Len(ins) <= 1 THEN ins
    ELSE LET nb == (Len(ins) + b - 1) \div b
             Batch(x) == SubSeq(ins, (x - 1) * b + 1,
                                IF x * b < Len(ins) THEN x * b ELSE Len(ins))
         IN  MultiPass([x \in 1..nb |-> IF Len(Batch(x)) = 1 THEN Batch(x)[1]
                                       ELSE HeapMerge(Batch(x))], b)

=============================================================================
