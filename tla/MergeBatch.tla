----------------------------- MODULE MergeBatch -----------------------------
(***************************************************************************)
(* merge_batch(input_paths, output_path), merge_szse_l3.py lines 180-210.  *)
(*                                                                         *)
(* The inputs are opened in list order; each one's header is read and its  *)
(* first line pushed on a heap as (key, idx, line).  The output is then    *)
(* created and the loop pops the least tuple, writes its line and pushes  *)
(* the next line of the same input.  heapq compares the tuples            *)
(* lexicographically, so ties on key are broken by idx; idx is unique in  *)
(* the heap, so the line itself is never compared.                         *)
(*                                                                         *)
(* files[i] is the content of input_paths[i] below its header.  Headers   *)
(* are all EVENT_HEADER (written by write_order_events / write_tick_events *)
(* and copied by merge_batch itself), so the "Header mismatch" branch is  *)
(* not reachable and is not modelled.                                      *)
(***************************************************************************)
EXTENDS EventOrder

CONSTANTS
    N,          \* len(input_paths), >= 1 as multi_pass_merge calls it
    Inputs      \* the possible contents of the N inputs, each key-sorted

VARIABLES
    files,      \* input contents; never changed
    nopen,      \* len(files): inputs opened so far
    cursor,     \* cursor[i]: data lines readline() has returned from input i
    heap,       \* set of <<key, idx, line>> tuples
    out,        \* lines written to output_path after its header
    pc          \* "open", "merge", "done"

vars == <<files, nopen, cursor, heap, out, pc>>

(* heapq order on (key, idx, line) tuples with distinct idx.               *)
TupleLess(a, b) ==
    \/ KeyLess(a[1], b[1])
    \/ a[1] = b[1] /\ a[2] < b[2]

HeapMin == CHOOSE e \in heap : \A f \in heap \ {e} : TupleLess(e, f)

ReadPushDropLast(idx, h) ==
    IF cursor[idx] + 1 < Len(files[idx])
    THEN LET line == files[idx][cursor[idx] + 1]
         IN  <<[cursor EXCEPT ![idx] = @ + 1], h \cup {<<ParseKey(line), idx, line>>}>>
    ELSE <<cursor, h>>

ReadPushPastEof(idx, h) ==
    IF cursor[idx] < Len(files[idx])
    THEN LET line == files[idx][cursor[idx] + 1]
         IN  <<[cursor EXCEPT ![idx] = @ + 1], h \cup {<<ParseKey(line), idx, line>>}>>
    ELSE <<[cursor EXCEPT ![idx] = @ + 1], h>>

(* f.readline() on input idx: the next line, if any, goes on the heap.     *)
ReadPush(idx, h) ==
    IF cursor[idx] < Len(files[idx])
    THEN LET line == files[idx][cursor[idx] + 1]
         IN  <<[cursor EXCEPT ![idx] = @ + 1], h \cup {<<ParseKey(line), idx, line>>}>>
    ELSE <<cursor, h>>

Init ==
    /\ files \in Inputs
    /\ nopen = 0
    /\ cursor = [i \in 1..N |-> 0]
    /\ heap = {}
    /\ out = <<>>
    /\ pc = "open"

(* Lines 185-196: open input idx, read its header, push its first line.    *)
OpenInput ==
    /\ pc = "open"
    /\ nopen < N
    /\ LET r == ReadPush(nopen + 1, heap)
       IN  /\ cursor' = r[1]
           /\ heap' = r[2]
    /\ nopen' = nopen + 1
    /\ UNCHANGED <<files, out, pc>>

(* Lines 197-200: header is set (N >= 1), output created, header written. *)
StartOutput ==
    /\ pc = "open"
    /\ nopen = N
    /\ pc' = "merge"
    /\ UNCHANGED <<files, nopen, cursor, heap, out>>

(* Lines 201-207: pop the least tuple, write its line, push the successor. *)
PopWrite ==
    /\ pc = "merge"
    /\ heap # {}
    /\ LET e == HeapMin
           r == ReadPush(e[2], heap \ {e})
       IN  /\ out' = Append(out, e[3])
           /\ cursor' = r[1]
           /\ heap' = r[2]
    /\ UNCHANGED <<files, nopen, pc>>

(* Lines 201 and 208-210: heap drained, output and inputs closed.          *)
Finish ==
    /\ pc = "merge"
    /\ heap = {}
    /\ pc' = "done"
    /\ UNCHANGED <<files, nopen, cursor, heap, out>>

(* merge_batch has returned.                                               *)
Returned ==
    /\ pc = "done"
    /\ UNCHANGED vars

Next == OpenInput \/ StartOutput \/ PopWrite \/ Finish \/ Returned

(* One thread runs merge_batch to its end: weak fairness on every step.   *)
Spec == Init /\ [][Next]_vars /\ WF_vars(OpenInput \/ StartOutput \/ PopWrite \/ Finish)

=============================================================================
