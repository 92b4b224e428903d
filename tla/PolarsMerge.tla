----------------------------- MODULE PolarsMerge -----------------------------
(***************************************************************************)
(* merge_szse_l3_polars.py: the Polars variant of the merge.  It reads the *)
(* extracted order and tick CSV directories itself, with no validator, and *)
(* leaves ordering to one Polars sort per output file.                     *)
(*                                                                         *)
(* A directory is the sequence of its *.csv files in name order (what     *)
(* list_csv_files sorts them into); a file is the sequence of its raw     *)
(* (ChannelNo, ApplSeqNum) field pairs, where a field is an integer or     *)
(* Malformed (text the Int32/Int64 schema cannot parse).  A scanned row is *)
(* [key |-> <<ChannelNo, ApplSeqNum>>, id |-> <<family, file, line>>]; the *)
(* identity stands for the other columns, so loss, duplication and order  *)
(* of equal keys are visible.  Each scan_csv + concat + sort + sink_csv is *)
(* one step: the lazy query runs as a whole when sink_csv is called.      *)
(***************************************************************************)
EXTENDS EventOrder
LOCAL INSTANCE SequencesExt

CONSTANTS
    None,             \* Python None, and a Polars null
    Malformed,        \* a field the schema cannot parse
    OrderDirs,        \* possible contents of --order-dir
    TickDirs,         \* possible contents of --tick-dir
    OutArgs,          \* possible (--out given, --out-dir given) pairs
    Limits,           \* possible --limit-files values (None: not given)
    IgnoreErrorsArgs, \* possible --ignore-errors values
    Prior             \* possible output files present before the run

VARIABLES
    orderDir, tickDir,  \* the two input directories
    out, outDir,        \* whether --out / --out-dir were given
    limit, ignoreErrors,
    orderBy, tickBy,    \* order_by_channel, tick_by_channel: channel -> file indices
    todo,               \* channels of the for loop not written yet
    outputs,            \* output files: file name -> rows
    pc                  \* "check", "write", "done", "error"

vars == <<orderDir, tickDir, out, outDir, limit, ignoreErrors, orderBy, tickBy,
          todo, outputs, pc>>

OutFile == <<"out">>                    \* args.out
ChannelFile(c) == <<"channel", c>>      \* out_dir/channel_<c>.csv

(* list_csv_files (164-172): the sorted names, cut to files[:limit].       *)
ListCsvFiles(dir, lim) ==
    IF lim = None THEN dir ELSE SubSeq(dir, 1, Min({lim, Len(dir)}))

Listed(dir) == ListCsvFiles(dir, limit)

(* read_channel_no (175-190): int() of the ChannelNo field of the first   *)
(* data row, None for a file with no data row; int() raises a ValueError *)
(* when that field is Malformed.                                           *)
ReadChannelNo(file) == IF file = <<>> THEN None ELSE file[1][1]

(* group_files_by_channel (193-200): mapping.setdefault(channel, [])      *)
(* .append(path) for every file whose channel is not None.               *)
SetdefaultReplace(m, c, x) ==
    [d \in DOMAIN m \cup {c} |-> IF d = c THEN <<x>> ELSE m[d]]

SetdefaultAppend(m, c, x) ==
    [d \in DOMAIN m \cup {c} |->
        IF d = c THEN (IF c \in DOMAIN m THEN Append(m[c], x) ELSE <<x>>) ELSE m[d]]

RECURSIVE GroupFrom(_, _, _)
GroupFrom(files, i, m) ==
    IF i > Len(files) THEN m
    ELSE GroupFrom(files, i + 1,
                   IF ReadChannelNo(files[i]) = None THEN m
                   ELSE SetdefaultAppend(m, ReadChannelNo(files[i]), i))

GroupFilesByChannel(files) == GroupFrom(files, 1, <<>>)

(* scan_csv with schema_overrides (63-131): the rows of the given files of *)
(* a family, in file order.  A Malformed field fails the query, unless     *)
(* --ignore-errors; then Polars keeps reading and the row is lost or      *)
(* keeps a null in that field.  Which of the two the library does is not  *)
(* pinned down by the script, so both are possible outcomes.               *)
ScanRows(fam, files, idxs) ==
    UNION {{[key |-> files[i][j], id |-> <<fam, i, j>>] : j \in 1..Len(files[i])} :
           i \in ToSet(idxs)}

IsMalformed(row) == Malformed \in {row.key[1], row.key[2]}

Nulled(row) == [row EXCEPT !.key = [n \in 1..2 |-> IF @[n] = Malformed THEN None ELSE @[n]]]

ScanOutcomes(rows) ==
    LET Bad == {r \in rows : IsMalformed(r)}
    IN  {(rows \ Bad) \cup {Nulled(r) : r \in Bad \ Dropped} : Dropped \in SUBSET Bad}

(* .sort(["ChannelNo", "ApplSeqNum"]) (244-246, 257-259): nulls first, and *)
(* maintain_order is left False, so rows with equal keys come out in any  *)
(* order: every sorted arrangement of the rows is a possible result.       *)
NullLess(x, y) == (x = None /\ y # None) \/ (x # None /\ y # None /\ x < y)

SortKeyLess(a, b) == NullLess(a[1], b[1]) \/ (a[1] = b[1] /\ NullLess(a[2], b[2]))

SortOutcomes(rows) ==
    LET Ks == SetToSortSeq({r.key : r \in rows}, SortKeyLess)
        Ties(n) == SetToSeqs({r \in rows : r.key = Ks[n]})
        Arrangements == {f \in [1..Len(Ks) -> UNION {Ties(n) : n \in 1..Len(Ks)}] :
                        \A n \in 1..Len(Ks) : f[n] \in Ties(n)}
    IN  {FlattenSeq(f) : f \in Arrangements}

(* concat, sort and sink_csv of the frames of one output file.  Without   *)
(* --ignore-errors a Malformed field raises inside sink_csv.               *)
SinkFails(rows) == ~ignoreErrors /\ \E r \in rows : IsMalformed(r)

SinkResults(rows) == UNION {SortOutcomes(s) : s \in ScanOutcomes(rows)}

(* sink_csv(path) creates or truncates the file at path; os.makedirs      *)
(* (229) keeps an existing --out-dir and every file already in it.         *)
SinkCsvAppending(o, f, rows) == (f :> (IF f \in DOMAIN o THEN o[f] \o rows ELSE rows)) @@ o

SinkCsv(o, f, rows) == (f :> rows) @@ o

Init ==
    /\ orderDir \in OrderDirs /\ tickDir \in TickDirs
    /\ \E a \in OutArgs : out = a[1] /\ outDir = a[2]
    /\ limit \in Limits /\ ignoreErrors \in IgnoreErrorsArgs
    /\ orderBy = <<>> /\ tickBy = <<>> /\ todo = {}
    /\ outputs \in Prior
    /\ pc = "check"

(* Lines 217-220: both or neither of --out and --out-dir.                  *)
BadOutputArgs ==
    /\ pc = "check"
    /\ out = outDir
    /\ pc' = "error"
    /\ UNCHANGED <<orderDir, tickDir, out, outDir, limit, ignoreErrors, orderBy,
                   tickBy, todo, outputs>>

FirstRowCrashes == \E f \in ToSet(Listed(orderDir) \o Listed(tickDir)) :
                       ReadChannelNo(f) = Malformed

(* Lines 222-229: --out-dir: list, cut and group both directories, and    *)
(* the sorted union of their channels.                                     *)
GroupChannelsUnchecked ==
    /\ pc = "check"
    /\ outDir /\ ~out
    /\ orderBy' = GroupFilesByChannel(Listed(orderDir))
    /\ tickBy' = GroupFilesByChannel(Listed(tickDir))
    /\ todo' = DOMAIN orderBy' \cup DOMAIN tickBy'
    /\ pc' = "write"
    /\ UNCHANGED <<orderDir, tickDir, out, outDir, limit, ignoreErrors, outputs>>

GroupChannels ==
    /\ pc = "check"
    /\ outDir /\ ~out
    /\ ~FirstRowCrashes
    /\ orderBy' = GroupFilesByChannel(Listed(orderDir))
    /\ tickBy' = GroupFilesByChannel(Listed(tickDir))
    /\ todo' = DOMAIN orderBy' \cup DOMAIN tickBy'
    /\ pc' = "write"
    /\ UNCHANGED <<orderDir, tickDir, out, outDir, limit, ignoreErrors, outputs>>

(* Lines 225-226: int() of a first row's ChannelNo raises.                 *)
GroupFails ==
    /\ pc = "check"
    /\ outDir /\ ~out
    /\ FirstRowCrashes
    /\ pc' = "error"
    /\ UNCHANGED <<orderDir, tickDir, out, outDir, limit, ignoreErrors, orderBy,
                   tickBy, todo, outputs>>

ChannelRows(c) ==
    LET Of(m) == IF c \in DOMAIN m THEN m[c] ELSE <<>>
    IN  ScanRows("order", Listed(orderDir), Of(orderBy))
          \cup ScanRows("tick", Listed(tickDir), Of(tickBy))

(* Lines 230-248: the smallest channel left; its order and tick files are *)
(* concatenated, sorted and sunk to channel_<c>.csv, or the sink raises   *)
(* and main exits, the files of earlier channels staying in place.        *)
WriteChannel ==
    /\ pc = "write"
    /\ todo # {}
    /\ LET c == Min(todo) IN
       IF SinkFails(ChannelRows(c))
       THEN /\ pc' = "error" /\ UNCHANGED <<todo, outputs>>
       ELSE /\ \E res \in SinkResults(ChannelRows(c)) :
                  outputs' = SinkCsv(outputs, ChannelFile(c), res)
            /\ todo' = todo \ {c}
            /\ UNCHANGED pc
    /\ UNCHANGED <<orderDir, tickDir, out, outDir, limit, ignoreErrors, orderBy, tickBy>>

ChannelsWritten ==
    /\ pc = "write"
    /\ todo = {}
    /\ pc' = "done"
    /\ UNCHANGED <<orderDir, tickDir, out, outDir, limit, ignoreErrors, orderBy,
                   tickBy, todo, outputs>>

AllRows == ScanRows("order", Listed(orderDir), [n \in 1..Len(Listed(orderDir)) |-> n])
             \cup ScanRows("tick", Listed(tickDir), [n \in 1..Len(Listed(tickDir)) |-> n])

(* Lines 249-260: --out: the glob (or the cut list) of each directory, the *)
(* two frames concatenated, sorted and sunk to args.out.                   *)
WriteCombined ==
    /\ pc = "check"
    /\ out /\ ~outDir
    /\ IF SinkFails(AllRows)
       THEN /\ pc' = "error" /\ UNCHANGED outputs
       ELSE /\ \E res \in SinkResults(AllRows) : outputs' = SinkCsv(outputs, OutFile, res)
            /\ pc' = "done"
    /\ UNCHANGED <<orderDir, tickDir, out, outDir, limit, ignoreErrors, orderBy,
                   tickBy, todo>>

(* main returned or exited.                                                *)
Returned == pc \in {"done", "error"} /\ UNCHANGED vars

Next ==
    \/ BadOutputArgs \/ GroupChannels \/ GroupFails
    \/ WriteChannel \/ ChannelsWritten \/ WriteCombined
    \/ Returned

Spec == Init /\ [][Next]_vars /\ WF_vars(Next /\ ~Returned)

=============================================================================
