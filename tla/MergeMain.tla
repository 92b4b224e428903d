------------------------------ MODULE MergeMain ------------------------------
(***************************************************************************)
(* main() of merge_szse_l3.py (lines 267-335, 338-343): the work directory *)
(* lifecycle, the two build_event_files calls, the Channel Partitioner and *)
(* the order in which main validates its arguments and does the work.     *)
(*                                                                         *)
(* The two calls are two instances of EventFiles, one per archive, each   *)
(* writing into its own directory (order_events/, tick_events/ under the   *)
(* work directory); they share --channel and --limit-files.  Main steps   *)
(* one of them at a time, as the calls run one after the other.  An event *)
(* path is <<channel, kind, symbol>>: its directory and file name.  Each  *)
(* merge is one step whose result is MultiPass (EventOrder), the operator *)
(* MultiPassMerge is checked against, applied to the files' contents.     *)
(***************************************************************************)
EXTENDS EventOrder
LOCAL INSTANCE TLC

CONSTANTS
    None,           \* Python None
    OrderEntries,   \* possible listings of the order archive (see EventFiles)
    TickEntries,    \* possible listings of the tick archive
    OnlyChannels,   \* values of --channel
    Accepted,       \* symbols --symbol-regex matches
    Limits,         \* values of --limit-files
    OutArgs,        \* possible (--out given, --out-dir given) pairs
    WorkDirArgs,    \* possible (--work-dir given, --keep-temp given) pairs
    MaxOpenArg,     \* --max-open
    Prior           \* possible output files present before the run

VARIABLES
    onlyChannel, limit,                     \* shared by both calls
    oEntries, oK, oR, oSeen, oPrev, oRowCount, oFs, oPaths, oCount, oPc,
    tEntries, tK, tR, tSeen, tPrev, tRowCount, tFs, tPaths, tCount, tPc,
    out, outDir,    \* whether --out / --out-dir were given
    cleanup,        \* cleanup: the work directory is removed in finally
    tempRoot,       \* whether temp_root exists
    orderPaths,     \* order_paths
    tickPaths,      \* tick_paths
    perChannel,     \* per_channel: channel -> paths, in insertion order
    todo,           \* channels of per_channel not merged yet
    outputs,        \* output files: file name -> content
    raised,         \* an exception is propagating through the try
    pc              \* "order", "tick", "check", "merge", "finally", "done", "error"

Order == INSTANCE EventFiles
    WITH Kind <- "order", Entries <- OrderEntries, entries <- oEntries,
         k <- oK, r <- oR, channelSeen <- oSeen, prevSeq <- oPrev,
         rowCount <- oRowCount, fs <- oFs, eventPaths <- oPaths,
         count <- oCount, pc <- oPc

Tick == INSTANCE EventFiles
    WITH Kind <- "tick", Entries <- TickEntries, entries <- tEntries,
         k <- tK, r <- tR, channelSeen <- tSeen, prevSeq <- tPrev,
         rowCount <- tRowCount, fs <- tFs, eventPaths <- tPaths,
         count <- tCount, pc <- tPc

orderVars == <<oEntries, oK, oR, oSeen, oPrev, oRowCount, oFs, oPaths, oCount, oPc>>
tickVars == <<tEntries, tK, tR, tSeen, tPrev, tRowCount, tFs, tPaths, tCount, tPc>>
mainVars == <<out, outDir, cleanup, tempRoot, orderPaths, tickPaths, perChannel,
              todo, outputs, raised, pc>>
vars == <<onlyChannel, limit, orderVars, tickVars, mainVars>>

OutFile == <<"out">>                    \* args.out
ChannelFile(c) == <<"channel", c>>      \* out_dir/channel_<c>.csv

MaxOpen == IF MaxOpenArg < 2 THEN 2 ELSE MaxOpenArg

AllPaths == orderPaths \o tickPaths

(* The content of the events file at a path, read when a merge opens it.  *)
Content(p) == IF p[2] = "order" THEN oFs[p[3]] ELSE tFs[p[3]]

Contents(ps) == [i \in 1..Len(ps) |-> Content(ps[i])]

(* Lines 285-296: temp_root is --work-dir (created if missing, never      *)
(* removed) or a fresh mkdtemp removed unless --keep-temp; the two event  *)
(* directories are created empty.  The output locations may hold files of *)
(* an earlier run: os.makedirs(out_dir, exist_ok=True) (324) keeps them.   *)
Init ==
    /\ Order!Init /\ Tick!Init
    /\ \E a \in OutArgs : out = a[1] /\ outDir = a[2]
    /\ \E w \in WorkDirArgs : cleanup = (~w[1] /\ ~w[2])
    /\ tempRoot = TRUE
    /\ orderPaths = <<>> /\ tickPaths = <<>>
    /\ perChannel = <<>> /\ todo = {}
    /\ outputs \in Prior
    /\ raised = FALSE
    /\ pc = "order"

(* An exception leaves the try for the finally clause.                    *)
Raise == raised' = TRUE /\ pc' = "finally"

(* Lines 297-304: build_event_files on the order archive, one step of it. *)
OrderStep ==
    /\ pc = "order"
    /\ oPc \in {"next", "rows"}
    /\ Order!Next
    /\ UNCHANGED <<tickVars, mainVars>>

(* order_paths taken as the bare names, not joined with order_dir.        *)
BuildOrderUnjoined ==
    /\ pc = "order"
    /\ oPc = "done"
    /\ orderPaths' = oPaths
    /\ pc' = "tick"
    /\ UNCHANGED <<onlyChannel, limit, orderVars, tickVars, out, outDir, cleanup,
                   tempRoot, tickPaths, perChannel, todo, outputs, raised>>

(* The order call returns: order_paths names files of order_events/.      *)
BuildOrder ==
    /\ pc = "order"
    /\ oPc = "done"
    /\ orderPaths' = [i \in 1..Len(oPaths) |-> <<oPaths[i][1], "order", oPaths[i][2]>>]
    /\ pc' = "tick"
    /\ UNCHANGED <<onlyChannel, limit, orderVars, tickVars, out, outDir, cleanup,
                   tempRoot, tickPaths, perChannel, todo, outputs, raised>>

(* Lines 305-312: the same for the tick archive.                          *)
TickStep ==
    /\ pc = "tick"
    /\ tPc \in {"next", "rows"}
    /\ Tick!Next
    /\ UNCHANGED <<orderVars, mainVars>>

BuildTick ==
    /\ pc = "tick"
    /\ tPc = "done"
    /\ tickPaths' = [i \in 1..Len(tPaths) |-> <<tPaths[i][1], "tick", tPaths[i][2]>>]
    /\ pc' = "check"
    /\ UNCHANGED <<onlyChannel, limit, orderVars, tickVars, out, outDir, cleanup,
                   tempRoot, orderPaths, perChannel, todo, outputs, raised>>

(* A call raised (7z, validation or parse error): the files it wrote so   *)
(* far stay in its directory as the exception propagates.                 *)
BuildFails ==
    /\ \/ pc = "order" /\ oPc = "error"
       \/ pc = "tick" /\ tPc = "error"
    /\ Raise
    /\ UNCHANGED <<onlyChannel, limit, orderVars, tickVars, out, outDir, cleanup,
                   tempRoot, orderPaths, tickPaths, perChannel, todo, outputs>>

(* Lines 314-316: "No event files produced".                               *)
NoEventFiles ==
    /\ pc = "check"
    /\ AllPaths = <<>>
    /\ Raise
    /\ UNCHANGED <<onlyChannel, limit, orderVars, tickVars, out, outDir, cleanup,
                   tempRoot, orderPaths, tickPaths, perChannel, todo, outputs>>

(* Lines 318-321: both or neither of --out and --out-dir.                  *)
BadOutputArgs ==
    /\ pc = "check"
    /\ AllPaths # <<>>
    /\ out = outDir
    /\ Raise
    /\ UNCHANGED <<onlyChannel, limit, orderVars, tickVars, out, outDir, cleanup,
                   tempRoot, orderPaths, tickPaths, perChannel, todo, outputs>>

(* per_channel.setdefault(channel, []).append(path)                        *)
GroupReplace(m, c, x) ==
    [d \in DOMAIN m \cup {c} |-> IF d = c THEN <<x>> ELSE m[d]]

GroupAppend(m, c, x) ==
    [d \in DOMAIN m \cup {c} |-> IF d = c THEN (IF c \in DOMAIN m THEN Append(m[c], x) ELSE <<x>>)
                                ELSE m[d]]

RECURSIVE GroupByChannel(_, _)
GroupByChannel(ps, m) ==
    IF ps = <<>> THEN m
    ELSE GroupByChannel(Tail(ps), GroupAppend(m, Head(ps)[1], Head(ps)))

(* Lines 323-327: --out-dir: group the event paths by channel.             *)
GroupChannels ==
    /\ pc = "check"
    /\ AllPaths # <<>>
    /\ outDir /\ ~out
    /\ perChannel' = GroupByChannel(AllPaths, <<>>)
    /\ todo' = DOMAIN perChannel'
    /\ pc' = "merge"
    /\ UNCHANGED <<onlyChannel, limit, orderVars, tickVars, out, outDir, cleanup,
                   tempRoot, orderPaths, tickPaths, outputs, raised>>

(* multi_pass_merge ends with shutil.move(paths[0], output_path): given   *)
(* one path, that events file itself leaves its directory; given more,    *)
(* the inputs stay and a merged intermediate is moved.                     *)
AfterMove(kind, f, ps) ==
    IF Len(ps) = 1 /\ ps[1][2] = kind THEN [s \in DOMAIN f \ {ps[1][3]} |-> f[s]] ELSE f

Merge(ps, file) ==
    /\ outputs' = [d \in DOMAIN outputs \cup {file} |->
                      IF d = file THEN MultiPass(Contents(ps), MaxOpen)[1] ELSE outputs[d]]
    /\ oFs' = AfterMove("order", oFs, ps)
    /\ tFs' = AfterMove("tick", tFs, ps)

(* Lines 328-330: one channel's files merged into channel_<c>.csv.  The   *)
(* dict is iterated in insertion order; which channel goes first does not *)
(* change any file, so the model takes them in any order.                 *)
MergeChannel ==
    /\ pc = "merge"
    /\ \E c \in todo :
        /\ Merge(perChannel[c], ChannelFile(c))
        /\ todo' = todo \ {c}
    /\ UNCHANGED <<onlyChannel, limit, oEntries, oK, oR, oSeen, oPrev, oRowCount,
                   oPaths, oCount, oPc, tEntries, tK, tR, tSeen, tPrev, tRowCount,
                   tPaths, tCount, tPc, out, outDir, cleanup, tempRoot, orderPaths,
                   tickPaths, perChannel, raised, pc>>

ChannelsMerged ==
    /\ pc = "merge"
    /\ todo = {}
    /\ pc' = "finally"
    /\ UNCHANGED <<onlyChannel, limit, orderVars, tickVars, out, outDir, cleanup,
                   tempRoot, orderPaths, tickPaths, perChannel, todo, outputs, raised>>

(* Lines 331-332: --out: every event file merged into one file.            *)
MergeCombined ==
    /\ pc = "check"
    /\ AllPaths # <<>>
    /\ out /\ ~outDir
    /\ Merge(AllPaths, OutFile)
    /\ pc' = "finally"
    /\ UNCHANGED <<onlyChannel, limit, oEntries, oK, oR, oSeen, oPrev, oRowCount,
                   oPaths, oCount, oPc, tEntries, tK, tR, tSeen, tPrev, tRowCount,
                   tPaths, tCount, tPc, out, outDir, cleanup, tempRoot, orderPaths,
                   tickPaths, perChannel, todo, raised>>

(* What the output location may hold at file after multi_pass_merge(ps)  *)
(* raised on an I/O error (a MergeIOError).  Every merge_batch writes a   *)
(* .merge_*.tmp beside the output, so the output is only made by the      *)
(* final shutil.move, a rename when it stays on one file system.  Given   *)
(* one path, the move takes the events file from the work directory; on  *)
(* another file system that is a copy, which can stop part way and leave *)
(* a truncated file (228-229).                                             *)
FailedOutputs(ps, file) ==
    {outputs} \cup
    IF Len(ps) = 1
    THEN {(file :> SubSeq(Content(ps[1]), 1, n)) @@ outputs : n \in 0..(Len(Content(ps[1])) - 1)}
    ELSE {}

(* Lines 328-330, 213-229: the merge of one channel raises; the files of  *)
(* channels merged before stay, and main leaves the try.                  *)
MergeChannelFails ==
    /\ pc = "merge"
    /\ \E c \in todo : outputs' \in FailedOutputs(perChannel[c], ChannelFile(c))
    /\ Raise
    /\ UNCHANGED <<onlyChannel, limit, orderVars, tickVars, out, outDir, cleanup,
                   tempRoot, orderPaths, tickPaths, perChannel, todo>>

(* Line 332: the combined merge raises.                                    *)
MergeCombinedFails ==
    /\ pc = "check"
    /\ AllPaths # <<>>
    /\ out /\ ~outDir
    /\ outputs' \in FailedOutputs(AllPaths, OutFile)
    /\ Raise
    /\ UNCHANGED <<onlyChannel, limit, orderVars, tickVars, out, outDir, cleanup,
                   tempRoot, orderPaths, tickPaths, perChannel, todo>>

FinallyOnSuccessOnly ==
    /\ pc = "finally"
    /\ IF cleanup /\ ~raised
       THEN tempRoot' = FALSE /\ oFs' = <<>> /\ tFs' = <<>>
       ELSE UNCHANGED <<tempRoot, oFs, tFs>>
    /\ pc' = IF raised THEN "error" ELSE "done"
    /\ UNCHANGED <<onlyChannel, limit, oEntries, oK, oR, oSeen, oPrev, oRowCount,
                   oPaths, oCount, oPc, tEntries, tK, tR, tSeen, tPrev, tRowCount,
                   tPaths, tCount, tPc, out, outDir, cleanup, orderPaths, tickPaths,
                   perChannel, todo, outputs, raised>>

(* Lines 333-335 and 338-343: the finally clause removes temp_root and    *)
(* everything under it when cleanup is set, on success and on an error   *)
(* alike; then main returns, or __main__ prints the error and exits 1.    *)
Finally ==
    /\ pc = "finally"
    /\ IF cleanup
       THEN tempRoot' = FALSE /\ oFs' = <<>> /\ tFs' = <<>>
       ELSE UNCHANGED <<tempRoot, oFs, tFs>>
    /\ pc' = IF raised THEN "error" ELSE "done"
    /\ UNCHANGED <<onlyChannel, limit, oEntries, oK, oR, oSeen, oPrev, oRowCount,
                   oPaths, oCount, oPc, tEntries, tK, tR, tSeen, tPrev, tRowCount,
                   tPaths, tCount, tPc, out, outDir, cleanup, orderPaths, tickPaths,
                   perChannel, todo, outputs, raised>>

(* main has returned or exited with "error: ...".                          *)
Returned ==
    /\ pc \in {"done", "error"}
    /\ UNCHANGED vars

Next ==
    \/ OrderStep \/ BuildOrder \/ TickStep \/ BuildTick \/ BuildFails
    \/ NoEventFiles \/ BadOutputArgs
    \/ GroupChannels \/ MergeChannel \/ ChannelsMerged \/ MergeCombined
    \/ MergeChannelFails \/ MergeCombinedFails
    \/ Finally \/ Returned

(* The steps of main, and of the call it is in, are taken until it exits. *)
Spec == Init /\ [][Next]_vars /\ WF_vars(Next /\ ~Returned)

=============================================================================
