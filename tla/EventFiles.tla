----------------------------- MODULE EventFiles -----------------------------
(***************************************************************************)
(* build_event_files (merge_szse_l3.py 232-264) with write_order_events /  *)
(* write_tick_events (63-169): the Record Normalizer and Stream Validator. *)
(*                                                                         *)
(* The archive entries are visited in order.  An entry whose symbol does  *)
(* not match --symbol-regex is skipped; otherwise out_dir/<kind>_<symbol>  *)
(* .events.csv is opened for writing (truncating it) and the rows are     *)
(* streamed through the --channel filter, the single-channel check and    *)
(* the monotonicity check, each kept row written as one event line.  An   *)
(* entry that kept no row has its file removed; one that kept rows is     *)
(* appended to event_paths with its channel, and --limit-files stops the  *)
(* loop.  Order and tick files share this control flow; of the columns   *)
(* they write, the model keeps the event kind and the symbol, and folds   *)
(* the copied ones into a line's id.                                       *)
(*                                                                         *)
(* A row is <<ChannelNo, ApplSeqNum>>, with a third field ExecType for a   *)
(* tick row; the line written for row r of entry k is [key, kind, sym, id] *)
(* with id <<Kind, k, r>>.  The output directory is the function fs from  *)
(* symbol to file content.                                                 *)
(***************************************************************************)
EXTENDS EventOrder

CONSTANTS
    None,           \* Python None
    Kind,           \* build_event_files' kind: "order" or "tick"
    Entries,        \* possible archive listings: sequences of [sym, rows, ok]
    OnlyChannels,   \* values of --channel (None or a channel)
    Accepted,       \* symbols --symbol-regex matches (all when not given)
    Limits          \* values of --limit-files (None or a number)

VARIABLES
    entries,        \* list_csv_paths(archive) with each entry's rows
    onlyChannel,    \* only_channel
    limit,          \* limit_files
    k,              \* index of the current entry (1-based), 0 before
    r,              \* rows of the current entry consumed so far
    channelSeen,    \* channel_seen
    prevSeq,        \* prev_seq
    rowCount,       \* row_count
    fs,             \* symbol -> lines of <kind>_<symbol>.events.csv
    eventPaths,     \* event_paths: sequence of <<channel, symbol>>
    count,          \* count
    pc              \* "next", "rows", "done", "error"

vars == <<entries, onlyChannel, limit, k, r, channelSeen, prevSeq, rowCount,
          fs, eventPaths, count, pc>>

Rows == entries[k].rows
Row == Rows[r + 1]

(* The Event column: "ORDER" for an order row (93); for a tick row "TRADE" *)
(* when ExecType is "F", "CANCEL" when it is "4", else "TICK" (138-144).   *)
EventKindSwapped(row) ==
    IF Kind = "order" THEN "ORDER"
    ELSE CASE row[3] = "4" -> "TRADE" [] row[3] = "F" -> "CANCEL" [] OTHER -> "TICK"

EventKind(row) ==
    IF Kind = "order" THEN "ORDER"
    ELSE CASE row[3] = "F" -> "TRADE" [] row[3] = "4" -> "CANCEL" [] OTHER -> "TICK"

(* The event line of a row: ChannelNo, ApplSeqNum, Event and Symbol, the  *)
(* basename of the entry without .csv (64, 115); the id stands for the    *)
(* columns copied from the row.                                            *)
EventLine(row, sym, id) ==
    [key |-> <<row[1], row[2]>>, kind |-> EventKind(row), sym |-> sym, id |-> id]

Init ==
    /\ entries \in Entries
    /\ onlyChannel \in OnlyChannels
    /\ limit \in Limits
    /\ k = 0 /\ r = 0
    /\ channelSeen = None /\ prevSeq = None /\ rowCount = 0
    /\ fs = <<>>
    /\ eventPaths = <<>>
    /\ count = 0
    /\ pc = "next"

(* Lines 245-247: the symbol of the next entry does not match the regex.   *)
SkipEntry ==
    /\ pc = "next"
    /\ k < Len(entries)
    /\ entries[k + 1].sym \notin Accepted
    /\ k' = k + 1
    /\ UNCHANGED <<entries, onlyChannel, limit, r, channelSeen, prevSeq,
                   rowCount, fs, eventPaths, count, pc>>

OpenEntryNoReset ==
    /\ pc = "next"
    /\ k < Len(entries)
    /\ entries[k + 1].sym \in Accepted
    /\ k' = k + 1
    /\ fs' = [s \in DOMAIN fs \cup {entries[k + 1].sym} |->
                 IF s = entries[k + 1].sym THEN <<>> ELSE fs[s]]
    /\ r' = 0
    /\ pc' = "rows"
    /\ UNCHANGED <<entries, onlyChannel, limit, eventPaths, count,
                   channelSeen, prevSeq, rowCount>>

(* Lines 249-256 and 64-70: open (truncate) the entry's events file and    *)
(* write its header; the validator state starts unset.                    *)
OpenEntry ==
    /\ pc = "next"
    /\ k < Len(entries)
    /\ entries[k + 1].sym \in Accepted
    /\ k' = k + 1
    /\ fs' = [s \in DOMAIN fs \cup {entries[k + 1].sym} |->
                 IF s = entries[k + 1].sym THEN <<>> ELSE fs[s]]
    /\ r' = 0 /\ channelSeen' = None /\ prevSeq' = None /\ rowCount' = 0
    /\ pc' = "rows"
    /\ UNCHANGED <<entries, onlyChannel, limit, eventPaths, count>>

(* Line 245: the archive listing is exhausted.                             *)
EntriesDone ==
    /\ pc = "next"
    /\ k = Len(entries)
    /\ pc' = "done"
    /\ UNCHANGED <<entries, onlyChannel, limit, k, r, channelSeen, prevSeq,
                   rowCount, fs, eventPaths, count>>

(* Lines 72-74: a row of another channel than --channel is skipped.        *)
FilterRow ==
    /\ pc = "rows"
    /\ r < Len(Rows)
    /\ onlyChannel # None /\ Row[1] # onlyChannel
    /\ r' = r + 1
    /\ UNCHANGED <<entries, onlyChannel, limit, k, channelSeen, prevSeq,
                   rowCount, fs, eventPaths, count, pc>>

KeptIgnoringFilter == TRUE

Kept == onlyChannel = None \/ Row[1] = onlyChannel

ChannelMismatchSkipped ==
    /\ pc = "rows"
    /\ r < Len(Rows)
    /\ Kept
    /\ channelSeen # None /\ channelSeen # Row[1]
    /\ r' = r + 1
    /\ UNCHANGED <<entries, onlyChannel, limit, k, channelSeen, prevSeq,
                   rowCount, fs, eventPaths, count, pc>>

(* Lines 77-80: "Multiple ChannelNo values" is raised.                     *)
ChannelMismatch ==
    /\ pc = "rows"
    /\ r < Len(Rows)
    /\ Kept
    /\ channelSeen # None /\ channelSeen # Row[1]
    /\ pc' = "error"
    /\ UNCHANGED <<entries, onlyChannel, limit, k, r, channelSeen, prevSeq,
                   rowCount, fs, eventPaths, count>>

ChannelUnchecked == TRUE

ChannelConsistent == channelSeen = None \/ channelSeen = Row[1]

(* Lines 81-85: "stream not monotonic" is raised.                          *)
NotMonotonic ==
    /\ pc = "rows"
    /\ r < Len(Rows)
    /\ Kept /\ ChannelConsistent
    /\ prevSeq # None /\ Row[2] < prevSeq
    /\ pc' = "error"
    /\ UNCHANGED <<entries, onlyChannel, limit, k, r, channelSeen, prevSeq,
                   rowCount, fs, eventPaths, count>>

(* Lines 75-76, 86-107: the row passes, its event line is written.         *)
WriteRow ==
    /\ pc = "rows"
    /\ r < Len(Rows)
    /\ Kept /\ ChannelConsistent
    /\ IF prevSeq = None THEN TRUE ELSE Row[2] >= prevSeq
    /\ channelSeen' = Row[1]
    /\ prevSeq' = Row[2]
    /\ fs' = [fs EXCEPT ![entries[k].sym] =
                 Append(@, EventLine(Row, entries[k].sym, <<Kind, k, r + 1>>))]
    /\ rowCount' = rowCount + 1
    /\ r' = r + 1
    /\ UNCHANGED <<entries, onlyChannel, limit, k, eventPaths, count, pc>>

(* Lines 57-60: 7z exits non-zero after the last row: RuntimeError, the   *)
(* partly written events file stays in out_dir.                            *)
ExtractFailed ==
    /\ pc = "rows"
    /\ r = Len(Rows)
    /\ ~entries[k].ok
    /\ pc' = "error"
    /\ UNCHANGED <<entries, onlyChannel, limit, k, r, channelSeen, prevSeq,
                   rowCount, fs, eventPaths, count>>

(* Lines 32-46: list_csv_paths runs "7z l -slt" when build_event_files   *)
(* first asks it for an entry; a non-zero exit raises before any entry.   *)
ListFailed ==
    /\ pc = "next"
    /\ k = 0
    /\ pc' = "error"
    /\ UNCHANGED <<entries, onlyChannel, limit, k, r, channelSeen, prevSeq,
                   rowCount, fs, eventPaths, count>>

(* Lines 108-110, 258-259: no row kept, the events file is removed.        *)
DropEmpty ==
    /\ pc = "rows"
    /\ r = Len(Rows)
    /\ entries[k].ok
    /\ rowCount = 0
    /\ fs' = [s \in DOMAIN fs \ {entries[k].sym} |-> fs[s]]
    /\ pc' = "next"
    /\ UNCHANGED <<entries, onlyChannel, limit, k, r, channelSeen, prevSeq,
                   rowCount, eventPaths, count>>

LimitReachedLate(n) == limit # None /\ n > limit

(* Lines 262-263: count >= limit_files ends the listing loop.              *)
LimitReached(n) == limit # None /\ n >= limit

(* Lines 111, 260-263: the file is recorded with its channel.              *)
KeepFile ==
    /\ pc = "rows"
    /\ r = Len(Rows)
    /\ entries[k].ok
    /\ rowCount > 0
    /\ eventPaths' = Append(eventPaths, <<channelSeen, entries[k].sym>>)
    /\ count' = count + 1
    /\ pc' = IF LimitReached(count + 1) THEN "done" ELSE "next"
    /\ UNCHANGED <<entries, onlyChannel, limit, k, r, channelSeen, prevSeq,
                   rowCount, fs>>

(* build_event_files has returned or raised.                               *)
Returned ==
    /\ pc \in {"done", "error"}
    /\ UNCHANGED vars

Next ==
    \/ SkipEntry \/ OpenEntry \/ EntriesDone
    \/ FilterRow \/ ChannelMismatch \/ NotMonotonic \/ WriteRow
    \/ ListFailed \/ ExtractFailed \/ DropEmpty \/ KeepFile
    \/ Returned

Spec == Init /\ [][Next]_vars /\ WF_vars(Next /\ ~Returned)

=============================================================================
