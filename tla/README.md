# TLA+ models of the SZSE L3 order/tick merge

This directory holds TLA+ models of `src/scripts/merge_szse_l3.py`, the streaming
merge that turns per-symbol SZSE order and tick CSV files into one event log
ordered by `(ChannelNo, ApplSeqNum)`. The models are checked with TLC. The
second script, `src/scripts/merge_szse_l3_polars.py`, does the same job with
Polars lazy frames and is modelled by `PolarsMerge`.

## 1. Inventory

### Components, their state and operations

| Component | Code | State it keeps | Operations |
|---|---|---|---|
| Archive access | `run_7z_list`, `list_csv_paths`, `stream_csv_rows` (32-60) | a 7z subprocess per entry | list entries; stream one entry's rows; raise if 7z exits non-zero after the rows |
| Record Normalizer | `write_order_events`, `write_tick_events` (63-169) | the open events file, `row_count` | map each row to the 16 `EVENT_HEADER` columns; remove the file when no row was kept |
| Stream Validator | inlined in the two writers (72-86, 123-137) | `channel_seen`, `prev_seq` | `--channel` filter; raise on a second channel; raise when `ApplSeqNum` decreases |
| Event file builder | `build_event_files` (232-264) | `event_paths`, `count` | visit entries; apply `--symbol-regex`; write `<kind>_<symbol>.events.csv`; apply `--limit-files` |
| Bounded k-way merger | `parse_key`, `merge_batch` (172-210), `multi_pass_merge` (213-229) | open files, the heap of `(key, idx, line)`, the path list of a round, `round_id` | base merge of at most `max_open` files; rounds of batches; carry a batch of one over; move the last file onto the output |
| Channel partitioner / `main` | `main` (267-335) | `order_paths`, `tick_paths`, `per_channel` | build both archives; reject no events and bad `--out`/`--out-dir`; group by channel and merge each group, or merge everything |
| CLI and work dir | `main` (267-295, 333-343), polars `main` (203-229) | `temp_root`, `cleanup`, the output locations | argparse; `mkdtemp` or `--work-dir`; `rmtree` in `finally` unless `--keep-temp`; `makedirs(out_dir, exist_ok=True)` |
| Polars pipeline | `merge_szse_l3_polars.py` (`list_csv_files`, `read_channel_no`, `group_files_by_channel`, `main`, 164-268) | `order_by_channel`, `tick_by_channel`, the channel loop, the files sunk so far | list and cut each directory; group files by the first row's channel; per channel (or once for `--out`) scan, concat, sort and `sink_csv` |

### How the components interact

The process is one thread and every call blocks. `main` calls
`build_event_files` once for the order archive and once for the tick archive.
For each entry, `build_event_files` calls a writer. The writer pulls rows from
`stream_csv_rows` and runs the filter and the validator on each row as it
arrives. The writers communicate with the merger only through the events files
they leave in the work dir and the `(channel, path)` list they return. `main`
then groups that list by channel, or does not. It calls `multi_pass_merge`,
which calls `merge_batch` on consecutive batches. The only shared state is the
file system.

### What is hard

There is no concurrency, so the difficulty is in sequences of steps:
- Ties on the sort key must keep input order through the heap, through every
  round of the reduction, and through the carried-over singletons.
- The validator is a streaming state machine. Rows are written before a later
  row can make the whole source invalid.
- The file system is shared state that is keyed by name. Two entries with the
  same basename share one file, and an empty entry deletes it.
- The reduction terminates only because `main` clamps `max_open` to at least 2.
- Argument checks and cleanup happen in a particular order. The `finally`
  clause must clean up on every error path, including a 7z failure that
  leaves a half-written events file.
- `multi_pass_merge` moves a lone input file itself onto the output, so an
  events file can leave the work dir before a later merge reads the list.
- Both scripts reuse an existing `--out-dir`. Files of an earlier run must be
  replaced where this run writes the same name.
- A merge can fail after earlier channels were written. What stays in the
  output location then depends on how the final `shutil.move` writes it.

### Properties that make each component correct

- Merger: the output is exactly the stable merge by `(channel, sequence)` with
  ties broken by input position. Multi-round output equals a single base merge.
  The round loop ends within `ceil(log_B n)` rounds. Temporaries do not remain.
- Validator and builder: every listed file is sorted, has one channel and that
  channel is the one recorded for it. A source that breaks either rule always
  raises. No kept row is lost or duplicated. `--limit-files` is respected.
- Polars pipeline: the same outputs as the partitioner's, and the same
  failures as the validator's; it has no validator, so the second half is
  where it disagrees with the spec.
- Partitioner: combined output is the reference merge. Per-channel outputs are
  that merge's channel slices, one file per channel seen. Bad arguments are
  rejected before any work is done. When cleanup was requested, nothing of the
  work dir remains after success or failure, a failed merge included.

## 2. Modules

| Module | Models | State (VARIABLES) ↔ code |
|---|---|---|
| `EventOrder` | `parse_key` and key order; `HeapMerge` (what `merge_batch` writes) and `MultiPass` (what `multi_pass_merge` leaves) as pure RECURSIVE operators; `RefMerge`, the reference stable merge written as a rank, independent of any heap | none |
| `StableMerge` | abstract specification of one base merge: emit the least head by (key, index) | `ins`, `consumed`, `out` |
| `MergeBatch` | `merge_batch`, step by step | `files` (input contents), `nopen` (`len(files)`), `cursor` (lines `readline` returned), `heap`, `out`, `pc` |
| `MultiPassMerge` | `multi_pass_merge` and the `max(2, ...)` clamp of `main` | `fs` (file name ↦ content), `paths`, `nextPaths`, `i`, `roundId`, `maxOpen`, `pc` |
| `EventFiles` | `build_event_files` and the writers' row loop, with the filter, validator and the 7z list and extract failures | `k` (entry), `r` (row), `channelSeen`, `prevSeq`, `rowCount`, `fs` (symbol ↦ events), `eventPaths`, `count`, `pc` |
| `MergeMain` | `main`: work dir, both `build_event_files` calls (two `INSTANCE`s of `EventFiles`), checks, grouping, merges, `finally` | the instances' variables prefixed `o`/`t` (`oFs` is `order_events/`, `tFs` is `tick_events/`); `cleanup`, `tempRoot`, `orderPaths`, `tickPaths`, `perChannel`, `todo`, `outputs` (output files, possibly from an earlier run), `raised`, `pc` |
| `PolarsMerge` | `merge_szse_l3_polars.py`: `main` with `list_csv_files`, `read_channel_no`, `group_files_by_channel`, and each lazy scan + concat + sort + `sink_csv` as one step | `orderDir`, `tickDir` (file contents in name order), `limit`, `ignoreErrors`, `orderBy`, `tickBy`, `todo` (channels left), `outputs`, `pc` |

Each `MC*` module instantiates one of these modules with small constants and
holds its properties.

Data abstraction. A line of an events file is `[key |-> <<ChannelNo,
ApplSeqNum>>, id |-> x]` in the merge modules. In `EventFiles` and `MergeMain` it
also carries `kind` (the `Event` column) and `sym` (the `Symbol` column). Its
identity `x` stands for the other columns, which are copied from the row
unchanged. It is `<<input, position>>` (in `MergeMain`, `<<archive, entry,
row>>`), so loss, duplication and reordering are all visible.
`write_order_events` and `write_tick_events` share one control flow. They differ
in the `Event` column, which `EventKind` models: `ORDER` for an order row, and
for a tick row `TRADE` when `ExecType` is `"F"`, `CANCEL` for `"4"`, and `TICK`
otherwise (138-144). `EventFiles` therefore models both. A tick row in the
models is `<<ChannelNo, ApplSeqNum, ExecType>>`.

Polars data. In `PolarsMerge` a directory is the sequence of its CSV files in
name order, which is the order `list_csv_files` sorts them into. A file is the
sequence of its raw `(ChannelNo, ApplSeqNum)` fields, where a field is a
number or `Malformed`, meaning text the Int32/Int64 schema cannot parse. A
scanned row is `[key, id |-> <<family, file, line>>]`.
- The lazy query runs as a whole inside `sink_csv`, so each scan + concat +
  sort + sink is one step.
- `sort` leaves `maintain_order` False. Its result is therefore any sorted
  arrangement of the rows, with nulls first.
- With `--ignore-errors`, the script does not fix whether Polars drops a
  malformed row or nulls the field. Both outcomes are possible in the model.
- Without the flag, a malformed field makes the sink raise.
- `read_channel_no` uses a plain `int()`. A malformed first-row channel
  therefore raises while the files are grouped.

Composition. `MergeMain` composes `main` with two instances of `EventFiles`,
`Order` and `Tick`, whose variables are renamed by `INSTANCE ... WITH` and
which share `onlyChannel` and `limit` (`--channel`, `--limit-files`). The two
calls run one after the other: while `pc = "order"`, `OrderStep` takes a step
of `Order!Next` and nothing else changes; when `Order` returns, `BuildOrder`
joins its `(channel, symbol)` list with the directory into `order_paths`. The
same holds for the tick archive. When an instance raises, `BuildFails` sends
the exception to `Finally`. A path is `<<channel, kind, symbol>>`. A merge reads
the files' contents from `oFs`/`tFs` when it runs. Given one path,
`multi_pass_merge` moves that events file out of its directory (`AfterMove`).

Faults in `MergeMain`. Each `multi_pass_merge` call may instead raise an I/O
error (`MergeChannelFails` in the per-channel loop, `MergeCombinedFails` for
`--out`). The exception goes to `Finally`, like any other. `FailedOutputs` is
what such a call can leave in the output location:
- Nothing, when the merge had several inputs. `merge_batch` writes `.tmp` files
  and the output only appears by the final `shutil.move`, a rename within the
  output directory.
- A prefix of the events file, when the group had a single file. Here
  `shutil.move` of the events file from the work directory is the only write.
  Across file systems it is a copy, and the copy can stop part way.
Groups merged before the error stay in place (spec §7). `TempRemovedWhenRequested`
is checked on these error paths too. No property of a passing run states what the
output location holds after the error; see §4 for why.

`MultiPassMerge` takes each `merge_batch` call as one step whose result is
`HeapMerge`. `MergeMain` takes each `multi_pass_merge` call as one step whose
result is `MultiPass`. These operators are justified by the other runs:
- `MCMergeBatch` shows that the heap loop writes `RefMerge` and refines
  `StableMerge`.
- `MCMultiPassMerge` shows that the rounds built from `HeapMerge` leave
  `RefMerge`.
- `MCEventFiles` checks `EventFiles` on its own over more inputs, invalid
  rows included: valid files when basenames are distinct.

Refinement. `MCMergeBatch` checks `ImplementsStableMerge ==
Abs!Spec`, where `Abs` is `INSTANCE StableMerge` with `consumed[i] = cursor[i]
- (1 if input i has a line on the heap)`. The open phase and `Finish` are
stuttering steps of the abstract merge. Each `PopWrite` is one `Emit`.

## 3. Runs

| Run | Cfg | Expect | What it shows |
|---|---|---|---|
| `merge_batch` | `MCMergeBatch.cfg` | pass | 3 inputs of 1-2 lines, keys in {1,2}×{1,2}. Every tie inside an input, across inputs and across channels occurs. The heap loop writes `RefMerge` (`MergedIsRefMerge`) and implements `StableMerge`, including its fairness, so the loop ends (`ImplementsStableMerge`). |
| `multi_pass` | `MCMultiPassMerge.cfg` | pass | 1-4 inputs of 1-2 lines. `--max-open` 1 is clamped to 2: three rounds for four inputs, and a carry-over for three. `--max-open` 3 gives a batch of three plus a carried fourth. The output equals the single base merge of the original inputs (`OutputIsRefMerge`), within `ceil(log_B n)` rounds (`RoundsWithinLog`). |
| `multi_pass_terminates` | `MCMultiPassTerminates.cfg` | pass | `Terminates` for `--max-open` 0..3 and 1-4 inputs. The cfg's VIEW leaves out `round_id`, so a loop that makes no progress shows up as a cycle. |
| `multi_pass_tmp_left` | `MCMultiPassMergeTmp.cfg` | violation | `NoTmpLeftBehind`. With 3 inputs and B=2, `.merge_0_0.tmp` stays beside the output. |
| `event_files` | `MCEventFiles.cfg` | pass | Up to 2 entries with distinct basenames from {a,b,c}. The regex accepts a and b. Rows are 0-2 from {1,2}×{1,2} and need not be valid. 7z may fail. `--channel` is None or 1, and `--limit-files` is None or 1. Properties: `ListedFilesValid`, `DoneOnlyIfValid`, `NoLossNoDup`. |
| `event_files_same_basename` | `MCEventFilesSameName.cfg` | violation | `NoLossNoDup`. Entry 1 writes `a` and is listed. Entry 2 (also `a`) truncates the file, keeps no row and removes it. The listed file is gone. |
| `event_files_limit_zero` | `MCEventFilesLimitZero.cfg` | violation | `LimitRespected`. `--limit-files 0` still produces one file. |
| `main_end_to_end` | `MCMergeMain.cfg` | pass | Raw archive listings: 0-2 order entries (`a`, `b`) with valid one-channel rows, or the spec §8 example (three sources, B=2); 0-1 tick entry whose 7z extraction may fail. `--channel` None or 1, `--limit-files` None or 1, all four `--out`/`--out-dir` combinations, the three work-dir choices, and an output location that is empty or holds files of an earlier run. `EndToEndMatchesReference`: on success, `--out` holds `RefMerge` of the reference event files computed from the listings alone, and each `channel_<c>.csv` is that merge's channel-`c` slice; same-named earlier files are replaced, other files left as they were. `TempRemovedWhenRequested`: with cleanup requested, the work dir and every events file are gone once main returns or exits, on success and after any error. Any merge may raise an I/O error. The tick entry's `ExecType` is `"F"`, `"4"` or another code, so the reference also checks the `Event` column and the `Symbol` of every line. |
| `polars` | `MCPolarsMerge.cfg` | pass | One or two order files and one tick file. Each file is single-channel, never decreasing, and has 0-2 rows over channels 1-2 and sequence numbers 1-2, with a malformed channel or sequence field among them. `--limit-files` is None or 1, `--ignore-errors` is off, and all four `--out`/`--out-dir` combinations are tried. The output locations are empty or hold `channel_2.csv` and the `--out` file of an earlier run. Every listed row lands exactly once in the file of its channel, sorted; a same-named earlier file is replaced, and every other file is one the earlier run left (`OutputsHoldTheirChannelRows`). Malformed fields are there so that the sink's failure path is taken; with the flag off, that failure is the model's assumption about Polars, so no property restates it. |
| `polars_tie_order` | `MCPolarsMergeTies.cfg` | violation | `OutputIsStableMerge`. An order row and a tick row both keyed (1,1) come out tick-first in one behaviour. |
| `polars_accepts_invalid_input` | `MCPolarsMergeInvalid.cfg` | violation | `SucceedsOnlyOnValidInput`. The reported trace is header-only input with `--out`. A two-channel file, a decreasing file and a malformed field under `--ignore-errors` each violate it too; this was checked by restricting the cfg to each input in turn. |
| `main_config_order` | `MCMergeMainConfig.cfg` | violation | `ConfigCheckedFirst`. With neither or both output options, the order archive is listed (and then both archives converted) before main raises. |

Every property of a passing run has a mutant in `PROJECT.json`. Each mutant
replaces one mapped definition with a plausible bug, and TLC finds the property
violated. Examples: `parse_key` with its fields swapped; `readline` dropping the
last line; a batch slice one short; `max_open` not clamped; `while len(paths) >
0`; validator state not reset per file; a channel mismatch skipped instead of
raised; the `--channel` filter dropped; `per_channel[c] = [path]` instead of
`setdefault(...).append`; `order_paths` not joined with `order_dir`; the
`finally` cleanup done only on success; the `"F"`/`"4"` codes swapped in
`write_tick_events`; a failing merge writing straight into its output instead of
a `.tmp` file.

### Findings

1. **Same basename (code bug, merge_szse_l3.py:249).** Events files are named
   after the basename only. Two archive entries with the same basename
   overwrite each other's events file. If the second entry keeps no row,
   `os.remove` deletes a file that is already in `event_paths`. Rows are then
   lost, or the merge fails on a missing file.
2. **`--limit-files 0` (code bug, :262).** It yields one file per archive,
   because the limit is tested after the file is appended.
3. **Argument checks come late (divergence from spec §7, :318).** `--out` /
   `--out-dir` are checked only after both archives were fully streamed and
   normalized.
4. **Temporaries remain (divergence from spec §5/§6, :223).** The
   `.merge_<r>_<b>.tmp` files of all rounds but the last are written beside the
   output and never removed. The work-dir cleanup does not reach them.

5. **Unstable tie order in the Polars script (divergence from spec §4.3,
   polars :244).** `sort` does not maintain order. Equal `(channel, sequence)`
   keys from an order file and a tick file may come out in either order.
6. **The Polars script validates nothing (divergence from spec §4.2, §6, §7
   and §8, polars :230).** It succeeds in each of these cases, where the spec
   requires an error:
   - Header-only input. `--out` writes a header-only file, and `--out-dir`
     writes nothing.
   - A file with rows of two channels. It is grouped by its first row, so
     `channel_1.csv` receives the channel-2 row, and no `channel_2.csv` is
     written.
   - A decreasing source. It is sorted into place.
   - A malformed field with `--ignore-errors`. The row is lost or nulled.

### Bounds, and why they are enough

Keys come from two channels × two sequence numbers. This gives equal keys
across inputs, equal keys inside an input, and a channel change, which are all
the cases the comparator distinguishes. Three to four inputs with B=2 give
three rounds, a carried-over singleton and a merge of a tmp file with an
original. B=3 gives a batch larger than two. The validator gets two rows per
entry, which is enough for a decrease, a second channel, a filtered row and an
empty result. Two entries are enough for one entry to affect another's file.
The composed run keeps rows valid and basenames distinct, since `event_files`
covers the invalid ones. It has up to three event files, so that B=2 needs two
rounds; a channel with one file, so that the lone-file move happens; and a
tick extraction failure after rows were written, so that cleanup after an
error has something to remove. For the Polars
script, two order files and one tick file give two files of one channel, a
tick-only channel, a file cut by `--limit-files 1`, and a malformed field in
the first or the second row. These are all the cases its grouping and its
failure paths distinguish.

### Fairness

The script is a single thread that runs each loop to its end. Weak fairness on
the program's own steps, excluding the final stuttering, is what that
scheduling gives.

## 4. Not modelled, and why

- CSV text, quoting and `int()` parsing. Lines are abstracted to key + identity.
  The "Header mismatch" branch of `merge_batch` is unreachable, because every
  header is `EVENT_HEADER`.
- The 7z subprocess and argparse. These are pure I/O. A 7z failure after
  streaming is modelled as `ExtractFailed`, and a failed listing as
  `ListFailed`. `rmtree(..., ignore_errors=True)` is modelled as always
  succeeding; a file it cannot remove is an I/O failure the code ignores.
- Files an earlier run left in a reused `--work-dir` are never read, because
  only the paths of this run are merged; the model starts the event
  directories empty.
- Where inside `merge_batch` an I/O error happens. `MergeMain` models only its
  effect on the output location (see "Faults in `MergeMain`"). There are no
  retries. A `.tmp` file the failed merge leaves behind is in the output
  directory and is not modelled here; `multi_pass_tmp_left` shows `.tmp` files
  left even without an error.
- A partial single-file output. Spec §6 says no partial output file is left on
  failure. When a lone events file is moved across file systems and the copy
  fails, `merge_szse_l3.py:229` leaves a truncated file. During modelling, TLC
  checked the invariant "after an error every output file is an earlier run's
  or a whole completed group" and found it violated on exactly this trace. The
  project's run count is spent on the other findings, so this one is recorded
  as a hazard in `PROJECT.json` and not as a run. A passing property that
  allowed the truncated file as an exception would only restate the failure
  model (`FailedOutputs`), so none is kept.
- The imports and `EVENT_HEADER` (1-29 of `merge_szse_l3.py`), and the Polars
  schemas (1-26). These are constants: the line abstraction above stands for
  them.
- In the Polars script, `split_sorted_csv` (134-161) is never called. The
  column mapping of `build_order_lazy`/`build_tick_lazy` and
  `symbol_from_path_expr` are data that no property reads. This includes the
  Polars `Event` mapping. Short lines that
  `read_channel_no` skips are not modelled. Neither is whether a failing
  `sink_csv` leaves a partial file, which is library behaviour.
- Files left in `--out-dir` by an earlier run for channels absent now are not
  removed by either script. The models include them in the initial state and
  check they are left alone. No run claims this is wrong: spec §6 does not say
  what a rerun must do with them.

## 5. Plan

Done in this sitting, in order of importance:
1. `MergeBatch` + `StableMerge` (refinement).
2. `MultiPassMerge`.
3. `EventFiles`.
4. `MergeMain`.

Done in the second sitting:
5. `PolarsMerge`, with two findings (5 and 6 above). `EventFiles` also gained
   the failure of `7z l` (`ListFailed`).

Done in the third sitting:
6. `MergeMain` composed with two `INSTANCE`s of `EventFiles`. The end-to-end
   property is checked from raw listings, including the spec §8 example, and
   covers the work-dir lifecycle (`--work-dir`, `--keep-temp`, `finally`).
   Both scripts start from a possibly reused output directory.

Done in the fourth sitting:
7. `EventFiles` writes the `Event` and `Symbol` columns, and the end-to-end
   reference checks them against spec §3 and §8.
8. `MergeMain` models a merge raising an I/O error. The work-dir cleanup is
   checked on that path. The partial single-file move breaches spec §6 (see §4).

Further work: the `Event` mapping of the Polars pipeline, and the `.tmp` files
a failing merge leaves behind.
