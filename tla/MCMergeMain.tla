----------------------------- MODULE MCMergeMain -----------------------------
(***************************************************************************)
(* main from raw archive entries: an order archive of up to two symbols,   *)
(* or the three sources of the example in spec 8, and a tick archive of at *)
(* most one symbol whose extraction may fail; rows are valid streams of    *)
(* one channel out of two.  All four combinations of --out / --out-dir,    *)
(* the three work directory choices, --channel 1 and --limit-files 1, and  *)
(* --max-open 2, so that three files take two merge rounds.               *)
(***************************************************************************)
EXTENDS MergeMain
LOCAL INSTANCE SequencesExt

(* Single-channel, non-decreasing row streams (spec 4.2 valid sources).   *)
MCRows == {<<>>, <<<<1, 1>>>>, <<<<1, 1>>, <<1, 2>>>>, <<<<2, 1>>>>, <<<<2, 1>>, <<2, 1>>>>}

MCOrderEntries ==
    {<<>>}
    \cup {<<[sym |-> "a", rows |-> x, ok |-> TRUE]>> : x \in MCRows}
    \cup {<<[sym |-> "a", rows |-> x, ok |-> TRUE], [sym |-> "b", rows |-> y, ok |-> TRUE]>> :
             x, y \in MCRows}
    \cup {<<[sym |-> "a", rows |-> <<<<1, 1>>, <<1, 3>>>>, ok |-> TRUE],
            [sym |-> "b", rows |-> <<<<1, 2>>, <<1, 4>>>>, ok |-> TRUE],
            [sym |-> "c", rows |-> <<<<2, 1>>>>, ok |-> TRUE]>>}

(* The tick archive: one symbol whose row has ExecType "F", "4" or another *)
(* code; 7z may exit non-zero after the rows were streamed.                *)
MCTickEntries ==
    {<<>>} \cup {<<[sym |-> "a", rows |-> x, ok |-> b]>> :
                    x \in {<<<<1, 1, "F">>>>, <<<<2, 2, "4">>>>, <<<<1, 2, "0">>>>}, b \in BOOLEAN}

MCOutArgs == BOOLEAN \X BOOLEAN

(* --work-dir given, or not and --keep-temp given or not.                  *)
MCWorkDirArgs == {<<TRUE, FALSE>>, <<FALSE, FALSE>>, <<FALSE, TRUE>>}

(* An earlier run left channel_2.csv in --out-dir and wrote the --out    *)
(* file, or the output locations are new.                                  *)
OldLine == [key |-> <<2, 1>>, kind |-> "ORDER", sym |-> "a", id |-> <<"old", 1, 1>>]

MCPrior == {<<>>, (ChannelFile(2) :> <<OldLine>>) @@ (OutFile :> <<OldLine>>)}

Syms == {"a", "b", "c"}
Line == [key : {1, 2} \X (1..4), kind : {"ORDER", "TRADE", "CANCEL", "TICK"}, sym : Syms,
         id : {"order", "tick", "old"} \X (1..3) \X (1..2)]
Path == {1, 2} \X {"order", "tick"} \X Syms

TypeOK ==
    /\ orderPaths \in Seq(Path) /\ tickPaths \in Seq(Path)
    /\ \E S \in SUBSET {1, 2} : perChannel \in [S -> Seq(Path)]
    /\ todo \subseteq DOMAIN perChannel
    /\ \E D \in SUBSET {OutFile, ChannelFile(1), ChannelFile(2)} : outputs \in [D -> Seq(Line)]
    /\ \A s \in DOMAIN oFs : oFs[s] \in Seq(Line)
    /\ \A s \in DOMAIN tFs : tFs[s] \in Seq(Line)
    /\ pc \in {"order", "tick", "check", "merge", "finally", "done", "error"}

-----------------------------------------------------------------------------
(* The event kind of spec 3 and 8: ORDER for an order row; for a tick row *)
(* TRADE for execution code "F", CANCEL for "4", TICK for any other.      *)
SpecKind(kind, row) ==
    IF kind = "order" THEN "ORDER"
    ELSE IF row[3] = "F" THEN "TRADE" ELSE IF row[3] = "4" THEN "CANCEL" ELSE "TICK"

(* The reference, from the archive listings alone: the event file of an   *)
(* accepted entry holds its rows of the --channel, in row order, with the *)
(* kind above and the entry's symbol, as lines identified by <<kind,      *)
(* entry, row>>; entries with no such row give no file, and the first     *)
(* --limit-files files of each archive are kept (spec 4.1, 4.2).          *)
RefLines(kind, es, e) ==
    LET js == SelectSeq([j \in 1..Len(es[e].rows) |-> j],
                        LAMBDA j : onlyChannel = None \/ es[e].rows[j][1] = onlyChannel)
        Row(j) == es[e].rows[j]
    IN  [x \in 1..Len(js) |-> [key |-> <<Row(js[x])[1], Row(js[x])[2]>>,
                               kind |-> SpecKind(kind, Row(js[x])),
                               sym |-> es[e].sym, id |-> <<kind, e, js[x]>>]]

RefFiles(kind, es) ==
    LET fs == SelectSeq([e \in 1..Len(es) |-> IF es[e].sym \in Accepted
                                               THEN RefLines(kind, es, e) ELSE <<>>],
                        LAMBDA f : f # <<>>)
    IN  IF limit = None \/ Len(fs) <= limit THEN fs ELSE SubSeq(fs, 1, limit)

(* All order files, then all tick files: the rank spec 4.3 breaks ties by. *)
RefSources == RefFiles("order", oEntries) \o RefFiles("tick", tEntries)

Everything == RefMerge(RefSources)

Channels == {l.key[1] : l \in ToSet(Everything)}

(* The files a successful run writes.                                      *)
Written == IF out THEN {OutFile} ELSE {ChannelFile(c) : c \in Channels}

(* From the archives to the artifacts: when main succeeds, with --out one *)
(* file holds the reference merge of every kept source; with --out-dir    *)
(* there is one file per channel that has an event, holding exactly that  *)
(* channel's events in the order of the combined merge; a file an earlier *)
(* run left under the same name is replaced, any other is left as it was. *)
(* This ties the normalizer's file naming and limit cut, the tuple order  *)
(* of event_paths, the setdefault grouping, the reading of files after    *)
(* earlier merges moved some away, and the multi-pass rounds together    *)
(* (spec 4.4, 8).                                                          *)
EndToEndMatchesReference ==
    pc = "done" =>
        /\ Written \subseteq DOMAIN outputs
        /\ \A f \in DOMAIN outputs \ Written :
              \A n \in 1..Len(outputs[f]) : outputs[f][n].id[1] = "old"
        /\ IF out
           THEN outputs[OutFile] = Everything
           ELSE \A c \in Channels :
                    outputs[ChannelFile(c)] = SelectSeq(Everything, LAMBDA l : l.key[1] = c)

(* When no --work-dir and no --keep-temp were given, main leaves nothing   *)
(* of its work directory behind, whether it succeeded or a build, a check *)
(* or a merge raised: the events file a failed 7z extraction left half    *)
(* written is removed too (spec 6, "unless cleanup was requested").       *)
TempRemovedWhenRequested ==
    pc \in {"done", "error"} /\ cleanup => ~tempRoot /\ oFs = <<>> /\ tFs = <<>>

(* Spec 7: a ConfigurationError (both or neither output mode) is detected *)
(* before any processing: no archive is read when the arguments are bad.  *)
ConfigCheckedFirst == out = outDir => oK = 0 /\ oPc = "next"

=============================================================================
