---------------------------- MODULE MCPolarsMerge ----------------------------
(***************************************************************************)
(* Model of merge_szse_l3_polars.py for TLC: directories of one or two    *)
(* order files and one tick file, each of up to two rows over channels 1  *)
(* and 2, sequence numbers 1 and 2, and Malformed fields.                  *)
(***************************************************************************)
EXTENDS PolarsMerge
LOCAL INSTANCE SequencesExt

Fields == {1, 2, Malformed}

(* A file's rows; SingleChannel keeps those whose parsed ChannelNo values *)
(* agree, the input spec 4.2 says a source is.                             *)
FilesOver(R) == UNION {[1..m -> R] : m \in 0..2}

SingleChannel(f) ==
    \A a, b \in 1..Len(f) : f[a][1] # Malformed /\ f[b][1] # Malformed => f[a][1] = f[b][1]

Dirs(F, n) == UNION {[1..m -> F] : m \in 1..n}

(* Valid inputs: single-channel files whose sequence numbers never        *)
(* decrease, with a Malformed field in either column.                      *)
Monotonic(f) ==
    \A a \in 1..(Len(f) - 1) :
        f[a][2] # Malformed /\ f[a + 1][2] # Malformed => f[a][2] <= f[a + 1][2]

MCRawRows == {<<1, 1>>, <<1, 2>>, <<2, 1>>, <<1, Malformed>>, <<Malformed, 1>>}

MCFiles == {f \in FilesOver(MCRawRows) : SingleChannel(f) /\ Monotonic(f)}

MCOrderDirs == Dirs(MCFiles, 2)
MCTickDirs == Dirs(MCFiles, 1)

(* Invalid inputs, one file each: two channels, a decreasing sequence,  *)
(* a malformed field, no data row.                                         *)
MCInvalidDirs == {<<<<<<1, 1>>, <<2, 1>>>>>>, <<<<<<1, 2>>, <<1, 1>>>>>>,
                  <<<<<<1, Malformed>>>>>>, <<<<>>>>}

(* Two sources holding the same key.                                       *)
MCTieDirs == {<<<<<<1, 1>>>>>>}

MCOutArgs == BOOLEAN \X BOOLEAN

(* An earlier run left channel_2.csv in --out-dir and wrote the --out    *)
(* file, or the output locations are new.                                  *)
OldRow == [key |-> <<2, 1>>, id |-> <<"old", 1, 1>>]

MCPrior == {<<>>, (ChannelFile(2) :> <<OldRow>>) @@ (OutFile :> <<OldRow>>)}

MCNoPrior == {<<>>}

Row == [key : (Fields \cup {None}) \X (Fields \cup {None}),
        id : {"order", "tick", "old"} \X (1..2) \X (1..2)]

TypeOK ==
    /\ pc \in {"check", "write", "done", "error"}
    /\ \E S \in SUBSET {1, 2} : orderBy \in [S -> Seq(1..2)]
    /\ \E S \in SUBSET {1, 2} : tickBy \in [S -> Seq(1..2)]
    /\ todo \subseteq {1, 2}
    /\ \E D \in SUBSET ({OutFile} \cup {ChannelFile(c) : c \in {1, 2}}) :
           outputs \in [D -> Seq(Row)]

-----------------------------------------------------------------------------
(* The reference: what spec 4.3/4.4 say the run produces from the listed  *)
(* files, with the [:limit] cut written out again.                         *)
RefListed(dir) ==
    IF limit = None THEN dir ELSE [n \in 1..(IF limit < Len(dir) THEN limit ELSE Len(dir)) |-> dir[n]]

RefFileRows(fam, dir, i) == [j \in 1..Len(dir[i]) |-> [key |-> dir[i][j], id |-> <<fam, i, j>>]]

(* The sources in the order spec 4.3 ranks ties by: order files, then     *)
(* tick files, each in name order.                                         *)
RefSources ==
    [i \in 1..Len(RefListed(orderDir)) |-> RefFileRows("order", RefListed(orderDir), i)]
      \o [i \in 1..Len(RefListed(tickDir)) |-> RefFileRows("tick", RefListed(tickDir), i)]

RefRows == UNION {ToSet(RefSources[s]) : s \in 1..Len(RefSources)}

RefChannels == {r.key[1] : r \in RefRows}

(* The output file holding channel c's rows in the chosen mode.            *)
FileOf(c) == IF out THEN OutFile ELSE ChannelFile(c)

(* The files this run writes.                                             *)
Written == IF out THEN {OutFile} ELSE {ChannelFile(c) : c \in RefChannels}

(* Every row of a listed file ends up exactly once in the file of its own *)
(* channel, sorted by (ChannelNo, ApplSeqNum): grouping by first row, the *)
(* limit cut, the two frames and the sort together lose, duplicate and    *)
(* misplace nothing (spec 4.4 and 8).  A file of the same name left by an *)
(* earlier run is replaced, not appended to or kept; any other file in    *)
(* the reused --out-dir (229) is left as it was.  The combined file is    *)
(* written even when it holds no row.                                      *)
OutputsHoldTheirChannelRows ==
    pc = "done" =>
        /\ Written \subseteq DOMAIN outputs
        /\ \A f \in DOMAIN outputs \ Written :
              \A n \in 1..Len(outputs[f]) : outputs[f][n].id[1] = "old"
        /\ \A c \in RefChannels :
              LET o == outputs[FileOf(c)]
              IN  /\ {r \in ToSet(o) : r.key[1] = c} = {r \in RefRows : r.key[1] = c}
                  /\ \A n \in 1..Len(o) : o[n].key[1] = c \/ out
                  /\ IsKeySorted(o)
        /\ \A f \in Written :
              Len(outputs[f]) = Cardinality({r \in RefRows : FileOf(r.key[1]) = f})

(* A run that succeeds had valid input and wrote an event: every source  *)
(* holds one channel (spec 4.2, ChannelConsistencyError), its sequence    *)
(* numbers never decrease (MonotonicityError), no field is malformed      *)
(* (spec 7, ParseError) and at least one event exists (spec 6).            *)
SucceedsOnlyOnValidInput ==
    pc = "done" =>
        /\ RefRows # {}
        /\ \A r \in RefRows : ~IsMalformed(r)
        /\ \A s \in 1..Len(RefSources) :
              /\ IsKeySorted(RefSources[s])
              /\ \A n \in 1..Len(RefSources[s]) : RefSources[s][n].key[1] = RefSources[s][1].key[1]

(* Every output file is the stable merge of its sources: equal keys in    *)
(* source order (spec 4.3, "fully deterministic total order").            *)
OutputIsStableMerge ==
    pc = "done" =>
        \A f \in Written :
            outputs[f] = RefMerge(SelectSeq(
                [s \in 1..Len(RefSources) |-> SelectSeq(RefSources[s], LAMBDA r : FileOf(r.key[1]) = f)],
                LAMBDA s : s # <<>>))

=============================================================================
