---------------------------- MODULE MCEventFiles ----------------------------
(***************************************************************************)
(* build_event_files over archive listings of up to two entries, each of  *)
(* up to two rows from two channels and two sequence numbers, with and    *)
(* without --channel 1, --limit-files 1 and a regex that rejects "c".     *)
(***************************************************************************)
EXTENDS EventFiles, TLC

SeqExt == INSTANCE SequencesExt

MCRows == UNION {[1..m -> {1, 2} \X {1, 2}] : m \in 0..2}
MCEntry(S) == [sym : S, rows : MCRows, ok : BOOLEAN]

(* Listings whose entries have distinct symbols (distinct basenames).      *)
MCEntries ==
    {e \in UNION {[1..m -> MCEntry({"a", "b", "c"})] : m \in 0..2} :
        \A x, y \in 1..Len(e) : x # y => e[x].sym # e[y].sym}

(* Listings where two entries may share a basename, e.g. 20240102/000001  *)
(* .csv and another/000001.csv.                                           *)
MCEntriesSameName == UNION {[1..m -> MCEntry({"a"})] : m \in 0..2}

Line == [key : {1, 2} \X {1, 2}, kind : {"ORDER"}, sym : {"a", "b", "c"},
         id : {Kind} \X (1..2) \X (1..2)]

TypeOK ==
    /\ k \in 0..Len(entries) /\ r \in 0..2
    /\ channelSeen \in {None, 1, 2} /\ prevSeq \in {None, 1, 2}
    /\ rowCount \in 0..2 /\ count \in 0..2
    /\ \A s \in DOMAIN fs : fs[s] \in Seq(Line)
    /\ eventPaths \in Seq({1, 2} \X {"a", "b", "c"})
    /\ pc \in {"next", "rows", "done", "error"}

(* The rows of entry e that reach the validator (the --channel filter).   *)
KeptRows(e) ==
    {j \in 1..Len(entries[e].rows) :
        onlyChannel = None \/ entries[e].rows[j][1] = onlyChannel}

Processed == {e \in 1..k : entries[e].sym \in Accepted}

(* Every file handed to the merge is what the merge assumes: it exists,  *)
(* is sorted by (channel, sequence) and holds only the channel recorded   *)
(* for it in event_paths (spec 4.2; the per-channel grouping of main and  *)
(* the base merge both read this).                                        *)
ListedFilesValid ==
    \A p \in 1..Len(eventPaths) :
        LET c == eventPaths[p][1]
            s == eventPaths[p][2]
        IN  /\ s \in DOMAIN fs
            /\ fs[s] # <<>>
            /\ IsKeySorted(fs[s])
            /\ \A x \in 1..Len(fs[s]) : fs[s][x].key[1] = c

(* When build_event_files returns normally, the listed files hold each    *)
(* kept row of every visited entry exactly once (spec 8: no loss, no      *)
(* duplication).                                                           *)
Listed == [p \in 1..Len(eventPaths) |-> fs[eventPaths[p][2]]]

NoLossNoDup ==
    pc = "done" =>
        /\ \A p \in 1..Len(eventPaths) : eventPaths[p][2] \in DOMAIN fs
        /\ LET flat == SeqExt!FlattenSeq(Listed)
               expected == UNION {{[key |-> entries[e].rows[j], kind |-> "ORDER", sym |-> entries[e].sym,
                                      id |-> <<Kind, e, j>>] :
                                     j \in KeptRows(e)} : e \in Processed}
           IN  /\ Len(flat) = Cardinality(expected)
               /\ {flat[x] : x \in 1..Len(flat)} = expected

(* A returned build means every visited source was single-channel and     *)
(* non-decreasing after filtering: a violation always raises (spec 4.2,   *)
(* 8).                                                                     *)
DoneOnlyIfValid ==
    pc = "done" =>
        \A e \in Processed :
            \A i, j \in KeptRows(e) :
                /\ entries[e].rows[i][1] = entries[e].rows[j][1]
                /\ i < j => entries[e].rows[i][2] <= entries[e].rows[j][2]

(* --limit-files N: at most N event files per archive (its help text).    *)
LimitRespected == limit # None => count <= limit

=============================================================================
