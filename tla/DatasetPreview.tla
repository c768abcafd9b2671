---------------------------- MODULE DatasetPreview ----------------------------
(* The two previews of a file in ConnectionsPage and the download of its    *)
(* cleaned rows.  Rows carry the file they are of; several files may have   *)
(* the same name.  The raw preview keeps a file and its rows in one piece   *)
(* of state, the clean one keeps them in two.                               *)
EXTENDS FiniteSets, Integers, Workbench

CONSTANTS
  Datasets,          \* files of the list
  datasetName,       \* their names
  Reads,             \* bound: requests under way at the same time
  MaxLooks           \* bound: previews opened and downloads started

ASSUME PreviewAssumption ==
  DOMAIN datasetName = Datasets /\ "none" \notin Datasets /\ MaxLooks \in Nat

VARIABLES
  sampled,           \* files of the list whose rows are known
  cached,            \* files of local_ingested_files with rows
  raw,               \* previewingFile and isRawPreviewLoading
  clean, cleanData,  \* cleanPreviewFile and isCleanDataLoading; cleanData
  reads,             \* requests under way, each with what it closed over
  exported,          \* the last file that was downloaded
  looks              \* bound used up

previewVars == <<sampled, cached, raw, clean, cleanData, reads, exported, looks>>

NoDataset == "none"
NoData == [of |-> NoDataset, kind |-> "none"]
NoRead == [kind |-> "none", of |-> NoDataset, sample |-> FALSE]
RawShut == [of |-> NoDataset, rows |-> NoDataset, loading |-> FALSE]
CleanShut == [of |-> NoDataset, loading |-> FALSE]
Namesakes(f) == {g \in Datasets : datasetName[g] = datasetName[f]}

Exported(f, d) == [named |-> f, of |-> d.of, kind |-> d.kind]

PreviewInit ==
  /\ sampled \in SUBSET Datasets /\ cached \in SUBSET Datasets
  /\ raw = RawShut /\ clean = CleanShut /\ cleanData = NoData
  /\ reads = [q \in Reads |-> NoRead] /\ looks = 0
  /\ exported = Exported(NoDataset, NoData)

Look == looks < MaxLooks /\ looks' = looks + 1

SendRead(kind, f) ==
  \E q \in Reads :
    /\ reads[q] = NoRead
    /\ reads' = [reads EXCEPT ![q] = [kind |-> kind, of |-> f, sample |-> f \in sampled]]

(* ---------------------------- the raw preview --------------------------- *)
\* The rows of the list, those the browser remembers under the name, or
\* those the backend sends.
OpenRaw(f) ==
  /\ Look /\ raw.of = NoDataset /\ clean.of = NoDataset
  /\ \/ f \in sampled /\ raw' = [raw EXCEPT !.of = f, !.rows = f] /\ UNCHANGED reads
     \/ /\ f \notin sampled
        /\ \E g \in cached \cap Namesakes(f) : raw' = [raw EXCEPT !.of = f, !.rows = g]
        /\ UNCHANGED reads
     \/ /\ f \notin sampled /\ cached \cap Namesakes(f) = {}
        /\ raw' = [of |-> f, rows |-> NoDataset, loading |-> TRUE] /\ SendRead("raw", f)
  /\ UNCHANGED <<sampled, cached, clean, cleanData, exported>>

CloseRaw ==
  /\ raw.of # NoDataset /\ raw' = [raw EXCEPT !.of = NoDataset, !.rows = NoDataset]
  /\ UNCHANGED <<sampled, cached, clean, cleanData, reads, exported, looks>>

BugShown(f) == [raw EXCEPT !.rows = IF raw.of = NoDataset THEN NoDataset ELSE f, !.loading = FALSE]

\* setPreviewingFile(updated): the file comes with its rows, also when the
\* preview was closed or shows another file by now.
ShownRows(f) == [of |-> f, rows |-> f, loading |-> FALSE]

NotLoaded == [raw EXCEPT !.loading = FALSE]

RawArrives(q) ==
  /\ reads[q].kind = "raw" /\ reads' = [reads EXCEPT ![q] = NoRead]
  /\ \/ raw' = ShownRows(reads[q].of) /\ sampled' = sampled \cup {reads[q].of}
     \/ raw' = NotLoaded /\ UNCHANGED sampled
  /\ UNCHANGED <<cached, clean, cleanData, exported, looks>>

(* --------------------------- the clean preview -------------------------- *)
\* The data of the preview before stay until the answer.
OpenClean(f) ==
  /\ Look /\ raw.of = NoDataset /\ clean.of = NoDataset
  /\ clean' = [of |-> f, loading |-> TRUE] /\ SendRead("clean", f)
  /\ UNCHANGED <<sampled, cached, raw, cleanData, exported>>

CloseClean ==
  /\ clean.of # NoDataset /\ clean' = [clean EXCEPT !.of = NoDataset]
  /\ UNCHANGED <<sampled, cached, raw, cleanData, reads, exported, looks>>

BugFallback(r) == {[of |-> r.of, kind |-> "none"]}

\* getPreviewData: raw rows in place of clean ones, or none.
Fallback(r) ==
  IF r.sample THEN {[of |-> r.of, kind |-> "raw"]}
  ELSE IF cached \cap Namesakes(r.of) # {}
       THEN {[of |-> g, kind |-> "raw"] : g \in cached \cap Namesakes(r.of)}
       ELSE {[of |-> r.of, kind |-> "empty"]}

CleanArrives(q) ==
  /\ reads[q].kind = "clean" /\ reads' = [reads EXCEPT ![q] = NoRead]
  /\ cleanData' \in {[of |-> reads[q].of, kind |-> "clean"]} \cup Fallback(reads[q])
  /\ clean' = [clean EXCEPT !.loading = FALSE]
  /\ UNCHANGED <<sampled, cached, raw, exported, looks>>

\* exportLocalCsv
LocalCsv(f) == Exported(f, cleanData)

\* downloadCleanCsv, from a row of the list or from the preview: what was
\* loaded last, if it has rows; otherwise the backend's file.
Download(f) ==
  /\ Look /\ raw.of = NoDataset /\ clean.of \in {NoDataset, f}
  /\ \/ /\ cleanData.kind \in {"clean", "raw"} /\ exported' = LocalCsv(f)
        /\ UNCHANGED reads
     \/ /\ cleanData.kind \in {"none", "empty"} /\ SendRead("csv", f) /\ UNCHANGED exported
  /\ UNCHANGED <<sampled, cached, raw, clean, cleanData>>

CsvArrives(q) ==
  /\ reads[q].kind = "csv" /\ reads' = [reads EXCEPT ![q] = NoRead]
  /\ exported' \in {exported, [named |-> reads[q].of, of |-> reads[q].of, kind |-> "clean"]}
  /\ UNCHANGED <<sampled, cached, raw, clean, cleanData, looks>>

PreviewAnswer(q) == RawArrives(q) \/ CleanArrives(q) \/ CsvArrives(q)

PreviewNext ==
  \/ (\E f \in Datasets : OpenRaw(f) \/ OpenClean(f) \/ Download(f)) \/ CloseRaw \/ CloseClean
  \/ (\E q \in Reads : PreviewAnswer(q))

PreviewSpec == PreviewInit /\ [][PreviewNext]_previewVars

(* Requests are answered.                                                   *)
PreviewFairness == \A q \in Reads : WF_previewVars(inUse = "preview" /\ PreviewAnswer(q))

(* --------------------- waiting, and what is shown ----------------------- *)
PreviewWaits == raw.loading \/ clean.loading

(* ------------------------------ properties ------------------------------ *)
PreviewTypeOK ==
  /\ sampled \subseteq Datasets /\ cached \subseteq Datasets
  /\ raw \in [of : Datasets \cup {NoDataset}, rows : Datasets \cup {NoDataset}, loading : BOOLEAN]
  /\ clean \in [of : Datasets \cup {NoDataset}, loading : BOOLEAN]
  /\ cleanData \in {NoData} \cup [of : Datasets, kind : {"clean", "raw", "empty"}]
  /\ \A q \in Reads : reads[q] = NoRead \/
       (reads[q].kind \in {"raw", "clean", "csv"} /\ reads[q].of \in Datasets)
  /\ exported.kind \in {"none", "clean", "raw"} /\ looks \in 0..MaxLooks

(* The rows of the raw preview are those of the file it names, or of one of *)
(* the same name, whichever answer comes last and whatever was closed.      *)
RawOfItsFile ==
  /\ raw.of # NoDataset /\ raw.rows # NoDataset => raw.rows \in Namesakes(raw.of)
  /\ raw.of = NoDataset => raw.rows = NoDataset
===============================================================================
