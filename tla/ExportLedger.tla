-------------------------------- MODULE ExportLedger --------------------------------
(***************************************************************************)
(* Which Markdown files under an export target belong to the exporter      *)
(* (MarkdownExportLedger, src/particles/render/markdown.py): the manifest  *)
(* of the last finished run united with the journal of an interrupted one. *)
(* A run may be killed at any step, and the operator edits, adds and       *)
(* removes files at any time.  A file is abstracted to who wrote its text, *)
(* which note it is and whose export marker it carries, if any; its        *)
(* digest is the file itself.  One run at a time.                          *)
(***************************************************************************)
EXTENDS FiniteSets, Functions

CONSTANTS
    Path,       \* the .md paths a note may take
    Exporter,   \* the exporters pointed at the target
    InScope,    \* per exporter, the paths its scope and recursion admit
    Version,    \* the texts a note goes through
    User        \* the operator, as the writer of a text

File(by, version, mark) == [by |-> by, version |-> version, mark |-> mark]
NoFile == [by |-> "nobody"]
Unhashed == [by |-> "unrecorded"]
Note(e, v) == File(e, v, e)
UserText == {File(User, 0, m) : m \in Exporter \cup {User}}
NoRecord == [p \in {} |-> NoFile]

ASSUME LedgerAssumption == User \notin Exporter /\ InScope \in [Exporter -> SUBSET Path]

VARIABLES
    disk,      \* per path, the file there
    manifest,  \* the exporter of the last finished run and its files' digests
    journal,   \* path -> digest of what runs wrote since
    at,        \* where the run is: "idle", "writing", "journalling", ...
    run,       \* the ledger of that run
    cut,       \* history: paths whose write was cut off from its journal line
    late       \* history: paths the operator touched since the prune was decided

ledger == <<disk, manifest, journal, at, run, cut, late>>

NoRun == [by |-> User, force |-> FALSE, owned |-> {}, recorded |-> NoRecord,
          written |-> NoRecord, prunable |-> {}, hand |-> <<>>]

-----------------------------------------------------------------------------
Present(e) == {p \in InScope[e] : disk[p] # NoFile}
HasManifest(e) == manifest.by = e

\* What claim reads: the journal's line for a path wins over the manifest's.
RecordedDigests(e) ==
    LET listed == IF HasManifest(e) THEN manifest.files ELSE NoRecord
        all == [p \in DOMAIN listed \cup DOMAIN journal |->
                  IF p \in DOMAIN journal THEN journal[p] ELSE listed[p]]
    IN  Restrict(all, DOMAIN all \cap InScope[e])

\* An export older than the manifest is adopted by the marker in its files.
Adopted(e) == IF HasManifest(e) THEN {} ELSE {p \in Present(e) : disk[p].mark = e}
Owned(e) == DOMAIN RecordedDigests(e) \cup Adopted(e)

Refused(e, force) ==
    /\ Present(e) \ Owned(e) # {} /\ ~HasManifest(e) /\ journal = NoRecord /\ ~force

LedgerInit ==
    /\ cut = {} /\ late = {} /\ at = "idle" /\ run = NoRun /\ journal = NoRecord
    /\ \E e \in Exporter, exported \in SUBSET Path :
          /\ disk \in [Path -> {NoFile} \cup UserText \cup {Note(e, v) : v \in Version}]
          /\ exported = {p \in Path : disk[p] # NoFile /\ disk[p].by = e}
          /\ exported \subseteq InScope[e]
          /\ manifest \in {[by |-> User, files |-> NoRecord],
                           [by |-> e, files |-> [p \in exported |-> Unhashed]]}

Claim(e, force) ==
    /\ at = "idle" /\ ~Refused(e, force)
    /\ at' = "writing" /\ late' = {}
    /\ run' = [NoRun EXCEPT !.by = e, !.force = force, !.owned = Owned(e),
                            !.recorded = RecordedDigests(e)]
    /\ UNCHANGED <<disk, manifest, journal, cut>>

\* write: skipped for a file that is neither owned nor written earlier in this run.
MayWrite(p) ==
    run.force \/ disk[p] = NoFile \/ p \in run.owned \/ p \in DOMAIN run.written

WriteFile(p, v) ==
    /\ at = "writing" /\ p \in InScope[run.by] /\ MayWrite(p)
    /\ disk' = [disk EXCEPT ![p] = Note(run.by, v)]
    /\ at' = "journalling" /\ run' = [run EXCEPT !.hand = <<p, v>>]
    /\ UNCHANGED <<manifest, journal, cut, late>>

Put(f, p, x) == [q \in DOMAIN f \cup {p} |-> IF q = p THEN x ELSE f[q]]

Journal ==
    LET p == run.hand[1]
        digest == Note(run.by, run.hand[2])
    IN  /\ at = "journalling"
        /\ journal' = (IF p \in DOMAIN run.written /\ run.written[p] = digest THEN journal
                       ELSE Put(journal, p, digest))
        /\ run' = [run EXCEPT !.written = Put(run.written, p, digest), !.hand = <<>>]
        /\ cut' = cut \ {p} /\ at' = "writing" /\ UNCHANGED <<disk, manifest, late>>

\* Mutant: the marker is enough, whatever was recorded.
WrittenOrMarked(p) ==
    disk[p] # NoFile /\ (disk[p].mark = run.by \/ (p \in DOMAIN run.recorded /\ disk[p] = run.recorded[p]))

\* A file with no recorded digest is recognised by the marker.
StillAsWritten(p) ==
    /\ disk[p] # NoFile
    /\ IF p \in DOMAIN run.recorded /\ run.recorded[p] # Unhashed
       THEN disk[p] = run.recorded[p]
       ELSE disk[p].mark = run.by

\* finish: what to prune is decided before the first file goes.
Finish ==
    /\ at = "writing" /\ at' = "pruning" /\ late' = {}
    /\ run' = [run EXCEPT !.prunable =
                 {p \in run.owned \ DOMAIN run.written : StillAsWritten(p)}]
    /\ UNCHANGED <<disk, manifest, journal, cut>>

Prune(p) ==
    /\ at = "pruning" /\ p \in run.prunable
    /\ disk' = [disk EXCEPT ![p] = NoFile] /\ cut' = cut \ {p}
    /\ run' = [run EXCEPT !.prunable = @ \ {p}]
    /\ UNCHANGED <<manifest, journal, at, late>>

SaveManifest ==
    /\ at = "pruning" /\ run.prunable = {} /\ at' = "clearing"
    /\ manifest' = [by |-> run.by, files |-> run.written]
    /\ UNCHANGED <<disk, journal, run, cut, late>>

ClearJournal ==
    /\ at = "clearing" /\ at' = "idle" /\ journal' = NoRecord /\ run' = NoRun
    /\ UNCHANGED <<disk, manifest, cut, late>>

Crash ==
    /\ at # "idle" /\ at' = "idle" /\ run' = NoRun
    /\ cut' = (IF at = "journalling" THEN cut \cup {run.hand[1]} ELSE cut)
    /\ UNCHANGED <<disk, manifest, journal, late>>

\* The operator writes, edits (the marker may stay) or removes a file.
Edit(p, file) ==
    /\ disk[p] # file /\ disk' = [disk EXCEPT ![p] = file]
    /\ late' = late \cup {p} /\ cut' = cut \ {p}
    /\ UNCHANGED <<manifest, journal, at, run>>

LedgerNext ==
    \/ \E e \in Exporter, force \in BOOLEAN : Claim(e, force)
    \/ \E p \in Path, v \in Version : WriteFile(p, v)
    \/ Journal \/ Finish \/ SaveManifest \/ ClearJournal \/ Crash
    \/ \E p \in Path : Prune(p)
    \/ \E p \in Path, file \in UserText \cup {NoFile} : Edit(p, file)

LedgerSpec == LedgerInit /\ [][LedgerNext]_ledger

-----------------------------------------------------------------------------
Pruned(p) == at = "pruning" /\ run'.prunable # run.prunable /\ disk'[p] # disk[p]

\* No text of the operator is deleted: what a run removes was written by an export and is
\* unedited since, whatever crashed before; the one exception is a file no digest was ever
\* recorded for, which is told by its marker.  An edit after the prune was decided (the
\* few steps between _still_as_written and unlink) is not seen.
OperatorTextKept ==
    [][\A p \in Path : Pruned(p) /\ p \notin late /\ disk[p].by = User =>
          disk[p].mark = run.by /\ (p \in DOMAIN run.recorded => run.recorded[p] = Unhashed)]_ledger

\* A killed export still owns what it wrote: between runs every unedited note of the
\* exporter is owned by its next run, but for the one note whose journal line the kill cut.
InterruptedIsOwned ==
    at = "idle" => \A e \in Exporter, p \in Path :
        disk[p] # NoFile /\ disk[p].by = e /\ p \notin cut => p \in Owned(e)

\* An export that was killed still owns what it wrote, and none deletes what the operator
\* wrote.
ExportKnowsItsOwn == []InterruptedIsOwned /\ OperatorTextKept
=====================================================================================
