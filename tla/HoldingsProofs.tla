---------------------------- MODULE HoldingsProofs ----------------------------
(***************************************************************************)
(* Theorems about what an operator keeps beside the store: the export      *)
(* ledger and the reviewed vocabularies, for any paths, exporters, forms   *)
(* and documents, and what the process may fetch, for any names and        *)
(* settings; what it takes over from a memory export, for any lines; the   *)
(* corpus the extractors are held to, for any registry and particles;      *)
(* what may be asked, for any claims and options; and what the settings    *)
(* mean, for any files and any list of renamed keys that do not chain.     *)
(*                                                                         *)
(* The ledger: the digests of the manifest and the journal are those on    *)
(* disk but for the writes a kill cut (Known), so that a run knows of each *)
(* note of its exporter when it starts, and has written or will prune it   *)
(* when it ends (Foreseen).  The vocabularies: what a term says of its     *)
(* kind is, target by target, the latest ruling about its name             *)
(* (FollowsRulings), and no ruling is about a name not minted yet.  The    *)
(* takeover: whatever was read is in the graph or remarked, and a plan and *)
(* an import are the mapping of that graph (MigrationInv).  The corpus: a  *)
(* generation under way has written what comes before its step, and a      *)
(* report's statistics are those of its particles (ConformanceInv).        *)
(***************************************************************************)
EXTENDS ExportLedger, Vocabulary, Outbound, Migration, Conformance, QueryForms, Settings,
        FiniteSetTheorems, SequenceTheorems, FunctionTheorems, WellFoundedInduction, TLAPS

Notes == {Note(e, v) : e \in Exporter, v \in Version}
Digest == {Unhashed} \cup Notes
\* The functions from some paths to S.
FilesOf(S) == UNION {[d -> S] : d \in SUBSET Path}

RunRecord == [by : Exporter \cup {User}, force : BOOLEAN, owned : SUBSET Path,
              recorded : FilesOf(Digest), written : FilesOf(Notes), prunable : SUBSET Path,
              hand : {<<>>} \cup (Path \X Version)]

LedgerTypes ==
    /\ disk \in [Path -> {NoFile} \cup UserText \cup Notes]
    /\ manifest \in [by : Exporter \cup {User}, files : FilesOf(Digest)]
    /\ journal \in FilesOf(Notes) /\ run \in RunRecord
    /\ at \in {"idle", "writing", "journalling", "pruning", "clearing"}
    /\ cut \subseteq Path /\ late \subseteq Path
    /\ at # "idle" => run.by \in Exporter
    /\ at = "journalling" => run.hand \in Path \X Version

\* No write of a path is under way or was cut off.
Settled(p) == p \notin cut /\ ~(at = "journalling" /\ p = run.hand[1])

\* A note on disk is in its exporter's scope; the journal's line for it is its digest, and
\* without one the manifest's is, unless it records none.
Known ==
    \A p \in Path : disk[p] \in Notes =>
        /\ p \in InScope[disk[p].by]
        /\ Settled(p) /\ p \in DOMAIN journal => journal[p] = disk[p]
        /\ Settled(p) /\ p \notin DOMAIN journal /\ HasManifest(disk[p].by) =>
              p \in DOMAIN manifest.files /\ manifest.files[p] \in {Unhashed, disk[p]}

\* Between the write of a note and its journal line the operator may have edited it.
Handed ==
    at = "journalling" =>
        /\ disk[run.hand[1]] \in UserText \cup {NoFile, Note(run.by, run.hand[2])}
        /\ run.hand[1] \in InScope[run.by]

\* What a run has written is in the journal.
Noted == at # "idle" =>
    \A p \in DOMAIN run.written : p \in DOMAIN journal /\ journal[p] = run.written[p]

\* A note of the run's exporter was written by it, or is one it owns and will find unedited.
Foreseen == at # "idle" =>
    \A p \in Path : disk[p] \in Notes /\ disk[p].by = run.by /\ Settled(p) =>
        \/ p \in DOMAIN run.written
        \/ at \in {"writing", "journalling"} /\ p \in run.owned /\ StillAsWritten(p)
        \/ at = "pruning" /\ p \in run.prunable

\* What is to be pruned was unedited when that was decided.
Unedited == at = "pruning" => \A p \in run.prunable : p \notin late => StillAsWritten(p)

\* The manifest is the run's until the journal is cleared.
Saved == at = "clearing" => manifest = [by |-> run.by, files |-> run.written]

LedgerInv == LedgerTypes /\ Known /\ Handed /\ Noted /\ Foreseen /\ Unedited /\ Saved

-----------------------------------------------------------------------------
\* Lemmas about files

\* A note is its exporter's and bears its marker; it is not the operator's.
LEMMA NotesAre ==
    /\ \A n \in Notes : n.by \in Exporter /\ n.mark = n.by /\ n # NoFile /\ n \notin UserText
    /\ \A f \in UserText : f.by = User /\ f # NoFile
    /\ NoFile \notin Notes
<1>1. ASSUME NEW n \in Notes PROVE n.by \in Exporter /\ n.mark = n.by /\ n # NoFile
  <2>1. PICK e \in Exporter, v \in Version : n = [by |-> e, version |-> v, mark |-> e]
    BY DEF Notes, Note, File
  <2>2. n # NoFile
    <3> SUFFICES ASSUME n = NoFile PROVE FALSE
      OBVIOUS
    <3>1. DOMAIN n = {"by", "version", "mark"} /\ DOMAIN NoFile = {"by"}
      BY <2>1 DEF NoFile
    <3> QED
      BY <3>1
  <2> QED
    BY <2>1, <2>2
<1>2. ASSUME NEW f \in UserText PROVE f.by = User /\ f # NoFile
  <2>1. PICK m : f = [by |-> User, version |-> 0, mark |-> m]
    BY DEF UserText, File
  <2>2. f # NoFile
    <3> SUFFICES ASSUME f = NoFile PROVE FALSE
      OBVIOUS
    <3>1. DOMAIN f = {"by", "version", "mark"} /\ DOMAIN NoFile = {"by"}
      BY <2>1 DEF NoFile
    <3> QED
      BY <3>1
  <2> QED
    BY <2>1, <2>2
<1> QED
  BY <1>1, <1>2, LedgerAssumption

LEMMA NoteIs ==
    ASSUME NEW e \in Exporter, NEW v \in Version
    PROVE  Note(e, v) \in Notes /\ Note(e, v).by = e
BY DEF Notes, Note, File

\* The tables of paths: empty, with a line put in, restricted.
LEMMA TableIs ==
    ASSUME NEW S, NEW f
    PROVE  f \in FilesOf(S) <=>
               /\ f = [p \in DOMAIN f |-> f[p]] /\ DOMAIN f \subseteq Path
               /\ \A p \in DOMAIN f : f[p] \in S
BY DEF FilesOf

LEMMA NoRecordIs == DOMAIN NoRecord = {} /\ \A S : NoRecord \in FilesOf(S)
<1>1. DOMAIN NoRecord = {} /\ NoRecord = [p \in {} |-> NoRecord[p]]
  BY DEF NoRecord
<1> QED
  BY <1>1, TableIs

LEMMA PutIs ==
    ASSUME NEW f \in FilesOf(Notes), NEW p \in Path, NEW x \in Notes
    PROVE  /\ Put(f, p, x) \in FilesOf(Notes) /\ DOMAIN Put(f, p, x) = DOMAIN f \cup {p}
           /\ Put(f, p, x)[p] = x
           /\ \A q \in DOMAIN f : q # p => Put(f, p, x)[q] = f[q]
<1>1. DOMAIN f \subseteq Path /\ \A q \in DOMAIN f : f[q] \in Notes
  BY TableIs
<1> DEFINE g == Put(f, p, x)
<1>2. /\ DOMAIN g = DOMAIN f \cup {p} /\ g[p] = x /\ g = [q \in DOMAIN g |-> g[q]]
      /\ \A q \in DOMAIN f : q # p => g[q] = f[q]
  BY DEF Put
<1> HIDE DEF g
<1>3. g \in FilesOf(Notes)
  BY <1>1, <1>2, TableIs
<1> QED
  BY <1>2, <1>3 DEF g

\* What an exporter finds recorded: the journal's line, else its own manifest's.
LEMMA RecordedIs ==
    ASSUME LedgerTypes, NEW e \in Exporter
    PROVE  /\ RecordedDigests(e) \in FilesOf(Digest)
           /\ \A p \in InScope[e] :
                /\ p \in DOMAIN journal => p \in DOMAIN RecordedDigests(e) /\ RecordedDigests(e)[p] = journal[p]
                /\ p \notin DOMAIN journal =>
                      /\ p \in DOMAIN RecordedDigests(e) <=> HasManifest(e) /\ p \in DOMAIN manifest.files
                      /\ p \in DOMAIN RecordedDigests(e) => RecordedDigests(e)[p] = manifest.files[p]
<1> DEFINE listed == IF HasManifest(e) THEN manifest.files ELSE NoRecord
           g == RecordedDigests(e)
<1>1. listed \in FilesOf(Digest) /\ (~HasManifest(e) => DOMAIN listed = {})
  BY NoRecordIs DEF LedgerTypes
<1>2. /\ g = [p \in (DOMAIN listed \cup DOMAIN journal) \cap InScope[e] |->
                 IF p \in DOMAIN journal THEN journal[p] ELSE listed[p]]
  BY DEF RecordedDigests, Restrict
<1>3. journal \in FilesOf(Notes)
  BY DEF LedgerTypes
<1> HIDE DEF listed, g
<1>4. /\ DOMAIN g = (DOMAIN listed \cup DOMAIN journal) \cap InScope[e]
      /\ g = [p \in DOMAIN g |-> g[p]]
      /\ \A p \in DOMAIN g : g[p] = IF p \in DOMAIN journal THEN journal[p] ELSE listed[p]
  BY <1>2
<1>5. DOMAIN g \subseteq Path
  BY <1>4, LedgerAssumption
<1>6. \A p \in DOMAIN g : g[p] \in Digest
  BY <1>1, <1>3, <1>4, TableIs DEF Digest
<1>7. g \in FilesOf(Digest)
  BY <1>4, <1>5, <1>6, TableIs
<1>8. HasManifest(e) => listed = manifest.files
  BY DEF listed
<1> QED
  BY <1>1, <1>4, <1>7, <1>8 DEF g

-----------------------------------------------------------------------------
\* Lemmas about the steps of a run

\* A run starts owning each note of its exporter whose write was not cut off.
LEMMA ClaimKnows ==
    ASSUME LedgerInv, NEW e \in Exporter, NEW force \in BOOLEAN, Claim(e, force)
    PROVE  LedgerInv'
<1> USE DEF LedgerInv
<1>1. /\ at = "idle" /\ at' = "writing" /\ late' = {}
      /\ UNCHANGED <<disk, manifest, journal, cut>>
      /\ run' = [by |-> e, force |-> force, owned |-> Owned(e), recorded |-> RecordedDigests(e),
                 written |-> NoRecord, prunable |-> {}, hand |-> <<>>]
  BY DEF Claim, NoRun
<1>2. RecordedDigests(e) \in FilesOf(Digest) /\ DOMAIN RecordedDigests(e) \subseteq Path
  BY RecordedIs, TableIs
<1>3. Adopted(e) \subseteq Path
  BY LedgerAssumption DEF Adopted, Present
<1>4. Owned(e) \subseteq Path
  BY <1>2, <1>3 DEF Owned
<1>5. NoRecord \in FilesOf(Notes) /\ DOMAIN NoRecord = {}
  BY NoRecordIs
<1>6. LedgerTypes'
  BY <1>1, <1>2, <1>4, <1>5 DEF LedgerTypes, RunRecord
<1>7. Known'
  BY <1>1 DEF Known, Settled, HasManifest
<1>8. Noted' /\ Handed' /\ Unedited' /\ Saved'
  BY <1>1, <1>5 DEF Noted, Handed, Unedited, Saved
<1>9. ASSUME NEW p \in Path, disk[p] \in Notes, disk[p].by = e, p \notin cut
      PROVE  p \in Owned(e) /\ StillAsWritten(p)'
  <2>1. /\ p \in InScope[e]
        /\ p \in DOMAIN journal => journal[p] = disk[p]
        /\ p \notin DOMAIN journal /\ HasManifest(e) =>
              p \in DOMAIN manifest.files /\ manifest.files[p] \in {Unhashed, disk[p]}
    BY <1>1, <1>9 DEF Known, Settled
  <2>2. disk[p].mark = e /\ disk[p] # NoFile
    BY <1>9, NotesAre
  <2> DEFINE g == RecordedDigests(e)
  <2>3. /\ p \in DOMAIN journal => p \in DOMAIN g /\ g[p] = journal[p]
        /\ p \notin DOMAIN journal =>
             /\ p \in DOMAIN g <=> HasManifest(e) /\ p \in DOMAIN manifest.files
             /\ p \in DOMAIN g => g[p] = manifest.files[p]
    <3>1. p \in InScope[e] /\ LedgerTypes
      BY <2>1
    <3> QED
      BY <3>1, RecordedIs
  <2>8. /\ p \in DOMAIN g => g[p] \in {Unhashed, disk[p]}
        /\ p \notin DOMAIN g => ~HasManifest(e)
    <3> HIDE DEF g
    <3> QED
      BY <2>1, <2>3
  <2> HIDE DEF g
  <2>4. p \in Owned(e)
    <3>1. CASE p \in DOMAIN g
      BY <3>1 DEF Owned, g
    <3>2. CASE p \notin DOMAIN g
      <4>1. p \in Adopted(e)
        BY <2>1, <2>2, <2>8, <3>2 DEF Adopted, Present
      <4> QED
        BY <4>1 DEF Owned
    <3> QED
      BY <3>1, <3>2
  <2>5. p \in DOMAIN g /\ g[p] # Unhashed => disk[p] = g[p]
    BY <2>8
  <2>6. run'.recorded = g /\ run'.by = e /\ disk' = disk
    BY <1>1 DEF g
  <2>7. StillAsWritten(p)'
    BY <2>2, <2>5, <2>6 DEF StillAsWritten
  <2> QED
    BY <2>4, <2>7
<1>10. Foreseen'
  BY <1>1, <1>9 DEF Foreseen, Settled
<1> QED
  BY <1>6, <1>7, <1>8, <1>10

\* A note is written into the exporter's scope; its journal line is still to come.
LEMMA WriteFileKnows ==
    ASSUME LedgerInv, NEW p \in Path, NEW v \in Version, WriteFile(p, v)
    PROVE  LedgerInv'
<1> USE DEF LedgerInv
<1> DEFINE n == Note(run.by, v)
<1>1. /\ at = "writing" /\ at' = "journalling" /\ p \in InScope[run.by]
      /\ disk' = [disk EXCEPT ![p] = n] /\ run' = [run EXCEPT !.hand = <<p, v>>]
      /\ UNCHANGED <<manifest, journal, cut, late>>
  BY DEF WriteFile
<1>2. run.by \in Exporter /\ run \in RunRecord
  BY <1>1 DEF LedgerTypes
<1>3. n \in Notes /\ n.by = run.by
  BY <1>2, NoteIs
<1> HIDE DEF n
<1>4. /\ run'.by = run.by /\ run'.owned = run.owned /\ run'.recorded = run.recorded
      /\ run'.written = run.written /\ run'.prunable = run.prunable /\ run'.hand = <<p, v>>
      /\ run' \in RunRecord
  BY <1>1, <1>2 DEF RunRecord
<1>5. /\ disk' \in [Path -> {NoFile} \cup UserText \cup Notes] /\ disk'[p] = n
      /\ \A q \in Path : q # p => disk'[q] = disk[q]
  BY <1>1, <1>3 DEF LedgerTypes
<1>6. LedgerTypes'
  BY <1>1, <1>2, <1>4, <1>5 DEF LedgerTypes
<1>7. \A q \in Path : Settled(q)' => Settled(q) /\ q # p
  BY <1>1, <1>4 DEF Settled
<1>8. Known'
  BY <1>1, <1>3, <1>5, <1>7 DEF Known, HasManifest
<1>9. Handed'
  <2>1. run'.hand[1] = p /\ run'.hand[2] = v
    BY <1>4
  <2> QED
    BY <1>1, <1>4, <1>5, <2>1 DEF Handed, n
<1>10. Noted' /\ Unedited' /\ Saved'
  BY <1>1, <1>4 DEF Noted, Unedited, Saved
<1>11. \A q \in Path : q # p /\ StillAsWritten(q) => StillAsWritten(q)'
  BY <1>4, <1>5 DEF StillAsWritten
<1>12. Foreseen'
  BY <1>1, <1>4, <1>5, <1>7, <1>11 DEF Foreseen
<1> QED
  BY <1>6, <1>8, <1>9, <1>10, <1>12

\* The digest of the note just written becomes the journal's line for it.
LEMMA JournalKnows == ASSUME LedgerInv, Journal PROVE LedgerInv'
<1> USE DEF LedgerInv
<1> DEFINE p == run.hand[1]
           n == Note(run.by, run.hand[2])
<1>1. /\ at = "journalling" /\ at' = "writing" /\ cut' = cut \ {p}
      /\ journal' = (IF p \in DOMAIN run.written /\ run.written[p] = n THEN journal
                     ELSE Put(journal, p, n))
      /\ run' = [run EXCEPT !.written = Put(run.written, p, n), !.hand = <<>>]
      /\ UNCHANGED <<disk, manifest, late>>
  BY DEF Journal
<1>2. /\ run.by \in Exporter /\ run \in RunRecord /\ p \in Path /\ run.hand[2] \in Version
      /\ run.written \in FilesOf(Notes) /\ journal \in FilesOf(Notes)
  BY <1>1 DEF LedgerTypes, RunRecord
<1>3. n \in Notes /\ n.by = run.by
  BY <1>2, NoteIs
<1>4. Handed => disk[p] \in UserText \cup {NoFile, n} /\ p \in InScope[run.by]
  BY <1>1 DEF Handed
<1>5. Settled(p) <=> FALSE
  BY <1>1 DEF Settled
<1>6. \A q \in Path : q # p => (Settled(q)' <=> Settled(q))
  BY <1>1 DEF Settled
<1> HIDE DEF p, n
<1>7. /\ Put(run.written, p, n) \in FilesOf(Notes)
      /\ DOMAIN Put(run.written, p, n) = DOMAIN run.written \cup {p}
      /\ Put(run.written, p, n)[p] = n
      /\ \A q \in DOMAIN run.written : q # p => Put(run.written, p, n)[q] = run.written[q]
  BY <1>2, <1>3, PutIs
<1>8. /\ run'.by = run.by /\ run'.owned = run.owned /\ run'.recorded = run.recorded
      /\ run'.written = Put(run.written, p, n) /\ run'.prunable = run.prunable
      /\ run' \in RunRecord
  BY <1>1, <1>2, <1>7 DEF RunRecord
<1>9. /\ journal' \in FilesOf(Notes) /\ DOMAIN journal' = DOMAIN journal \cup {p}
      /\ journal'[p] = n /\ \A q \in DOMAIN journal : q # p => journal'[q] = journal[q]
  <2>1. CASE p \in DOMAIN run.written /\ run.written[p] = n
    <3>1. p \in DOMAIN journal /\ journal[p] = n
      BY <1>1, <2>1 DEF Noted
    <3> QED
      BY <1>1, <1>2, <2>1, <3>1
  <2>2. CASE ~(p \in DOMAIN run.written /\ run.written[p] = n)
    <3>1. journal' = Put(journal, p, n)
      BY <1>1, <2>2
    <3> QED
      BY <1>2, <1>3, <3>1, PutIs
  <2> QED
    BY <2>1, <2>2
<1>10. LedgerTypes'
  BY <1>1, <1>2, <1>8, <1>9 DEF LedgerTypes
<1>11. disk[p] \in Notes => disk[p] = n /\ p \in InScope[run.by]
  BY <1>4, NotesAre
<1>12. Known'
  BY <1>1, <1>3, <1>6, <1>9, <1>11 DEF Known, HasManifest
<1>13. Handed' /\ Unedited' /\ Saved'
  BY <1>1 DEF Handed, Unedited, Saved
<1>14. Noted'
  BY <1>1, <1>7, <1>8, <1>9 DEF Noted
<1>15. \A q \in Path : StillAsWritten(q) => StillAsWritten(q)'
  BY <1>1, <1>8 DEF StillAsWritten
<1>16. Foreseen'
  BY <1>1, <1>6, <1>7, <1>8, <1>15 DEF Foreseen
<1> QED
  BY <1>10, <1>12, <1>13, <1>14, <1>16

\* What the run owns and finds unedited is to be pruned, unless it was written.
LEMMA FinishKnows == ASSUME LedgerInv, Finish PROVE LedgerInv'
<1> USE DEF LedgerInv
<1> DEFINE gone == {p \in run.owned \ DOMAIN run.written : StillAsWritten(p)}
<1>1. /\ at = "writing" /\ at' = "pruning" /\ late' = {}
      /\ run' = [run EXCEPT !.prunable = gone] /\ UNCHANGED <<disk, manifest, journal, cut>>
  BY DEF Finish
<1>2. run \in RunRecord /\ gone \subseteq Path
  BY DEF LedgerTypes, RunRecord
<1>3. \A p \in gone : StillAsWritten(p)
  OBVIOUS
<1>4. \A p \in Path : p \in gone <=> p \in run.owned /\ p \notin DOMAIN run.written /\ StillAsWritten(p)
  OBVIOUS
<1> HIDE DEF gone
<1>5. /\ run'.by = run.by /\ run'.owned = run.owned /\ run'.recorded = run.recorded
      /\ run'.written = run.written /\ run'.prunable = gone /\ run' \in RunRecord
  BY <1>1, <1>2 DEF RunRecord
<1>6. LedgerTypes'
  BY <1>1, <1>5 DEF LedgerTypes
<1>7. \A p \in Path : (Settled(p)' <=> Settled(p)) /\ (StillAsWritten(p)' <=> StillAsWritten(p))
  BY <1>1, <1>5 DEF Settled, StillAsWritten
<1>8. Known'
  BY <1>1, <1>7 DEF Known, HasManifest
<1>9. Handed' /\ Noted' /\ Saved'
  BY <1>1, <1>5 DEF Handed, Noted, Saved
<1>10. Unedited'
  BY <1>1, <1>2, <1>3, <1>5, <1>7 DEF Unedited
<1>11. Foreseen'
  BY <1>1, <1>4, <1>5, <1>7 DEF Foreseen
<1> QED
  BY <1>6, <1>8, <1>9, <1>10, <1>11

\* A file goes; the others are as they were.
LEMMA PruneKnows == ASSUME LedgerInv, NEW p \in Path, Prune(p) PROVE LedgerInv'
<1> USE DEF LedgerInv
<1>1. /\ at = "pruning" /\ at' = at /\ p \in run.prunable /\ cut' = cut \ {p}
      /\ disk' = [disk EXCEPT ![p] = NoFile] /\ run' = [run EXCEPT !.prunable = @ \ {p}]
      /\ UNCHANGED <<manifest, journal, late>>
  BY DEF Prune
<1>2. run \in RunRecord
  BY DEF LedgerTypes
<1>3. /\ run'.by = run.by /\ run'.owned = run.owned /\ run'.recorded = run.recorded
      /\ run'.written = run.written /\ run'.prunable = run.prunable \ {p} /\ run' \in RunRecord
  BY <1>1, <1>2 DEF RunRecord
<1>4. /\ disk' \in [Path -> {NoFile} \cup UserText \cup Notes] /\ disk'[p] = NoFile
      /\ \A q \in Path : q # p => disk'[q] = disk[q]
  BY <1>1 DEF LedgerTypes
<1>5. LedgerTypes'
  BY <1>1, <1>3, <1>4 DEF LedgerTypes
<1>6. \A q \in Path : q # p =>
          (Settled(q)' <=> Settled(q)) /\ (StillAsWritten(q)' <=> StillAsWritten(q))
  BY <1>1, <1>3, <1>4 DEF Settled, StillAsWritten
<1>7. disk'[p] \notin Notes
  BY <1>4, NotesAre
<1>8. Known'
  BY <1>1, <1>4, <1>6, <1>7 DEF Known, HasManifest
<1>9. Handed' /\ Noted' /\ Saved'
  BY <1>1, <1>3 DEF Handed, Noted, Saved
<1>10. Unedited'
  BY <1>1, <1>2, <1>3, <1>6 DEF Unedited, RunRecord
<1>11. Foreseen'
  BY <1>1, <1>3, <1>4, <1>6, <1>7 DEF Foreseen
<1> QED
  BY <1>5, <1>8, <1>9, <1>10, <1>11

\* Nothing is left to prune: every note of the exporter is one this run wrote.
LEMMA SaveManifestKnows == ASSUME LedgerInv, SaveManifest PROVE LedgerInv'
<1> USE DEF LedgerInv
<1>1. /\ at = "pruning" /\ run.prunable = {} /\ at' = "clearing"
      /\ manifest' = [by |-> run.by, files |-> run.written]
      /\ UNCHANGED <<disk, journal, run, cut, late>>
  BY DEF SaveManifest
<1>2. run.written \in FilesOf(Digest) /\ run.by \in Exporter
  <2>1. run.written \in FilesOf(Notes) /\ run.by \in Exporter
    BY <1>1 DEF LedgerTypes, RunRecord
  <2> QED
    BY <2>1, TableIs DEF Digest
<1>3. LedgerTypes'
  BY <1>1, <1>2 DEF LedgerTypes
<1>4. \A p \in Path : Settled(p)' <=> Settled(p)
  BY <1>1 DEF Settled
<1>5. Foreseen'
  BY <1>1, <1>4 DEF Foreseen
<1>6. Noted' /\ Handed' /\ Unedited' /\ Saved'
  BY <1>1 DEF Noted, Handed, Unedited, Saved
<1>7. ASSUME NEW p \in Path, disk[p] \in Notes, Settled(p), disk[p].by = run.by
      PROVE  p \in DOMAIN journal
  <2>1. p \in DOMAIN run.written
    BY <1>1, <1>7 DEF Foreseen
  <2> QED
    BY <1>1, <2>1 DEF Noted
<1>8. Known'
  BY <1>1, <1>4, <1>7 DEF Known, HasManifest
<1> QED
  BY <1>3, <1>5, <1>6, <1>8

\* The manifest has every line of the run's that the journal had.
LEMMA ClearJournalKnows == ASSUME LedgerInv, ClearJournal PROVE LedgerInv'
<1> USE DEF LedgerInv
<1>1. /\ at = "clearing" /\ at' = "idle" /\ journal' = NoRecord /\ run' = NoRun
      /\ UNCHANGED <<disk, manifest, cut, late>>
  BY DEF ClearJournal
<1>2. /\ DOMAIN NoRecord = {} /\ NoRecord \in FilesOf(Notes) /\ NoRecord \in FilesOf(Digest)
  BY NoRecordIs
<1>3. NoRun \in RunRecord
  BY <1>2 DEF NoRun, RunRecord
<1>4. LedgerTypes'
  BY <1>1, <1>2, <1>3 DEF LedgerTypes
<1>5. \A p \in Path : Settled(p)' <=> Settled(p)
  BY <1>1 DEF Settled
<1>6. ASSUME NEW p \in Path, disk[p] \in Notes, Settled(p), HasManifest(disk[p].by)
      PROVE  p \in DOMAIN manifest.files /\ manifest.files[p] = disk[p]
  <2>1. manifest.by = run.by /\ manifest.files = run.written
    BY <1>1 DEF Saved
  <2>2. p \in DOMAIN run.written
    BY <1>1, <1>6, <2>1 DEF Foreseen, HasManifest
  <2>3. p \in DOMAIN journal /\ journal[p] = run.written[p]
    BY <1>1, <2>2 DEF Noted
  <2>4. journal[p] = disk[p]
    BY <1>6, <2>3 DEF Known
  <2> QED
    BY <2>1, <2>2, <2>3, <2>4
<1>7. Known'
  BY <1>1, <1>2, <1>5, <1>6 DEF Known, HasManifest
<1>8. Noted' /\ Handed' /\ Unedited' /\ Saved' /\ Foreseen'
  BY <1>1 DEF Noted, Handed, Unedited, Saved, Foreseen
<1> QED
  BY <1>4, <1>7, <1>8

\* A kill leaves manifest and journal; the note whose line it cut is remembered as cut.
LEMMA CrashKnows == ASSUME LedgerInv, Crash PROVE LedgerInv'
<1> USE DEF LedgerInv
<1>1. /\ at' = "idle" /\ run' = NoRun /\ UNCHANGED <<disk, manifest, journal, late>>
      /\ cut' = (IF at = "journalling" THEN cut \cup {run.hand[1]} ELSE cut)
  BY DEF Crash
<1>2. NoRun \in RunRecord
  BY NoRecordIs DEF NoRun, RunRecord
<1>3. at = "journalling" => run.hand[1] \in Path
  BY DEF LedgerTypes
<1>4. LedgerTypes'
  BY <1>1, <1>2, <1>3 DEF LedgerTypes
<1>5. \A p \in Path : Settled(p)' <=> Settled(p)
  BY <1>1 DEF Settled
<1>6. Known'
  BY <1>1, <1>5 DEF Known, HasManifest
<1>7. Noted' /\ Handed' /\ Unedited' /\ Saved' /\ Foreseen'
  BY <1>1 DEF Noted, Handed, Unedited, Saved, Foreseen
<1> QED
  BY <1>4, <1>6, <1>7

\* The operator's edit leaves no note at the path.
LEMMA EditKnows ==
    ASSUME LedgerInv, NEW p \in Path, NEW file \in UserText \cup {NoFile}, Edit(p, file)
    PROVE  LedgerInv'
<1> USE DEF LedgerInv
<1>1. /\ disk' = [disk EXCEPT ![p] = file] /\ late' = late \cup {p} /\ cut' = cut \ {p}
      /\ UNCHANGED <<manifest, journal, at, run>>
  BY DEF Edit
<1>2. /\ disk' \in [Path -> {NoFile} \cup UserText \cup Notes] /\ disk'[p] = file
      /\ \A q \in Path : q # p => disk'[q] = disk[q]
  BY <1>1 DEF LedgerTypes
<1>3. file \notin Notes
  BY NotesAre
<1>4. LedgerTypes'
  BY <1>1, <1>2 DEF LedgerTypes
<1>5. \A q \in Path : q # p =>
          (Settled(q)' <=> Settled(q)) /\ (StillAsWritten(q)' <=> StillAsWritten(q))
  BY <1>1, <1>2 DEF Settled, StillAsWritten
<1>6. Known'
  BY <1>1, <1>2, <1>3, <1>5 DEF Known, HasManifest
<1>7. Handed'
  <2>1. at = "journalling" => run.hand[1] \in Path
    BY DEF LedgerTypes
  <2> QED
    BY <1>1, <1>2, <2>1 DEF Handed
<1>8. Noted' /\ Saved'
  BY <1>1 DEF Noted, Saved
<1>9. Unedited'
  BY <1>1, <1>5 DEF Unedited, LedgerTypes, RunRecord
<1>10. Foreseen'
  BY <1>1, <1>2, <1>3, <1>5 DEF Foreseen
<1> QED
  BY <1>4, <1>6, <1>7, <1>8, <1>9, <1>10

-----------------------------------------------------------------------------
\* What an export knows and keeps

\* An export starts from files it recorded without digests, or not at all.
LEMMA LedgerStarts == ASSUME LedgerInit PROVE LedgerInv
<1>1. /\ cut = {} /\ late = {} /\ at = "idle" /\ run = NoRun /\ journal = NoRecord
  BY DEF LedgerInit
<1>2. PICK e \in Exporter, exported \in SUBSET Path :
          /\ disk \in [Path -> {NoFile} \cup UserText \cup {Note(e, v) : v \in Version}]
          /\ exported = {p \in Path : disk[p] # NoFile /\ disk[p].by = e}
          /\ exported \subseteq InScope[e]
          /\ manifest \in {[by |-> User, files |-> NoRecord],
                           [by |-> e, files |-> [p \in exported |-> Unhashed]]}
  BY DEF LedgerInit
<1>3. {Note(e, v) : v \in Version} \subseteq Notes
  BY DEF Notes
<1>4. DOMAIN NoRecord = {} /\ NoRecord \in FilesOf(Notes) /\ NoRecord \in FilesOf(Digest)
  BY NoRecordIs
<1>5. [p \in exported |-> Unhashed] \in FilesOf(Digest)
  BY <1>2, TableIs DEF Digest
<1>6. manifest \in [by : Exporter \cup {User}, files : FilesOf(Digest)]
  BY <1>2, <1>4, <1>5
<1>7. NoRun \in RunRecord
  BY <1>4 DEF NoRun, RunRecord
<1>8. LedgerTypes
  <2>1. disk \in [Path -> {NoFile} \cup UserText \cup Notes]
    BY <1>2, <1>3
  <2> QED
    BY <1>1, <1>4, <1>6, <1>7, <2>1 DEF LedgerTypes
<1>9. ASSUME NEW p \in Path, disk[p] \in Notes
      PROVE  /\ p \in exported /\ disk[p].by = e
             /\ HasManifest(e) => p \in DOMAIN manifest.files /\ manifest.files[p] = Unhashed
  <2>1. disk[p] \in {Note(e, v) : v \in Version}
    BY <1>2, <1>9, NotesAre
  <2>2. disk[p].by = e /\ disk[p] # NoFile
    BY <1>9, <2>1, NotesAre DEF Note, File
  <2>3. p \in exported
    BY <1>2, <2>2
  <2> QED
    BY <1>2, <2>2, <2>3, LedgerAssumption DEF HasManifest
<1>10. Known
  BY <1>1, <1>2, <1>4, <1>9 DEF Known
<1> QED
  BY <1>1, <1>8, <1>10 DEF LedgerInv, Handed, Noted, Foreseen, Unedited, Saved

\* Every step of a run, of a kill and of the operator keeps what the ledger knows.
LEMMA LedgerKnows == ASSUME LedgerInv, [LedgerNext]_ledger PROVE LedgerInv'
<1>1. CASE UNCHANGED ledger
  BY <1>1 DEF ledger, LedgerInv, LedgerTypes, Known, Settled, HasManifest, Handed, Noted,
              Foreseen, StillAsWritten, Unedited, Saved
<1>2. CASE \E e \in Exporter, force \in BOOLEAN : Claim(e, force)
  BY <1>2, ClaimKnows
<1>3. CASE \E p \in Path, v \in Version : WriteFile(p, v)
  BY <1>3, WriteFileKnows
<1>4. CASE \E p \in Path : Prune(p)
  BY <1>4, PruneKnows
<1>5. CASE \E p \in Path, file \in UserText \cup {NoFile} : Edit(p, file)
  BY <1>5, EditKnows
<1>6. CASE Journal \/ Finish \/ SaveManifest \/ ClearJournal \/ Crash
  BY <1>6, JournalKnows, FinishKnows, SaveManifestKnows, ClearJournalKnows, CrashKnows
<1> QED
  BY <1>1, <1>2, <1>3, <1>4, <1>5, <1>6 DEF LedgerNext

\* The digests of the manifest and the journal are those on disk, but for the writes a kill
\* cut off, and a run accounts for every note of its exporter
\* (MarkdownExportLedger.claim, write, finish).
THEOREM LedgerIsInvariant == LedgerSpec => []LedgerInv
<1>1. LedgerInit => LedgerInv
  BY LedgerStarts
<1>2. LedgerInv /\ [LedgerNext]_ledger => LedgerInv'
  BY LedgerKnows
<1> QED
  BY <1>1, <1>2, PTL DEF LedgerSpec

\* An export that was killed at any step still owns what it wrote, but for the one note whose
\* journal line the kill cut; and no export deletes a text of the operator's, but a file
\* that bears its marker and no digest was ever recorded for.
THEOREM ExportsKnowTheirOwn == LedgerSpec => ExportKnowsItsOwn
<1>1. ASSUME LedgerInv PROVE InterruptedIsOwned
  <2> SUFFICES ASSUME at = "idle", NEW e \in Exporter, NEW p \in Path,
                      disk[p] # NoFile, disk[p].by = e, p \notin cut
               PROVE  p \in Owned(e)
    BY DEF InterruptedIsOwned
  <2>1. disk[p] \in Notes
    BY <1>1, NotesAre, LedgerAssumption DEF LedgerInv, LedgerTypes
  <2>2. /\ p \in InScope[e]
        /\ p \notin DOMAIN journal /\ HasManifest(e) => p \in DOMAIN manifest.files
    BY <1>1, <2>1 DEF LedgerInv, Known, Settled
  <2>3. disk[p].mark = e
    BY <2>1, NotesAre
  <2> DEFINE g == RecordedDigests(e)
  <2>4. /\ p \in DOMAIN journal => p \in DOMAIN g
        /\ p \notin DOMAIN journal => (p \in DOMAIN g <=> HasManifest(e) /\ p \in DOMAIN manifest.files)
    <3>1. LedgerTypes
      BY <1>1 DEF LedgerInv
    <3> QED
      BY <2>2, <3>1, RecordedIs
  <2> HIDE DEF g
  <2>5. CASE p \in DOMAIN g
    BY <2>5 DEF Owned, g
  <2>6. CASE p \notin DOMAIN g
    <3>1. p \in Adopted(e)
      BY <2>2, <2>3, <2>4, <2>6 DEF Adopted, Present
    <3> QED
      BY <3>1 DEF Owned
  <2> QED
    BY <2>5, <2>6
<1>2. ASSUME LedgerInv, LedgerNext, NEW p \in Path,
             Pruned(p), p \notin late, disk[p].by = User
      PROVE  disk[p].mark = run.by /\ (p \in DOMAIN run.recorded => run.recorded[p] = Unhashed)
  <2>1. at = "pruning" /\ run'.prunable # run.prunable /\ disk'[p] # disk[p]
    BY <1>2 DEF Pruned
  <2>2. run \in RunRecord /\ run.by \in Exporter
    BY <1>2, <2>1 DEF LedgerInv, LedgerTypes
  <2>3. \E q \in Path : Prune(q)
    BY <1>2, <2>1 DEF LedgerNext, Claim, WriteFile, Journal, Finish, SaveManifest,
                      ClearJournal, Crash, Edit
  <2>4. p \in run.prunable
    <3>1. PICK q \in Path : Prune(q)
      BY <2>3
    <3>2. disk' = [disk EXCEPT ![q] = NoFile] /\ q \in run.prunable
      BY <3>1 DEF Prune
    <3> QED
      BY <2>1, <3>2, <1>2 DEF LedgerInv, LedgerTypes
  <2>5. StillAsWritten(p)
    BY <1>2, <2>1, <2>4 DEF LedgerInv, Unedited
  <2>6. CASE p \in DOMAIN run.recorded /\ run.recorded[p] # Unhashed
    <3>1. run.recorded \in FilesOf(Digest)
      BY <2>2 DEF RunRecord
    <3>2. run.recorded[p] \in Digest
      BY <2>6, <3>1, TableIs
    <3>3. disk[p] \in Notes
      BY <2>5, <2>6, <3>2 DEF StillAsWritten, Digest
    <3> QED
      BY <1>2, <3>3, NotesAre, LedgerAssumption
  <2>7. CASE ~(p \in DOMAIN run.recorded /\ run.recorded[p] # Unhashed)
    BY <2>5, <2>7 DEF StillAsWritten
  <2> QED
    BY <2>6, <2>7
<1>3. LedgerInv /\ [LedgerNext]_ledger =>
          [\A p \in Path : Pruned(p) /\ p \notin late /\ disk[p].by = User =>
              disk[p].mark = run.by /\ (p \in DOMAIN run.recorded => run.recorded[p] = Unhashed)]_ledger
  BY <1>2
<1>4. LedgerSpec => []InterruptedIsOwned
  BY <1>1, LedgerIsInvariant, PTL
<1>5. LedgerSpec => OperatorTextKept
  BY <1>3, LedgerIsInvariant, PTL DEF OperatorTextKept, LedgerSpec
<1> QED
  BY <1>4, <1>5 DEF ExportKnowsItsOwn

-----------------------------------------------------------------------------
\* The reviewed vocabularies

\* The rulings among s about a name and a target, and the last of them.
Said(s, name, x) == {i \in DOMAIN s : s[i].name = name /\ s[i].target = x}
Latest(s, name, x) == s[Max(Said(s, name, x))]

IsLog(s) ==
    /\ \E S : s \in Seq(S)
    /\ \A name, x : Said(s, name, x) # {} =>
          \E i \in Said(s, name, x) : \A j \in Said(s, name, x) : i >= j

IsTerm(t) == t = [name |-> t.name, form |-> t.form, aliases |-> t.aliases,
                  alignments |-> t.alignments, profile |-> t.profile]

\* A term is aligned with the targets it was ruled to be, as ruled last, and its profile is
\* the last one ruled.
FollowsRulings(t, s) ==
    /\ \A b \in t.alignments :
          /\ b.target \in Target /\ Said(s, t.name, b.target) # {}
          /\ b.match = Latest(s, t.name, b.target).match
          /\ KindFromSource(b.constraints) = Latest(s, t.name, b.target).kind
    /\ \A x \in Target : Said(s, t.name, x) # {} => \E b \in t.alignments : b.target = x
    /\ t.profile.kind = IF Said(s, t.name, "profile") # {}
                        THEN Latest(s, t.name, "profile").kind ELSE Unstated

DocumentInv(terms, s) ==
    /\ Valid(terms) /\ IsLog(s)
    /\ \A t \in terms : IsTerm(t) /\ FollowsRulings(t, s)
    /\ \A i \in DOMAIN s : \E t \in terms : t.name = s[i].name

VocabularyInv ==
    /\ doc = [d \in Document |-> doc[d]] /\ rulings = [d \in Document |-> rulings[d]]
    /\ \A d \in Document : DocumentInv(doc[d], rulings[d])

\* One more ruling is the latest about its name and target, and only about them.
LEMMA AppendSays ==
    ASSUME NEW s, IsLog(s), NEW r
    PROVE  LET z == Append(s, r) IN
           /\ IsLog(z) /\ Said(z, r.name, r.target) # {} /\ Latest(z, r.name, r.target) = r
           /\ \A name, x : name # r.name \/ x # r.target =>
                 /\ Said(z, name, x) = Said(s, name, x)
                 /\ Said(s, name, x) # {} => Latest(z, name, x) = Latest(s, name, x)
           /\ \A i \in DOMAIN z : z[i] = r \/ \E j \in DOMAIN s : z[i] = s[j]
<1> DEFINE z == Append(s, r)
           n == Len(s)
<1>1. PICK S : s \in Seq(S)
  BY DEF IsLog
<1>2. s \in Seq(S \cup {r})
  BY <1>1, SeqMonotonic
<1>3. /\ z \in Seq(S \cup {r}) /\ Len(z) = n + 1
      /\ \A i \in 1..n : z[i] = s[i]
      /\ z[n + 1] = r
  BY <1>2, AppendProperties
<1>4. n \in Nat /\ DOMAIN s = 1..n /\ DOMAIN z = 1..(n + 1)
  BY <1>1, <1>3
<1> HIDE DEF z, n
<1>5. ASSUME NEW name, NEW x, name # r.name \/ x # r.target
      PROVE  Said(z, name, x) = Said(s, name, x)
  BY <1>3, <1>4, <1>5 DEF Said
<1>6. /\ n + 1 \in Said(z, r.name, r.target)
      /\ \A j \in Said(z, r.name, r.target) : n + 1 >= j
      /\ Said(z, r.name, r.target) \subseteq Int
  BY <1>3, <1>4 DEF Said
<1>7. Max(Said(z, r.name, r.target)) = n + 1
  BY <1>4, <1>6 DEF Max
<1>8. ASSUME NEW name, NEW x, Said(s, name, x) # {}
      PROVE  Max(Said(s, name, x)) \in 1..n
  <2>1. \E i \in Said(s, name, x) : \A j \in Said(s, name, x) : i >= j
    BY <1>8 DEF IsLog
  <2>2. Said(s, name, x) \subseteq 1..n
    BY <1>4 DEF Said
  <2> QED
    BY <2>1, <2>2 DEF Max
<1>9. ASSUME NEW name, NEW x, name # r.name \/ x # r.target, Said(s, name, x) # {}
      PROVE  Latest(z, name, x) = Latest(s, name, x)
  BY <1>3, <1>5, <1>8, <1>9 DEF Latest
<1>10. Latest(z, r.name, r.target) = r
  BY <1>3, <1>7 DEF Latest
<1>11. IsLog(z)
  <2>1. ASSUME NEW name, NEW x, Said(z, name, x) # {}
        PROVE  \E i \in Said(z, name, x) : \A j \in Said(z, name, x) : i >= j
    <3>1. CASE name = r.name /\ x = r.target
      BY <1>6, <3>1
    <3>2. CASE name # r.name \/ x # r.target
      <4>1. Said(z, name, x) = Said(s, name, x)
        BY <1>5, <3>2
      <4> QED
        BY <2>1, <4>1 DEF IsLog
    <3> QED
      BY <3>1, <3>2
  <2> QED
    BY <1>3, <2>1 DEF IsLog
<1>12. \A i \in DOMAIN z : z[i] = r \/ \E j \in DOMAIN s : z[i] = s[j]
  BY <1>3, <1>4
<1> QED
  BY <1>5, <1>6, <1>9, <1>10, <1>11, <1>12 DEF z

\* A log of rulings z goes on where s left, with rulings about one name.
GoesOn(s, z, own) ==
    /\ IsLog(z)
    /\ \A name, x : name # own =>
          /\ Said(z, name, x) = Said(s, name, x)
          /\ Said(s, name, x) # {} => Latest(z, name, x) = Latest(s, name, x)
    /\ \A i \in DOMAIN z : z[i].name = own \/ \E j \in DOMAIN s : z[i] = s[j]

\* A revision replaces a term by one of the same name, or adds a term just minted; as the
\* revised document is valid, the name is no other term's, and no ruling was about it.
Replaces(terms, old, new) ==
    /\ Valid((terms \ {old}) \cup {new}) /\ IsTerm(new)
    /\ new.name = old.name /\ new.form = old.form /\ old.aliases \subseteq new.aliases
    /\ old \in terms \/ (old.alignments = {} /\ old.profile = NoProfile /\ new \notin terms)

LEMMA RevisionFollows ==
    ASSUME NEW terms, NEW s, NEW z, NEW old, NEW new,
           DocumentInv(terms, s), Replaces(terms, old, new), GoesOn(s, z, old.name),
           FollowsRulings(old, s) => FollowsRulings(new, z)
    PROVE  DocumentInv((terms \ {old}) \cup {new}, z)
<1> DEFINE revised == (terms \ {old}) \cup {new}
<1>1. /\ Valid(revised) /\ IsTerm(new) /\ new.name = old.name
      /\ old \in terms \/ (old.alignments = {} /\ old.profile = NoProfile /\ new \notin terms)
  BY DEF Replaces
<1>2. \A t \in revised : t # new => t.name # new.name
  BY <1>1 DEF Valid
<1>3. ASSUME NEW t \in terms, t # old, t # new PROVE IsTerm(t) /\ FollowsRulings(t, z)
  <2>1. t.name # old.name
    BY <1>1, <1>2, <1>3
  <2>2. IsTerm(t) /\ FollowsRulings(t, s)
    BY DEF DocumentInv
  <2>3. \A x : /\ Said(z, t.name, x) = Said(s, t.name, x)
               /\ Said(s, t.name, x) # {} => Latest(z, t.name, x) = Latest(s, t.name, x)
    BY <2>1 DEF GoesOn
  <2> QED
    BY <2>2, <2>3 DEF FollowsRulings
<1>4. FollowsRulings(old, s)
  <2>1. CASE old \in terms
    BY <2>1 DEF DocumentInv
  <2>2. CASE old \notin terms
    <3>1. old.alignments = {} /\ old.profile.kind = Unstated
      BY <1>1, <2>2 DEF NoProfile
    <3>2. \A t \in terms : t.name # old.name
      BY <1>1, <1>2, <2>2
    <3>3. \A i \in DOMAIN s : s[i].name # old.name
      BY <3>2 DEF DocumentInv
    <3>4. \A x : Said(s, old.name, x) = {}
      BY <3>3 DEF Said
    <3> QED
      BY <3>1, <3>4 DEF FollowsRulings
  <2> QED
    BY <2>1, <2>2
<1>5. \A t \in revised : IsTerm(t) /\ FollowsRulings(t, z)
  BY <1>1, <1>3, <1>4
<1>6. ASSUME NEW i \in DOMAIN z PROVE \E t \in revised : t.name = z[i].name
  <2>1. CASE z[i].name = old.name
    BY <1>1, <2>1
  <2>2. CASE z[i].name # old.name
    <3>1. PICK j \in DOMAIN s : z[i] = s[j]
      BY <2>2 DEF GoesOn
    <3>2. PICK t \in terms : t.name = s[j].name
      BY DEF DocumentInv
    <3> QED
      BY <2>2, <3>1, <3>2
  <2> QED
    BY <2>1, <2>2
<1>7. IsLog(z)
  BY DEF GoesOn
<1> HIDE DEF revised
<1>8. DocumentInv(revised, z)
  BY <1>1, <1>5, <1>6, <1>7 DEF DocumentInv
<1> QED
  BY <1>8 DEF revised

\* The term a ruling is about is in the document, or is minted without anything ruled of it;
\* whatever is then said of its kind, a term of its form is not in the document.
LEMMA EnsuredIs ==
    ASSUME NEW terms, \A t \in terms : IsTerm(t), NEW f
    PROVE  LET t == Ensured(terms, f) IN
           /\ IsTerm(t)
           /\ \/ t \in terms
              \/ /\ t.alignments = {} /\ t.profile = NoProfile
                 /\ \A u \in terms : u.form # t.form
<1>1. CASE Covers(terms, f)
  <2>1. FindTerm(terms, f) \in terms
    BY <1>1 DEF Covers, FindTerm, Covering
  <2> QED
    BY <1>1, <2>1 DEF Ensured
<1>2. CASE ~Covers(terms, f)
  <2>1. \A u \in terms : u.form # f
    BY <1>2 DEF Covers, Covering, Forms
  <2>2. Ensured(terms, f) = Mint(terms, f)
    BY <1>2 DEF Ensured
  <2>3. IsTerm(Mint(terms, f)) /\ Mint(terms, f).form = f
        /\ Mint(terms, f).alignments = {} /\ Mint(terms, f).profile = NoProfile
    BY DEF Mint, IsTerm
  <2> QED
    BY <2>1, <2>2, <2>3
<1> QED
  BY <1>1, <1>2

\* What MintedIsForever says of a step.
MintedIsKept ==
    \A d \in Document : \A t \in doc[d] : \E u \in doc'[d] :
        u.name = t.name /\ u.form = t.form /\ t.aliases \subseteq u.aliases

\* A revision of one document keeps the invariant and what was minted.
LEMMA ReviseFollows ==
    ASSUME VocabularyInv, NEW d \in Document, NEW old, NEW new, NEW z,
           Revise(d, old, new), rulings' = [rulings EXCEPT ![d] = z],
           Replaces(doc[d], old, new), GoesOn(rulings[d], z, old.name),
           FollowsRulings(old, rulings[d]) => FollowsRulings(new, z)
    PROVE  VocabularyInv' /\ MintedIsKept
<1> DEFINE revised == (doc[d] \ {old}) \cup {new}
<1>1. doc' = [doc EXCEPT ![d] = revised]
  BY DEF Revise
<1>2. DocumentInv(doc[d], rulings[d])
  BY DEF VocabularyInv
<1>3. DocumentInv(revised, z)
  BY <1>2, RevisionFollows
<1>4. new.name = old.name /\ new.form = old.form /\ old.aliases \subseteq new.aliases
  BY DEF Replaces
<1>5. \A t \in doc[d] : t = old \/ t \in revised
  OBVIOUS
<1>6. new \in revised
  OBVIOUS
<1> HIDE DEF revised
<1>7. doc = [e \in Document |-> doc[e]] /\ rulings = [e \in Document |-> rulings[e]]
  BY DEF VocabularyInv
<1>8. /\ doc' = [e \in Document |-> doc'[e]] /\ rulings' = [e \in Document |-> rulings'[e]]
      /\ doc'[d] = revised /\ rulings'[d] = z
      /\ \A e \in Document : e # d => doc'[e] = doc[e] /\ rulings'[e] = rulings[e]
  BY <1>1, <1>7
<1>9. VocabularyInv'
  <2>1. \A e \in Document : DocumentInv(doc'[e], rulings'[e])
    BY <1>3, <1>8 DEF VocabularyInv
  <2> QED
    BY <1>8, <2>1 DEF VocabularyInv
<1>10. MintedIsKept
  <2>1. ASSUME NEW e \in Document, NEW t \in doc[e]
        PROVE  \E u \in doc'[e] : u.name = t.name /\ u.form = t.form /\ t.aliases \subseteq u.aliases
    <3>1. CASE e = d
      BY <1>4, <1>5, <1>6, <1>8, <3>1
    <3>2. CASE e # d
      BY <1>8, <3>2
    <3> QED
      BY <3>1, <3>2
  <2> QED
    BY <2>1 DEF MintedIsKept
<1> QED
  BY <1>9, <1>10

\* add_alias: nothing is ruled about kinds.
LEMMA AddAliasFollows ==
    ASSUME VocabularyInv, NEW d \in Document, NEW f, NEW aliases,
           AddAlias(d, f, aliases), rulings' = rulings
    PROVE  VocabularyInv' /\ MintedIsKept
<1> DEFINE t == Ensured(doc[d], f)
           new == WithAliases(t, aliases)
<1>1. DocumentInv(doc[d], rulings[d])
  BY DEF VocabularyInv
<1>2. \A u \in doc[d] : IsTerm(u)
  BY <1>1 DEF DocumentInv
<1>3. /\ IsTerm(t)
      /\ \/ t \in doc[d]
         \/ t.alignments = {} /\ t.profile = NoProfile /\ \A u \in doc[d] : u.form # t.form
  BY <1>2, EnsuredIs
<1>4. Revise(d, t, new)
  BY DEF AddAlias
<1>5. new = [t EXCEPT !.aliases = t.aliases \cup (aliases \ {t.form})]
  BY DEF WithAliases
<1> HIDE DEF t, new
<1>6. /\ IsTerm(new) /\ new.name = t.name /\ new.form = t.form
      /\ t.aliases \subseteq new.aliases
      /\ new.alignments = t.alignments /\ new.profile = t.profile
  BY <1>3, <1>5 DEF IsTerm
<1>7. Valid((doc[d] \ {t}) \cup {new})
  BY <1>4 DEF Revise
<1>8. Replaces(doc[d], t, new)
  BY <1>3, <1>6, <1>7 DEF Replaces
<1>9. GoesOn(rulings[d], rulings[d], t.name)
  BY <1>1 DEF GoesOn, DocumentInv
<1>10. rulings' = [rulings EXCEPT ![d] = rulings[d]]
  BY DEF VocabularyInv
<1>11. FollowsRulings(t, rulings[d]) => FollowsRulings(new, rulings[d])
  BY <1>6 DEF FollowsRulings
<1> QED
  BY <1>4, <1>8, <1>9, <1>10, <1>11, ReviseFollows

\* set_profile: the ruling is about no target.
LEMMA SetProfileFollows ==
    ASSUME VocabularyInv, NEW d \in Document, NEW f, NEW kind, NEW roles,
           SetProfile(d, f, kind, roles)
    PROVE  VocabularyInv' /\ MintedIsKept
<1> DEFINE t == Ensured(doc[d], f)
           new == [t EXCEPT !.profile = [kind |-> kind, roles |-> roles]]
           r == [name |-> t.name, target |-> "profile", match |-> "profile", kind |-> kind]
           s == rulings[d]
           z == Append(s, r)
<1>1. DocumentInv(doc[d], s)
  BY DEF VocabularyInv
<1>2. \A u \in doc[d] : IsTerm(u)
  BY <1>1 DEF DocumentInv
<1>3. /\ IsTerm(t)
      /\ \/ t \in doc[d]
         \/ t.alignments = {} /\ t.profile = NoProfile /\ \A u \in doc[d] : u.form # t.form
  BY <1>2, EnsuredIs
<1>4. Revise(d, t, new) /\ rulings' = [rulings EXCEPT ![d] = z]
  BY DEF SetProfile, Ruled
<1>5. r.name = t.name /\ r.target = "profile" /\ r.kind = kind
  OBVIOUS
<1>6. IsLog(s)
  BY <1>1 DEF DocumentInv
<1>8. new = [t EXCEPT !.profile = [kind |-> kind, roles |-> roles]]
  OBVIOUS
<1> HIDE DEF t, new, r, s
<1>7. /\ IsLog(z) /\ Said(z, r.name, r.target) # {} /\ Latest(z, r.name, r.target) = r
      /\ \A name, x : name # r.name \/ x # r.target =>
            /\ Said(z, name, x) = Said(s, name, x)
            /\ Said(s, name, x) # {} => Latest(z, name, x) = Latest(s, name, x)
      /\ \A i \in DOMAIN z : z[i] = r \/ \E j \in DOMAIN s : z[i] = s[j]
  <2>1. IsLog(s)
    BY <1>6
  <2> QED
    BY <2>1, AppendSays
<1> HIDE DEF z
<1>9. /\ IsTerm(new) /\ new.name = t.name /\ new.form = t.form /\ new.aliases = t.aliases
      /\ new.alignments = t.alignments /\ new.profile.kind = kind
  BY <1>3, <1>8 DEF IsTerm
<1>10. Valid((doc[d] \ {t}) \cup {new})
  BY <1>4 DEF Revise
<1>11. Replaces(doc[d], t, new)
  BY <1>3, <1>9, <1>10 DEF Replaces
<1>12. GoesOn(s, z, t.name)
  BY <1>5, <1>7 DEF GoesOn
<1>13. FollowsRulings(t, s) => FollowsRulings(new, z)
  <2>1. \A x \in Target : /\ Said(z, t.name, x) = Said(s, t.name, x)
                          /\ Said(s, t.name, x) # {} => Latest(z, t.name, x) = Latest(s, t.name, x)
    BY <1>5, <1>7, VocabularyAssumption
  <2>2. Said(z, t.name, "profile") # {} /\ Latest(z, t.name, "profile").kind = kind
    BY <1>5, <1>7
  <2> QED
    BY <1>9, <2>1, <2>2 DEF FollowsRulings
<1> QED
  BY <1>4, <1>11, <1>12, <1>13, ReviseFollows DEF s

\* add_alignment: the term's alignment with the target is the one ruled.
LEMMA AddAlignmentFollows ==
    ASSUME VocabularyInv, NEW d \in Document, NEW t \in doc[d], NEW a,
           a.target \in Target, AddAlignment(d, t, a)
    PROVE  VocabularyInv' /\ MintedIsKept
<1> DEFINE new == [t EXCEPT !.alignments = Realigned(t, a)]
           r == [name |-> t.name, target |-> a.target, match |-> a.match,
                 kind |-> KindFromSource(a.constraints)]
           s == rulings[d]
           z == Append(s, r)
<1>1. DocumentInv(doc[d], s)
  BY DEF VocabularyInv
<1>2. IsTerm(t) /\ IsLog(s)
  BY <1>1 DEF DocumentInv
<1>3. Revise(d, t, new) /\ rulings' = [rulings EXCEPT ![d] = z]
  BY DEF AddAlignment, Ruled
<1>4. r.name = t.name /\ r.target = a.target /\ r.match = a.match /\ r.kind = KindFromSource(a.constraints)
  OBVIOUS
<1>6. new = [t EXCEPT !.alignments = Realigned(t, a)]
  OBVIOUS
<1>7. /\ a \in Realigned(t, a)
      /\ \A b \in Realigned(t, a) : b = a \/ (b \in t.alignments /\ b.target # a.target)
      /\ \A b \in t.alignments : b.target # a.target => b \in Realigned(t, a)
  BY DEF Realigned
<1> HIDE DEF new, r, s
<1>5. /\ IsLog(z) /\ Said(z, r.name, r.target) # {} /\ Latest(z, r.name, r.target) = r
      /\ \A name, x : name # r.name \/ x # r.target =>
            /\ Said(z, name, x) = Said(s, name, x)
            /\ Said(s, name, x) # {} => Latest(z, name, x) = Latest(s, name, x)
      /\ \A i \in DOMAIN z : z[i] = r \/ \E j \in DOMAIN s : z[i] = s[j]
  <2>1. IsLog(s)
    BY <1>2
  <2> QED
    BY <2>1, AppendSays
<1> HIDE DEF z
<1>8. /\ IsTerm(new) /\ new.name = t.name /\ new.form = t.form /\ new.aliases = t.aliases
      /\ new.alignments = Realigned(t, a) /\ new.profile = t.profile
  BY <1>2, <1>6 DEF IsTerm
<1>9. Valid((doc[d] \ {t}) \cup {new})
  BY <1>3 DEF Revise
<1>10. Replaces(doc[d], t, new)
  BY <1>8, <1>9 DEF Replaces
<1>11. GoesOn(s, z, t.name)
  BY <1>4, <1>5 DEF GoesOn
<1>12. FollowsRulings(t, s) => FollowsRulings(new, z)
  <2>1. \A x : x # a.target =>
           /\ Said(z, t.name, x) = Said(s, t.name, x)
           /\ Said(s, t.name, x) # {} => Latest(z, t.name, x) = Latest(s, t.name, x)
    BY <1>4, <1>5
  <2>2. a.target # "profile"
    BY VocabularyAssumption
  <2>3. /\ Said(z, t.name, a.target) # {} /\ Latest(z, t.name, a.target).match = a.match
        /\ Latest(z, t.name, a.target).kind = KindFromSource(a.constraints)
    BY <1>4, <1>5
  <2> QED
    BY <1>7, <1>8, <2>1, <2>2, <2>3 DEF FollowsRulings
<1> QED
  BY <1>3, <1>10, <1>11, <1>12, ReviseFollows DEF s

\* Every step: a plan changes no document, and each ruling is one of the three above.
LEMMA RulingsKnow ==
    ASSUME VocabularyInv, [Next]_vocabulary
    PROVE  VocabularyInv' /\ MintedIsKept
<1>1. ASSUME UNCHANGED <<doc, rulings>> PROVE VocabularyInv' /\ MintedIsKept
  BY <1>1 DEF VocabularyInv, MintedIsKept
<1>2. CASE UNCHANGED vocabulary
  BY <1>1, <1>2 DEF vocabulary
<1>3. CASE Propose
  BY <1>1, <1>3 DEF Propose
<1>4. ASSUME NEW p \in proposed, Confirm(p) PROVE VocabularyInv' /\ MintedIsKept
  <2>1. CASE \E d \in Document : AddAlias(d, p.form, p.aliases) /\ UNCHANGED rulings
    BY <2>1, AddAliasFollows
  <2>2. CASE \E d \in Document, k \in Kind : SetProfile(d, p.form, k, {})
    BY <2>2, SetProfileFollows
  <2> QED
    BY <1>4, <2>1, <2>2 DEF Confirm
<1>5. ASSUME NEW d \in Document, RuleDirectly(d) PROVE VocabularyInv' /\ MintedIsKept
  <2>1. CASE \E f \in Form, as \in SUBSET Form : AddAlias(d, f, as) /\ UNCHANGED rulings
    BY <2>1, AddAliasFollows
  <2>2. CASE \E f \in Form, k \in Kind, roles \in {{}, {Min(Form)}} : SetProfile(d, f, k, roles)
    BY <2>2, SetProfileFollows
  <2>3. CASE \E t \in doc[d], x \in Target, m \in {"exact", "close"} :
                \E cs \in Published[x] : AddAlignment(d, t, Alignment(x, m, cs))
    <3>1. PICK t \in doc[d], x \in Target, m \in {"exact", "close"} :
                \E cs \in Published[x] : AddAlignment(d, t, Alignment(x, m, cs))
      BY <2>3
    <3>2. PICK cs \in Published[x] : AddAlignment(d, t, Alignment(x, m, cs))
      BY <3>1
    <3>3. Alignment(x, m, cs).target \in Target
      BY DEF Alignment
    <3> QED
      BY <3>2, <3>3, AddAlignmentFollows
  <2> QED
    BY <1>5, <2>1, <2>2, <2>3 DEF RuleDirectly
<1> QED
  BY <1>2, <1>3, <1>4, <1>5 DEF Next

\* What a term says of its kind is told by the rulings about it alone.
LEMMA KindIsRuled == ASSUME VocabularyInv PROVE KindFollowsRulings
<1>1. ASSUME NEW d \in Document, NEW t \in doc[d]
      PROVE  LET s == rulings[d]
                 ruled == {Latest(s, t.name, x).kind : x \in
                              {y \in Target : Said(s, t.name, y) # {} /\ Latest(s, t.name, y).match # "close"}}
                 kinds == ruled \ {Unstated}
             IN  EffectiveKind(t) = IF kinds # {} THEN MostKeeping(kinds)
                                    ELSE IF Said(s, t.name, "profile") # {}
                                         THEN Latest(s, t.name, "profile").kind
                                    ELSE Unstated
  <2> DEFINE s == rulings[d]
             ruled == {Latest(s, t.name, x).kind : x \in
                          {y \in Target : Said(s, t.name, y) # {} /\ Latest(s, t.name, y).match # "close"}}
             sourced == {KindFromSource(a.constraints) : a \in {b \in t.alignments : b.match # "close"}}
  <2>1. FollowsRulings(t, s)
    BY DEF VocabularyInv, DocumentInv
  <2> HIDE DEF s
  <2>2. sourced = ruled
    BY <2>1 DEF FollowsRulings
  <2>3. t.profile.kind = IF Said(s, t.name, "profile") # {}
                         THEN Latest(s, t.name, "profile").kind ELSE Unstated
    BY <2>1 DEF FollowsRulings
  <2>4. EffectiveKind(t) = IF sourced \ {Unstated} # {} THEN MostKeeping(sourced \ {Unstated})
                           ELSE t.profile.kind
    BY DEF EffectiveKind
  <2> HIDE DEF ruled, sourced
  <2>5. EffectiveKind(t) = IF ruled \ {Unstated} # {} THEN MostKeeping(ruled \ {Unstated})
                           ELSE IF Said(s, t.name, "profile") # {}
                                THEN Latest(s, t.name, "profile").kind
                           ELSE Unstated
    BY <2>2, <2>3, <2>4
  <2> QED
    BY <2>5 DEF ruled, s
<1> QED
  BY <1>1 DEF KindFollowsRulings, Said, Latest

\* A proposed alias is a form that no document covers when the plan is made.
LEMMA PlansAreAdmitted == ProposalsAreAdmitted
<1> SUFFICES ASSUME NEW p \in Plan, p.kind = "alias", NEW d \in Document
             PROVE  Admits(d, p.form, p.aliases)
  BY DEF ProposalsAreAdmitted
<1>1. p \notin ProfileProposals
  <2> SUFFICES ASSUME p \in ProfileProposals PROVE FALSE
    OBVIOUS
  <2> QED
    BY DEF ProfileProposals
<1>2. PICK part \in Parts : p \in AliasProposals(part)
  <2>1. p \in UNION {AliasProposals(part) : part \in Parts}
    BY <1>1 DEF Plan
  <2>2. PICK S \in {AliasProposals(part) : part \in Parts} : p \in S
    BY <2>1
  <2> QED
    BY <2>2
<1>3. \E c : p.aliases = Fresh(part, c)
  BY <1>2 DEF AliasProposals
<1>4. \A a \in p.aliases : ~Covers(AllTerms, a)
  BY <1>3 DEF Fresh, Covered
<1>5. \A a \in p.aliases : ~Covers(doc[d], a)
  BY <1>4 DEF Covers, Covering, AllTerms
<1> QED
  BY <1>5 DEF Admits, TakenElsewhere

\* Each document is valid, and each of its terms says of its kind what was ruled last about
\* its name, target by target.
THEOREM VocabularyIsInvariant == Spec => []VocabularyInv
<1>1. Init => VocabularyInv
  <2> SUFFICES ASSUME Init, NEW d \in Document PROVE DocumentInv(doc[d], rulings[d])
    BY DEF VocabularyInv, Init
  <2>1. doc[d] = {} /\ rulings[d] = <<>>
    BY DEF Init
  <2>2. <<>> \in Seq({}) /\ DOMAIN <<>> = {}
    OBVIOUS
  <2>3. IsLog(<<>>)
    BY <2>2 DEF IsLog, Said
  <2> QED
    BY <2>1, <2>2, <2>3 DEF DocumentInv, Valid
<1>2. VocabularyInv /\ [Next]_vocabulary => VocabularyInv'
  BY RulingsKnow
<1> QED
  BY <1>1, <1>2, PTL DEF Spec

\* No proposal asks for an alias that add_alias refuses as the documents stand; a term's
\* kind follows from the rulings whatever their order, however late a proposal is confirmed;
\* and a minted form keeps its name, whatever follows (plan_proposals, effective_kind,
\* _revise).
THEOREM RulingsAreFollowed == Spec => RulingsDecide
<1>1. VocabularyInv => ProposalsAreAdmitted /\ KindFollowsRulings
  BY PlansAreAdmitted, KindIsRuled
<1>2. Spec => [](ProposalsAreAdmitted /\ KindFollowsRulings)
  BY <1>1, VocabularyIsInvariant, PTL
<1>3. VocabularyInv /\ [Next]_vocabulary =>
        [\A d \in Document : \A t \in doc[d] : \E u \in doc'[d] :
            u.name = t.name /\ u.form = t.form /\ t.aliases \subseteq u.aliases]_vocabulary
  BY RulingsKnow DEF MintedIsKept
<1>4. Spec => MintedIsForever
  BY <1>3, VocabularyIsInvariant, PTL DEF MintedIsForever, Spec
<1> QED
  BY <1>2, <1>4 DEF RulingsDecide

-----------------------------------------------------------------------------
(* Outbound, for any names, addresses, postures and bounds.  While a       *)
(* request is about to connect, its addresses are vetted, its credentials  *)
(* are on their origin, and the backstop of the policy that let it through *)
(* has recorded every address; a policy that admits nothing has recorded   *)
(* none.                                                                   *)

Policies == [id : Nat, posture : {s.posture : s \in Postures} \cup {"open"},
             entries : {s.entries : s \in Postures} \cup {{}}]
Active == [pc : {"hop", "connect", "answer"}, url : URL, first : URL, creds : BOOLEAN,
           asked : BOOLEAN, hops : Nat, tries : Nat, cands : Seq(Addr), name : Host,
           gate : Policies]
Over == [pc : {"ended"}, by : Policies, gate : Policies,
         how : {"refused", "backstop", "unsafe", "failed", "too large", "answered", "transient"}]

OutboundTypes ==
    /\ changes \in 0..MaxChanges
    /\ policy \in Policies /\ policy.id \in 1..(changes + 1)
    /\ armed \in Policies /\ armed.id \in 0..policy.id /\ (armed.id = policy.id => armed = policy)
    /\ admitted = [i \in 0..(MaxChanges + 1) |-> admitted[i]]
    /\ zone \in [Name -> Seq(Addr)]
    /\ req \in {Rest} \cup Active \cup Over

IsClosed(p) == p.posture = "none" => p.entries = {} /\ admitted[p.id] = {}
ClosedStaysClosed ==
    /\ IsClosed(policy) /\ IsClosed(armed)
    /\ \A i \in (policy.id + 1)..(MaxChanges + 1) : admitted[i] = {}
ReadyToConnect ==
    req.pc = "connect" =>
        /\ req.cands # <<>>
        /\ \A i \in DOMAIN req.cands : req.cands[i] \notin Blocked
        /\ req.creds => /\ req.name = req.first.host
                        /\ req.url.scheme \in {req.first.scheme, "https"}
        /\ req.gate = armed => \A i \in DOMAIN req.cands :
                                   AdmitsAddress(armed, req.cands[i], Port(req.url.scheme))
OutboundInv ==
    OutboundTypes /\ ClosedStaysClosed /\ ReadyToConnect /\ OnlyVettedIsReached /\ LayersAgree

OutboundSound ==
    /\ MaxChanges \in Nat /\ Retries \in Nat
    /\ \A s \in Postures : s.posture = "none" => s.entries = {}

\* Before a policy is read nothing is armed, admitted or sent.
LEMMA OutboundStart == ASSUME OutboundSound, OInit PROVE OutboundInv
<1> USE DEF OInit, OutboundSound
<1>1. Off \in Policies
    BY DEF Off, Policies
<1>2. policy \in Policies /\ armed \in Policies
    BY <1>1 DEF Policies
<1>3. OutboundTypes
  <2>1. changes \in 0..MaxChanges /\ policy.id \in 1..(changes + 1)
    OBVIOUS
  <2>2. armed.id \in 0..policy.id /\ (armed.id = policy.id => armed = policy)
    BY DEF Off
  <2>3. admitted = [i \in 0..(MaxChanges + 1) |-> admitted[i]]
    OBVIOUS
  <2>4. zone \in [Name -> Seq(Addr)]
    <3>1. <<>> \in Seq(Addr) /\ \A a \in Addr : <<a>> \in Seq(Addr)
      OBVIOUS
    <3>2. {<<>>} \cup {<<a>> : a \in Addr} \subseteq Seq(Addr)
      BY <3>1
    <3>3. zone \in [Name -> {<<>>} \cup {<<a>> : a \in Addr}]
      OBVIOUS
    <3> QED BY <3>2, <3>3, Zenon
  <2> QED BY <1>2, <2>1, <2>2, <2>3, <2>4 DEF OutboundTypes
<1>4. ClosedStaysClosed
  <2>1. policy.posture = "none" => policy.entries = {}
    OBVIOUS
  <2> QED BY <2>1, <1>3 DEF ClosedStaysClosed, IsClosed, OutboundTypes, Off
<1>5. ReadyToConnect /\ OnlyVettedIsReached /\ LayersAgree
    BY DEF ReadyToConnect, OnlyVettedIsReached, LayersAgree, Rest, Nothing
<1> QED BY <1>3, <1>4, <1>5 DEF OutboundInv

\* The request moves to another step, and nothing else: what is judged is left to show.
LEMMA OnlyTheRequest ==
    ASSUME OutboundInv, UNCHANGED <<policy, armed, admitted, zone, changes, sent>>,
           req' \in {Rest} \cup Active \cup Over, ReadyToConnect', LayersAgree'
    PROVE  OutboundInv'
    BY DEF OutboundInv, OutboundTypes, ClosedStaysClosed, IsClosed, OnlyVettedIsReached

\* A request that is under way has its record: neither at rest nor over.
LEMMA ActiveRequest ==
    ASSUME OutboundInv, req.pc \in {"hop", "connect", "answer"} PROVE req \in Active
<1>1. req \in {Rest} \cup Active \cup Over
    BY DEF OutboundInv, OutboundTypes
<1>2. Rest.pc = "rest" /\ \A r \in Over : r.pc = "ended"
    BY DEF Rest, Over
<1> QED BY <1>1, <1>2

\* A request that ends, for whatever reason but the backstop's, changes nothing else.
LEMMA EndOfRequest ==
    ASSUME OutboundInv, req \in Active,
           NEW how \in {"refused", "unsafe", "failed", "too large", "answered", "transient"},
           req' = Ended(how), UNCHANGED <<policy, armed, admitted, zone, changes, sent>>
    PROVE  OutboundInv'
<1>1. req' \in Over
    BY DEF OutboundInv, OutboundTypes, Ended, Active, Over
<1>2. ReadyToConnect' /\ LayersAgree'
    BY DEF Ended, ReadyToConnect, LayersAgree
<1> QED BY <1>1, <1>2, OnlyTheRequest

\* A reload opens a policy of its own, arming the backstop takes the current one, a zone may move.
LEMMA SettingsStep ==
    ASSUME OutboundSound, OutboundInv,
           \/ \E s \in Postures : Reload(s)
           \/ Arm
           \/ \E n \in Name, a, b \in Addr : Rebind(n, <<a, b>>) \/ Rebind(n, <<a>>)
    PROVE  OutboundInv'
<1> USE DEF OutboundInv, OutboundTypes, OutboundSound
<1>1. ASSUME NEW s \in Postures, Reload(s) PROVE OutboundInv'
  <2>1. policy' \in Policies /\ policy'.id = policy.id + 1
        /\ policy'.posture = s.posture /\ policy'.entries = s.entries
    BY <1>1 DEF Reload, Policies
  <2>2. OutboundTypes'
    BY <1>1, <2>1 DEF Reload
  <2>3. ClosedStaysClosed'
    <3>1. UNCHANGED <<armed, admitted>> /\ policy.id + 1 \in (policy.id + 1)..(MaxChanges + 1)
      BY <1>1 DEF Reload
    <3>2. \A i \in (policy.id + 1)..(MaxChanges + 1) : admitted'[i] = {}
      BY <3>1 DEF ClosedStaysClosed
    <3>3. IsClosed(policy)'
      BY <2>1, <3>1, <3>2 DEF IsClosed
    <3>4. IsClosed(armed)'
      BY <3>1 DEF ClosedStaysClosed, IsClosed
    <3>5. \A i \in (policy'.id + 1)..(MaxChanges + 1) : admitted'[i] = {}
      BY <2>1, <3>2
    <3> QED BY <3>3, <3>4, <3>5 DEF ClosedStaysClosed
  <2>4. ReadyToConnect'
    BY <1>1 DEF Reload, ReadyToConnect, AdmitsAddress
  <2>5. OnlyVettedIsReached' /\ LayersAgree'
    BY <1>1 DEF Reload, OnlyVettedIsReached, LayersAgree
  <2> QED BY <2>2, <2>3, <2>4, <2>5
<1>2. CASE Arm
  <2>1. armed' \in Policies /\ armed'.id \in 0..policy.id /\ (armed'.id = policy.id => armed' = policy)
    BY <1>2 DEF Arm, Off, Policies
  <2>2. OutboundTypes'
    BY <1>2, <2>1 DEF Arm
  <2>3. ClosedStaysClosed'
    <3>1. armed' = policy \/ armed'.posture = "open"
      BY <1>2 DEF Arm, Off
    <3>2. UNCHANGED <<policy, admitted>>
      BY <1>2 DEF Arm
    <3>3. IsClosed(policy) /\ \A i \in (policy.id + 1)..(MaxChanges + 1) : admitted[i] = {}
      BY DEF ClosedStaysClosed
    <3>4. IsClosed(armed)'
      BY <3>1, <3>2, <3>3 DEF IsClosed
    <3>5. IsClosed(policy)'
      BY <3>2, <3>3 DEF IsClosed
    <3> QED BY <3>2, <3>3, <3>4, <3>5 DEF ClosedStaysClosed
  <2>4. ReadyToConnect' /\ OnlyVettedIsReached' /\ LayersAgree'
    BY <1>2 DEF Arm, ReadyToConnect, OnlyVettedIsReached, LayersAgree, Rest
  <2> QED BY <2>2, <2>3, <2>4
<1>3. ASSUME NEW n \in Name, NEW addrs \in Seq(Addr), Rebind(n, addrs) PROVE OutboundInv'
  <2>1. OutboundTypes'
    BY <1>3 DEF Rebind
  <2>2. ClosedStaysClosed' /\ ReadyToConnect' /\ OnlyVettedIsReached' /\ LayersAgree'
    BY <1>3 DEF Rebind, ClosedStaysClosed, IsClosed, ReadyToConnect, AdmitsAddress, OnlyVettedIsReached,
                LayersAgree
  <2> QED BY <2>1, <2>2
<1>4. \A a, b \in Addr : <<a, b>> \in Seq(Addr) /\ <<a>> \in Seq(Addr)
    OBVIOUS
<1> QED BY <1>1, <1>2, <1>3, <1>4

\* A lookup the backstop lets through pins only addresses that are vetted and recorded.
LEMMA ResolveStep == ASSUME OutboundSound, OutboundInv, Resolve PROVE OutboundInv'
<1> USE DEF OutboundInv, OutboundTypes, OutboundSound
<1>active. req \in Active
    BY ActiveRequest DEF Resolve, GateOpen
<1>answer. Answer \in Seq(Addr)
  <2>1. req.url \in URL
    BY <1>active DEF Active
  <2>2. req.url.host \in Addr => <<req.url.host>> \in Seq(Addr)
    OBVIOUS
  <2> QED BY <2>1, <2>2 DEF Answer, URL, Host
<1>1. ClosedStaysClosed'
  <2>1. armed.posture = "none" => Recorded(armed, req.url.host, Answer) = {}
    BY DEF ClosedStaysClosed, IsClosed, Recorded
  <2>2. armed.id \in 0..(MaxChanges + 1)
    OBVIOUS
  <2>3. policy.posture = "none" /\ armed.id = policy.id => Recorded(armed, req.url.host, Answer) = {}
    BY <2>1
  <2>4. admitted' = [admitted EXCEPT ![armed.id] = @ \cup Recorded(armed, req.url.host, Answer)]
        /\ UNCHANGED <<policy, armed>>
    BY DEF Resolve
  <2>5. armed.id \in 0..policy.id /\ policy.id \in Nat /\ policy.id \in 0..(MaxChanges + 1)
        /\ DOMAIN admitted = 0..(MaxChanges + 1)
    OBVIOUS
  <2>6. \A i \in (policy.id + 1)..(MaxChanges + 1) : admitted'[i] = {}
    <3> SUFFICES ASSUME NEW i \in (policy.id + 1)..(MaxChanges + 1) PROVE admitted'[i] = {}
      OBVIOUS
    <3>1. i # armed.id /\ i \in 0..(MaxChanges + 1)
      BY <2>5
    <3>2. admitted[i] = {}
      BY DEF ClosedStaysClosed
    <3> QED BY <2>4, <2>5, <3>1, <3>2
  <2>7. IsClosed(policy)' /\ IsClosed(armed)'
    <3>1. policy.posture = "none" => policy.entries = {} /\ admitted'[policy.id] = {}
      BY <2>3, <2>4, <2>5 DEF ClosedStaysClosed, IsClosed
    <3>2. armed.posture = "none" => armed.entries = {} /\ admitted'[armed.id] = {}
      BY <2>1, <2>4, <2>5 DEF ClosedStaysClosed, IsClosed
    <3> QED BY <2>4, <3>1, <3>2 DEF IsClosed
  <2> QED BY <2>4, <2>6, <2>7 DEF ClosedStaysClosed
<1>2. CASE Vetted(Answer)
  <2>1. req' \in Active /\ req'.pc = "connect" /\ req'.cands = Answer /\ req'.name = req.url.host
        /\ req'.creds = Carries /\ req'.gate = policy /\ req'.url = req.url /\ req'.first = req.first
    <3>1. Carries \in BOOLEAN
      BY DEF Carries
    <3> QED BY <1>2, <1>active, <1>answer, <3>1 DEF Resolve, Active, URL
  <2>2. OutboundTypes'
    BY <2>1 DEF Resolve
  <2>3. req'.cands # <<>> /\ \A i \in DOMAIN req'.cands : req'.cands[i] \notin Blocked
    BY <1>2, <2>1 DEF Vetted, ToSet
  <2>4. req'.creds => /\ req'.name = req'.first.host
                      /\ req'.url.scheme \in {req'.first.scheme, "https"}
    BY <2>1 DEF Carries, SameOrigin
  <2>5. ASSUME req'.gate = armed', NEW i \in DOMAIN req'.cands
        PROVE  \/ Allows(armed, req'.cands[i], Port(req.url.scheme))
               \/ \E q \in {AnyPort, Port(req.url.scheme)} :
                      <<req'.cands[i], q>> \in admitted'[armed.id]
    <3> DEFINE port == Port(req.url.scheme)
               addr == Answer[i]
    <3>1. armed = policy /\ req'.cands[i] = addr /\ i \in DOMAIN Answer
      BY <2>1, <2>5 DEF Resolve
    <3>2. Allows(armed, req.url.host, port)
      BY <3>1 DEF Resolve, GateOpen
    <3>3. CASE armed.posture = "open" \/ req.url.host \in Addr
      BY <3>1, <3>2, <3>3 DEF Allows, Answer
    <3>4. CASE ~(armed.posture = "open" \/ req.url.host \in Addr)
      <4>1. PICK e \in armed.entries : e.host = req.url.host /\ e.port \in {AnyPort, port}
        BY <3>2, <3>4 DEF Allows
      <4>2. <<addr, e.port>> \in Recorded(armed, req.url.host, Answer)
        BY <3>1, <3>4, <4>1 DEF Recorded, ToSet
      <4>3. <<addr, e.port>> \in admitted'[armed.id]
        <5>1. armed.id \in 0..(MaxChanges + 1)
          OBVIOUS
        <5> QED BY <4>2, <5>1 DEF Resolve
      <4> QED BY <3>1, <4>1, <4>3
    <3> QED BY <3>3, <3>4
  <2>6. ReadyToConnect'
    <3>1. UNCHANGED armed /\ req'.url = req.url
      BY <2>1 DEF Resolve
    <3> QED BY <2>3, <2>4, <2>5, <3>1 DEF ReadyToConnect, AdmitsAddress, Allows
  <2>7. OnlyVettedIsReached' /\ LayersAgree'
    BY <2>1 DEF Resolve, OnlyVettedIsReached, LayersAgree
  <2> QED BY <1>1, <2>2, <2>6, <2>7
<1>3. CASE ~Vetted(Answer)
  <2>1. req' = Ended("unsafe")
    BY <1>3 DEF Resolve
  <2>2. req' \in Over /\ req'.pc = "ended" /\ req'.how = "unsafe"
    BY <2>1, <1>active DEF Ended, Active, Over
  <2>3. OutboundTypes'
    BY <2>2 DEF Resolve
  <2>4. ReadyToConnect' /\ LayersAgree' /\ OnlyVettedIsReached'
    BY <2>2 DEF ReadyToConnect, LayersAgree, OnlyVettedIsReached, Resolve
  <2> QED BY <1>1, <2>3, <2>4
<1> QED BY <1>2, <1>3

\* What is sent goes to a pinned address, with credentials only on their origin.
LEMMA ConnectStep == ASSUME OutboundSound, OutboundInv, Connect PROVE OutboundInv'
<1> USE DEF OutboundInv, OutboundSound
<1>active. req \in Active
    BY ActiveRequest DEF Connect
<1>1. Dialled \in Addr /\ Dialled = req.cands[1] /\ 1 \in DOMAIN req.cands
  <2>1. req.cands \in Seq(Addr) /\ req.cands # <<>>
    BY <1>active DEF Connect, ReadyToConnect, Active
  <2> QED BY <2>1 DEF Dialled
<1>2. req' \in Active /\ req'.pc = "answer"
    BY <1>1, <1>active DEF Connect, Active, URL, Host
<1>3. OutboundTypes' /\ ClosedStaysClosed' /\ ReadyToConnect' /\ LayersAgree'
    BY <1>2 DEF Connect, OutboundTypes, ClosedStaysClosed, IsClosed, ReadyToConnect, LayersAgree
<1>4. armed.posture # "none"
  <2>1. armed.posture = "none" => armed.entries = {} /\ admitted[armed.id] = {}
    BY DEF ClosedStaysClosed, IsClosed
  <2> QED BY <2>1 DEF Connect, AdmitsAddress, Allows
<1>5. Dialled \notin Blocked
    BY <1>1 DEF Connect, ReadyToConnect
<1>6. OnlyVettedIsReached'
    BY <1>4, <1>5 DEF Connect, OnlyVettedIsReached, ReadyToConnect
<1> QED BY <1>3, <1>6

\* The other steps of a request keep the invariant.
LEMMA RequestStep ==
    ASSUME OutboundSound, OutboundInv,
           \/ \E u \in URL, c \in BOOLEAN : Begin(u, c)
           \/ RefuseHop \/ RefuseLookup \/ RefuseConnect \/ FailConnect
           \/ TooLarge \/ Deliver \/ Retry \/ Again
           \/ \E u \in URL : Redirect(u)
           \/ req.pc = "answer" /\ Redirect(req.url)
    PROVE  OutboundInv'
<1> USE DEF OutboundSound
<1>types. /\ policy \in Policies /\ armed \in Policies
          /\ req \in {Rest} \cup Active \cup Over
    BY DEF OutboundInv, OutboundTypes
<1>1. ASSUME NEW u \in URL, NEW c \in BOOLEAN, Begin(u, c) PROVE OutboundInv'
  <2>1. req' \in Active /\ req'.pc = "hop"
    BY <1>1, <1>types DEF Begin, Attempt, Active, URL
  <2>2. ReadyToConnect' /\ LayersAgree'
    BY <2>1 DEF ReadyToConnect, LayersAgree
  <2> QED BY <1>1, <2>1, <2>2, OnlyTheRequest DEF Begin
<1>2. CASE RefuseHop
    BY <1>2, ActiveRequest, EndOfRequest DEF RefuseHop
<1>3. CASE RefuseLookup
  <2>1. req \in Active
    BY <1>3, ActiveRequest DEF RefuseLookup, GateOpen
  <2>2. armed # policy
    <3>1. Allows(policy, req.url.host, Port(req.url.scheme)) => AllowsLookup(policy, req.url.host)
      BY DEF Allows, AllowsLookup
    <3> QED BY <1>3, <3>1 DEF RefuseLookup, GateOpen
  <2>3. req' \in Over /\ req'.pc = "ended" /\ req'.by = armed /\ req'.gate = policy
    BY <1>3, <2>1, <1>types DEF RefuseLookup, Ended, Active, Over
  <2>4. ReadyToConnect' /\ LayersAgree'
    BY <2>2, <2>3 DEF ReadyToConnect, LayersAgree
  <2> QED BY <1>3, <2>3, <2>4, OnlyTheRequest DEF RefuseLookup
<1>4. CASE RefuseConnect
  <2>1. req \in Active
    BY <1>4, ActiveRequest DEF RefuseConnect
  <2>2. Dialled = req.cands[1] /\ 1 \in DOMAIN req.cands
    <3>1. req.cands \in Seq(Addr) /\ req.cands # <<>>
      BY <1>4, <2>1 DEF RefuseConnect, OutboundInv, ReadyToConnect, Active
    <3> QED BY <3>1 DEF Dialled
  <2>3. armed # req.gate
    BY <1>4, <2>2 DEF RefuseConnect, OutboundInv, ReadyToConnect
  <2>4. req' \in Over /\ req'.pc = "ended" /\ req'.by = armed /\ req'.gate = req.gate
    BY <1>4, <2>1, <1>types DEF RefuseConnect, Ended, Active, Over
  <2>5. ReadyToConnect' /\ LayersAgree'
    BY <2>3, <2>4 DEF ReadyToConnect, LayersAgree
  <2> QED BY <1>4, <2>4, <2>5, OnlyTheRequest DEF RefuseConnect
<1>5. CASE FailConnect
  <2>1. req \in Active
    BY <1>5, ActiveRequest DEF FailConnect
  <2>2. CASE Len(req.cands) = 1
    BY <1>5, <2>1, <2>2, EndOfRequest DEF FailConnect
  <2>3. CASE Len(req.cands) # 1
    <3>1. req.cands \in Seq(Addr) /\ req.cands # <<>>
      BY <1>5, <2>1 DEF FailConnect, OutboundInv, ReadyToConnect, Active
    <3>2. Tail(req.cands) \in Seq(Addr) /\ Tail(req.cands) # <<>>
          /\ \A i \in DOMAIN Tail(req.cands) :
                i + 1 \in DOMAIN req.cands /\ Tail(req.cands)[i] = req.cands[i + 1]
      <4> DEFINE s == req.cands
      <4>1. s \in Seq(Addr) /\ s # <<>> /\ Len(s) \in Nat /\ Len(s) # 1
        BY <3>1, <2>3
      <4> HIDE DEF s
      <4>2. Tail(s) \in Seq(Addr) /\ Len(Tail(s)) = Len(s) - 1
        BY <4>1
      <4>3. Tail(s) # <<>>
        <5>1. Len(Tail(s)) # 0
          BY <4>1, <4>2
        <5>2. Len(<<>>) = 0
          OBVIOUS
        <5> QED BY <5>1, <5>2
      <4>4. \A i \in 1..(Len(s) - 1) : i + 1 \in DOMAIN s /\ Tail(s)[i] = s[i + 1]
        BY <4>1
      <4>5. DOMAIN Tail(s) = 1..(Len(s) - 1)
        BY <4>2
      <4> QED BY <4>2, <4>3, <4>4, <4>5 DEF s
    <3>3. req' = [req EXCEPT !.cands = Tail(req.cands)] /\ req.pc = "connect"
      BY <1>5, <2>3 DEF FailConnect
    <3>4. /\ req' \in Active /\ req'.cands = Tail(req.cands) /\ req'.creds = req.creds
          /\ req'.name = req.name /\ req'.first = req.first /\ req'.url = req.url
          /\ req'.gate = req.gate /\ req'.pc = "connect"
      BY <2>1, <3>2, <3>3 DEF Active
    <3>5. UNCHANGED <<policy, armed, admitted, zone, changes, sent>>
      BY <1>5 DEF FailConnect
    <3>6. ReadyToConnect'
      <4>1. /\ \A i \in DOMAIN req.cands : req.cands[i] \notin Blocked
            /\ req.creds => /\ req.name = req.first.host
                            /\ req.url.scheme \in {req.first.scheme, "https"}
            /\ req.gate = armed => \A i \in DOMAIN req.cands :
                                       AdmitsAddress(armed, req.cands[i], Port(req.url.scheme))
        BY <3>3 DEF OutboundInv, ReadyToConnect
      <4>2. \A i \in DOMAIN req'.cands :
               i + 1 \in DOMAIN req.cands /\ req'.cands[i] = req.cands[i + 1]
        BY <3>2, <3>4
      <4>3. req.gate = armed => \A i \in DOMAIN req'.cands :
                                   AdmitsAddress(armed, req'.cands[i], Port(req.url.scheme))
        BY <4>1, <4>2
      <4>4. req'.gate = armed' => (\A i \in DOMAIN req.cands :
                                      AdmitsAddress(armed, req.cands[i], Port(req.url.scheme)))'
        BY <3>4, <3>5, <4>3 DEF AdmitsAddress
      <4> QED BY <3>2, <3>4, <4>1, <4>2, <4>4 DEF ReadyToConnect
    <3>7. LayersAgree'
      BY <3>4 DEF LayersAgree
    <3> QED BY <3>4, <3>5, <3>6, <3>7, OnlyTheRequest
  <2> QED BY <2>2, <2>3
<1>6. CASE TooLarge
    BY <1>6, ActiveRequest, EndOfRequest DEF TooLarge
<1>7. CASE Deliver
    BY <1>7, ActiveRequest, EndOfRequest DEF Deliver
<1>8. CASE Retry
  <2>1. req \in Active
    BY <1>8, ActiveRequest DEF Retry
  <2>2. CASE req.tries > Retries
    BY <1>8, <2>1, <2>2, EndOfRequest DEF Retry
  <2>3. CASE ~(req.tries > Retries)
    <3>1. req' \in Active /\ req'.pc = "hop"
      BY <1>8, <1>types, <2>1, <2>3 DEF Retry, Attempt, Active, URL
    <3>2. ReadyToConnect' /\ LayersAgree'
      BY <3>1 DEF ReadyToConnect, LayersAgree
    <3> QED BY <1>8, <3>1, <3>2, OnlyTheRequest DEF Retry
  <2> QED BY <2>2, <2>3
<1>9. CASE Again
  <2>1. OutboundTypes' /\ ClosedStaysClosed'
    BY <1>9 DEF Again, OutboundInv, OutboundTypes, ClosedStaysClosed, IsClosed
  <2>2. ReadyToConnect' /\ OnlyVettedIsReached' /\ LayersAgree'
    BY <1>9 DEF Again, ReadyToConnect, OnlyVettedIsReached, LayersAgree, Rest
  <2> QED BY <2>1, <2>2 DEF OutboundInv
<1>10. ASSUME NEW u \in URL, Redirect(u) PROVE OutboundInv'
  <2>1. req \in Active
    BY <1>10, ActiveRequest DEF Redirect
  <2>2. req' \in Active /\ req'.pc = "hop"
    <3>1. req' = [req EXCEPT !.pc = "hop", !.url = u, !.hops = @ + 1]
      BY <1>10 DEF Redirect
    <3>2. req.hops + 1 \in Nat
      BY <2>1 DEF Active
    <3> QED BY <2>1, <3>1, <3>2 DEF Active
  <2>3. ReadyToConnect' /\ LayersAgree'
    BY <2>2 DEF ReadyToConnect, LayersAgree
  <2> QED BY <1>10, <2>2, <2>3, OnlyTheRequest DEF Redirect
<1>11. CASE req.pc = "answer" /\ Redirect(req.url)
  <2>1. req \in Active
    BY <1>11, ActiveRequest
  <2>2. req.url \in URL
    BY <2>1 DEF Active
  <2> QED BY <1>10, <1>11, <2>2
<1> QED BY <1>1, <1>2, <1>3, <1>4, <1>5, <1>6, <1>7, <1>8, <1>9, <1>10, <1>11

\* Whatever changes between any two steps of a fetch, nothing but a vetted address is reached,
\* no credential leaves its origin, and the gate and the backstop agree, for any names, addresses
\* and settings of which those that admit nothing list nothing.
THEOREM OutboundIsVetted == ASSUME OutboundSound PROVE OSpec => []NothingLeavesUnvetted
<1>1. OInit => OutboundInv
    BY OutboundStart
<1>2. OutboundInv /\ [ONext]_ovars => OutboundInv'
  <2> SUFFICES ASSUME OutboundInv, [ONext]_ovars PROVE OutboundInv'
    OBVIOUS
  <2>1. CASE UNCHANGED ovars
    BY <2>1 DEF ovars, OutboundInv, OutboundTypes, ClosedStaysClosed, IsClosed, ReadyToConnect,
                AdmitsAddress, OnlyVettedIsReached, LayersAgree
  <2>2. CASE ONext
    BY <2>2, SettingsStep, ResolveStep, ConnectStep, RequestStep DEF ONext
  <2> QED BY <2>1, <2>2
<1>3. OutboundInv => NothingLeavesUnvetted
    BY DEF OutboundInv, NothingLeavesUnvetted
<1> QED BY <1>1, <1>2, <1>3, PTL DEF OSpec
-----------------------------------------------------------------------------
(* Takeover of a memory export.                                                    *)

LEMMA LeastOf ==
    ASSUME NEW S \in SUBSET Nat, S # {}
    PROVE  \E i \in S : \A j \in S : i <= j
<1>1. PICK i \in S : \A j \in S : ~(<<j, i>> \in OpToRel(<, Nat))
  BY NatLessThanWellFounded, WFMin
<1>2. ASSUME NEW j \in S, j < i PROVE FALSE
  <2>1. <<j, i>> \in OpToRel(<, Nat)
    BY <1>2 DEF OpToRel
  <2> QED BY <1>1, <2>1
<1> QED BY <1>2

LEMMA GreatestOf ==
    ASSUME NEW L \in Nat, NEW S \in SUBSET (1..L), S # {}
    PROVE  \E i \in S : \A j \in S : j <= i
<1> DEFINE T == {L - i : i \in S}
<1>1. T \in SUBSET Nat /\ T # {}
  <2>1. \A i \in S : i \in 1..L /\ L - i \in Nat
    OBVIOUS
  <2> QED BY <2>1
<1>2. PICK k \in T : \A j \in T : k <= j
  <2> HIDE DEF T
  <2> QED BY <1>1, LeastOf
<1>3. PICK i \in S : k = L - i
  BY <1>2
<1>4. \A j \in S : L - i <= L - j
  BY <1>2, <1>3
<1> QED BY <1>3, <1>4

\* Induction up to a bound, over a set of numbers.
LEMMA CountsUp ==
    ASSUME NEW L \in Nat, NEW S, 0 \in S, \A i \in 1..L : i - 1 \in S => i \in S
    PROVE  \A i \in 0..L : i \in S
<1> DEFINE bad == {i \in 0..L : i \notin S}
<1>1. ASSUME bad # {} PROVE FALSE
  <2>1. bad \in SUBSET Nat
    OBVIOUS
  <2>2. \E i \in bad : \A j \in bad : i <= j
    <3> HIDE DEF bad
    <3> QED BY <1>1, <2>1, LeastOf
  <2>3. PICK i \in bad : \A j \in bad : i <= j
    BY <2>2
  <2>4. i \in 1..L /\ i - 1 \in 0..L
    BY <2>3
  <2>5. i - 1 \in bad \/ i - 1 \in S
    BY <2>4
  <2>6. i - 1 \notin bad
    BY <2>3, <2>4
  <2> QED BY <2>3, <2>4, <2>5, <2>6
<1> QED BY <1>1

\* What is flattened list by list.
Flattening(f, ss, m) == f = [i \in 1..m |-> IF i = 1 THEN ss[i] ELSE f[i - 1] \o ss[i]]

LEMMA FlatteningIs ==
    ASSUME NEW ss, NEW L \in Nat, L = Len(ss), L # 0
    PROVE  \E f : Flattening(f, ss, L) /\ FlattenSeq(ss) = f[L]
<1> DEFINE good == {m \in 0..L : \E f : Flattening(f, ss, m)}
<1>1. 0 \in good
  <2>1. Flattening([i \in 1..0 |-> 0], ss, 0)
    BY DEF Flattening
  <2> QED BY <2>1
<1>2. ASSUME NEW m \in 1..L, m - 1 \in good PROVE m \in good
  <2>1. PICK f : Flattening(f, ss, m - 1)
    BY <1>2
  <2> DEFINE g == [i \in 1..m |-> IF i < m THEN f[i]
                                  ELSE IF i = 1 THEN ss[i] ELSE f[i - 1] \o ss[i]]
  <2>2. \A i \in 1..(m - 1) : g[i] = f[i]
    OBVIOUS
  <2>3. \A i \in 1..(m - 1) : f[i] = IF i = 1 THEN ss[i] ELSE f[i - 1] \o ss[i]
    BY <2>1 DEF Flattening
  <2>4. g[m] = IF m = 1 THEN ss[m] ELSE f[m - 1] \o ss[m]
    OBVIOUS
  <2>5. DOMAIN g = 1..m /\ g = [i \in 1..m |-> g[i]]
    OBVIOUS
  <2> HIDE DEF g
  <2>6. \A i \in 1..m : g[i] = IF i = 1 THEN ss[i] ELSE g[i - 1] \o ss[i]
    BY <2>2, <2>3, <2>4
  <2>7. Flattening(g, ss, m)
    BY <2>5, <2>6 DEF Flattening
  <2> QED BY <2>7
<1>3. L \in good
  <2> HIDE DEF good
  <2>1. \A i \in 0..L : i \in good
    BY <1>1, <1>2, CountsUp
  <2> QED BY <2>1
<1>4. \E f : Flattening(f, ss, L)
  BY <1>3
<1>5. FlattenSeq(ss) = (CHOOSE f : Flattening(f, ss, L))[L]
  BY DEF FlattenSeq, Flattening
<1> QED BY <1>4, <1>5

\* A list joined from two has what they have.
LEMMA JoinedIs ==
    ASSUME NEW S, NEW a \in Seq(S), NEW b \in Seq(S)
    PROVE  \A x : x \in Range(a \o b) <=> x \in Range(a) \/ x \in Range(b)
<1>1. /\ DOMAIN (a \o b) = 1..(Len(a) + Len(b)) /\ DOMAIN a = 1..Len(a) /\ DOMAIN b = 1..Len(b)
      /\ Len(a) \in Nat /\ Len(b) \in Nat
  OBVIOUS
<1>2. \A i \in 1..(Len(a) + Len(b)) : (a \o b)[i] = IF i <= Len(a) THEN a[i] ELSE b[i - Len(a)]
  OBVIOUS
<1>3. ASSUME NEW x, x \in Range(a \o b) PROVE x \in Range(a) \/ x \in Range(b)
  <2>1. PICK i \in 1..(Len(a) + Len(b)) : x = (a \o b)[i]
    BY <1>1, <1>3 DEF Range
  <2>2. CASE i <= Len(a)
    BY <1>1, <1>2, <2>1, <2>2 DEF Range
  <2>3. CASE ~(i <= Len(a))
    <3>1. i - Len(a) \in DOMAIN b /\ x = b[i - Len(a)]
      BY <1>1, <1>2, <2>1, <2>3
    <3> QED BY <3>1 DEF Range
  <2> QED BY <2>2, <2>3
<1>4. ASSUME NEW x, x \in Range(a) PROVE x \in Range(a \o b)
  <2>1. PICK i \in DOMAIN a : x = a[i]
    BY <1>4 DEF Range
  <2>2. i \in DOMAIN (a \o b) /\ x = (a \o b)[i]
    BY <1>1, <1>2, <2>1
  <2> QED BY <2>2 DEF Range
<1>5. ASSUME NEW x, x \in Range(b) PROVE x \in Range(a \o b)
  <2>1. PICK i \in DOMAIN b : x = b[i]
    BY <1>5 DEF Range
  <2>2. i + Len(a) \in DOMAIN (a \o b) /\ x = (a \o b)[i + Len(a)]
    BY <1>1, <1>2, <2>1
  <2> QED BY <2>2 DEF Range
<1> QED BY <1>3, <1>4, <1>5

\* A flattened list has what its lists have.
LEMMA FlattenIs ==
    ASSUME NEW S, NEW ss \in Seq(Seq(S))
    PROVE  /\ FlattenSeq(ss) \in Seq(S)
           /\ \A x : x \in Range(FlattenSeq(ss)) <=> \E i \in 1..Len(ss) : x \in Range(ss[i])
<1> DEFINE L == Len(ss)
<1>1. CASE L = 0
  <2>1. FlattenSeq(ss) = <<>>
    BY <1>1 DEF FlattenSeq
  <2> QED BY <1>1, <2>1 DEF Range
<1>2. CASE L # 0
  <2>1. PICK f : Flattening(f, ss, L) /\ FlattenSeq(ss) = f[L]
    BY <1>2, FlatteningIs
  <2> DEFINE Right(m) == /\ f[m] \in Seq(S)
                         /\ \A x : x \in Range(f[m]) <=> \E i \in 1..m : x \in Range(ss[i])
             good == {m \in 0..L : m = 0 \/ Right(m)}
  <2>2. \A m \in 1..L : f[m] = IF m = 1 THEN ss[m] ELSE f[m - 1] \o ss[m]
    BY <2>1 DEF Flattening
  <2>3. ASSUME NEW m \in 1..L, m - 1 \in good PROVE m \in good
    <3>1. CASE m = 1
      BY <2>2, <3>1
    <3>2. CASE m # 1
      <4>0. m - 1 # 0 /\ Right(m - 1)
        <5> HIDE DEF Right
        <5> QED BY <2>3, <3>2
      <4>1. Right(m - 1) /\ ss[m] \in Seq(S) /\ f[m] = f[m - 1] \o ss[m]
        <5> HIDE DEF Right
        <5>1. ss[m] \in Seq(S)
          OBVIOUS
        <5>2. f[m] = f[m - 1] \o ss[m]
          BY <2>2, <3>2
        <5> QED BY <4>0, <5>1, <5>2
      <4>2. f[m] \in Seq(S) /\ \A x : x \in Range(f[m]) <=> x \in Range(f[m - 1]) \/ x \in Range(ss[m])
        <5> DEFINE a == f[m - 1]
                   b == ss[m]
        <5>1. a \in Seq(S) /\ b \in Seq(S) /\ f[m] = a \o b
          BY <4>1
        <5> HIDE DEF a, b
        <5>2. \A x : x \in Range(a \o b) <=> x \in Range(a) \/ x \in Range(b)
          BY <5>1, JoinedIs
        <5> QED BY <5>1, <5>2 DEF a, b
      <4>3. \A x : (\E i \in 1..m : x \in Range(ss[i])) <=>
                   (\E i \in 1..(m - 1) : x \in Range(ss[i])) \/ x \in Range(ss[m])
        <5>1. 1..m = 1..(m - 1) \cup {m}
          OBVIOUS
        <5> QED BY <5>1
      <4>4. Right(m)
        BY <4>1, <4>2, <4>3
      <4> HIDE DEF Right
      <4> QED BY <4>4
    <3> QED BY <3>1, <3>2
  <2>4. L \in good
    <3>1. 0 \in good
      OBVIOUS
    <3>0. L \in Nat
      OBVIOUS
    <3> HIDE DEF good, L
    <3>2. \A i \in 0..L : i \in good
      BY <2>3, <3>0, <3>1, CountsUp
    <3> QED BY <3>0, <3>2
  <2> QED BY <1>2, <2>1, <2>4
<1> QED BY <1>1, <1>2

LEMMA FirstIs ==
    ASSUME NEW S, NEW s \in Seq(S), NEW n \in Nat
    PROVE  /\ First(s, n) \in Seq(S) /\ Len(First(s, n)) = (IF Len(s) < n THEN Len(s) ELSE n)
           /\ Range(First(s, n)) \subseteq Range(s) /\ (Len(s) <= n => First(s, n) = s)
<1> DEFINE k == IF Len(s) < n THEN Len(s) ELSE n
<1>1. k \in 0..Len(s) /\ k \in Nat
  OBVIOUS
<1>2. First(s, n) = SubSeq(s, 1, k)
  BY DEF First
<1>3. Len(s) <= n => k = Len(s)
  OBVIOUS
<1> HIDE DEF k
<1>4. /\ SubSeq(s, 1, k) \in Seq(S) /\ Len(SubSeq(s, 1, k)) = k
      /\ \A i \in 1..k : SubSeq(s, 1, k)[i] = s[i]
  BY <1>1
<1>5. Range(SubSeq(s, 1, k)) \subseteq Range(s)
  <2>1. DOMAIN SubSeq(s, 1, k) = 1..k /\ 1..k \subseteq DOMAIN s
    BY <1>1, <1>4
  <2> QED BY <1>4, <2>1 DEF Range
<1>6. k = Len(s) => SubSeq(s, 1, k) = s
  BY <1>4
<1> QED BY <1>2, <1>3, <1>4, <1>5, <1>6 DEF k

LEMMA NothingIn == ASSUME NEW S, NEW s \in Seq(S), Range(s) = {} PROVE s = <<>>
<1>1. Len(s) \in Nat /\ DOMAIN s = 1..Len(s)
  OBVIOUS
<1>2. ASSUME Len(s) # 0 PROVE FALSE
  <2>1. s[1] \in Range(s)
    BY <1>1, <1>2 DEF Range
  <2> QED BY <2>1
<1> QED BY <1>2

\* What the parser has, with its types.
Described == {l \in Line : l.kind = "entity"}
Parsed == [name : {l.name : l \in Described}, type : {""} \cup {l.type : l \in Described},
           observations : Nat]
Words == {"skipped", "trimmed", "type ignored"}
Graphs == [entities : Seq(Parsed), relations : Seq(Line), notes : Seq(Words), suppressed : Nat,
           unmapped : Nat]

\* A candidate is an observation of an entity or a relation, and there is one of each.
Told(e) == [subjects |-> {e.name}, types |-> [n \in {e.name} |-> e.type]]

LEMMA CandidatesAre ==
    ASSUME NEW g \in Graphs
    PROVE  \E S : /\ AllCandidates(g) \in Seq(S)
                  /\ \A c : c \in Range(AllCandidates(g)) <=>
                        \/ \E e \in Range(g.entities) : e.observations # 0 /\ c = Told(e)
                        \/ \E r \in Range(g.relations) : c = Edge(g, r)
<1> DEFINE E == g.entities
           S == {Told(e) : e \in Parsed} \cup {Edge(g, r) : r \in Line}
           ss == [i \in 1..Len(E) |-> Observations(E[i])]
           rr == [i \in 1..Len(g.relations) |-> Edge(g, g.relations[i])]
<1>1. E \in Seq(Parsed) /\ g.relations \in Seq(Line)
  BY DEF Graphs
<1>2. ASSUME NEW e \in Parsed
      PROVE  /\ Observations(e) \in Seq(S)
             /\ \A c : c \in Range(Observations(e)) <=> e.observations # 0 /\ c = Told(e)
  <2>1. e.observations \in Nat /\ Observations(e) = [i \in 1..e.observations |-> Told(e)]
    BY DEF Parsed, Observations, Told
  <2>2. Told(e) \in S
    OBVIOUS
  <2> HIDE DEF S
  <2>3. DOMAIN Observations(e) = 1..e.observations /\ \A i \in 1..e.observations : Observations(e)[i] = Told(e)
    BY <2>1
  <2>4. e.observations # 0 => 1 \in 1..e.observations
    BY <2>1
  <2>5. e.observations = 0 => 1..e.observations = {}
    BY <2>1
  <2> QED BY <2>1, <2>2, <2>3, <2>4, <2>5 DEF Range
<1>3. /\ rr \in Seq(S) /\ \A c : c \in Range(rr) <=> \E r \in Range(g.relations) : c = Edge(g, r)
  <2>1. \A i \in 1..Len(g.relations) : Edge(g, g.relations[i]) \in S
    BY <1>1
  <2>2. DOMAIN g.relations = 1..Len(g.relations) /\ Len(g.relations) \in Nat
    BY <1>1
  <2> HIDE DEF S
  <2>3. DOMAIN rr = 1..Len(g.relations) /\ \A i \in 1..Len(g.relations) : rr[i] = Edge(g, g.relations[i])
    OBVIOUS
  <2>4. rr \in Seq(S)
    BY <2>1, <2>2
  <2> HIDE DEF rr
  <2> QED BY <2>2, <2>3, <2>4 DEF Range
<1>4. /\ ss \in Seq(Seq(S)) /\ Len(ss) = Len(E) /\ Len(E) \in Nat /\ DOMAIN E = 1..Len(E)
      /\ \A i \in 1..Len(E) : E[i] \in Parsed /\ ss[i] = Observations(E[i])
  <2>1. Len(E) \in Nat /\ DOMAIN E = 1..Len(E) /\ \A i \in 1..Len(E) : E[i] \in Parsed
    BY <1>1
  <2>2. \A i \in 1..Len(E) : Observations(E[i]) \in Seq(S)
    BY <1>2, <2>1
  <2> HIDE DEF S, E
  <2> QED BY <2>1, <2>2
<1> HIDE DEF S, ss, rr
<1>5. /\ FlattenSeq(ss) \in Seq(S)
      /\ \A c : c \in Range(FlattenSeq(ss)) <=> \E i \in 1..Len(ss) : c \in Range(ss[i])
  BY <1>4, FlattenIs
<1>6. \A c : c \in Range(FlattenSeq(ss)) <=> \E e \in Range(E) : e.observations # 0 /\ c = Told(e)
  <2>1. \A c : c \in Range(FlattenSeq(ss)) <=>
               \E i \in 1..Len(E) : E[i].observations # 0 /\ c = Told(E[i])
    BY <1>2, <1>4, <1>5
  <2>2. Range(E) = {E[i] : i \in 1..Len(E)}
    BY <1>4 DEF Range
  <2> QED BY <2>1, <2>2
<1>7. AllCandidates(g) = FlattenSeq(ss) \o rr
  BY DEF AllCandidates, ss, rr
<1>8. AllCandidates(g) \in Seq(S)
  BY <1>3, <1>5, <1>7
<1>9. \A c : c \in Range(AllCandidates(g)) <=> c \in Range(FlattenSeq(ss)) \/ c \in Range(rr)
  <2> DEFINE a == FlattenSeq(ss)
  <2>1. a \in Seq(S) /\ AllCandidates(g) = a \o rr
    BY <1>5, <1>7
  <2> HIDE DEF a
  <2>2. \A c : c \in Range(a \o rr) <=> c \in Range(a) \/ c \in Range(rr)
    BY <1>3, <2>1, JoinedIs
  <2> QED BY <2>1, <2>2 DEF a
<1> QED BY <1>3, <1>6, <1>8, <1>9

\* The two cases of the mapping say the same: nothing parsed maps to nothing.
LEMMA MappedIs ==
    ASSUME NEW g \in Graphs, NEW all, all = AllCandidates(g)
    PROVE  /\ Mapped(g).candidates = First(all, Cap) /\ Mapped(g).dropped = Dropped(g)
           /\ Mapped(g).cut = Len(all) - Len(First(all, Cap))
           /\ Mapped(g).lineNotes.lines = g.notes /\ Mapped(g).lineNotes.more = g.suppressed
           /\ Mapped(g).nothing = (g.entities = <<>> /\ g.relations = <<>> /\ g.notes = <<>>)
<1>1. CASE g.entities = <<>> /\ g.relations = <<>>
  <2>1. Range(g.entities) = {} /\ Range(g.relations) = {}
    BY <1>1 DEF Range
  <2>2. PICK S : all \in Seq(S) /\ Range(all) = {}
    BY <2>1, CandidatesAre
  <2>3. all = <<>>
    BY <2>2, NothingIn
  <2>4. First(all, Cap) = <<>> /\ Len(all) - Len(First(all, Cap)) = 0
    <3>1. Cap \in Nat /\ Len(all) = 0 /\ 0 <= Cap
      BY <2>3, MigrationAssumption
    <3>2. First(all, Cap) = all
      BY <2>2, <3>1, FirstIs
    <3> QED BY <2>3, <3>1, <3>2
  <2>5. Dropped(g) = {}
    BY <2>1 DEF Dropped
  <2> QED BY <1>1, <2>4, <2>5 DEF Mapped
<1>2. CASE ~(g.entities = <<>> /\ g.relations = <<>>)
  BY <1>2 DEF Mapped
<1> QED BY <1>1, <1>2

\* Nothing is lost of what was parsed but what is counted or named.
LEMMA MappingTells ==
    ASSUME NEW g \in Graphs
    PROVE  LET m == Mapped(g)
           IN  /\ Len(m.candidates) + m.cut = Len(AllCandidates(g))
               /\ m.candidates = <<>> => m.nothing \/ g.notes # <<>> \/ m.dropped # {}
               /\ m.cut \in Nat /\ Range(m.candidates) \subseteq Range(AllCandidates(g))
               /\ m.cut = 0 => m.candidates = AllCandidates(g)
               /\ Len(m.candidates) \in Nat
<1> DEFINE all == AllCandidates(g)
           m == Mapped(g)
<1>1. PICK S : all \in Seq(S)
  BY CandidatesAre
<1>2. /\ \A e \in Range(g.entities) : e.observations # 0 => Told(e) \in Range(all)
      /\ \A r \in Range(g.relations) : Edge(g, r) \in Range(all)
  <2> HIDE DEF all
  <2> QED BY CandidatesAre DEF all
<1>3. /\ m.candidates = First(all, Cap) /\ m.dropped = Dropped(g)
      /\ m.cut = Len(all) - Len(First(all, Cap))
      /\ m.nothing = (g.entities = <<>> /\ g.relations = <<>> /\ g.notes = <<>>)
  <2> HIDE DEF m, all
  <2> QED BY MappedIs DEF m, all
<1>4. Cap \in Nat /\ Cap # 0
  BY MigrationAssumption
<1>5. /\ First(all, Cap) \in Seq(S) /\ Len(First(all, Cap)) = (IF Len(all) < Cap THEN Len(all) ELSE Cap)
      /\ Range(First(all, Cap)) \subseteq Range(all) /\ (Len(all) <= Cap => First(all, Cap) = all)
      /\ Len(all) \in Nat
  <2> HIDE DEF all
  <2> QED BY <1>1, <1>4, FirstIs
<1> HIDE DEF m, all
<1>6. /\ Len(m.candidates) + m.cut = Len(all) /\ m.cut \in Nat /\ Len(m.candidates) \in Nat
      /\ m.cut = 0 => Len(all) <= Cap
  <2> DEFINE p == Len(First(all, Cap))
             q == Len(all)
  <2>1. p = (IF q < Cap THEN q ELSE Cap) /\ q \in Nat /\ m.cut = q - p /\ Len(m.candidates) = p
    BY <1>3, <1>5
  <2> HIDE DEF p, q
  <2>2. p \in Nat /\ q - p \in Nat /\ p + (q - p) = q /\ (q - p = 0 => q <= Cap)
    BY <1>4, <2>1
  <2> QED BY <2>1, <2>2 DEF q
<1>7. ASSUME m.candidates = <<>> PROVE m.nothing \/ g.notes # <<>> \/ m.dropped # {}
  <2>1. Len(First(all, Cap)) = 0
    BY <1>3, <1>7
  <2>2. Len(all) = 0
    BY <1>4, <1>5, <2>1
  <2>3. Range(all) = {}
    BY <1>1, <2>2 DEF Range
  <2>4. CASE Range(g.entities) # {}
    <3>1. PICK e \in Range(g.entities) : TRUE
      BY <2>4
    <3>2. e.observations = 0 /\ Range(g.relations) = {}
      BY <1>2, <2>3
    <3>3. e.name \in Dropped(g)
      BY <3>2 DEF Dropped, IsEndpoint
    <3> QED BY <1>3, <3>3
  <2>5. CASE Range(g.entities) = {}
    <3>1. g.entities = <<>>
      <4>1. g.entities \in Seq(Parsed)
        BY DEF Graphs
      <4> QED BY <2>5, <4>1, NothingIn
    <3>2. g.relations = <<>>
      <4>1. g.relations \in Seq(Line) /\ Range(g.relations) = {}
        BY <1>2, <2>3 DEF Graphs
      <4> QED BY <4>1, NothingIn
    <3> QED BY <1>3, <3>1, <3>2
  <2> QED BY <2>4, <2>5
<1> QED BY <1>3, <1>5, <1>6, <1>7 DEF m, all

\* A name arrives with an observation of an entity of its name or with a relation that names
\* it, and if nothing is cut it does.
Speaks(g, name) ==
    \/ \E e \in Range(g.entities) : e.observations # 0 /\ KeyOf(e.name) = KeyOf(name)
    \/ IsEndpoint(g, name)

LEMMA ArrivesIf ==
    ASSUME NEW g \in Graphs, NEW name
    PROVE  /\ Arrives(Mapped(g).candidates, name) => Speaks(g, name)
           /\ Mapped(g).cut = 0 /\ Speaks(g, name) => Arrives(Mapped(g).candidates, name)
<1> DEFINE all == AllCandidates(g)
           m == Mapped(g)
<1>1. /\ Range(m.candidates) \subseteq Range(all)
      /\ m.cut = 0 => m.candidates = all
  BY MappingTells
<1>2. \A c : c \in Range(all) <=>
        \/ \E e \in Range(g.entities) : e.observations # 0 /\ c = Told(e)
        \/ \E r \in Range(g.relations) : c = Edge(g, r)
  <2> HIDE DEF all
  <2> QED BY CandidatesAre DEF all
<1> HIDE DEF all, m
<1>3. /\ \A e : Told(e).subjects = {e.name}
      /\ \A r : Edge(g, r).subjects = {r.from, r.to}
  BY DEF Told, Edge
<1>4. ASSUME Arrives(m.candidates, name) PROVE Speaks(g, name)
  <2>1. PICK c \in Range(all) : \E n \in c.subjects : KeyOf(n) = KeyOf(name)
    BY <1>1, <1>4 DEF Arrives, Subjects
  <2>2. CASE \E e \in Range(g.entities) : e.observations # 0 /\ c = Told(e)
    BY <1>3, <2>1, <2>2 DEF Speaks
  <2>3. CASE \E r \in Range(g.relations) : c = Edge(g, r)
    BY <1>3, <2>1, <2>3 DEF Speaks, IsEndpoint
  <2> QED BY <1>2, <2>1, <2>2, <2>3
<1>5. ASSUME m.cut = 0, Speaks(g, name) PROVE Arrives(m.candidates, name)
  <2>1. \E c \in Range(all) : \E n \in c.subjects : KeyOf(n) = KeyOf(name)
    <3>1. CASE \E e \in Range(g.entities) : e.observations # 0 /\ KeyOf(e.name) = KeyOf(name)
      <4>1. PICK e \in Range(g.entities) : e.observations # 0 /\ KeyOf(e.name) = KeyOf(name)
        BY <3>1
      <4>2. Told(e) \in Range(all) /\ e.name \in Told(e).subjects
        BY <1>2, <1>3, <4>1
      <4> QED BY <4>1, <4>2
    <3>2. CASE IsEndpoint(g, name)
      <4>1. PICK r \in Range(g.relations) : KeyOf(name) \in {KeyOf(r.from), KeyOf(r.to)}
        BY <3>2 DEF IsEndpoint
      <4>2. Edge(g, r) \in Range(all) /\ r.from \in Edge(g, r).subjects /\ r.to \in Edge(g, r).subjects
        BY <1>2, <1>3, <4>1
      <4> QED BY <4>1, <4>2
    <3> QED BY <1>5, <3>1, <3>2 DEF Speaks
  <2> QED BY <1>1, <1>5, <2>1 DEF Arrives, Subjects
<1> QED BY <1>4, <1>5 DEF m

LEMMA EntitiesAre ==
    ASSUME NEW g \in Graphs
    PROVE  /\ Len(g.entities) \in Nat /\ \A i \in 1..Len(g.entities) : g.entities[i] \in Parsed
           /\ \A i \in 1..Len(g.entities) : g.entities[i] \in Range(g.entities)
           /\ \A e \in Range(g.entities) : \E i \in 1..Len(g.entities) : e = g.entities[i]
<1>1. g.entities \in Seq(Parsed)
  BY DEF Graphs
<1> QED BY <1>1 DEF Range

LEMMA FatesAreTold ==
    ASSUME NEW g \in Graphs, NEW i \in 1..Len(g.entities)
    PROVE  LET e == g.entities[i]
               m == Mapped(g)
           IN  /\ ~Arrives(m.candidates, e.name) => e.name \in m.dropped \/ m.cut > 0
               /\ e.name \in m.dropped /\ Arrives(m.candidates, e.name) =>
                    \E j \in 1..Len(g.entities) \ {i} : KeyOf(g.entities[j].name) = KeyOf(e.name)
<1> DEFINE e == g.entities[i]
           m == Mapped(g)
<1>1. m.dropped = Dropped(g) /\ m.cut \in Nat
  BY MappedIs, MappingTells
<1>2. /\ Arrives(m.candidates, e.name) => Speaks(g, e.name)
      /\ m.cut = 0 /\ Speaks(g, e.name) => Arrives(m.candidates, e.name)
  BY ArrivesIf
<1>3. e \in Range(g.entities) /\ e.observations \in Nat
  BY EntitiesAre DEF Parsed
<1> HIDE DEF m
<1>4. ASSUME ~Arrives(m.candidates, e.name), ~(m.cut > 0) PROVE e.name \in m.dropped
  <2>1. ~Speaks(g, e.name)
    BY <1>1, <1>2, <1>4
  <2>2. e.observations = 0 /\ ~IsEndpoint(g, e.name)
    BY <1>3, <2>1 DEF Speaks
  <2> QED BY <1>1, <1>3, <2>2 DEF Dropped
<1>5. ASSUME e.name \in m.dropped, Arrives(m.candidates, e.name)
      PROVE  \E j \in 1..Len(g.entities) \ {i} : KeyOf(g.entities[j].name) = KeyOf(e.name)
  <2>1. PICK f \in Range(g.entities) : f.observations = 0 /\ ~IsEndpoint(g, f.name) /\ f.name = e.name
    BY <1>1, <1>5 DEF Dropped
  <2>2. PICK h \in Range(g.entities) : h.observations # 0 /\ KeyOf(h.name) = KeyOf(e.name)
    BY <1>2, <1>5, <2>1 DEF Speaks
  <2>3. PICK j \in 1..Len(g.entities) : h = g.entities[j]
    BY EntitiesAre
  <2>4. PICK k \in 1..Len(g.entities) : f = g.entities[k]
    BY EntitiesAre
  <2>5. j # k
    BY <2>1, <2>2, <2>3, <2>4
  <2> QED BY <2>1, <2>2, <2>3, <2>4, <2>5
<1> QED BY <1>4, <1>5 DEF m

LEMMA LossIsForeseen ==
    ASSUME NEW g \in Graphs, Mapped(g).cut = 0,
           \A i, j \in 1..Len(g.entities) :
              KeyOf(g.entities[i].name) = KeyOf(g.entities[j].name) => i = j
    PROVE  Lost(Mapped(g), g) = Mapped(g).dropped
<1>1. Mapped(g).dropped = Dropped(g)
  BY MappedIs
<1>2. \A name : Arrives(Mapped(g).candidates, name) <=> Speaks(g, name)
  BY ArrivesIf
<1>3. ASSUME NEW e \in Range(g.entities), NEW f \in Range(g.entities), KeyOf(e.name) = KeyOf(f.name)
      PROVE  e = f
  <2>1. PICK i \in 1..Len(g.entities) : e = g.entities[i]
    BY EntitiesAre
  <2>2. PICK j \in 1..Len(g.entities) : f = g.entities[j]
    BY EntitiesAre
  <2> QED BY <1>3, <2>1, <2>2
<1>4. ASSUME NEW e \in Range(g.entities)
      PROVE  Arrives(Mapped(g).candidates, e.name) <=> ~(e.observations = 0 /\ ~IsEndpoint(g, e.name))
  BY <1>2, <1>3 DEF Speaks
<1> DEFINE m == Mapped(g)
<1> HIDE DEF m
<1>5. {n \in {e.name : e \in Range(g.entities)} : ~Arrives(m.candidates, n)} = Dropped(g)
  BY <1>4 DEF Dropped, m
<1> QED BY <1>1, <1>5 DEF Lost, m

LEMMA TypesArrive ==
    ASSUME NEW g \in Graphs, NEW e \in Range(g.entities), e.type # "",
           \A f \in Range(g.entities) : KeyOf(f.name) = KeyOf(e.name) => f.type = e.type,
           NEW c \in Range(Mapped(g).candidates), NEW n \in c.subjects, KeyOf(n) = KeyOf(e.name)
    PROVE  c.types[n] = e.type
<1>1. \/ \E h \in Range(g.entities) : c = Told(h)
      \/ \E r \in Range(g.relations) : c = Edge(g, r)
  <2>1. c \in Range(AllCandidates(g))
    BY MappingTells
  <2> HIDE DEF AllCandidates
  <2> QED BY <2>1, CandidatesAre
<1>2. CASE \E h \in Range(g.entities) : c = Told(h)
  <2>1. PICK h \in Range(g.entities) : c = Told(h)
    BY <1>2
  <2>2. n = h.name /\ c.types[n] = h.type
    BY <2>1 DEF Told
  <2> QED BY <2>2
<1>3. CASE \E r \in Range(g.relations) : c = Edge(g, r)
  <2>1. PICK r \in Range(g.relations) : c = Edge(g, r)
    BY <1>3
  <2>2. n \in {r.from, r.to} /\ c.types[n] = TypeOf(g, n)
    BY <2>1 DEF Edge
  <2> DEFINE typed == {i \in 1..Len(g.entities) :
                          g.entities[i].type # "" /\ KeyOf(g.entities[i].name) = KeyOf(n)}
             latest == CHOOSE i \in typed : \A j \in typed : j <= i
  <2>3. typed # {} /\ \A i \in typed : g.entities[i].type = e.type
    <3>1. PICK i \in 1..Len(g.entities) : e = g.entities[i]
      BY EntitiesAre
    <3>2. i \in typed
      BY <3>1
    <3>3. \A j \in typed : g.entities[j] \in Range(g.entities) /\ KeyOf(g.entities[j].name) = KeyOf(e.name)
      BY EntitiesAre
    <3> QED BY <3>2, <3>3
  <2>4. Len(g.entities) \in Nat /\ typed \subseteq 1..Len(g.entities)
    BY EntitiesAre
  <2>5. TypeOf(g, n) = IF typed = {} THEN "" ELSE g.entities[latest].type
    BY DEF TypeOf
  <2>6. latest \in typed
    <3> HIDE DEF typed
    <3>1. \E i \in typed : \A j \in typed : j <= i
      BY <2>3, <2>4, GreatestOf
    <3> QED BY <3>1
  <2> HIDE DEF typed, latest
  <2> QED BY <2>2, <2>3, <2>5, <2>6
<1> QED BY <1>1, <1>2, <1>3

Blank == [entities |-> <<>>, relations |-> <<>>, notes |-> <<>>, suppressed |-> 0, unmapped |-> 0]

MigrationInv ==
    /\ read \in Seq(Line) /\ graph \in Graphs /\ (read = <<>> => graph = Blank)
    /\ Len(graph.notes) + graph.suppressed >= Cardinality({i \in 1..Len(read) : Remarks(read[i]) # <<>>})
    /\ result # None => \/ result = Mapped(graph)
                        \/ result = Refusal /\ read = <<>> /\ graph = Blank /\ preview = None
    /\ preview # None => /\ preview.particles = Len(Mapped(graph).candidates)
                         /\ preview.lost = Lost(Mapped(graph), graph)

\* A refusal is a mapping of nothing that does not say "nothing".
LEMMA RefusalIs ==
    /\ Refusal.candidates = <<>> /\ Refusal.dropped = {} /\ Refusal.cut = 0
    /\ Refusal.lineNotes.lines = <<"refused">> /\ Refusal.lineNotes.more = 0
<1> DEFINE g == [entities |-> <<>>, relations |-> <<>>, notes |-> <<"refused">>,
                 suppressed |-> 0, unmapped |-> 0]
<1>1. Mapped(g) = [candidates |-> <<>>, lineNotes |-> [lines |-> <<"refused">>, more |-> 0],
                   dropped |-> {}, cut |-> 0, unplaced |-> 0, nothing |-> FALSE]
  BY DEF Mapped
<1> QED BY <1>1 DEF Refusal

\* What one line adds.
LEMMA RemarksAre ==
    ASSUME NEW line \in Line
    PROVE  Remarks(line) \in Seq(Words)
<1>0. <<>> \in Seq(Words) /\ <<"skipped">> \in Seq(Words)
  BY DEF Words
<1>1. CASE line.kind = "entity"
  <2>1. \E a, b \in Seq(Words) : Remarks(line) = a \o b
    <3>1. <<"trimmed">> \in Seq(Words) /\ <<"type ignored">> \in Seq(Words)
      BY DEF Words
    <3>2. /\ FALSE \in Range(line.observations) /\ line.type = "odd" =>
                Remarks(line) = <<"trimmed">> \o <<"type ignored">>
          /\ FALSE \in Range(line.observations) /\ line.type # "odd" =>
                Remarks(line) = <<"trimmed">> \o <<>>
          /\ FALSE \notin Range(line.observations) /\ line.type = "odd" =>
                Remarks(line) = <<>> \o <<"type ignored">>
          /\ FALSE \notin Range(line.observations) /\ line.type # "odd" =>
                Remarks(line) = <<>> \o <<>>
      BY <1>1 DEF Remarks
    <3> QED BY <1>0, <3>1, <3>2
  <2> QED BY <2>1
<1>2. CASE line.kind = "unreadable"
  BY <1>0, <1>2 DEF Remarks
<1>3. CASE line.kind \notin {"entity", "unreadable"}
  BY <1>0, <1>3 DEF Remarks
<1> QED BY <1>1, <1>2, <1>3

LEMMA KeptIs ==
    ASSUME NEW g \in Graphs, NEW line \in Line
    PROVE  /\ Kept(g, line) \in Graphs /\ Kept(g, line).notes = g.notes
           /\ Kept(g, line).suppressed = g.suppressed
<1>1. line.kind = "entity" => Entity(line) \in Parsed
  <2> SUFFICES ASSUME line.kind = "entity" PROVE Entity(line) \in Parsed
    OBVIOUS
  <2>1. line.observations \in Seq(BOOLEAN) /\ line \in Described
    BY MigrationAssumption DEF Described
  <2> DEFINE told == {i \in DOMAIN line.observations : line.observations[i]}
             type == IF line.type = "odd" THEN "" ELSE line.type
  <2>2. Cardinality(told) \in Nat
    <3>1. Len(line.observations) \in Nat /\ DOMAIN line.observations = 1..Len(line.observations)
      BY <2>1
    <3>2. IsFiniteSet(1..Len(line.observations)) /\ told \subseteq 1..Len(line.observations)
      BY <3>1, FS_Interval
    <3> HIDE DEF told
    <3> QED BY <3>2, FS_Subset, FS_CardinalityType
  <2>3. type \in {""} \cup {l.type : l \in Described}
    BY <2>1
  <2>4. Entity(line) = [name |-> line.name, type |-> type, observations |-> Cardinality(told)]
    BY DEF Entity
  <2>5. line.name \in {l.name : l \in Described}
    BY <2>1
  <2> DEFINE n == Cardinality(told)
  <2>6. Entity(line) = [name |-> line.name, type |-> type, observations |-> n] /\ n \in Nat
    BY <2>2, <2>4
  <2> DEFINE N == {l.name : l \in Described}
             T == {""} \cup {l.type : l \in Described}
  <2>7. line.name \in N /\ type \in T /\ Parsed = [name : N, type : T, observations : Nat]
    BY <2>3, <2>5 DEF Parsed
  <2> HIDE DEF n, type, N, T
  <2> QED BY <2>6, <2>7
<1> DEFINE E == IF line.kind = "entity" THEN Append(g.entities, Entity(line)) ELSE g.entities
           R == IF line.kind = "relation" THEN Append(g.relations, line) ELSE g.relations
           U == IF IsRecord(line) /\ line.extra THEN g.unmapped + 1 ELSE g.unmapped
<1>2. E \in Seq(Parsed)
  <2>1. g.entities \in Seq(Parsed)
    BY DEF Graphs
  <2>2. CASE line.kind = "entity"
    BY <1>1, <2>1, <2>2
  <2>3. CASE line.kind # "entity"
    BY <2>1, <2>3
  <2> QED BY <2>2, <2>3
<1>3. R \in Seq(Line)
  <2>1. g.relations \in Seq(Line)
    BY DEF Graphs
  <2>2. CASE line.kind = "relation"
    BY <2>1, <2>2
  <2>3. CASE line.kind # "relation"
    BY <2>1, <2>3
  <2> QED BY <2>2, <2>3
<1>4. U \in Nat
  BY DEF Graphs
<1>5. Kept(g, line) = [[[g EXCEPT !.entities = E] EXCEPT !.relations = R] EXCEPT !.unmapped = U]
  BY DEF Kept
<1> HIDE DEF E, R, U
<1>6. /\ Kept(g, line).entities = E /\ Kept(g, line).relations = R /\ Kept(g, line).unmapped = U
      /\ Kept(g, line).notes = g.notes /\ Kept(g, line).suppressed = g.suppressed
      /\ Kept(g, line) \in Graphs
  BY <1>2, <1>3, <1>4, <1>5 DEF Graphs
<1> QED BY <1>6

LEMMA JottedIs ==
    ASSUME NEW g \in Graphs, NEW texts \in Seq(Words)
    PROVE  /\ Jotted(g, texts) \in Graphs
           /\ Len(Jotted(g, texts).notes) + Jotted(g, texts).suppressed =
              Len(g.notes) + g.suppressed + Len(texts)
<1> DEFINE all == g.notes \o texts
           some == First(all, NoteCap)
           more == g.suppressed + Len(all) - Len(some)
<1>1. /\ all \in Seq(Words) /\ Len(all) = Len(g.notes) + Len(texts)
      /\ Len(g.notes) \in Nat /\ Len(texts) \in Nat /\ g.suppressed \in Nat /\ NoteCap \in Nat
  BY MigrationAssumption DEF Graphs
<1>2. Jotted(g, texts) = [g EXCEPT !.notes = some, !.suppressed = more]
  BY DEF Jotted
<1> HIDE DEF all
<1>3. some \in Seq(Words) /\ Len(some) = (IF Len(all) < NoteCap THEN Len(all) ELSE NoteCap)
  BY <1>1, FirstIs
<1> HIDE DEF some
<1>4. more \in Nat /\ Len(some) + more = Len(g.notes) + g.suppressed + Len(texts)
  <2> DEFINE s == Len(some)
             t == Len(all)
             u == g.suppressed
             v == Len(g.notes)
             w == Len(texts)
  <2>1. /\ t = v + w /\ v \in Nat /\ w \in Nat /\ u \in Nat /\ NoteCap \in Nat
        /\ s = (IF t < NoteCap THEN t ELSE NoteCap) /\ more = u + t - s
    BY <1>1, <1>3
  <2> HIDE DEF s, t, u, v, w, more
  <2>2. more \in Nat /\ s + more = v + u + w
    BY <2>1
  <2> QED BY <2>2 DEF s, u, v, w
<1> HIDE DEF more
<1>5. Jotted(g, texts) \in Graphs /\ Jotted(g, texts).notes = some /\ Jotted(g, texts).suppressed = more
  BY <1>2, <1>3, <1>4 DEF Graphs
<1> QED BY <1>4, <1>5

LEMMA MigrationStarts == ASSUME MigrationInit PROVE MigrationInv
<1>1. read = <<>> /\ graph = Blank /\ result = None /\ preview = None
  BY DEF MigrationInit, Blank
<1>2. Blank \in Graphs /\ Len(Blank.notes) + Blank.suppressed = 0
  BY DEF Blank, Graphs
<1>3. {i \in 1..Len(read) : Remarks(read[i]) # <<>>} = {}
  BY <1>1
<1>4. Cardinality({i \in 1..Len(read) : Remarks(read[i]) # <<>>}) = 0
  BY <1>3, FS_EmptySet
<1> QED BY <1>1, <1>2, <1>4 DEF MigrationInv

LEMMA ReadLineTells == ASSUME MigrationInv, NEW line \in Line, ReadLine(line) PROVE MigrationInv'
<1> DEFINE said == {i \in 1..Len(read) : Remarks(read[i]) # <<>>}
           g == Kept(graph, line)
           texts == Remarks(line)
<1>1. /\ result = None /\ preview = None /\ result' = None /\ preview' = None
      /\ read' = Append(read, line) /\ graph' = Jotted(g, texts)
  BY DEF ReadLine
<1>2. g \in Graphs /\ g.notes = graph.notes /\ g.suppressed = graph.suppressed
  BY KeptIs DEF MigrationInv
<1>3. texts \in Seq(Words)
  BY RemarksAre
<1> HIDE DEF g, texts
<1>4. /\ graph' \in Graphs
      /\ Len(graph'.notes) + graph'.suppressed = Len(graph.notes) + graph.suppressed + Len(texts)
  BY <1>1, <1>2, <1>3, JottedIs
<1>5. /\ read' \in Seq(Line) /\ Len(read') = Len(read) + 1 /\ Len(read) \in Nat
      /\ \A i \in 1..Len(read) : read'[i] = read[i]
      /\ read'[Len(read) + 1] = line
  BY <1>1 DEF MigrationInv
<1>6. said' = IF texts = <<>> THEN said ELSE said \cup {Len(read) + 1}
  BY <1>5 DEF texts
<1>7. IsFiniteSet(said) /\ Cardinality(said) \in Nat /\ Len(read) + 1 \notin said
  <2> DEFINE n == Len(read)
  <2>1. n \in Nat /\ said \subseteq 1..n
    BY <1>5
  <2> HIDE DEF said, n
  <2>2. IsFiniteSet(1..n) /\ n + 1 \notin 1..n
    BY <2>1, FS_Interval
  <2>3. IsFiniteSet(said) /\ n + 1 \notin said
    BY <2>1, <2>2, FS_Subset
  <2> QED BY <2>3, FS_CardinalityType DEF n
<1>8. Cardinality(said') <= Cardinality(said) + Len(texts)
  <2> DEFINE S == said
             k == Len(read) + 1
             Tt == said'
             t == Len(texts)
  <2>1. /\ IsFiniteSet(S) /\ Cardinality(S) \in Nat /\ k \notin S
        /\ (texts = <<>> => Tt = S) /\ (texts # <<>> => Tt = S \cup {k})
    BY <1>6, <1>7
  <2>2. t \in Nat /\ (texts # <<>> => t >= 1)
    BY <1>3
  <2> HIDE DEF S, k, Tt, t
  <2>3. Cardinality(S \cup {k}) = Cardinality(S) + 1
    BY <2>1, FS_AddElement
  <2>4. ASSUME texts = <<>> PROVE Cardinality(Tt) <= Cardinality(S) + t
    BY <2>1, <2>2, <2>4
  <2>5. ASSUME texts # <<>> PROVE Cardinality(Tt) <= Cardinality(S) + t
    <3>1. Cardinality(Tt) = Cardinality(S) + 1
      BY <2>1, <2>3, <2>5
    <3> DEFINE c == Cardinality(S)
    <3>2. Cardinality(Tt) = c + 1 /\ c \in Nat
      BY <2>1, <3>1
    <3> HIDE DEF c
    <3>3. Cardinality(Tt) <= c + t
      BY <2>2, <2>5, <3>2
    <3> QED BY <3>3 DEF c
  <2> QED BY <2>4, <2>5 DEF S, Tt, t
<1>9. Len(graph'.notes) + graph'.suppressed >= Cardinality(said')
  <2> DEFINE a == Len(graph.notes) + graph.suppressed
             b == Len(graph'.notes) + graph'.suppressed
             c == Cardinality(said)
             d == Cardinality(said')
             t == Len(texts)
  <2>1. a >= c
    BY DEF MigrationInv
  <2>2. a \in Nat /\ c \in Nat /\ t \in Nat
    <3>1. graph.notes \in Seq(Words) /\ graph.suppressed \in Nat
      BY DEF MigrationInv, Graphs
    <3>2. Len(graph.notes) \in Nat /\ Len(texts) \in Nat
      BY <1>3, <3>1
    <3> QED BY <1>7, <3>1, <3>2
  <2>3. d \in Nat
    <3> DEFINE S == said
               k == Len(read) + 1
    <3>0. IsFiniteSet(S) /\ (said' = S \/ said' = S \cup {k})
      BY <1>6, <1>7
    <3> HIDE DEF S, k
    <3>1. IsFiniteSet(said')
      BY <3>0, FS_AddElement
    <3> HIDE DEF said
    <3> QED BY <3>1, FS_CardinalityType
  <2>4. b = a + t /\ d <= c + t
    BY <1>4, <1>8
  <2> HIDE DEF a, b, c, d, t
  <2>5. b >= d
    BY <2>1, <2>2, <2>3, <2>4
  <2> QED BY <2>5 DEF b, d
<1>10. read' # <<>>
  BY <1>5
<1> HIDE DEF said
<1> QED BY <1>1, <1>4, <1>5, <1>9, <1>10 DEF MigrationInv, said

LEMMA MigrationTells == ASSUME MigrationInv, [MigrationNext]_migrationVars PROVE MigrationInv'
<1>1. CASE \E line \in Line : ReadLine(line)
  BY <1>1, ReadLineTells
<1>2. CASE DryRun
  BY <1>2 DEF DryRun, MigrationInv
<1>3. CASE Import
  BY <1>3 DEF Import, MigrationInv
<1>4. CASE Refuse
  <2>1. graph = Blank
    BY <1>4 DEF Refuse, MigrationInv
  <2> QED BY <1>4, <2>1 DEF Refuse, MigrationInv
<1>5. CASE UNCHANGED migrationVars
  BY <1>5 DEF migrationVars, MigrationInv
<1> QED BY <1>1, <1>2, <1>3, <1>4, <1>5 DEF MigrationNext

LEMMA DisclosedIf == ASSUME MigrationInv PROVE MigrationIsDisclosed
<1> DEFINE m == Mapped(graph)
           all == AllCandidates(graph)
<1>1. graph \in Graphs
  BY DEF MigrationInv
<1>2. /\ m.lineNotes.lines = graph.notes /\ m.lineNotes.more = graph.suppressed
      /\ m.dropped = Dropped(graph)
  BY <1>1, MappedIs
<1>3. ASSUME result # None, result # m
      PROVE  /\ result = Refusal /\ read = <<>> /\ graph = Blank /\ preview = None
             /\ result.candidates = <<>> /\ result.dropped = {} /\ result.cut = 0
             /\ result.lineNotes.lines = <<"refused">> /\ result.lineNotes.more = 0
             /\ Len(graph.entities) = 0 /\ Range(graph.entities) = {}
  <2>1. result = Refusal /\ read = <<>> /\ graph = Blank /\ preview = None
    BY <1>3 DEF MigrationInv
  <2>2. Len(graph.entities) = 0 /\ Range(graph.entities) = {}
    BY <2>1 DEF Blank, Range
  <2> QED BY <2>1, <2>2, RefusalIs
<1>4. NothingLeftUnsaid
  <2> SUFFICES ASSUME result # None
               PROVE  /\ Len(result.lineNotes.lines) + result.lineNotes.more >=
                            Cardinality({i \in 1..Len(read) : Remarks(read[i]) # <<>>})
                      /\ result.candidates = <<>> =>
                            result.nothing \/ result.lineNotes.lines # <<>> \/ result.dropped # {}
                      /\ Len(result.candidates) + result.cut = Len(all)
    BY DEF NothingLeftUnsaid
  <2>1. CASE result = m
    <3>1. /\ Len(m.candidates) + m.cut = Len(all)
          /\ m.candidates = <<>> => m.nothing \/ graph.notes # <<>> \/ m.dropped # {}
      BY <1>1, MappingTells
    <3> HIDE DEF m, all
    <3> QED BY <1>2, <2>1, <3>1 DEF MigrationInv
  <2>2. CASE result # m
    <3>1. {i \in 1..Len(read) : Remarks(read[i]) # <<>>} = {}
      BY <1>3, <2>2
    <3>2. Cardinality({i \in 1..Len(read) : Remarks(read[i]) # <<>>}) = 0
      BY <3>1, FS_EmptySet
    <3>3. Len(all) = 0
      <4>1. /\ Range(graph.entities) = {} /\ Range(graph.relations) = {}
        BY <1>3, <2>2 DEF Blank, Range
      <4>2. PICK S : all \in Seq(S) /\ Range(all) = {}
        BY <1>1, <4>1, CandidatesAre
      <4> HIDE DEF all
      <4> QED BY <4>2, NothingIn
    <3>4. Len(result.candidates) = 0 /\ Len(result.lineNotes.lines) = 1 /\ result.lineNotes.lines # <<>>
      <4>1. result.candidates = <<>> /\ result.lineNotes.lines = <<"refused">>
        BY <1>3, <2>2
      <4>2. Len(<<>>) = 0 /\ Len(<<"refused">>) = 1 /\ <<"refused">> # <<>>
        OBVIOUS
      <4> QED BY <4>1, <4>2
    <3> HIDE DEF m, all
    <3> QED BY <1>3, <2>2, <3>2, <3>3, <3>4
  <2> QED BY <2>1, <2>2
<1>5. FateIsDisclosed
  <2> SUFFICES ASSUME result # None, NEW i \in 1..Len(graph.entities)
               PROVE  LET e == graph.entities[i]
                      IN  /\ ~Arrives(result.candidates, e.name) =>
                                e.name \in result.dropped \/ result.cut > 0
                          /\ e.name \in result.dropped /\ Arrives(result.candidates, e.name) =>
                                \E j \in 1..Len(graph.entities) \ {i} :
                                   KeyOf(graph.entities[j].name) = KeyOf(e.name)
    BY DEF FateIsDisclosed
  <2>1. CASE result = m
    BY <1>1, <2>1, FatesAreTold
  <2>2. CASE result # m
    BY <1>3, <2>2
  <2> QED BY <2>1, <2>2
<1>6. PreviewIsTheImport
  <2> SUFFICES ASSUME preview # None, result # None
               PROVE  /\ preview.particles = Len(result.candidates)
                      /\ result.cut = 0 /\ (\A i, j \in 1..Len(graph.entities) :
                            KeyOf(graph.entities[i].name) = KeyOf(graph.entities[j].name) => i = j) =>
                         preview.lost = result.dropped
    BY DEF PreviewIsTheImport
  <2>1. result = m
    BY <1>3
  <2>2. preview.particles = Len(m.candidates) /\ preview.lost = Lost(m, graph)
    BY DEF MigrationInv
  <2> QED BY <1>1, <2>1, <2>2, LossIsForeseen
<1>7. TypeArrives
  <2> SUFFICES ASSUME result # None, NEW e \in Range(graph.entities),
                      NEW c \in Range(result.candidates), NEW n \in c.subjects,
                      e.type # "", KeyOf(n) = KeyOf(e.name),
                      \A f \in Range(graph.entities) : KeyOf(f.name) = KeyOf(e.name) => f.type = e.type
               PROVE  c.types[n] = e.type
    BY DEF TypeArrives
  <2>1. result = m
    BY <1>3
  <2> QED BY <1>1, <2>1, TypesArrive
<1> QED BY <1>4, <1>5, <1>6, <1>7 DEF MigrationIsDisclosed

\* The inductive invariant of a takeover: what was read is in the graph or remarked on, and
\* an import and its dry run are the mapping of that graph.
THEOREM MigrationIsInvariant == MigrationSpec => []MigrationInv
<1>1. MigrationInit => MigrationInv
  BY MigrationStarts
<1>2. MigrationInv /\ [MigrationNext]_migrationVars => MigrationInv'
  BY MigrationTells
<1> QED BY <1>1, <1>2, PTL DEF MigrationSpec

\* Of all it leaves behind an import says so, and its dry run says beforehand what it will do
\* (parse_memory_jsonl, map_graph, build_preview).
THEOREM MigrationsAreDisclosed == MigrationSpec => []MigrationIsDisclosed
<1>1. MigrationInv => MigrationIsDisclosed
  BY DisclosedIf
<1> QED BY <1>1, MigrationIsInvariant, PTL

-----------------------------------------------------------------------------
(* Conformance.                                                                    *)

\* Particles can be counted.
IsList(ps) == ps \in Seq(ToSet(ps))

\* What a fixture's directory can hold.
Directory == [made : BOOLEAN, type : SUBSET Type, content : SUBSET Content, snapshot : SUBSET Content]

\* A file more in a directory.
LEMMA DirectoryMade ==
    ASSUME NEW d \in Directory
    PROVE  /\ [d EXCEPT !.made = TRUE] \in Directory
           /\ Whole(d) => Whole([d EXCEPT !.made = TRUE])
  BY DEF Directory, Whole

LEMMA ManifestWritten ==
    ASSUME NEW d \in Directory, NEW t \in Type
    PROVE  /\ [d EXCEPT !.type = {t}] \in Directory
           /\ Whole(d) => Whole([d EXCEPT !.type = {t}])
           /\ [d EXCEPT !.type = {t}].type # {}
  BY DEF Directory, Whole

LEMMA ContentWritten ==
    ASSUME NEW d \in Directory, NEW c \in Content
    PROVE  /\ [d EXCEPT !.content = {c}] \in Directory
           /\ Whole(d) => Whole([d EXCEPT !.content = {c}])
           /\ [d EXCEPT !.content = {c}].content # {}
           /\ d.type # {} => [d EXCEPT !.content = {c}].type # {}
  BY DEF Directory, Whole

LEMMA SnapshotWritten ==
    ASSUME NEW d \in Directory, NEW c \in Content
    PROVE  /\ [d EXCEPT !.snapshot = {c}] \in Directory
           /\ Whole(d) => Whole([d EXCEPT !.snapshot = {c}])
           /\ [d EXCEPT !.snapshot = {c}].snapshot # {}
           /\ d.type # {} => [d EXCEPT !.snapshot = {c}].type # {}
           /\ d.content # {} => [d EXCEPT !.snapshot = {c}].content # {}
  BY DEF Directory, Whole

ConformanceInv ==
    /\ inventory \subseteq Id /\ \A i \in inventory : Whole(shelf[i])
    /\ shelf \in [Id -> Directory]
    /\ gen # Idle =>
          /\ gen \in [at : {"manifest", "content", "snapshot", "inventory"}, id : Id, type : Type,
                      content : Content]
          /\ gen.at \in {"content", "snapshot", "inventory"} => shelf[gen.id].type # {}
          /\ gen.at \in {"snapshot", "inventory"} => shelf[gen.id].content # {}
          /\ gen.at = "inventory" => shelf[gen.id].snapshot # {}
    /\ last # NoReport => IsList(last.particles) /\ last.stats = Stats(last.particles)

\* The particles of a run, one fixture's after another's.
LEMMA RunsAre ==
    ASSUME NEW is \in SUBSET Id, NEW ps \in Runs(is)
    PROVE  IsList(ps)
<1> DEFINE order == SetToSeq(is)
<1>1. PICK out \in [is -> (UNION {Emits[c] : c \in Content}) \cup {<<>>}] :
          ps = FlattenSeq([k \in DOMAIN order |-> out[order[k]]])
  BY DEF Runs
<1>2. order \in Seq(is)
  <2>1. IsFiniteSet(is)
    BY ConformanceAssumption, FS_Subset
  <2>2. Cardinality(is) \in Nat /\ ExistsBijection(1..Cardinality(is), is)
    BY <2>1, FS_CardinalityType
  <2>3. \E f \in [1..Cardinality(is) -> is] : IsInjective(f)
    BY <2>2 DEF ExistsBijection, Bijection, Injection
  <2>4. order \in [1..Cardinality(is) -> is]
    BY <2>3 DEF SetToSeq
  <2> HIDE DEF order
  <2> QED BY <2>2, <2>4
<1> HIDE DEF order
<1> DEFINE ss == [k \in DOMAIN order |-> out[order[k]]]
           S == UNION {ToSet(out[i]) : i \in is}
<1>3. \A i \in is : out[i] \in Seq(S)
  <2> TAKE i \in is
  <2>1. out[i] \in Seq(ToSet(out[i]))
    <3>1. out[i] \in UNION {Emits[c] : c \in Content} \/ out[i] = <<>>
      BY <1>1
    <3>2. CASE out[i] = <<>>
      BY <3>2
    <3>3. CASE out[i] \in UNION {Emits[c] : c \in Content}
      BY <3>3, ConformanceAssumption
    <3> QED BY <3>1, <3>2, <3>3
  <2>2. ToSet(out[i]) \subseteq S
    OBVIOUS
  <2> HIDE DEF S
  <2> QED BY <2>1, <2>2
<1> HIDE DEF S
<1>4. ss \in Seq(Seq(S))
  <2>1. Len(order) \in Nat /\ DOMAIN order = 1..Len(order) /\ \A k \in 1..Len(order) : order[k] \in is
    BY <1>2
  <2> QED BY <1>3, <2>1
<1> HIDE DEF ss
<1>5. ps \in Seq(S)
  BY <1>1, <1>4, FlattenIs DEF ss
<1> QED BY <1>5 DEF IsList, ToSet

\* A required field fails a measured particle exactly if one is short of it.
LEMMA ShortfallFails ==
    ASSUME NEW ps, IsList(ps), NEW f \in Field, Tier(f) = "REQUIRED"
    PROVE  LET s == FieldStat(f, ps)
           IN  /\ s.field = f
               /\ s.total > 0 /\ ~s.passes <=>
                  \E k \in DOMAIN ps : ~Exempt(f, ps[k]) /\ f \notin ps[k].filled
<1> DEFINE on == Measured(f, ps)
           had == Populated(f, ps)
           t == Cardinality(on)
           p == Cardinality(had)
<1>1. IsFiniteSet(DOMAIN ps)
  <2>1. Len(ps) \in Nat /\ DOMAIN ps = 1..Len(ps)
    BY DEF IsList
  <2> QED BY <2>1, FS_Interval
<1>2. on \subseteq DOMAIN ps /\ had \subseteq on
  BY DEF Measured, Populated
<1>3. (\E k \in DOMAIN ps : ~Exempt(f, ps[k]) /\ f \notin ps[k].filled) <=> had # on
  BY DEF Measured, Populated
<1> HIDE DEF on, had
<1>4. IsFiniteSet(on) /\ t \in Nat /\ IsFiniteSet(had) /\ p \in Nat
  BY <1>1, <1>2, FS_Subset, FS_CardinalityType
<1>5. had = on <=> p = t
  BY <1>2, <1>4, FS_Subset
<1>6. t = 0 => had = on
  <2> SUFFICES ASSUME t = 0 PROVE had = on
    OBVIOUS
  <2>1. on = {}
    BY <1>4, FS_EmptySet
  <2> QED BY <1>2, <2>1
<1> DEFINE s == FieldStat(f, ps)
<1>7. s.field = f /\ s.total = t /\ (t # 0 => s.passes = (p = t))
  <2> HIDE DEF t, p
  <2>1. t # 0 /\ t \in Nat /\ p \in Nat => s.passes = (p = t)
    BY DEF FieldStat, Severity, t, p, on, had
  <2> QED BY <1>4, <2>1 DEF FieldStat, t, p, on
<1> HIDE DEF t, p, s
<1>8. t > 0 <=> t # 0
  BY <1>4
<1> QED BY <1>3, <1>5, <1>6, <1>7, <1>8 DEF s

LEMMA WitnessedIf == ASSUME ConformanceInv PROVE VerdictsAreWitnessed
<1>1. InventoryIsOnDisk
  BY DEF ConformanceInv, InventoryIsOnDisk
<1>2. ASSUME last # NoReport
      PROVE  (\E s \in Failures(last.stats) : s.total > 0) <=>
             \E k \in DOMAIN last.particles, f \in Field :
                Tier(f) = "REQUIRED" /\ ~Exempt(f, last.particles[k]) /\ f \notin last.particles[k].filled
  <2> DEFINE ps == last.particles
  <2>1. IsList(ps) /\ last.stats = Stats(ps)
    BY <1>2 DEF ConformanceInv
  <2>2. \A f \in Field : FieldStat(f, ps).field = f
    BY DEF FieldStat
  <2>3. \A f \in Field : Tier(f) = "REQUIRED" =>
           (FieldStat(f, ps).total > 0 /\ ~FieldStat(f, ps).passes <=>
            \E k \in DOMAIN ps : ~Exempt(f, ps[k]) /\ f \notin ps[k].filled)
    BY <2>1, ShortfallFails
  <2> HIDE DEF ps
  <2>4. (\E s \in Failures(last.stats) : s.total > 0) <=>
        \E f \in Field : Tier(f) = "REQUIRED" /\ FieldStat(f, ps).total > 0 /\ ~FieldStat(f, ps).passes
    BY <2>1, <2>2 DEF Failures, Stats
  <2> QED BY <2>3, <2>4 DEF ps
<1> QED BY <1>1, <1>2 DEF VerdictsAreWitnessed, FailureHasWitness

LEMMA ConformanceStarts == ASSUME CInit PROVE ConformanceInv
  BY DEF CInit, ConformanceInv, Absent, Directory

LEMMA ConformanceStep == ASSUME ConformanceInv, [CNext]_corpus PROVE ConformanceInv'
<1>1. ASSUME NEW i \in Id, NEW t \in Type, Retype(i, t) PROVE ConformanceInv'
  <2> DEFINE d == [shelf[i] EXCEPT !.type = {t}]
  <2>1. shelf' = [shelf EXCEPT ![i] = d] /\ UNCHANGED <<inventory, gen, last>> /\ gen = Idle
    BY <1>1 DEF Retype
  <2>2. shelf[i] \in Directory /\ shelf \in [Id -> Directory] /\ inventory \subseteq Id
    BY DEF ConformanceInv
  <2>3. d \in Directory /\ (Whole(shelf[i]) => Whole(d))
    BY <2>2, ManifestWritten
  <2> HIDE DEF d
  <2>4. shelf' \in [Id -> Directory] /\ \A j \in Id : Whole(shelf[j]) => Whole(shelf'[j])
    BY <2>1, <2>2, <2>3
  <2> QED BY <2>1, <2>2, <2>4 DEF ConformanceInv
<1>2. ASSUME NEW i \in Id, NEW t \in Type, NEW c \in Content, NEW f \in BOOLEAN, Generate(i, t, c, f)
      PROVE  ConformanceInv'
  <2>1. /\ shelf' = [shelf EXCEPT ![i].made = TRUE]
        /\ gen' = [at |-> "manifest", id |-> i, type |-> t, content |-> c]
        /\ UNCHANGED <<inventory, last>>
    BY <1>2 DEF Generate
  <2>2. shelf[i] \in Directory /\ shelf \in [Id -> Directory]
    BY DEF ConformanceInv
  <2> DEFINE d == [shelf[i] EXCEPT !.made = TRUE]
  <2>3. d \in Directory /\ (Whole(shelf[i]) => Whole(d))
    BY <2>2, DirectoryMade
  <2>4. shelf' = [shelf EXCEPT ![i] = d]
    BY <2>1
  <2> HIDE DEF d
  <2>5. shelf' \in [Id -> Directory] /\ \A j \in Id : Whole(shelf[j]) => Whole(shelf'[j])
    BY <2>2, <2>3, <2>4
  <2> QED BY <2>1, <2>5 DEF ConformanceInv
<1>3. ASSUME WriteNext PROVE ConformanceInv'
  <2> DEFINE i == gen.id
  <2>1. /\ gen.at \in {"manifest", "content", "snapshot"} /\ i \in Id /\ gen # Idle
        /\ gen.type \in Type /\ gen.content \in Content
        /\ UNCHANGED <<inventory, last>> /\ inventory \subseteq Id
    BY <1>3 DEF WriteNext, Following, ConformanceInv, Idle
  <2>2. shelf[i] \in Directory /\ shelf \in [Id -> Directory]
    BY <2>1 DEF ConformanceInv
  <2>3. gen' = [gen EXCEPT !.at = Following[gen.at]]
    BY <1>3 DEF WriteNext
  <2>4. /\ gen'.at = Following[gen.at] /\ gen'.id = i
        /\ gen' \in [at : {"manifest", "content", "snapshot", "inventory"}, id : Id, type : Type,
                     content : Content]
    BY <2>1, <2>3 DEF ConformanceInv, Following
  <2>5. ASSUME NEW d \in Directory, shelf' = [shelf EXCEPT ![i] = d], Whole(shelf[i]) => Whole(d),
               gen'.at \in {"content", "snapshot", "inventory"} => d.type # {},
               gen'.at \in {"snapshot", "inventory"} => d.content # {},
               gen'.at = "inventory" => d.snapshot # {}
        PROVE  ConformanceInv'
    <3>1. /\ shelf' \in [Id -> Directory] /\ shelf'[i] = d
          /\ \A j \in Id : Whole(shelf[j]) => Whole(shelf'[j])
      BY <2>1, <2>2, <2>5
    <3> QED BY <2>1, <2>4, <2>5, <3>1 DEF ConformanceInv
  <2>6. CASE gen.at = "manifest"
    <3>1. shelf' = [shelf EXCEPT ![i] = [shelf[i] EXCEPT !.type = {gen.type}]] /\ gen'.at = "content"
      BY <1>3, <2>2, <2>4, <2>6 DEF WriteNext, Following
    <3> DEFINE d == [shelf[i] EXCEPT !.type = {gen.type}]
    <3>2. d \in Directory /\ (Whole(shelf[i]) => Whole(d)) /\ d.type # {}
      BY <2>1, <2>2, <3>1, ManifestWritten
    <3>3. shelf' = [shelf EXCEPT ![i] = d]
      BY <3>1
    <3> HIDE DEF d
    <3> QED BY <2>5, <3>1, <3>2, <3>3
  <2>7. CASE gen.at = "content"
    <3>1. /\ shelf' = [shelf EXCEPT ![i] = [shelf[i] EXCEPT !.content = {gen.content}]]
          /\ gen'.at = "snapshot" /\ shelf[i].type # {}
      BY <1>3, <2>1, <2>2, <2>4, <2>7 DEF WriteNext, Following, ConformanceInv
    <3> DEFINE d == [shelf[i] EXCEPT !.content = {gen.content}]
    <3>2. d \in Directory /\ (Whole(shelf[i]) => Whole(d)) /\ d.type # {} /\ d.content # {}
      BY <2>1, <2>2, <3>1, ContentWritten
    <3>3. shelf' = [shelf EXCEPT ![i] = d]
      BY <3>1
    <3> HIDE DEF d
    <3> QED BY <2>5, <3>1, <3>2, <3>3
  <2>8. CASE gen.at = "snapshot"
    <3>1. /\ shelf' = [shelf EXCEPT ![i] = [shelf[i] EXCEPT !.snapshot = {gen.content}]]
          /\ gen'.at = "inventory" /\ shelf[i].type # {} /\ shelf[i].content # {}
      BY <1>3, <2>1, <2>2, <2>4, <2>8 DEF WriteNext, Following, ConformanceInv
    <3> DEFINE d == [shelf[i] EXCEPT !.snapshot = {gen.content}]
    <3>2. d \in Directory /\ (Whole(shelf[i]) => Whole(d)) /\ d.type # {} /\ d.content # {} /\ d.snapshot # {}
      BY <2>1, <2>2, <3>1, SnapshotWritten
    <3>3. shelf' = [shelf EXCEPT ![i] = d]
      BY <3>1
    <3> HIDE DEF d
    <3> QED BY <2>5, <3>1, <3>2, <3>3
  <2> QED BY <2>1, <2>6, <2>7, <2>8
<1>4. ASSUME Register PROVE ConformanceInv'
  BY <1>4 DEF Register, ConformanceInv, Whole, IsList, Idle
<1>5. ASSUME Kill PROVE ConformanceInv'
  BY <1>5 DEF Kill, ConformanceInv, Whole, IsList
<1>6. ASSUME NEW e \in ToSet(Registry), NEW all \in BOOLEAN, Validate(e, all) PROVE ConformanceInv'
  <2>1. SelectFixtures(e, all) \subseteq Id
    BY DEF SelectFixtures, Fixtures
  <2>2. PICK ps \in Runs(SelectFixtures(e, all)) :
           last'.particles = ps /\ last'.stats = Stats(ps) /\ UNCHANGED <<shelf, inventory, gen>>
    BY <1>6 DEF Validate
  <2>3. IsList(ps)
    BY <2>1, <2>2, RunsAre
  <2> QED BY <2>2, <2>3 DEF ConformanceInv, Whole, IsList
<1>7. ASSUME UNCHANGED corpus PROVE ConformanceInv'
  BY <1>7 DEF corpus, ConformanceInv, Whole, IsList
<1> QED BY <1>1, <1>2, <1>3, <1>4, <1>5, <1>6, <1>7 DEF CNext

\* The inductive invariant of the corpus: a generation under way has written what comes
\* before its step, and a report's statistics are those of its particles.
THEOREM ConformanceIsInvariant == ConformanceSpec => []ConformanceInv
<1>1. CInit => ConformanceInv
  BY ConformanceStarts
<1>2. ConformanceInv /\ [CNext]_corpus => ConformanceInv'
  BY ConformanceStep
<1> QED BY <1>1, <1>2, PTL DEF ConformanceSpec

\* The inventory lists whole fixtures wherever a generation is killed, and a required field
\* fails exactly for a particle that is short of it (write_fixture, _compute_field_stat).
THEOREM VerdictsHaveWitnesses == ConformanceSpec => []VerdictsAreWitnessed
<1>1. ConformanceInv => VerdictsAreWitnessed
  BY WitnessedIf
<1> QED BY <1>1, ConformanceIsInvariant, PTL

-----------------------------------------------------------------------------
(* What may be asked of a store.                                                   *)

Asking == {"question", "predicate", "eq", "gt", "lt", "contains", "count", "predicates", "report",
           "window", "floor", "asOf"}
QueryInv ==
    /\ DOMAIN request = Asking
    /\ \A o \in Flags : request[o] \in BOOLEAN
    /\ verdict = "accepted" => Accepted(request)
    /\ store \in Stores

LEMMA QueryStarts == ASSUME QueryInit PROVE QueryInv
<1>1. DOMAIN request = Asking
  BY DEF QueryInit, Asking
<1>2. \A o \in Flags : request[o] \in BOOLEAN
  <2>1. {request.question, request.count, request.predicates, request.report, request.floor} \subseteq BOOLEAN
    BY DEF QueryInit
  <2> QED BY <2>1 DEF Flags
<1>3. store \in Stores /\ verdict = "open"
  BY DEF QueryInit
<1> QED BY <1>1, <1>2, <1>3 DEF QueryInv

LEMMA QueryStep == ASSUME QueryInv, [QueryNext]_queryVars PROVE QueryInv'
<1>1. ASSUME NEW o \in DOMAIN Options, NEW v \in Options[o], Ask(o, v) PROVE QueryInv'
  <2>1. request' = [request EXCEPT ![o] = v] /\ verdict = "open" /\ UNCHANGED <<store, verdict>>
    BY <1>1 DEF Ask
  <2>2. DOMAIN request' = Asking
    BY <2>1 DEF QueryInv
  <2>3. \A p \in Flags : request'[p] \in BOOLEAN
    BY <2>1, QueryAssumption DEF QueryInv, Asking, Flags
  <2> QED BY <2>1, <2>2, <2>3 DEF QueryInv
<1>2. ASSUME Send PROVE QueryInv'
  <2>1. UNCHANGED <<store, request>> /\ (verdict' = "accepted" => Accepted(request))
    BY <1>2 DEF Send
  <2>2. Accepted(request)' <=> Accepted(request)
    BY <2>1 DEF Accepted, WindowStands, IsStructural, IsAggregate, IsWindowListing, HasFilters, IsBound,
                parse_bound, ReadNumber, ReadDate, Plain
  <2> QED BY <2>1, <2>2 DEF QueryInv
<1>3. ASSUME UNCHANGED queryVars PROVE QueryInv'
  <2>1. UNCHANGED <<store, request, verdict>>
    BY <1>3 DEF queryVars
  <2>2. Accepted(request)' <=> Accepted(request)
    BY <2>1 DEF Accepted, WindowStands, IsStructural, IsAggregate, IsWindowListing, HasFilters, IsBound,
                parse_bound, ReadNumber, ReadDate, Plain
  <2> QED BY <2>1, <2>2 DEF QueryInv
<1> QED BY <1>1, <1>2, <1>3 DEF QueryNext

LEMMA OneModeIs == ASSUME QueryInv PROVE OneMode
<1> SUFFICES ASSUME verdict = "accepted"
             PROVE  /\ request.question <=> ~IsStructural(request)
                    /\ \E m \in Modes : {n \in Modes : RunsAs(n, request)} = {m}
  BY DEF OneMode
<1> DEFINE question == request.question
           aggregate == request.count
           predicates == request.predicates
           report == request.report
           filters == HasFilters(request)
           window == request.window # ""
<1>1. {question, aggregate, predicates, report} \subseteq BOOLEAN
  BY DEF QueryInv, Flags
<1>2. /\ question \/ predicates \/ report \/ aggregate \/ filters \/ window
      /\ window => ~(predicates \/ report)
      /\ aggregate => ~question
      /\ predicates => ~(question \/ filters \/ aggregate)
      /\ report => ~(question \/ filters \/ aggregate \/ predicates)
  BY DEF QueryInv, Accepted, IsStructural, IsAggregate, IsWindowListing
<1>3. IsStructural(request) <=>
        predicates \/ report \/ aggregate \/ (~question /\ filters) \/
        (window /\ ~question /\ ~filters /\ ~aggregate)
  BY DEF IsStructural, IsAggregate, IsWindowListing
<1>4. /\ RunsAs("ask", request) <=> question
      /\ RunsAs("aggregate", request) <=> aggregate
      /\ RunsAs("listing", request) <=> ~question /\ ~aggregate /\ filters
      /\ RunsAs("window", request) <=> window /\ ~question /\ ~filters /\ ~aggregate
      /\ RunsAs("predicates", request) <=> predicates
      /\ RunsAs("report", request) <=> report
  BY <1>1 DEF RunsAs, IsAggregate, IsWindowListing
<1> HIDE DEF question, aggregate, predicates, report, filters, window
<1>5. ASSUME NEW m \in Modes, RunsAs(m, request), \A n \in Modes : RunsAs(n, request) => n = m
      PROVE  \E k \in Modes : {n \in Modes : RunsAs(n, request)} = {k}
  BY <1>5
<1>6. \E m \in Modes : RunsAs(m, request) /\ \A n \in Modes : RunsAs(n, request) => n = m
  <2>1. CASE question
    BY <1>2, <1>4, <2>1 DEF Modes
  <2>2. CASE predicates
    BY <1>2, <1>4, <2>2 DEF Modes
  <2>3. CASE report
    BY <1>2, <1>4, <2>3 DEF Modes
  <2>4. CASE aggregate
    BY <1>2, <1>4, <2>4 DEF Modes
  <2>5. CASE ~question /\ ~aggregate /\ filters
    BY <1>2, <1>4, <2>5 DEF Modes
  <2>6. CASE ~question /\ ~aggregate /\ ~filters /\ window
    BY <1>2, <1>4, <2>6 DEF Modes
  <2> QED BY <1>2, <2>1, <2>2, <2>3, <2>4, <2>5, <2>6
<1> QED BY <1>2, <1>3, <1>5, <1>6 DEF question

LEMMA FiltersNarrowIs == ASSUME QueryInv PROVE FiltersNarrow
<1> SUFFICES ASSUME NEW o \in {"predicate", "eq", "gt", "lt", "contains"}, NEW i \in DOMAIN store,
                    Match(store[i], request) = "MATCHED"
             PROVE  Match(store[i], [request EXCEPT ![o] = ""]) = "MATCHED"
  BY DEF FiltersNarrow, Answering
<1> DEFINE c == store[i]
           less == [request EXCEPT ![o] = ""]
<1>1. /\ InSlice(c, request) /\ Against(c, request, "gt") = "MATCHED"
      /\ Against(c, request, "lt") = "MATCHED"
  BY DEF Match
<1>2. \A p \in Asking : less[p] = IF p = o THEN "" ELSE request[p]
  BY DEF QueryInv
<1>3. less.predicate \in {"", request.predicate} /\ less.contains \in {"", request.contains} /\
      less.eq \in {"", request.eq} /\ less.gt \in {"", request.gt} /\ less.lt \in {"", request.lt}
  BY <1>2 DEF Asking
<1> HIDE DEF less, c
<1>4. InSlice(c, less)
  BY <1>1, <1>3 DEF InSlice
<1>5. \A r, bound : r[bound] = "" => Against(c, r, bound) = "MATCHED"
  BY DEF Against
<1>6. \A bound : less[bound] = request[bound] => Against(c, less, bound) = Against(c, request, bound)
  BY DEF Against
<1>7. Against(c, less, "gt") = "MATCHED" /\ Against(c, less, "lt") = "MATCHED"
  BY <1>1, <1>3, <1>5, <1>6
<1> QED BY <1>4, <1>7 DEF Match, less, c

LEMMA IncomparableIsToldOf == ASSUME QueryInv PROVE IncomparableIsDisclosed
<1>1. \A i \in Answering(request, "NOT_COMPARABLE") : InSlice(store[i], request)
  BY DEF Answering, Match
<1>2. ASSUME NEW i \in DOMAIN store, InSlice(store[i], request), request.gt # "",
             normalize_term(store[i].object).type # parse_bound(request.gt).type
      PROVE  i \in Answering(request, "NOT_COMPARABLE")
  <2>1. Against(store[i], request, "gt") = "NOT_COMPARABLE"
    BY <1>2 DEF Against
  <2> QED BY <1>2, <2>1 DEF Answering, Match
<1>3. ASSUME request.eq # "", NEW bound \in {"gt", "lt"}, request[bound] = request.eq,
             NEW i \in DOMAIN store, Match(store[i], request) = "MATCHED"
      PROVE  FALSE
  <2> DEFINE ours == normalize_term(store[i].object)
             theirs == parse_bound(request.eq)
  <2>1. InSlice(store[i], request) /\ Against(store[i], request, bound) = "MATCHED"
    BY <1>3 DEF Match
  <2>2. /\ ours.type # "text" /\ ours.type = theirs.type
        /\ IF bound = "gt" THEN ours.value > theirs.value ELSE ours.value < theirs.value
    BY <1>3, <2>1 DEF Against
  <2>3. ours.value = theirs.value
    BY <1>3, <2>1, <2>2 DEF InSlice, EqMatches
  <2>4. theirs.type # "text" => theirs.value \in Int
    BY QueryAssumption DEF parse_bound, ReadNumber, ReadDate, Plain
  <2> HIDE DEF ours, theirs
  <2> QED BY <2>2, <2>3, <2>4
<1>4. request.eq # "" /\ request.eq \in {request.gt, request.lt} => Answering(request, "MATCHED") = {}
  BY <1>3 DEF Answering
<1> QED BY <1>1, <1>2, <1>4 DEF IncomparableIsDisclosed

Totals(f, column) ==
    f = [s \in SUBSET DOMAIN column |->
            IF s = {} THEN 0 ELSE LET x == CHOOSE y \in s : TRUE IN column[x] + f[s \ {x}]]

\* What is counted by its key is counted: the parts of a finite set add up to it.
LEMMA PartsAddUp ==
    ASSUME NEW I, IsFiniteSet(I), NEW K, IsFiniteSet(K), NEW key, \A i \in I : key[i] \in K,
           NEW column, column = [x \in K |-> Cardinality({i \in I : key[i] = x})]
    PROVE  Total(column) = Cardinality(I)
<1> DEFINE Of(s) == {i \in I : key[i] \in s}
<1>1. \A s : IsFiniteSet(Of(s)) /\ Cardinality(Of(s)) \in Nat
  BY FS_Subset, FS_CardinalityType
<1>2. ASSUME NEW s \in SUBSET K, NEW x \in s
      PROVE  Cardinality(Of(s)) = column[x] + Cardinality(Of(s \ {x}))
  <2> DEFINE A == {i \in I : key[i] = x}
             B == Of(s \ {x})
  <2>1. Of(s) = A \cup B /\ A \cap B = {} /\ A \subseteq I
    OBVIOUS
  <2>2. column[x] = Cardinality(A)
    OBVIOUS
  <2>3. IsFiniteSet(A) /\ IsFiniteSet(B) /\ Cardinality(A) \in Nat /\ Cardinality(B) \in Nat
    BY <1>1, FS_Subset, FS_CardinalityType
  <2> HIDE DEF A, B, Of
  <2>4. Cardinality(A \cup B) = Cardinality(A) + Cardinality(B) - Cardinality(A \cap B)
    BY <2>3, FS_Union
  <2>5. Cardinality(A \cap B) = 0
    BY <2>1, FS_EmptySet
  <2>6. Cardinality(Of(s)) = column[x] + Cardinality(B)
    BY <2>1, <2>2, <2>3, <2>4, <2>5
  <2> QED BY <2>6 DEF B
<1>3. Of({}) = {} /\ Cardinality(Of({})) = 0
  BY FS_EmptySet
<1>4. DOMAIN column = K
  OBVIOUS
<1> HIDE DEF Of
<1>5. \E f : Totals(f, column)
  <2> DEFINE f == [s \in SUBSET K |-> Cardinality(Of(s))]
  <2>1. ASSUME NEW s \in SUBSET K, s # {}
        PROVE  f[s] = column[CHOOSE y \in s : TRUE] + f[s \ {CHOOSE y \in s : TRUE}]
    <3> DEFINE x == CHOOSE y \in s : TRUE
    <3>1. x \in s
      BY <2>1
    <3> HIDE DEF x
    <3>2. f[s] = Cardinality(Of(s)) /\ f[s \ {x}] = Cardinality(Of(s \ {x}))
      OBVIOUS
    <3>3. f[s] = column[x] + f[s \ {x}]
      BY <1>2, <3>1, <3>2
    <3> QED BY <3>3 DEF x
  <2>2. f[{}] = 0
    BY <1>3
  <2>3. f = [s \in SUBSET K |-> f[s]]
    OBVIOUS
  <2> HIDE DEF f
  <2>4. Totals(f, column)
    BY <1>4, <2>1, <2>2, <2>3 DEF Totals
  <2> QED BY <2>4
<1> DEFINE f == CHOOSE g : Totals(g, column)
<1>6. Totals(f, column)
  BY <1>5
<1>7. Total(column) = f[K]
  BY <1>4 DEF Total, MapThenSumSet, MapThenFoldSet, Totals
<1> HIDE DEF f
<1> DEFINE sizes == {n \in Nat : \E s \in SUBSET K : n = Cardinality(s) /\ f[s] # Cardinality(Of(s))}
<1>8. ASSUME sizes # {} PROVE FALSE
  <2>1. PICK n \in sizes : \A m \in sizes : n <= m
    <3>1. sizes \in SUBSET Nat
      OBVIOUS
    <3> HIDE DEF sizes
    <3> QED BY <1>8, <3>1, LeastOf
  <2>2. PICK s \in SUBSET K : n = Cardinality(s) /\ f[s] # Cardinality(Of(s))
    OBVIOUS
  <2>3. s # {}
    BY <1>3, <1>4, <1>6, <2>2 DEF Totals
  <2> DEFINE x == CHOOSE y \in s : TRUE
  <2>4. x \in s
    BY <2>3
  <2>5. f[s] = column[x] + f[s \ {x}]
    BY <1>4, <1>6, <2>3 DEF Totals
  <2> HIDE DEF x
  <2>6. IsFiniteSet(s) /\ Cardinality(s \ {x}) = Cardinality(s) - 1 /\ Cardinality(s) \in Nat
        /\ Cardinality(s \ {x}) \in Nat
    BY <2>4, FS_Subset, FS_RemoveElement, FS_CardinalityType
  <2>7. f[s \ {x}] = Cardinality(Of(s \ {x}))
    <3>1. ASSUME f[s \ {x}] # Cardinality(Of(s \ {x})) PROVE FALSE
      <4>1. Cardinality(s \ {x}) \in sizes
        BY <2>6, <3>1
      <4> HIDE DEF sizes
      <4>2. n <= Cardinality(s \ {x})
        BY <2>1, <4>1
      <4> QED BY <2>2, <2>6, <4>2
    <3> QED BY <3>1
  <2> QED BY <1>2, <2>2, <2>4, <2>5, <2>7
<1>9. f[K] = Cardinality(Of(K))
  <2>1. Cardinality(K) \in Nat
    BY FS_CardinalityType
  <2> QED BY <1>8, <2>1
<1>10. Of(K) = I
  BY DEF Of
<1> QED BY <1>7, <1>9, <1>10

LEMMA PicturesAreFinite ==
    ASSUME NEW I, IsFiniteSet(I), NEW key PROVE IsFiniteSet({key[i] : i \in I})
<1> DEFINE T == {key[i] : i \in I}
           f == [i \in I |-> key[i]]
<1>1. f \in Surjection(I, T)
  BY DEF Surjection
<1> HIDE DEF f, T
<1>2. IsFiniteSet(T)
  BY <1>1, FS_Surjection
<1> QED BY <1>2 DEF T

\* How many of I have each key.
Tally(I, key) == [s \in {key[i] : i \in I} |-> Cardinality({i \in I : key[i] = s})]

LEMMA TallyIs ==
    ASSUME NEW I, IsFiniteSet(I), NEW key
    PROVE  /\ DOMAIN Tally(I, key) = {key[i] : i \in I}
           /\ \A s \in DOMAIN Tally(I, key) : Tally(I, key)[s] = Cardinality({i \in I : key[i] = s})
           /\ Total(Tally(I, key)) = Cardinality(I)
<1>1. /\ DOMAIN Tally(I, key) = {key[i] : i \in I}
      /\ \A s \in DOMAIN Tally(I, key) : Tally(I, key)[s] = Cardinality({i \in I : key[i] = s})
  BY DEF Tally
<1> DEFINE K == {key[i] : i \in I}
<1>2. IsFiniteSet(K) /\ \A i \in I : key[i] \in K
  BY PicturesAreFinite
<1>3. Tally(I, key) = [s \in K |-> Cardinality({i \in I : key[i] = s})]
  BY DEF Tally
<1> HIDE DEF K
<1>4. Total(Tally(I, key)) = Cardinality(I)
  BY <1>2, <1>3, PartsAddUp
<1> QED BY <1>1, <1>4

\* The listing and the report count the same claims by two keys, the second of which
\* follows from the first.
LEMMA AccountsDoAgree == ASSUME QueryInv PROVE AccountsAgree
<1> DEFINE D == DOMAIN store
           surface == [i \in D |-> Surface(store[i])]
           canonical == [i \in D |-> Canonical(store[i])]
           shape == [i \in D |-> Shape(store[i].object)]
           class == [i \in D |-> store[i].class]
           rows == Report.rows
           At(k) == {i \in D : canonical[i] = k}
<1>1. IsFiniteSet(D)
  BY QueryAssumption DEF QueryInv
<1>2. DOMAIN rows = {canonical[i] : i \in D} /\ \A k \in DOMAIN rows : rows[k] = Row(k)
  BY DEF Report
<1>3. DOMAIN Listing = {surface[i] : i \in D}
      /\ \A s \in DOMAIN Listing : Listing[s] = Cardinality({i \in D : surface[i] = s})
  BY DEF Listing, Count
<1>4. ASSUME NEW k \in DOMAIN rows
      PROVE  /\ rows[k].claims = Cardinality(At(k))
             /\ rows[k].forms = Tally(At(k), surface)
             /\ rows[k].shapes = Tally(At(k), shape)
             /\ rows[k].classes = Tally(At(k), class)
  <2> DEFINE its == {store[i] : i \in {j \in D : Canonical(store[j]) = k}}
  <2>1. rows[k] = Row(k)
    BY <1>2
  <2>2. {i \in D : Canonical(store[i]) = k} = At(k) /\ At(k) \subseteq D
    OBVIOUS
  <2>3. Row(k).claims = Cardinality({i \in D : Canonical(store[i]) = k})
    BY DEF Row, Count
  <2>4. Row(k).forms = [s \in {Surface(c) : c \in its} |->
                          Cardinality({i \in D : Canonical(store[i]) = k /\ Surface(store[i]) = s})]
    BY DEF Row, Count
  <2>5. Row(k).shapes = [s \in {Shape(c.object) : c \in its} |->
                          Cardinality({i \in D : Canonical(store[i]) = k /\ Shape(store[i].object) = s})]
    BY DEF Row, Count
  <2>6. Row(k).classes = [s \in {c.class : c \in its} |->
                          Cardinality({i \in D : Canonical(store[i]) = k /\ store[i].class = s})]
    BY DEF Row, Count
  <2>7. /\ {Surface(c) : c \in its} = {surface[i] : i \in At(k)}
        /\ {Shape(c.object) : c \in its} = {shape[i] : i \in At(k)}
        /\ {c.class : c \in its} = {class[i] : i \in At(k)}
    OBVIOUS
  <2>8. \A s : /\ {i \in D : Canonical(store[i]) = k /\ Surface(store[i]) = s}
                    = {i \in At(k) : surface[i] = s}
               /\ {i \in D : Canonical(store[i]) = k /\ Shape(store[i].object) = s}
                    = {i \in At(k) : shape[i] = s}
               /\ {i \in D : Canonical(store[i]) = k /\ store[i].class = s}
                    = {i \in At(k) : class[i] = s}
    OBVIOUS
  <2> HIDE DEF At, surface, shape, class, rows, its, D
  <2>9. Row(k).forms = Tally(At(k), surface)
    BY <2>4, <2>7, <2>8 DEF Tally
  <2>10. Row(k).shapes = Tally(At(k), shape)
    BY <2>5, <2>7, <2>8 DEF Tally
  <2>11. Row(k).classes = Tally(At(k), class)
    BY <2>6, <2>7, <2>8 DEF Tally
  <2> QED BY <2>1, <2>2, <2>3, <2>9, <2>10, <2>11
<1>5. \A i, j \in D : surface[i] = surface[j] => canonical[i] = canonical[j]
  BY DEF Surface, Canonical
<1>6. \A k : IsFiniteSet(At(k)) /\ At(k) \subseteq D
  BY <1>1, FS_Subset
<1> HIDE DEF D, surface, canonical, shape, class, rows, At
<1>7. ASSUME NEW k \in DOMAIN rows, NEW column \in {"forms", "shapes", "classes"}
      PROVE  Total(rows[k][column]) = rows[k].claims
  <2>1. \A key : Total(Tally(At(k), key)) = Cardinality(At(k))
    BY <1>6, TallyIs
  <2>2. Total(rows[k].forms) = rows[k].claims
    BY <1>4, <2>1
  <2>3. Total(rows[k].shapes) = rows[k].claims
    BY <1>4, <2>1
  <2>4. Total(rows[k].classes) = rows[k].claims
    BY <1>4, <2>1
  <2> QED BY <2>2, <2>3, <2>4
<1>8. ASSUME NEW k \in DOMAIN rows
       PROVE  /\ DOMAIN rows[k].forms = {surface[i] : i \in At(k)}
              /\ \A s \in DOMAIN rows[k].forms :
                    rows[k].forms[s] = Cardinality({i \in At(k) : surface[i] = s})
              /\ DOMAIN rows[k].shapes = {shape[i] : i \in At(k)}
              /\ \A s \in DOMAIN rows[k].shapes :
                    rows[k].shapes[s] = Cardinality({i \in At(k) : shape[i] = s})
  <2>1. IsFiniteSet(At(k))
    BY <1>6
  <2>2. rows[k].forms = Tally(At(k), surface) /\ rows[k].shapes = Tally(At(k), shape)
    BY <1>4
  <2>3. /\ DOMAIN Tally(At(k), surface) = {surface[i] : i \in At(k)}
        /\ \A s \in DOMAIN Tally(At(k), surface) :
              Tally(At(k), surface)[s] = Cardinality({i \in At(k) : surface[i] = s})
    BY DEF Tally
  <2>4. /\ DOMAIN Tally(At(k), shape) = {shape[i] : i \in At(k)}
        /\ \A s \in DOMAIN Tally(At(k), shape) :
              Tally(At(k), shape)[s] = Cardinality({i \in At(k) : shape[i] = s})
    BY DEF Tally
  <2> QED BY <2>2, <2>3, <2>4
<1>9. ASSUME NEW s \in DOMAIN Listing
      PROVE  \E k \in DOMAIN rows :
                /\ s \in DOMAIN rows[k].forms /\ rows[k].forms[s] = Listing[s]
                /\ \A other \in DOMAIN rows \ {k} : s \notin DOMAIN rows[other].forms
  <2>1. PICK i \in D : s = surface[i]
    BY <1>3
  <2> DEFINE k == canonical[i]
  <2>2. k \in DOMAIN rows /\ i \in At(k)
    BY <1>2, <2>1 DEF At
  <2>3. {j \in D : surface[j] = s} = {j \in At(k) : surface[j] = s}
    BY <1>5, <2>1 DEF At
  <2>4. s \in DOMAIN rows[k].forms /\ rows[k].forms[s] = Listing[s]
    <3>1. s \in {surface[j] : j \in At(k)}
      BY <2>1, <2>2
    <3>2. s \in DOMAIN rows[k].forms
      BY <1>8, <2>2, <3>1
    <3>3. rows[k].forms[s] = Cardinality({j \in At(k) : surface[j] = s})
      BY <1>8, <2>2, <3>2
    <3>4. Listing[s] = Cardinality({j \in D : surface[j] = s})
      BY <1>3
    <3> QED BY <2>3, <3>2, <3>3, <3>4
  <2>5. ASSUME NEW other \in DOMAIN rows, s \in DOMAIN rows[other].forms PROVE other = k
    <3>1. PICK j \in At(other) : s = surface[j]
      BY <1>8, <2>5
    <3> QED BY <1>5, <2>1, <3>1 DEF At
  <2> QED BY <2>2, <2>4, <2>5
<1>10. Report.distinct = Cardinality(DOMAIN Listing)
  BY DEF Report, Listing
<1>11. ASSUME NEW h \in DOMAIN Report.shapes
       PROVE  LET Shaped == [k \in DOMAIN rows |-> IF h \in DOMAIN rows[k].shapes
                                                   THEN rows[k].shapes[h] ELSE 0]
              IN  Report.shapes[h] = Total(Shaped)
  <2> DEFINE I == {i \in D : shape[i] = h}
             K == DOMAIN rows
             Shaped == [k \in K |-> IF h \in DOMAIN rows[k].shapes THEN rows[k].shapes[h] ELSE 0]
  <2>1. Report.shapes[h] = Cardinality(I)
    BY DEF Report, Count, D, shape
  <2>2. IsFiniteSet(I) /\ IsFiniteSet(K)
    BY <1>1, <1>2, FS_Subset, PicturesAreFinite
  <2>3. \A i \in I : canonical[i] \in K
    BY <1>2
  <2>4. ASSUME NEW k \in K
        PROVE  (IF h \in DOMAIN rows[k].shapes THEN rows[k].shapes[h] ELSE 0)
                 = Cardinality({i \in I : canonical[i] = k})
    <3>1. {i \in I : canonical[i] = k} = {i \in At(k) : shape[i] = h}
      BY <1>6 DEF At
    <3>2. h \in DOMAIN rows[k].shapes <=> {i \in At(k) : shape[i] = h} # {}
      BY <1>8
    <3>3. h \in DOMAIN rows[k].shapes => rows[k].shapes[h] = Cardinality({i \in At(k) : shape[i] = h})
      BY <1>8
    <3> QED BY <3>1, <3>2, <3>3, FS_EmptySet
  <2>5. Shaped = [k \in K |-> Cardinality({i \in I : canonical[i] = k})]
    BY <2>4
  <2> HIDE DEF I, K, Shaped
  <2>6. Total(Shaped) = Cardinality(I)
    BY <2>2, <2>3, <2>5, PartsAddUp
  <2> QED BY <2>1, <2>6 DEF Shaped, K
<1> QED BY <1>7, <1>9, <1>10, <1>11 DEF AccountsAgree, rows

\* A request is made of named options, and is accepted only as the checks say.
THEOREM QueryIsInvariant == QuerySpec => []QueryInv
<1>1. QueryInit => QueryInv
  BY QueryStarts
<1>2. QueryInv /\ [QueryNext]_queryVars => QueryInv'
  BY QueryStep
<1> QED BY <1>1, <1>2, PTL DEF QuerySpec

\* An accepted request runs one mode, its filters only narrow, what cannot be compared is
\* disclosed, and the two accounts of the predicates agree (QueryRequest, match_claim,
\* predicate_vocabulary, build_vocabulary_report).
THEOREM QueriesHaveAnswers == QuerySpec => []QueriesAreAnswered
<1>1. QueryInv => QueriesAreAnswered
  BY OneModeIs, FiltersNarrowIs, IncomparableIsToldOf, AccountsDoAgree DEF QueriesAreAnswered
<1> QED BY <1>1, QueryIsInvariant, PTL
-----------------------------------------------------------------------------
(* The settings.                                                               *)

\* Every section is a table of keys or the mark of an empty one.
Tidy(raw) == \A s \in DOMAIN raw : raw[s] # Null => "null" \notin DOMAIN raw[s]
Apart(p, q) == p[1] # q[1] \/ p[2] # q[2]
\* A place holds what it held.
Same(new, old, p) ==
    (Holds(new, p) <=> Holds(old, p)) /\ (Holds(old, p) => ValueAt(new, p) = ValueAt(old, p))

LEMMA NoNull == ASSUME NEW table, "null" \notin DOMAIN table PROVE table # Null
  BY DEF Null

\* A section is put under its name: its keys are the table's, the other sections' stay.
LEMMA SectionIs ==
    ASSUME NEW raw, NEW s, NEW table, table # Null, NEW n, n = WithKey(raw, s, table)
    PROVE  /\ \A p : p[1] = s => /\ Holds(n, p) <=> p[2] \in DOMAIN table
                                 /\ ValueAt(n, p) = table[p[2]]
           /\ \A p : p[1] # s => Same(n, raw, p)
           /\ \A x \in DOMAIN raw : x \in DOMAIN n /\ (x # s => n[x] = raw[x])
           /\ Tidy(raw) /\ "null" \notin DOMAIN table => Tidy(n)
<1>1. /\ DOMAIN n = DOMAIN raw \cup {s} /\ n[s] = table
      /\ \A x \in DOMAIN raw : x # s => n[x] = raw[x]
  BY DEF WithKey
<1>2. Tidy(raw) /\ "null" \notin DOMAIN table => Tidy(n)
  BY <1>1 DEF Tidy
<1> QED BY <1>1, <1>2 DEF Holds, Has, ValueAt, Same

LEMMA MigrateOneIs ==
    ASSUME NEW raw, Tidy(raw), NEW m, m.to[2] # "null", Apart(m.from, m.to),
           NEW n, n = MigrateOne(raw, m)
    PROVE  /\ Tidy(n)
           /\ \A s \in DOMAIN raw : s \in DOMAIN n /\ (raw[s] = Null => n[s] = Null)
           /\ ~Holds(n, m.from)
           /\ \A p : Apart(p, m.from) /\ Apart(p, m.to) =>
                 Same(n, raw, p)
           /\ ~Holds(raw, m.from) => n = raw
           /\ Holds(raw, m.from) =>
                 \/ m.to[1] \in DOMAIN n /\ n[m.to[1]] = Null
                 \/ /\ Holds(n, m.to)
                    /\ ValueAt(n, m.to) = IF Holds(raw, m.to)
                                     THEN Merged(ValueAt(raw, m.from), ValueAt(raw, m.to), m.table)
                                     ELSE ValueAt(raw, m.from)
<1> USE DEF Same
<1>1. CASE ~Holds(raw, m.from)
  <2>1. n = raw
    BY <1>1 DEF MigrateOne
  <2> QED BY <1>1, <2>1
<1>2. CASE Holds(raw, m.from)
  <2> DEFINE a == m.from[1]
             b == m.to[1]
             less == WithoutKey(raw[a], m.from[2])
             rest == WithKey(raw, a, less)
             opened == IF b \in DOMAIN rest THEN rest ELSE WithKey(rest, b, <<>>)
             value == IF Holds(opened, m.to)
                      THEN Merged(ValueAt(raw, m.from), ValueAt(opened, m.to), m.table) ELSE ValueAt(raw, m.from)
             more == WithKey(opened[b], m.to[2], value)
  <2>1. n = IF Has(opened, b) THEN WithKey(opened, b, more) ELSE opened
    BY <1>2 DEF MigrateOne
  <2>2. a \in DOMAIN raw /\ raw[a] # Null /\ m.from[2] \in DOMAIN raw[a] /\ "null" \notin DOMAIN raw[a]
    BY <1>2 DEF Holds, Has, Tidy
  <2>3. /\ DOMAIN less = DOMAIN raw[a] \ {m.from[2]}
        /\ \A x \in DOMAIN less : less[x] = raw[a][x]
    BY DEF WithoutKey, Restrict
  <2>4. less # Null /\ "null" \notin DOMAIN less
    BY <2>2, <2>3, NoNull
  <2>5. /\ \A p : p[1] = a => (Holds(rest, p) <=> p[2] \in DOMAIN less) /\ ValueAt(rest, p) = less[p[2]]
        /\ \A p : p[1] # a => Same(rest, raw, p)
        /\ \A x \in DOMAIN raw : x \in DOMAIN rest /\ (x # a => rest[x] = raw[x])
        /\ Tidy(rest)
    <3> HIDE DEF less
    <3> QED BY <2>4, SectionIs
  <2>6. \A p : Apart(p, m.from) => Same(rest, raw, p)
    <3> TAKE p
    <3>1. CASE p[1] # a
      <4> HIDE DEF rest, less, a
      <4> QED BY <2>5, <3>1
    <3>2. CASE p[1] = a /\ Apart(p, m.from)
      <4>1. p[2] # m.from[2]
        BY <3>2 DEF Apart
      <4>2. Holds(raw, p) <=> p[2] \in DOMAIN raw[a]
        BY <2>2, <3>2 DEF Holds, Has
      <4>3. ValueAt(raw, p) = raw[a][p[2]]
        BY <3>2 DEF ValueAt
      <4> HIDE DEF rest, less, a
      <4> QED BY <2>3, <2>5, <3>2, <4>1, <4>2, <4>3
    <3> QED BY <3>1, <3>2
  <2>7. ~Holds(rest, m.from)
    <3> HIDE DEF rest, less
    <3> QED BY <2>3, <2>5
  <2>8. \A s \in DOMAIN raw : s \in DOMAIN rest /\ (raw[s] = Null => rest[s] = Null)
    <3> HIDE DEF rest, less
    <3> QED BY <2>2, <2>5
  <2>9. /\ b \in DOMAIN opened /\ Tidy(opened)
        /\ \A s \in DOMAIN rest : s \in DOMAIN opened /\ opened[s] = rest[s]
        /\ \A p : Same(opened, rest, p)
    <3>1. CASE b \in DOMAIN rest
      <4>1. opened = rest
        BY <3>1
      <4> HIDE DEF opened, rest
      <4> QED BY <2>5, <3>1, <4>1
    <3>2. CASE b \notin DOMAIN rest
      <4>1. opened = WithKey(rest, b, <<>>)
        BY <3>2
      <4>2. DOMAIN <<>> = {} /\ "null" \notin DOMAIN <<>>
        OBVIOUS
      <4>3. <<>> # Null
        BY <4>2, NoNull
      <4>4. \A p : p[1] = b => ~Holds(rest, p)
        BY <3>2 DEF Holds, Has
      <4> HIDE DEF opened, rest, b
      <4>5. DOMAIN opened = DOMAIN rest \cup {b}
        BY <4>1 DEF WithKey
      <4>6. /\ \A p : p[1] = b => (Holds(opened, p) <=> p[2] \in DOMAIN <<>>)
            /\ \A p : p[1] # b => Same(opened, rest, p)
            /\ \A x \in DOMAIN rest : x \in DOMAIN opened /\ (x # b => opened[x] = rest[x])
            /\ Tidy(opened)
        BY <2>5, <4>1, <4>2, <4>3, SectionIs
      <4> QED BY <3>2, <4>2, <4>4, <4>5, <4>6
    <3> QED BY <3>1, <3>2
  <2>10. /\ \A p : Apart(p, m.from) =>
              Same(opened, raw, p)
         /\ ~Holds(opened, m.from)
         /\ \A s \in DOMAIN raw : s \in DOMAIN opened /\ (raw[s] = Null => opened[s] = Null)
    <3> HIDE DEF opened, rest
    <3> QED BY <2>6, <2>7, <2>8, <2>9
  <2>11. Apart(m.to, m.from)
    BY DEF Apart
  <2>12. CASE opened[b] = Null
    <3>1. n = opened
      BY <2>1, <2>12 DEF Has
    <3> HIDE DEF opened
    <3> QED BY <1>2, <2>9, <2>10, <2>12, <3>1
  <2>13. CASE opened[b] # Null
    <3>1. n = WithKey(opened, b, more)
      <4> HIDE DEF opened, more, b
      <4> QED BY <2>1, <2>9, <2>13 DEF Has
    <3>2. "null" \notin DOMAIN opened[b]
      <4> HIDE DEF opened, b
      <4> QED BY <2>9, <2>13 DEF Tidy
    <3>3. /\ DOMAIN more = DOMAIN opened[b] \cup {m.to[2]} /\ more[m.to[2]] = value
          /\ \A x \in DOMAIN opened[b] : x # m.to[2] => more[x] = opened[b][x]
      <4> HIDE DEF opened, value, b
      <4> QED BY DEF WithKey
    <3>4. more # Null /\ "null" \notin DOMAIN more
      <4> HIDE DEF more, opened, b
      <4> QED BY <3>2, <3>3, NoNull
    <3>5. /\ \A p : p[1] = b => (Holds(n, p) <=> p[2] \in DOMAIN more) /\ ValueAt(n, p) = more[p[2]]
          /\ \A p : p[1] # b => Same(n, opened, p)
          /\ \A x \in DOMAIN opened : x \in DOMAIN n /\ (x # b => n[x] = opened[x])
          /\ Tidy(n)
      <4> HIDE DEF more, opened, b
      <4> QED BY <2>9, <3>1, <3>4, SectionIs
    <3>6. \A p : p[1] = b => (Holds(opened, p) <=> p[2] \in DOMAIN opened[b]) /\ ValueAt(opened, p) = opened[b][p[2]]
      <4> HIDE DEF opened, b
      <4> QED BY <2>9, <2>13 DEF Holds, Has, ValueAt
    <3>7. \A p : Apart(p, m.to) => Same(n, opened, p)
      <4> TAKE p
      <4>1. CASE p[1] # b
        <5> HIDE DEF more, opened, b
        <5> QED BY <3>5, <4>1
      <4>2. CASE p[1] = b /\ Apart(p, m.to)
        <5>1. p[2] # m.to[2]
          BY <4>2 DEF Apart
        <5> HIDE DEF more, opened, b
        <5> QED BY <3>3, <3>5, <3>6, <4>2, <5>1
      <4> QED BY <4>1, <4>2
    <3>8. Holds(n, m.to) /\ ValueAt(n, m.to) = value
      <4> HIDE DEF more, opened, value
      <4> QED BY <3>3, <3>5
    <3>9. value = IF Holds(raw, m.to) THEN Merged(ValueAt(raw, m.from), ValueAt(raw, m.to), m.table) ELSE ValueAt(raw, m.from)
      <4> HIDE DEF opened
      <4> QED BY <2>10, <2>11
    <3>10. \A s \in DOMAIN raw : s \in DOMAIN n /\ (raw[s] = Null => n[s] = Null)
      <4> HIDE DEF more, opened, b
      <4> QED BY <2>10, <2>13, <3>5
    <3> HIDE DEF more, opened, value
    <3> QED BY <1>2, <2>10, <3>5, <3>7, <3>8, <3>9, <3>10
  <2> QED BY <2>12, <2>13
<1> QED BY <1>1, <1>2

\* What becomes of a renamed key, unless its section is empty.
Outcome(new, old, m) ==
    IF Holds(old, m.from) \/ Holds(old, m.to)
    THEN \/ m.to[1] \in DOMAIN new /\ new[m.to[1]] = Null
         \/ Holds(new, m.to) /\ ValueAt(new, m.to) = Meant(old, m)
    ELSE ~Holds(new, m.to)

LEMMA MovesAre ==
    /\ Len(Moves) \in Nat /\ DOMAIN Moves = 1..Len(Moves)
    /\ \A i, j \in DOMAIN Moves :
          /\ Apart(Moves[i].from, Moves[j].to) /\ Apart(Moves[j].to, Moves[i].from)
          /\ i # j => Apart(Moves[i].from, Moves[j].from) /\ Apart(Moves[i].to, Moves[j].to)
    /\ \A i \in DOMAIN Moves : Moves[i].to[2] # "null" /\ Apart(Moves[i].from, Override)
    /\ \A i \in DOMAIN Moves : Moves[i].to # Override => Apart(Moves[i].to, Override)
<1>1. /\ Moves \in Seq([from : STRING \X STRING, to : STRING \X STRING, table : BOOLEAN])
      /\ Override \in STRING \X STRING
  BY SettingsAssumption
<1>2. \A i \in DOMAIN Moves : Moves[i].from \in STRING \X STRING /\ Moves[i].to \in STRING \X STRING
  <2> DEFINE Paths == STRING \X STRING
             Renamings == [from : Paths, to : Paths, table : BOOLEAN]
  <2>1. Moves \in Seq(Renamings)
    BY <1>1
  <2>2. \A m \in Renamings : m.from \in Paths /\ m.to \in Paths
    <3> HIDE DEF Paths
    <3> QED OBVIOUS
  <2> HIDE DEF Renamings, Paths
  <2>3. \A i \in DOMAIN Moves : Moves[i] \in Renamings
    BY <2>1
  <2>4. \A i \in DOMAIN Moves : Moves[i].from \in Paths /\ Moves[i].to \in Paths
    BY <2>2, <2>3
  <2> QED BY <2>4 DEF Paths
<1>3. \A p, q \in STRING \X STRING : p # q => Apart(p, q)
  BY DEF Apart
<1>4. /\ \A i, j \in DOMAIN Moves :
            /\ Moves[i].from # Moves[j].to
            /\ i # j => Moves[i].from # Moves[j].from /\ Moves[i].to # Moves[j].to
      /\ \A i \in DOMAIN Moves : Moves[i].from # Override /\ Moves[i].to[2] # "null"
  BY SettingsAssumption
<1>5. Len(Moves) \in Nat /\ DOMAIN Moves = 1..Len(Moves)
  BY <1>1
<1> QED BY <1>1, <1>2, <1>3, <1>4, <1>5

\* The keys are moved one by one.
Migrating(f, raw, n) == f = [i \in 0..n |-> IF i = 0 THEN raw ELSE MigrateOne(f[i - 1], Moves[i])]

LEMMA MigratingIs ==
    ASSUME NEW raw, NEW L \in Nat, L = Len(Moves)
    PROVE  \E f : Migrating(f, raw, L) /\ Migrate(raw) = f[L]
<1> DEFINE good == {m \in 0..L : \E f : Migrating(f, raw, m)}
<1>1. 0 \in good
  <2>1. Migrating([i \in 0..0 |-> raw], raw, 0)
    BY DEF Migrating
  <2> QED BY <2>1
<1>2. ASSUME NEW m \in 1..L, m - 1 \in good PROVE m \in good
  <2>1. PICK f : Migrating(f, raw, m - 1)
    BY <1>2
  <2> DEFINE g == [i \in 0..m |-> IF i < m THEN f[i] ELSE MigrateOne(f[i - 1], Moves[i])]
  <2>2. \A i \in 0..(m - 1) : g[i] = f[i]
    OBVIOUS
  <2>3. \A i \in 0..(m - 1) : f[i] = IF i = 0 THEN raw ELSE MigrateOne(f[i - 1], Moves[i])
    BY <2>1 DEF Migrating
  <2>4. g[m] = MigrateOne(f[m - 1], Moves[m])
    OBVIOUS
  <2>5. g = [i \in 0..m |-> g[i]]
    OBVIOUS
  <2> HIDE DEF g
  <2>6. \A i \in 0..m : g[i] = IF i = 0 THEN raw ELSE MigrateOne(g[i - 1], Moves[i])
    BY <2>2, <2>3, <2>4
  <2>7. Migrating(g, raw, m)
    BY <2>5, <2>6 DEF Migrating
  <2> QED BY <2>7
<1>3. L \in good
  <2> HIDE DEF good
  <2>1. \A i \in 0..L : i \in good
    BY <1>1, <1>2, CountsUp
  <2> QED BY <2>1
<1>4. \E f : Migrating(f, raw, L)
  BY <1>3
<1>5. Migrate(raw) = (CHOOSE f : Migrating(f, raw, L))[L]
  BY DEF Migrate, Migrating
<1> QED BY <1>4, <1>5

\* A move leaves the other moves' keys alone.
LEMMA MoveIs ==
    ASSUME NEW raw, NEW i \in DOMAIN Moves, NEW old, NEW new, Tidy(old), new = MigrateOne(old, Moves[i]),
           \A j \in DOMAIN Moves : j < i => ~Holds(old, Moves[j].from) /\ Outcome(old, raw, Moves[j]),
           \A j \in DOMAIN Moves : j >= i => Same(old, raw, Moves[j].from) /\ Same(old, raw, Moves[j].to)
    PROVE  /\ Tidy(new)
           /\ \A j \in DOMAIN Moves : j <= i => ~Holds(new, Moves[j].from) /\ Outcome(new, raw, Moves[j])
           /\ \A j \in DOMAIN Moves : j > i => Same(new, raw, Moves[j].from) /\ Same(new, raw, Moves[j].to)
<1> DEFINE m == Moves[i]
<1>0. m.to[2] # "null" /\ Apart(m.from, m.to) /\ i \in Nat
  BY MovesAre
<1>1. /\ Tidy(new)
      /\ \A s \in DOMAIN old : s \in DOMAIN new /\ (old[s] = Null => new[s] = Null)
      /\ ~Holds(new, m.from)
      /\ \A p : Apart(p, m.from) /\ Apart(p, m.to) => Same(new, old, p)
      /\ ~Holds(old, m.from) => new = old
      /\ Holds(old, m.from) =>
            \/ m.to[1] \in DOMAIN new /\ new[m.to[1]] = Null
            \/ /\ Holds(new, m.to)
               /\ ValueAt(new, m.to) = IF Holds(old, m.to)
                                  THEN Merged(ValueAt(old, m.from), ValueAt(old, m.to), m.table)
                                  ELSE ValueAt(old, m.from)
  BY <1>0, MigrateOneIs
<1>2. \A j \in DOMAIN Moves : j # i => Same(new, old, Moves[j].from) /\ Same(new, old, Moves[j].to)
  BY <1>1, MovesAre
<1>3. ~Holds(new, m.from) /\ Outcome(new, raw, m)
  <2>1. Same(old, raw, m.from) /\ Same(old, raw, m.to)
    BY <1>0
  <2>2. CASE ~Holds(old, m.from)
    <3>1. new = old /\ ~Holds(raw, m.from)
      BY <1>1, <2>1, <2>2 DEF Same
    <3> HIDE DEF m
    <3> QED BY <1>1, <2>1, <3>1 DEF Outcome, Same, Meant
  <2>3. CASE Holds(old, m.from)
    <3>1. Holds(raw, m.from) /\ ValueAt(old, m.from) = ValueAt(raw, m.from)
      BY <2>1, <2>3 DEF Same
    <3> HIDE DEF m
    <3> QED BY <1>1, <2>1, <2>3, <3>1 DEF Outcome, Same, Meant, Merged
  <2> QED BY <2>2, <2>3
<1>4. ASSUME NEW j \in DOMAIN Moves, j < i PROVE ~Holds(new, Moves[j].from) /\ Outcome(new, raw, Moves[j])
  <2>1. Same(new, old, Moves[j].from) /\ Same(new, old, Moves[j].to)
    BY <1>0, <1>2, <1>4
  <2>2. ~Holds(old, Moves[j].from) /\ Outcome(old, raw, Moves[j])
    BY <1>4
  <2> QED BY <1>1, <2>1, <2>2 DEF Outcome, Same
<1>5. ASSUME NEW j \in DOMAIN Moves, j > i
      PROVE  Same(new, raw, Moves[j].from) /\ Same(new, raw, Moves[j].to)
  <2>0. j \in Nat
    BY MovesAre
  <2>1. Same(new, old, Moves[j].from) /\ Same(new, old, Moves[j].to)
    BY <1>0, <1>2, <1>5, <2>0
  <2>2. Same(old, raw, Moves[j].from) /\ Same(old, raw, Moves[j].to)
    BY <1>0, <1>5, <2>0
  <2> QED BY <2>1, <2>2 DEF Same
<1>6. \A j \in DOMAIN Moves : j \in Nat
  BY MovesAre
<1> QED BY <1>0, <1>1, <1>3, <1>4, <1>5, <1>6

LEMMA MigrateIs ==
    ASSUME NEW raw, Tidy(raw), NEW new, new = Migrate(raw)
    PROVE  Tidy(new) /\ \A j \in DOMAIN Moves : ~Holds(new, Moves[j].from) /\ Outcome(new, raw, Moves[j])
<1> DEFINE L == Len(Moves)
<1>0. L \in Nat /\ DOMAIN Moves = 1..L
  BY MovesAre
<1>1. PICK f : Migrating(f, raw, L) /\ new = f[L]
  BY <1>0, MigratingIs
<1>2. f[0] = raw /\ \A i \in 1..L : f[i] = MigrateOne(f[i - 1], Moves[i])
  BY <1>0, <1>1 DEF Migrating
<1> DEFINE Done(i) ==
             /\ Tidy(f[i])
             /\ \A j \in DOMAIN Moves : j <= i => ~Holds(f[i], Moves[j].from) /\ Outcome(f[i], raw, Moves[j])
             /\ \A j \in DOMAIN Moves : j > i => Same(f[i], raw, Moves[j].from) /\ Same(f[i], raw, Moves[j].to)
           good == {i \in 0..L : Done(i)}
<1>3. 0 \in good
  <2>1. \A j \in DOMAIN Moves : ~(j <= 0)
    BY <1>0
  <2> QED BY <1>0, <1>2, <2>1 DEF Same
<1>4. ASSUME NEW i \in 1..L, i - 1 \in good PROVE i \in good
  <2> DEFINE old == f[i - 1]
  <2>1. Done(i - 1)
    BY <1>4
  <2>2. /\ Tidy(old)
        /\ \A j \in DOMAIN Moves : j < i => ~Holds(old, Moves[j].from) /\ Outcome(old, raw, Moves[j])
        /\ \A j \in DOMAIN Moves : j >= i => Same(old, raw, Moves[j].from) /\ Same(old, raw, Moves[j].to)
    BY <1>0, <2>1
  <2>3. f[i] = MigrateOne(old, Moves[i]) /\ i \in DOMAIN Moves
    BY <1>0, <1>2
  <2> HIDE DEF old, Done
  <2>4. Done(i)
    BY <2>2, <2>3, MoveIs DEF Done
  <2> QED BY <2>4
<1>5. L \in good
  <2> HIDE DEF good, L
  <2>1. \A i \in 0..L : i \in good
    BY <1>0, <1>3, <1>4, CountsUp
  <2> QED BY <1>0, <2>1
<1>6. Done(L)
  BY <1>5
<1> QED BY <1>0, <1>1, <1>6

\* The variable is laid over settings that no section breaks, and over nothing else.
LEMMA OverriddenIs ==
    ASSUME NEW raw, Tidy(raw), NEW n, n = Overridden(raw), \A s \in DOMAIN n : n[s] # Null
    PROVE  /\ \A s \in DOMAIN raw : raw[s] # Null
           /\ \A p : override = Unset \/ Apart(p, Override) => Same(n, raw, p)
           /\ override # Unset => ValueAt(n, Override) = override
<1> DEFINE s == Override[1]
           k == Override[2]
<1>0. k # "null"
  BY SettingsAssumption
<1>1. CASE override = Unset
  <2>1. n = raw
    BY <1>1 DEF Overridden
  <2> QED BY <1>1, <2>1 DEF Same
<1>2. CASE override # Unset /\ s \notin DOMAIN raw
  <2> DEFINE table == WithKey(<<>>, k, override)
  <2>1. n = WithKey(raw, s, table)
    BY <1>2 DEF Overridden
  <2>2. DOMAIN table = {k} /\ table[k] = override
    BY DEF WithKey
  <2>3. table # Null
    <3> HIDE DEF table
    <3> QED BY <1>0, <2>2, NoNull
  <2> HIDE DEF table
  <2>4. /\ \A p : p[1] = s => (Holds(n, p) <=> p[2] \in DOMAIN table) /\ ValueAt(n, p) = table[p[2]]
        /\ \A p : p[1] # s => Same(n, raw, p)
        /\ \A x \in DOMAIN raw : x \in DOMAIN n /\ (x # s => n[x] = raw[x])
    <3> HIDE DEF s
    <3> QED BY <2>1, <2>3, SectionIs
  <2>5. \A p : p[1] = s => ~Holds(raw, p)
    BY <1>2 DEF Holds, Has
  <2>6. \A p : Apart(p, Override) => Same(n, raw, p)
    BY <2>2, <2>4, <2>5 DEF Same, Apart
  <2>7. ValueAt(n, Override) = override
    BY <2>2, <2>4
  <2>8. \A x \in DOMAIN raw : raw[x] # Null
    BY <1>2, <2>4
  <2> QED BY <1>2, <2>6, <2>7, <2>8
<1>3. CASE override # Unset /\ s \in DOMAIN raw /\ raw[s] = Null
  <2>1. n = raw
    BY <1>3 DEF Overridden
  <2> QED BY <1>3, <2>1
<1>4. CASE override # Unset /\ s \in DOMAIN raw /\ raw[s] # Null
  <2> DEFINE table == WithKey(raw[s], k, override)
  <2>1. n = WithKey(raw, s, table)
    BY <1>4 DEF Overridden
  <2>2. /\ DOMAIN table = DOMAIN raw[s] \cup {k} /\ table[k] = override
        /\ \A x \in DOMAIN raw[s] : x # k => table[x] = raw[s][x]
    <3> HIDE DEF s, k
    <3> QED BY DEF WithKey
  <2>3. table # Null
    <3>1. "null" \notin DOMAIN raw[s]
      BY <1>4 DEF Tidy
    <3> HIDE DEF table
    <3> QED BY <1>0, <2>2, <3>1, NoNull
  <2> HIDE DEF table
  <2>4. /\ \A p : p[1] = s => (Holds(n, p) <=> p[2] \in DOMAIN table) /\ ValueAt(n, p) = table[p[2]]
        /\ \A p : p[1] # s => Same(n, raw, p)
        /\ \A x \in DOMAIN raw : x \in DOMAIN n /\ (x # s => n[x] = raw[x])
    <3> HIDE DEF s
    <3> QED BY <2>1, <2>3, SectionIs
  <2>5. \A p : p[1] = s => (Holds(raw, p) <=> p[2] \in DOMAIN raw[s]) /\ ValueAt(raw, p) = raw[s][p[2]]
    BY <1>4 DEF Holds, Has, ValueAt
  <2>6. \A p : Apart(p, Override) => Same(n, raw, p)
    <3> TAKE p
    <3>1. CASE p[1] # s
      <4> HIDE DEF s
      <4> QED BY <2>4, <3>1
    <3>2. CASE p[1] = s /\ Apart(p, Override)
      <4>1. p[2] # k
        BY <3>2 DEF Apart
      <4> HIDE DEF s, k
      <4> QED BY <2>2, <2>4, <2>5, <3>2, <4>1 DEF Same
    <3> QED BY <3>1, <3>2
  <2>7. ValueAt(n, Override) = override
    BY <2>2, <2>4
  <2>8. \A x \in DOMAIN raw : raw[x] # Null
    BY <1>4, <2>4
  <2> QED BY <1>4, <2>6, <2>7, <2>8
<1> QED BY <1>1, <1>2, <1>3, <1>4

SettingsInv ==
    /\ pinned \in Files \cup {Missing} /\ user \in Files \cup {Missing}
    /\ OldKeysStillCount

LEMMA ContentsAreTidy == ASSUME SettingsInv PROVE Tidy(Contents.raw)
<1>1. CASE Found = Missing
  <2>1. Contents.raw = <<>> /\ DOMAIN <<>> = {}
    BY <1>1 DEF Contents, Compiled
  <2> QED BY <2>1 DEF Tidy
<1>2. CASE Found # Missing
  <2>1. Contents \in Files
    BY <1>2 DEF Contents, Found, SettingsInv
  <2> QED BY <2>1, SettingsAssumption DEF Tidy, Null
<1> QED BY <1>1, <1>2

\* What is loaded is what each variable and each key, new or old, says.
LEMMA LoadStep == ASSUME SettingsInv, GetConfig PROVE SettingsInv'
<1>1. UNCHANGED <<pinned, user>>
  BY DEF GetConfig
<1>2. CASE UNCHANGED config
  BY <1>1, <1>2 DEF SettingsInv, OldKeysStillCount
<1>3. CASE config' = Load /\ Load.valid
  <2> DEFINE raw == Contents.raw
             moved == Migrate(raw)
             final == Overridden(moved)
  <2>1. /\ config'.loaded /\ config'.raw = final /\ config'.file = Contents /\ config'.env = override
        /\ Validated(Contents, final)
    BY <1>3 DEF Load
  <2>2. \A s \in DOMAIN final : final[s] # Null
    <3> HIDE DEF final
    <3> QED BY <2>1 DEF Validated
  <2>3. /\ Tidy(moved)
        /\ \A j \in DOMAIN Moves : ~Holds(moved, Moves[j].from) /\ Outcome(moved, raw, Moves[j])
    <3> HIDE DEF raw, moved
    <3>1. Tidy(raw)
      BY ContentsAreTidy DEF raw
    <3> QED BY <3>1, MigrateIs DEF moved
  <2>4. /\ \A s \in DOMAIN moved : moved[s] # Null
        /\ \A p : override = Unset \/ Apart(p, Override) => Same(final, moved, p)
        /\ override # Unset => ValueAt(final, Override) = override
    <3> HIDE DEF moved, final
    <3> QED BY <2>2, <2>3, OverriddenIs DEF final
  <2> HIDE DEF raw, moved, final
  <2>5. ASSUME NEW i \in DOMAIN Moves
        PROVE  LET m == Moves[i]
               IN  /\ ~Holds(final, m.from)
                   /\ override # Unset /\ m.to = Override => ValueAt(final, m.to) = override
                   /\ override = Unset \/ m.to # Override =>
                        IF Holds(raw, m.from) \/ Holds(raw, m.to)
                        THEN Holds(final, m.to) /\ ValueAt(final, m.to) = Meant(raw, m)
                        ELSE ~Holds(final, m.to)
    <3> DEFINE m == Moves[i]
    <3>1. Same(final, moved, m.from)
      BY <2>4, MovesAre
    <3>2. ~Holds(final, m.from)
      BY <2>3, <3>1 DEF Same
    <3>3. override # Unset /\ m.to = Override => ValueAt(final, m.to) = override
      BY <2>4
    <3>4. ASSUME override = Unset \/ m.to # Override
          PROVE  IF Holds(raw, m.from) \/ Holds(raw, m.to)
                 THEN Holds(final, m.to) /\ ValueAt(final, m.to) = Meant(raw, m)
                 ELSE ~Holds(final, m.to)
      <4>1. Same(final, moved, m.to)
        BY <2>4, <3>4, MovesAre
      <4>2. Outcome(moved, raw, m)
        BY <2>3
      <4> HIDE DEF m
      <4> QED BY <2>4, <4>1, <4>2 DEF Outcome, Same
    <3> QED BY <3>2, <3>3, <3>4
  <2>6. OldKeysStillCount'
    <3>1. config'.file.raw = raw
      BY <2>1 DEF raw
    <3> QED BY <2>1, <2>5, <3>1 DEF OldKeysStillCount, Holds, Has, ValueAt, Meant, Filled
  <2> QED BY <1>1, <2>6 DEF SettingsInv
<1> QED BY <1>2, <1>3 DEF GetConfig

LEMMA ConfigStep ==
    ASSUME SettingsInv, [SNext]_svars
    PROVE  SettingsInv' /\ PathStays
<1>1. CASE Change
  BY <1>1 DEF Change, SettingsInv, OldKeysStillCount, PathStays, Beside, ConfigFilePath
<1>2. CASE GetConfig
  BY <1>2, LoadStep DEF GetConfig, PathStays
<1>3. CASE ResetConfig
  BY <1>3 DEF ResetConfig, NotLoaded, SettingsInv, OldKeysStillCount, PathStays
<1>4. CASE UNCHANGED svars
  BY <1>4 DEF svars, SettingsInv, OldKeysStillCount, PathStays, Beside, ConfigFilePath
<1> QED BY <1>1, <1>2, <1>3, <1>4 DEF SNext

\* Loaded settings keep their strengthened invariant (get_config, reset_config).
THEOREM SettingsAreInvariant == SSpec => []SettingsInv
<1>1. SInit => SettingsInv
  BY DEF SInit, SettingsInv, OldKeysStillCount, NotLoaded
<1>2. SettingsInv /\ [SNext]_svars => SettingsInv'
  BY ConfigStep
<1> QED BY <1>1, <1>2, PTL DEF SSpec

\* For any files and any list of renamed keys that do not chain, a renamed key still counts
\* and no old one is left, and a relative path leads where it led until the settings are
\* reset (_migrate_legacy_keys, _load_config_recorded, config_file_path).
THEOREM SettingsKeepMeaning == SSpec => SettingsKeepTheirMeaning
<1>1. SettingsInv => OldKeysStillCount
  BY DEF SettingsInv
<1>2. SettingsInv /\ [SNext]_svars => [PathStays]_svars
  BY ConfigStep
<1> QED BY <1>1, <1>2, SettingsAreInvariant, PTL DEF SSpec, SettingsKeepTheirMeaning
===============================================================================
