------------------------------ MODULE WikiBuilds ------------------------------
(***************************************************************************)
(* One wiki of the knowledge service (MemoryKnowledge/src): uploads and    *)
(* removals of source files, edits of pages, builds that extract pages     *)
(* from the sources that changed, and the deletion of the wiki, at any     *)
(* moment of a build.                                                      *)
(*                                                                         *)
(* The parts: the row of the wiki in the SQL store, the serial queue of    *)
(* its builds, its directory with raw files, pages and index.db (of which  *)
(* the source table matters here).  A file stands for the page extracted   *)
(* from it: pages shared by several sources are left out, and so are       *)
(* files of the same name in different folders.  The id of a wiki is never *)
(* used again, so a deletion ends its story.                               *)
(***************************************************************************)
EXTENDS Integers, FiniteSets

CONSTANTS
  Files,
  Readable,     \* the files findMdFiles lists: .md and .txt
  MaxVersion,   \* the contents a file may have are 1..MaxVersion, and so are their hashes
  Mine,         \* a page its user wrote, which is locked
  Dropped,      \* a page its user removed
  MaxRemovals,  \* bound: removals in flight at a time
  MaxIngests,   \* bound: builds asked for
  MaxEdits,     \* bound: uploads, removals and edits
  MaxDeaths     \* bound: restarts of the process

ASSUME WikiAssumption ==
  /\ Readable \subseteq Files
  /\ MaxVersion \in Nat \ {0}
  /\ Mine \notin Nat /\ Dropped \notin Nat /\ Mine # Dropped
  /\ MaxRemovals \in Nat /\ MaxIngests \in Nat /\ MaxEdits \in Nat /\ MaxDeaths \in Nat

VARIABLES
  row,        \* the status of the wiki; "none" before its creation, "gone" after its deletion
  queue,      \* builds that wait in the serial queue of the wiki
  phase,      \* where the running build is
  job,        \* what the running build remembers
  cancelled,  \* whether the wiki is in the set of cancelled builds
  dir,        \* whether the directory exists
  disk,       \* raw files: their contents, 0 for none
  sources,    \* the source table of index.db
  pages,      \* 0, the contents the page was extracted from, Mine or Dropped
  removals,   \* rawRm and pageRm between their check and their effect
  gaps,       \* files whose table row is wrong since a swallowed failure or an overlap (history)
  orphan,     \* whether the process died with the directory of a deleted wiki on disk (history)
  ingests, edits, deaths

vars == <<row, queue, phase, job, cancelled, dir, disk, sources, pages, removals,
          gaps, orphan, ingests, edits, deaths>>
files == <<disk, sources, pages>>
history == <<gaps, orphan>>
counts == <<ingests, edits, deaths>>

Versions == 1..MaxVersion
NoRow == [sha |-> 0, st |-> "none"]
Rows == [sha : Versions, st : {"uploaded", "ingested", "failed"}]
Nothing == [f \in Files |-> 0]
Removals == {"raw", "page"} \X Files
Building == {"scan", "extract", "merge"}
Busy == row \in {"pending", "processing"}
Exists == row \notin {"none", "gone"}
Deleted == cancelled \/ ~Exists

\* A build knows the table as it was, the contents to ingest, the files that
\* have disappeared, the sources that did well so far, those still to merge,
\* and the page being merged with what was read of it.
Pages == {0, Mine, Dropped} \cup Versions
Jobs == [seen : [Files -> Rows \cup {NoRow}], taken : [Files -> {0} \cup Versions],
         missing : SUBSET Files, good : SUBSET Files, left : SUBSET Files, at : SUBSET Files,
         old : Pages]
NoJob == [seen |-> [f \in Files |-> NoRow], taken |-> Nothing, missing |-> {}, good |-> {},
          left |-> {}, at |-> {}, old |-> 0]

Init ==
  /\ row = "none" /\ queue = 0 /\ phase = "idle" /\ job = NoJob /\ cancelled = FALSE
  /\ dir = FALSE /\ disk = Nothing /\ sources = NoJob.seen /\ pages = Nothing
  /\ removals = {} /\ gaps = {} /\ orphan = FALSE
  /\ ingests = 0 /\ edits = 0 /\ deaths = 0

Create ==
  /\ row = "none"
  /\ row' = "draft" /\ dir' = TRUE
  /\ UNCHANGED <<queue, phase, job, cancelled, files, removals, history, counts>>

-----------------------------------------------------------------------------
(* Builds.                                                                 *)

\* Mutant: the cleanup of delete() is thought to be enough.
FinishCancelledOnly ==
  /\ cancelled' = FALSE /\ phase' = "done" /\ job' = NoJob
  /\ UNCHANGED <<row, dir, files, history>>

\* finishCancelled: what a build of a deleted wiki may have left is removed.
\* The row is gone already.
FinishCancelled ==
  /\ dir' = FALSE /\ disk' = Nothing /\ sources' = NoJob.seen /\ pages' = Nothing
  /\ cancelled' = FALSE /\ orphan' = FALSE
  /\ phase' = "done" /\ job' = NoJob
  /\ UNCHANGED <<row, gaps>>

\* runBuild up to its first await: the row is "processing", the directories
\* exist and the table has been read.
Starts ==
  IF Deleted THEN FinishCancelled
  ELSE /\ row' = "processing" /\ phase' = "scan" /\ dir' = TRUE
       /\ job' = [NoJob EXCEPT !.seen = sources]
       /\ UNCHANGED <<cancelled, files, history>>

\* A request for a build: refused without source rows or while one waits or
\* runs.  A free queue starts it at once.
Ingest ==
  /\ Exists /\ ~Busy /\ \E f \in Files : sources[f] # NoRow
  /\ ingests < MaxIngests /\ ingests' = ingests + 1
  /\ \/ phase = "idle" /\ Starts /\ UNCHANGED queue
     \/ /\ phase # "idle"
        /\ row' = "pending" /\ queue' = queue + 1
        /\ UNCHANGED <<phase, job, cancelled, dir, files, history>>
  /\ UNCHANGED <<removals, edits, deaths>>

\* classifySources.  Without the directory everything known is missing.
OnDisk == {f \in Readable : disk[f] # 0}
ToIngest == {f \in OnDisk : job.seen[f] # [sha |-> disk[f], st |-> "ingested"]}

Scans ==
  /\ phase = "scan" /\ phase' = "extract"
  /\ job' = [job EXCEPT !.taken = [f \in Files |-> IF f \in ToIngest THEN disk[f] ELSE 0],
                        !.missing = {f \in Files \ OnDisk : job.seen[f] # NoRow}]
  /\ UNCHANGED <<row, queue, cancelled, dir, files, removals, history, counts>>

Taken == {f \in Files : job.taken[f] # 0}

\* What becomes of the pages of S when its sources go: a page of the user
\* stays unless it names the source.
Cascade(S, keep) == [f \in Files |-> IF f \in S /\ ~(f \in keep /\ pages[f] = Mine) THEN 0 ELSE pages[f]]

\* Every extraction has ended; those in good well.  Missing sources are
\* removed, with their pages.
Extracts(good, keep) ==
  /\ phase = "extract" /\ phase' = "merge"
  /\ job' = [job EXCEPT !.good = good, !.left = good]
  /\ disk' = [f \in Files |-> IF f \in job.missing THEN 0 ELSE disk[f]]
  /\ pages' = Cascade(job.missing, keep)
  /\ UNCHANGED <<row, queue, cancelled, dir, sources, removals, history, counts>>

\* mergePage reads the page, asks the model, and writes what it got unless
\* the page it read is locked.
MergeReads(f) ==
  /\ phase = "merge" /\ job.at = {} /\ f \in job.left
  /\ job' = [job EXCEPT !.left = @ \ {f}, !.at = {f}, !.old = pages[f]]
  /\ UNCHANGED <<row, queue, phase, cancelled, dir, files, removals, history, counts>>

MergeSkips ==
  /\ phase = "merge" /\ job.at # {} /\ job.old = Mine
  /\ job' = [job EXCEPT !.at = {}, !.old = 0]
  /\ UNCHANGED <<row, queue, phase, cancelled, dir, files, removals, history, counts>>

MergeWrites(f) ==
  /\ phase = "merge" /\ f \in job.at /\ job.old # Mine
  /\ pages' = [pages EXCEPT ![f] = job.taken[f]] /\ dir' = TRUE
  /\ job' = [job EXCEPT !.at = {}, !.old = 0]
  /\ UNCHANGED <<row, queue, phase, cancelled, disk, sources, removals, history, counts>>

MergeFails(f) ==
  /\ phase = "merge" /\ f \in job.at
  /\ job' = [job EXCEPT !.good = @ \ {f}, !.at = {}, !.old = 0]
  /\ UNCHANGED <<row, queue, phase, cancelled, dir, files, removals, history, counts>>

\* recordSourceIngestResult keeps the hash of a row that exists.
Recorded(f) == [sha |-> IF sources[f] = NoRow THEN job.taken[f] ELSE sources[f].sha,
                st |-> IF f \in job.good THEN "ingested" ELSE "failed"]

\* The end of the build: results are recorded and missing rows deleted in one
\* transaction, then the row gets its status, unless the wiki was deleted.
Commits ==
  /\ phase = "merge" /\ job.left = {} /\ job.at = {}
  /\ \/ Deleted /\ FinishCancelled
     \/ /\ ~Deleted
        /\ sources' = [f \in Files |-> IF f \in job.missing THEN NoRow
                                       ELSE IF f \in Taken THEN Recorded(f) ELSE sources[f]]
        /\ gaps' = gaps \ job.missing
        /\ row' = IF Taken # {} /\ job.good = {} THEN "failed" ELSE "ready"
        /\ phase' = "hook" /\ job' = NoJob
        /\ UNCHANGED <<cancelled, dir, disk, pages, orphan>>
  /\ UNCHANGED <<queue, removals, counts>>

\* Anything else a build throws: nothing is recorded.
BuildThrows ==
  /\ phase \in Building
  /\ \/ Deleted /\ FinishCancelled
     \/ /\ ~Deleted
        /\ row' = "failed" /\ phase' = "hook" /\ job' = NoJob
        /\ UNCHANGED <<cancelled, dir, files, history>>
  /\ UNCHANGED <<queue, removals, counts>>

\* onBuildComplete: summary and callback.
HookEnds ==
  /\ phase = "hook" /\ phase' = "done"
  /\ UNCHANGED <<row, queue, job, cancelled, dir, files, removals, history, counts>>

\* Mutant: the queue forgets to go on.
DrainsOnce ==
  /\ phase = "done" /\ phase' = "idle"
  /\ UNCHANGED <<row, queue, job, cancelled, dir, files, removals, history, counts>>

\* The serial queue is free again, or starts its next job.
Drains ==
  /\ phase = "done"
  /\ \/ /\ queue = 0 /\ phase' = "idle"
        /\ UNCHANGED <<row, queue, job, cancelled, dir, files, history>>
     \/ queue > 0 /\ queue' = queue - 1 /\ Starts
  /\ UNCHANGED <<removals, counts>>

-----------------------------------------------------------------------------
(* Requests about files and pages, refused only while the row says         *)
(* "processing".                                                           *)

Edit == Exists /\ row # "processing" /\ edits < MaxEdits /\ edits' = edits + 1

\* Mutant: an update of the row leaves its status.
UploadedStill(f, v) ==
  [sha |-> v, st |-> IF sources[f] = NoRow THEN "uploaded" ELSE sources[f].st]

\* upsertSource.
Uploaded(f, v) == IF sources[f].sha = v THEN sources[f] ELSE [sha |-> v, st |-> "uploaded"]

\* The file is written; registering it in the table may fail, which is
\* swallowed.
RawWrite(f, v) ==
  /\ Edit
  /\ disk' = [disk EXCEPT ![f] = v] /\ dir' = TRUE
  /\ \/ /\ sources' = [sources EXCEPT ![f] = Uploaded(f, v)]
        /\ gaps' = IF sources[f].sha = v THEN gaps ELSE gaps \ {f}
     \/ /\ gaps' = IF sources[f] = NoRow \/ sources[f].sha = v THEN gaps ELSE gaps \cup {f}
        /\ UNCHANGED sources
  /\ UNCHANGED <<row, queue, phase, job, cancelled, pages, removals, orphan, ingests, deaths>>

\* Mutant: pages may be written at any time.
PageWriteAnytime(f) ==
  /\ Exists /\ edits < MaxEdits /\ edits' = edits + 1
  /\ pages' = [pages EXCEPT ![f] = Mine] /\ dir' = TRUE
  /\ UNCHANGED <<row, queue, phase, job, cancelled, disk, sources, removals, history, ingests, deaths>>

PageWrite(f) ==
  /\ Edit
  /\ pages' = [pages EXCEPT ![f] = Mine] /\ dir' = TRUE
  /\ UNCHANGED <<row, queue, phase, job, cancelled, disk, sources, removals, history, ingests, deaths>>

\* rawRm and pageRm check the status, then import the cascade.
RmStarts(kind, f) ==
  /\ Edit /\ Cardinality(removals) < MaxRemovals /\ <<kind, f>> \notin removals
  /\ kind = "page" => pages[f] \notin {0, Dropped}
  /\ removals' = removals \cup {<<kind, f>>}
  /\ UNCHANGED <<row, queue, phase, job, cancelled, dir, files, history, ingests, deaths>>

\* Deleting the rows of the table may fail, which is swallowed.
RawRmEnds(f, keep) ==
  /\ <<"raw", f>> \in removals /\ removals' = removals \ {<<"raw", f>>}
  /\ disk' = [disk EXCEPT ![f] = 0] /\ pages' = Cascade({f}, keep)
  /\ \/ /\ sources' = [sources EXCEPT ![f] = NoRow]
        /\ gaps' = IF f \in Taken THEN gaps \cup {f} ELSE gaps \ {f}
     \/ /\ gaps' = IF f \in Taken \/ sources[f] # NoRow THEN gaps \cup {f} ELSE gaps
        /\ UNCHANGED sources
  /\ UNCHANGED <<row, queue, phase, job, cancelled, dir, orphan, counts>>

PageRmEnds(f) ==
  /\ <<"page", f>> \in removals /\ removals' = removals \ {<<"page", f>>}
  /\ pages' = [pages EXCEPT ![f] = IF @ = 0 THEN 0 ELSE Dropped]
  /\ UNCHANGED <<row, queue, phase, job, cancelled, dir, disk, sources, history, counts>>

-----------------------------------------------------------------------------
(* Deletion and death.                                                     *)

Wiped ==
  /\ row' = "gone" /\ dir' = FALSE
  /\ disk' = Nothing /\ sources' = NoJob.seen /\ pages' = Nothing

Delete ==
  /\ Exists
  /\ cancelled' = (cancelled \/ Busy) /\ Wiped
  /\ UNCHANGED <<queue, phase, job, removals, history, counts>>

\* A new process knows neither queue nor cancelled builds;
\* markInterruptedAsFailed closes the rows of interrupted builds.
Restarts ==
  /\ deaths < MaxDeaths /\ deaths' = deaths + 1
  /\ queue' = 0 /\ phase' = "idle" /\ job' = NoJob /\ cancelled' = FALSE /\ removals' = {}
  /\ UNCHANGED <<gaps, ingests, edits>>

\* Mutant: builds that were waiting are forgotten.
SweptRunning == IF row = "processing" THEN "failed" ELSE row

Swept == IF Busy THEN "failed" ELSE row

Dies ==
  /\ Restarts /\ row' = Swept
  /\ orphan' = (orphan \/ (row = "gone" /\ dir))
  /\ UNCHANGED <<dir, files>>

\* The process dies in delete() between the row and the directory.
DeleteDies ==
  /\ Exists /\ Restarts /\ row' = "gone" /\ orphan' = TRUE
  /\ UNCHANGED <<dir, files>>

BuildSteps ==
  \/ Scans \/ Commits \/ HookEnds \/ Drains \/ MergeSkips
  \/ \E good, keep \in SUBSET Files : good \subseteq Taken /\ keep \subseteq job.missing /\ Extracts(good, keep)
  \/ \E f \in Files : MergeReads(f) \/ MergeWrites(f) \/ MergeFails(f)

Next ==
  \/ Create \/ Ingest \/ BuildSteps \/ BuildThrows \/ Delete \/ Dies \/ DeleteDies
  \/ \E f \in Files, v \in Versions : RawWrite(f, v)
  \/ \E f \in Files, kind \in {"raw", "page"} : RmStarts(kind, f)
  \/ \E f \in Files : PageWrite(f) \/ PageRmEnds(f) \/ \E keep \in SUBSET {f} : RawRmEnds(f, keep)

Spec == Init /\ [][Next]_vars

\* Model calls and callbacks have timeouts, and the event loop goes on.
FairSpec == Spec /\ WF_vars(BuildSteps)

-----------------------------------------------------------------------------
TypeOK ==
  /\ row \in {"none", "draft", "pending", "processing", "ready", "failed", "gone"}
  /\ queue \in Nat /\ phase \in Building \cup {"idle", "hook", "done"}
  /\ job \in Jobs
  /\ cancelled \in BOOLEAN /\ dir \in BOOLEAN /\ orphan \in BOOLEAN
  /\ disk \in [Files -> {0} \cup Versions] /\ sources \in [Files -> Rows \cup {NoRow}]
  /\ pages \in [Files -> Pages]
  /\ removals \subseteq Removals /\ gaps \subseteq Files
  /\ ingests \in Nat /\ edits \in Nat /\ deaths \in Nat

\* A wiki that answers "busy" has a build that runs, or one that waits for
\* another to end, and a deletion remembered as a cancelled build has a build that
\* will forget it: otherwise the wiki could never be built again, or a set of
\* the process would grow for ever (WikiService.ingest, delete, finishCancelled,
\* markInterruptedAsFailed).
BusyHasBuild ==
  /\ row = "processing" <=> phase \in Building /\ Exists
  /\ queue = IF row = "pending" \/ (cancelled /\ phase \notin Building) THEN 1 ELSE 0
  /\ phase = "idle" => queue = 0
  /\ cancelled => row = "gone"

\* Once the builds of a deleted wiki have ended, its directory is gone, though
\* a merge that was under way makes it again ("no residue", wiki-service.ts,
\* delete): only a process that dies between the two leaves it.
DeletedLeavesNothing ==
  row = "gone" /\ ~orphan /\ phase \notin Building => ~dir

\* A source recorded as ingested, which the next build will skip, is on disk
\* with the recorded contents and has its page: extracted from these contents,
\* locked by its user or removed by its user.  And no extracted page is left of
\* a source that is neither on disk nor in the table.  The exceptions are the
\* files a swallowed failure or an overlapping removal has touched
\* (classifySources, recordSourceIngestResult, upsertSource, rawRm).
PagesFollowSources ==
  Exists => \A f \in Files \ gaps :
    /\ sources[f].st = "ingested"
         => disk[f] = sources[f].sha /\ pages[f] \in {disk[f], Mine, Dropped}
    /\ pages[f] \in Versions => disk[f] # 0 \/ sources[f] # NoRow

\* No step turns a page its user has written into an extracted one, though a
\* merge writes long after it has read the page (mergePage, pageWrite).
UserEditsKept == [][\A f \in Files : pages[f] = Mine => pages'[f] \notin Versions]_vars

\* A wiki that is busy will be free again, whatever fails (BuildQueue, runBuild).
EveryBuildEnds == Busy ~> ~Busy
=============================================================================
