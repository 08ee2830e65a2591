--------------------------- MODULE WikiBuildsProofs ---------------------------
(***************************************************************************)
(* The safety properties of WikiBuilds, for any number of files, contents, *)
(* requests and restarts.                                                  *)
(***************************************************************************)
EXTENDS WikiBuilds, TLAPS

USE WikiAssumption

LEMMA NothingType ==
  /\ Nothing \in [Files -> {0} \cup Versions] /\ Nothing \in [Files -> Pages]
  /\ NoJob.seen \in [Files -> Rows \cup {NoRow}]
  /\ NoJob \in Jobs
  BY DEF Nothing, Pages, NoJob, Jobs

LEMMA CascadeType ==
  ASSUME NEW S, NEW keep, pages \in [Files -> Pages]
  PROVE  Cascade(S, keep) \in [Files -> Pages]
  BY DEF Cascade, Pages

\* A job of the type, field by field.
LEMMA JobFields ==
  ASSUME job \in Jobs
  PROVE  /\ job.seen \in [Files -> Rows \cup {NoRow}] /\ job.taken \in [Files -> {0} \cup Versions]
         /\ job.missing \subseteq Files /\ job.good \subseteq Files /\ job.left \subseteq Files
         /\ job.at \subseteq Files /\ job.old \in Pages
  BY DEF Jobs

LEMMA StartsType ==
  ASSUME TypeOK, Starts
  PROVE  /\ row' \in {row, "processing"} /\ phase' \in {"scan", "done"} /\ job' \in Jobs
         /\ cancelled' \in BOOLEAN /\ dir' \in BOOLEAN /\ orphan' \in BOOLEAN
         /\ disk' \in [Files -> {0} \cup Versions] /\ sources' \in [Files -> Rows \cup {NoRow}]
         /\ pages' \in [Files -> Pages] /\ gaps' = gaps
  <1>1. CASE Deleted BY <1>1, NothingType DEF TypeOK, Starts, FinishCancelled
  <1>2. CASE ~Deleted
    <2>1. [NoJob EXCEPT !.seen = sources] \in Jobs BY NothingType DEF TypeOK, Jobs
    <2> QED BY <1>2, <2>1 DEF TypeOK, Starts, files, history
  <1> QED BY <1>1, <1>2

LEMMA RecordedType ==
  ASSUME TypeOK, NEW f \in Taken
  PROVE  Recorded(f) \in Rows
  BY DEF TypeOK, Taken, Recorded, Rows, Jobs, NoRow

LEMMA UploadedType ==
  ASSUME TypeOK, NEW f \in Files, NEW v \in Versions
  PROVE  Uploaded(f, v) \in Rows /\ Uploaded(f, v).sha = v
  BY DEF TypeOK, Uploaded, Rows, NoRow, Versions

-----------------------------------------------------------------------------
LEMMA TypeInit == Init => TypeOK
  <1> SUFFICES ASSUME Init PROVE TypeOK
    OBVIOUS
  <1>1. removals \subseteq Removals
    BY DEF Init
  <1>2. /\ row = "none" /\ queue = 0 /\ phase = "idle" /\ job \in Jobs /\ cancelled = FALSE /\ dir = FALSE
        /\ disk \in [Files -> {0} \cup Versions] /\ sources \in [Files -> Rows \cup {NoRow}]
        /\ pages \in [Files -> Pages] /\ gaps = {} /\ orphan = FALSE
        /\ ingests = 0 /\ edits = 0 /\ deaths = 0
    BY NothingType DEF Init
  <1> QED BY <1>1, <1>2 DEF TypeOK

LEMMA RestartsType ==
  ASSUME TypeOK, Restarts
  PROVE  /\ removals' \subseteq Removals
         /\ queue' = 0 /\ phase' = "idle" /\ job' \in Jobs /\ cancelled' = FALSE
         /\ gaps' = gaps /\ ingests' = ingests /\ edits' = edits /\ deaths' \in Nat
  <1>1. removals' \subseteq Removals
    BY DEF Restarts
  <1> QED BY <1>1, NothingType DEF TypeOK, Restarts

LEMMA TypeStep == TypeOK /\ [Next]_vars => TypeOK'
  <1> SUFFICES ASSUME TypeOK, [Next]_vars PROVE TypeOK'
    OBVIOUS
  <1> USE DEF files, history, counts, Building
  <1>1. CASE Create BY <1>1 DEF TypeOK, Create
  <1>2. CASE Ingest
    <2>1. ingests' \in Nat /\ queue' \in Nat /\ removals' = removals /\ edits' = edits /\ deaths' = deaths
      BY <1>2 DEF TypeOK, Ingest
    <2>2. CASE phase = "idle" /\ Starts BY <2>1, <2>2, StartsType DEF TypeOK
    <2>3. CASE phase # "idle" BY <1>2, <2>1, <2>3 DEF TypeOK, Ingest
    <2> QED BY <1>2, <2>2, <2>3 DEF Ingest
  <1>3. CASE Scans
    <2>1. job' \in Jobs
      <3>1. [f \in Files |-> IF f \in ToIngest THEN disk[f] ELSE 0] \in [Files -> {0} \cup Versions]
        BY DEF TypeOK
      <3>2. {f \in Files \ OnDisk : job.seen[f] # NoRow} \in SUBSET Files OBVIOUS
      <3> QED BY <1>3, <3>1, <3>2 DEF TypeOK, Scans, Jobs
    <2> QED BY <1>3, <2>1 DEF TypeOK, Scans
  <1>4. ASSUME NEW good \in SUBSET Files, NEW keep \in SUBSET Files, Extracts(good, keep) PROVE TypeOK'
    <2>1. job' \in Jobs BY <1>4 DEF TypeOK, Extracts, Jobs
    <2>2. pages' \in [Files -> Pages] BY <1>4, CascadeType DEF TypeOK, Extracts
    <2>3. disk' \in [Files -> {0} \cup Versions] BY <1>4 DEF TypeOK, Extracts
    <2> QED BY <1>4, <2>1, <2>2, <2>3 DEF TypeOK, Extracts
  <1>5. ASSUME NEW f \in Files, MergeReads(f) PROVE TypeOK'
    <2>1. pages[f] \in Pages BY DEF TypeOK
    <2>2. job' \in Jobs BY <1>5, <2>1 DEF TypeOK, MergeReads, Jobs
    <2> QED BY <1>5, <2>2 DEF TypeOK, MergeReads
  <1>6. CASE MergeSkips
    <2>1. job' \in Jobs BY <1>6 DEF TypeOK, MergeSkips, Jobs, Pages
    <2> QED BY <1>6, <2>1 DEF TypeOK, MergeSkips
  <1>7. ASSUME NEW f \in Files, MergeWrites(f) PROVE TypeOK'
    <2>1. job' \in Jobs BY <1>7 DEF TypeOK, MergeWrites, Jobs, Pages
    <2>2. job.taken[f] \in Pages BY JobFields DEF TypeOK, Pages
    <2> QED BY <1>7, <2>1, <2>2 DEF TypeOK, MergeWrites
  <1>8. ASSUME NEW f \in Files, MergeFails(f) PROVE TypeOK'
    <2>1. job' \in Jobs BY <1>8 DEF TypeOK, MergeFails, Jobs, Pages
    <2> QED BY <1>8, <2>1 DEF TypeOK, MergeFails
  <1>9. CASE Commits
    <2>1. CASE Deleted /\ FinishCancelled
      BY <1>9, <2>1, NothingType DEF TypeOK, Commits, FinishCancelled
    <2>2. CASE ~Deleted
      <3>1. sources' \in [Files -> Rows \cup {NoRow}]
        BY <1>9, <2>2, RecordedType DEF TypeOK, Commits
      <3> QED BY <1>9, <2>2, <3>1, NothingType DEF TypeOK, Commits
    <2> QED BY <1>9, <2>1, <2>2 DEF Commits
  <1>10. CASE BuildThrows
    <2>1. CASE Deleted /\ FinishCancelled
      BY <1>10, <2>1, NothingType DEF TypeOK, BuildThrows, FinishCancelled
    <2>2. CASE ~Deleted BY <1>10, <2>2, NothingType DEF TypeOK, BuildThrows
    <2> QED BY <1>10, <2>1, <2>2 DEF BuildThrows
  <1>11. CASE HookEnds BY <1>11 DEF TypeOK, HookEnds
  <1>12. CASE Drains
    <2>1. removals' = removals /\ ingests' = ingests /\ edits' = edits /\ deaths' = deaths
      BY <1>12 DEF Drains
    <2>2. CASE queue = 0 /\ phase' = "idle" BY <1>12, <2>2 DEF TypeOK, Drains
    <2>3. CASE queue > 0 /\ queue' = queue - 1 /\ Starts
      <3>1. queue' \in Nat BY <2>3 DEF TypeOK
      <3> QED BY <2>1, <2>3, <3>1, StartsType DEF TypeOK
    <2> QED BY <1>12, <2>2, <2>3 DEF Drains
  <1>13. CASE Delete BY <1>13, NothingType DEF TypeOK, Delete, Wiped, Busy
  <1>14. CASE Dies
    <2>1. Restarts BY <1>14 DEF Dies
    <2>2. /\ removals' \subseteq Removals
          /\ queue' = 0 /\ phase' = "idle" /\ job' \in Jobs /\ cancelled' = FALSE
          /\ gaps' = gaps /\ ingests' = ingests /\ edits' = edits /\ deaths' \in Nat
      BY <2>1, RestartsType
    <2>3. /\ row' \in {"none", "draft", "pending", "processing", "ready", "failed", "gone"}
          /\ orphan' \in BOOLEAN BY <1>14 DEF Dies, TypeOK, Swept
    <2>4. dir' = dir /\ disk' = disk /\ sources' = sources /\ pages' = pages BY <1>14 DEF Dies
    <2> QED BY <2>2, <2>3, <2>4 DEF TypeOK
  <1>15. CASE DeleteDies
    <2>1. Restarts BY <1>15 DEF DeleteDies
    <2>2. /\ removals' \subseteq Removals
          /\ queue' = 0 /\ phase' = "idle" /\ job' \in Jobs /\ cancelled' = FALSE
          /\ gaps' = gaps /\ ingests' = ingests /\ edits' = edits /\ deaths' \in Nat
      BY <2>1, RestartsType
    <2>3. /\ row' = "gone" /\ orphan' = TRUE
          /\ dir' = dir /\ disk' = disk /\ sources' = sources /\ pages' = pages BY <1>15 DEF DeleteDies
    <2> QED BY <2>2, <2>3 DEF TypeOK
  <1>16. ASSUME NEW f \in Files, NEW v \in Versions, RawWrite(f, v) PROVE TypeOK'
    <2>1. disk' \in [Files -> {0} \cup Versions] BY <1>16 DEF TypeOK, RawWrite
    <2>2. sources' \in [Files -> Rows \cup {NoRow}] BY <1>16, UploadedType DEF TypeOK, RawWrite
    <2>3. gaps' \subseteq Files BY <1>16 DEF TypeOK, RawWrite
    <2> QED BY <1>16, <2>1, <2>2, <2>3 DEF TypeOK, RawWrite, Edit
  <1>17. ASSUME NEW f \in Files, NEW kind \in {"raw", "page"}, RmStarts(kind, f) PROVE TypeOK'
    BY <1>17 DEF TypeOK, RmStarts, Edit, Removals
  <1>18. ASSUME NEW f \in Files, PageWrite(f) PROVE TypeOK'
    BY <1>18 DEF TypeOK, PageWrite, Edit, Pages
  <1>19. ASSUME NEW f \in Files, PageRmEnds(f) PROVE TypeOK'
    BY <1>19 DEF TypeOK, PageRmEnds, Pages
  <1>20. ASSUME NEW f \in Files, NEW keep \in SUBSET {f}, RawRmEnds(f, keep) PROVE TypeOK'
    <2>1. disk' \in [Files -> {0} \cup Versions] BY <1>20 DEF TypeOK, RawRmEnds
    <2>2. pages' \in [Files -> Pages] BY <1>20, CascadeType DEF TypeOK, RawRmEnds
    <2>3. sources' \in [Files -> Rows \cup {NoRow}] BY <1>20 DEF TypeOK, RawRmEnds
    <2>4. gaps' \subseteq Files BY <1>20 DEF TypeOK, RawRmEnds
    <2> QED BY <1>20, <2>1, <2>2, <2>3, <2>4 DEF TypeOK, RawRmEnds
  <1>21. CASE UNCHANGED vars BY <1>21 DEF TypeOK, vars
  <1> QED
    BY <1>1, <1>2, <1>3, <1>4, <1>5, <1>6, <1>7, <1>8, <1>9, <1>10, <1>11, <1>12, <1>13, <1>14,
       <1>15, <1>16, <1>17, <1>18, <1>19, <1>20, <1>21 DEF Next, BuildSteps

\* Every variable keeps its type (all of WikiBuilds).
THEOREM TypeCorrect == Spec => []TypeOK
  BY TypeInit, TypeStep, PTL DEF Spec

-----------------------------------------------------------------------------
(* The row, the queue, the running build and the directory agree.          *)

\* Nothing has happened before the wiki exists.
Young ==
  row = "none" => /\ phase = "idle" /\ ~cancelled /\ removals = {}
                  /\ sources = NoJob.seen /\ pages = Nothing

BuildInv == Young /\ BusyHasBuild /\ DeletedLeavesNothing

\* A build that ends finds the wiki deleted and removes its directory.
LEMMA FinishBuilds ==
  ASSUME TypeOK, BuildInv, Deleted, FinishCancelled, phase \in Building \/ phase = "done",
         phase \in Building => queue' = queue, phase = "done" => queue = 1 /\ queue' = 0
  PROVE  BuildInv'
  BY DEF TypeOK, BuildInv, Young, BusyHasBuild, DeletedLeavesNothing, Deleted, Exists, FinishCancelled, Building

LEMMA BuildStep == TypeOK /\ BuildInv /\ [Next]_vars => BuildInv'
  <1> SUFFICES ASSUME TypeOK, BuildInv, [Next]_vars PROVE BuildInv'
    OBVIOUS
  <1> USE DEF files, history, counts, BuildInv, Young, BusyHasBuild, DeletedLeavesNothing, Exists, Building
  <1>1. CASE Create BY <1>1 DEF Create
  <1>2. CASE Ingest
    <2>1. ~cancelled /\ ~Deleted BY <1>2 DEF Ingest, Deleted
    <2>2. CASE phase = "idle" /\ Starts /\ queue' = queue
      BY <2>1, <2>2, <1>2 DEF Starts, Ingest, Busy
    <2>3. CASE phase # "idle" /\ row' = "pending" /\ queue' = queue + 1 /\ UNCHANGED <<phase, cancelled, dir, orphan>>
      BY <2>1, <2>3, <1>2 DEF Ingest, Busy
    <2> QED BY <1>2, <2>2, <2>3 DEF Ingest
  <1>3. CASE Scans BY <1>3 DEF Scans
  <1>4. ASSUME NEW good, NEW keep, Extracts(good, keep) PROVE BuildInv' BY <1>4 DEF Extracts
  <1>5. ASSUME NEW f, MergeReads(f) PROVE BuildInv' BY <1>5 DEF MergeReads
  <1>6. CASE MergeSkips BY <1>6 DEF MergeSkips
  <1>7. ASSUME NEW f, MergeWrites(f) PROVE BuildInv' BY <1>7 DEF MergeWrites
  <1>8. ASSUME NEW f, MergeFails(f) PROVE BuildInv' BY <1>8 DEF MergeFails
  <1>9. CASE Commits
    <2>1. CASE Deleted /\ FinishCancelled BY <1>9, <2>1, FinishBuilds DEF Commits
    <2>2. CASE ~Deleted BY <1>9, <2>2 DEF Commits, Deleted
    <2> QED BY <1>9, <2>1, <2>2 DEF Commits
  <1>10. CASE BuildThrows
    <2>1. CASE Deleted /\ FinishCancelled BY <1>10, <2>1, FinishBuilds DEF BuildThrows
    <2>2. CASE ~Deleted BY <1>10, <2>2 DEF BuildThrows, Deleted
    <2> QED BY <1>10, <2>1, <2>2 DEF BuildThrows
  <1>11. CASE HookEnds BY <1>11 DEF HookEnds
  <1>12. CASE Drains
    <2>1. CASE queue = 0 /\ phase' = "idle" BY <1>12, <2>1 DEF Drains
    <2>2. CASE queue > 0 /\ queue' = queue - 1 /\ Starts
      <3>1. queue = 1 /\ queue' = 0 /\ phase = "done" BY <1>12, <2>2 DEF Drains
      <3>2. CASE Deleted BY <2>2, <3>1, <3>2, FinishBuilds DEF Starts
      <3>3. CASE ~Deleted
        <4>1. row = "pending" /\ ~cancelled BY <3>1, <3>3 DEF Deleted
        <4> QED BY <2>2, <3>1, <3>3, <4>1 DEF Starts
      <3> QED BY <3>2, <3>3
    <2> QED BY <1>12, <2>1, <2>2 DEF Drains
  <1>13. CASE Delete BY <1>13 DEF Delete, Wiped, Busy
  <1>14. CASE Dies BY <1>14 DEF Dies, Restarts, Swept, Busy
  <1>15. CASE DeleteDies BY <1>15 DEF DeleteDies, Restarts
  <1>16. ASSUME NEW f, NEW v, RawWrite(f, v) PROVE BuildInv' BY <1>16 DEF RawWrite, Edit
  <1>17. ASSUME NEW f, NEW kind, RmStarts(kind, f) PROVE BuildInv' BY <1>17 DEF RmStarts, Edit
  <1>18. ASSUME NEW f, PageWrite(f) PROVE BuildInv' BY <1>18 DEF PageWrite, Edit
  <1>19. ASSUME NEW f, PageRmEnds(f) PROVE BuildInv' BY <1>19 DEF PageRmEnds
  <1>20. ASSUME NEW f, NEW keep, RawRmEnds(f, keep) PROVE BuildInv' BY <1>20 DEF RawRmEnds
  <1>21. CASE UNCHANGED vars BY <1>21 DEF vars
  <1> QED
    BY <1>1, <1>2, <1>3, <1>4, <1>5, <1>6, <1>7, <1>8, <1>9, <1>10, <1>11, <1>12, <1>13, <1>14,
       <1>15, <1>16, <1>17, <1>18, <1>19, <1>20, <1>21 DEF Next, BuildSteps

LEMMA BuildsSafe == Spec => [](TypeOK /\ BuildInv)
  <1>1. Init => BuildInv
    BY DEF Init, BuildInv, Young, BusyHasBuild, DeletedLeavesNothing, Exists, Building
  <1> QED BY <1>1, TypeInit, TypeStep, BuildStep, PTL DEF Spec

\* A busy wiki has a build that runs or waits for another to end, whatever
\* requests, deletions and restarts come between (ingest, runBuild, delete).
THEOREM BusyAlwaysHasBuild == Spec => []BusyHasBuild
  BY BuildsSafe, PTL DEF BuildInv

\* When the builds of a deleted wiki have ended nothing is left of it, unless
\* the process died in between (delete, finishCancelled).
THEOREM NothingLeftBehind == Spec => []DeletedLeavesNothing
  BY BuildsSafe, PTL DEF BuildInv

-----------------------------------------------------------------------------
(* What a build remembers stays true of files, table and pages while it    *)
(* waits for the model.                                                    *)

JobInv ==
  /\ phase \in {"scan", "extract"} => job.at = {}
  /\ phase \in {"extract", "merge"} => job.missing \cap Taken = {}
  /\ phase = "merge" =>
       /\ job.good \subseteq Taken /\ job.left \subseteq Taken /\ job.at \subseteq Taken
       /\ \A f, g \in job.at : f = g
       /\ \A f \in job.at : pages[f] = Mine => job.old = Mine
       /\ Exists => \A f \in job.missing : disk[f] = 0 /\ pages[f] \notin Versions

LEMMA MineIsNoVersion == Mine \notin Versions /\ Dropped \notin Versions /\ 0 \notin Versions /\ Mine # 0 /\ Dropped # 0
  BY DEF Versions

LEMMA CascadeValue ==
  ASSUME pages \in [Files -> Pages], NEW S, NEW keep, NEW f \in Files
  PROVE  /\ Cascade(S, keep)[f] \in {0, pages[f]}
         /\ f \notin S => Cascade(S, keep)[f] = pages[f]
         /\ f \in S => Cascade(S, keep)[f] \in {0, Mine}
  BY DEF Cascade

\* Outside "extract" and "merge" there is nothing to show.
LEMMA Restful == phase' \notin {"scan", "extract", "merge"} => JobInv'
  BY DEF JobInv

LEMMA FreshJob == phase' = "scan" /\ job' = [NoJob EXCEPT !.seen = sources] => JobInv'
  BY DEF JobInv, NoJob

\* A request that leaves the job alone.
LEMMA JobUndisturbed ==
  ASSUME TypeOK, JobInv, phase' = phase, job' = job, Exists' => Exists,
         phase = "merge" => \A f \in Files : /\ pages'[f] \in {0, Dropped, pages[f]}
                                              /\ disk'[f] \in {0, disk[f]}
  PROVE  JobInv'
  <1>1. Taken' = Taken BY DEF Taken
  <1>2. job.missing \subseteq Files /\ job.at \subseteq Files BY JobFields DEF TypeOK
  <1> QED BY <1>1, <1>2, MineIsNoVersion, WikiAssumption DEF JobInv

LEMMA JobStep == TypeOK /\ BuildInv /\ JobInv /\ [Next]_vars => JobInv'
  <1> SUFFICES ASSUME TypeOK, BuildInv, JobInv, [Next]_vars PROVE JobInv'
    OBVIOUS
  <1> USE DEF files, history, counts
  <1>0. phase \in Building => (Exists <=> row = "processing")
    BY DEF BuildInv, BusyHasBuild
  <1>1. CASE Create
    <2>1. phase' = "idle" BY <1>1 DEF Create, BuildInv, Young
    <2> QED BY <2>1, Restful
  <1>2. CASE Ingest
    <2>1. CASE phase = "idle" /\ Starts BY <2>1, Restful, FreshJob DEF Starts, FinishCancelled
    <2>2. CASE phase # "idle" /\ phase' = phase
      <3>1. phase \notin Building BY <1>0, <1>2 DEF Ingest, Busy
      <3> QED BY <2>2, <3>1, Restful DEF Building
    <2> QED BY <1>2, <2>1, <2>2 DEF Ingest
  <1>3. CASE Scans
    <2>1. job'.missing = {f \in Files \ OnDisk : job.seen[f] # NoRow} /\ job'.at = job.at
      BY <1>3 DEF Scans, TypeOK, Jobs
    <2>2. \A f \in Files : job'.taken[f] # 0 => f \in OnDisk
      BY <1>3 DEF Scans, TypeOK, Jobs, ToIngest
    <2>3. job'.missing \cap Taken' = {} BY <2>1, <2>2 DEF Taken
    <2> QED BY <1>3, <2>1, <2>3 DEF Scans, JobInv
  <1>4. ASSUME NEW good \in SUBSET Files, NEW keep \in SUBSET Files, good \subseteq Taken, Extracts(good, keep)
        PROVE JobInv'
    <2>1. /\ job'.good = good /\ job'.left = good /\ job'.at = job.at /\ job'.missing = job.missing
          /\ Taken' = Taken
      BY <1>4 DEF Extracts, TypeOK, Jobs, Taken
    <2>2. job.at = {} /\ job.missing \cap Taken = {} BY <1>4 DEF Extracts, JobInv
    <2>3. ASSUME NEW f \in job.missing PROVE disk'[f] = 0 /\ pages'[f] \notin Versions
      <3>1. f \in Files BY <2>3, JobFields DEF TypeOK
      <3>2. pages'[f] \in {0, Mine} BY <1>4, <2>3, <3>1, CascadeValue DEF Extracts, TypeOK
      <3> QED BY <1>4, <2>3, <3>1, <3>2, MineIsNoVersion DEF Extracts
    <2>4. phase' = "merge" BY <1>4 DEF Extracts
    <2> QED BY <1>4, <2>1, <2>2, <2>3, <2>4 DEF JobInv
  <1>5. ASSUME NEW f \in Files, MergeReads(f) PROVE JobInv'
    <2>1. /\ job'.good = job.good /\ job'.left = job.left \ {f} /\ job'.at = {f} /\ job'.old = pages[f]
          /\ job'.missing = job.missing /\ Taken' = Taken
      BY <1>5 DEF MergeReads, TypeOK, Jobs, Taken
    <2> QED BY <1>5, <2>1 DEF MergeReads, JobInv, Exists
  <1>6. CASE MergeSkips
    <2>1. /\ job'.good = job.good /\ job'.left = job.left /\ job'.at = {}
          /\ job'.missing = job.missing /\ Taken' = Taken
      BY <1>6 DEF MergeSkips, TypeOK, Jobs, Taken
    <2> QED BY <1>6, <2>1 DEF MergeSkips, JobInv, Exists
  <1>7. ASSUME NEW f \in Files, MergeWrites(f) PROVE JobInv'
    <2>1. /\ job'.good = job.good /\ job'.left = job.left /\ job'.at = {}
          /\ job'.missing = job.missing /\ Taken' = Taken
      BY <1>7 DEF MergeWrites, TypeOK, Jobs, Taken
    <2>2. f \in Taken /\ f \notin job.missing BY <1>7 DEF MergeWrites, JobInv
    <2>3. \A g \in job.missing : pages'[g] = pages[g] BY <1>7, <2>2 DEF MergeWrites, TypeOK
    <2> QED BY <1>7, <2>1, <2>3 DEF MergeWrites, JobInv, Exists
  <1>8. ASSUME NEW f \in Files, MergeFails(f) PROVE JobInv'
    <2>1. /\ job'.good = job.good \ {f} /\ job'.left = job.left /\ job'.at = {}
          /\ job'.missing = job.missing /\ Taken' = Taken
      BY <1>8 DEF MergeFails, TypeOK, Jobs, Taken
    <2> QED BY <1>8, <2>1 DEF MergeFails, JobInv, Exists
  <1>9. CASE Commits BY <1>9, Restful DEF Commits, FinishCancelled
  <1>10. CASE BuildThrows BY <1>10, Restful DEF BuildThrows, FinishCancelled
  <1>11. CASE HookEnds BY <1>11, Restful DEF HookEnds
  <1>12. CASE Drains BY <1>12, Restful, FreshJob DEF Drains, Starts, FinishCancelled
  <1>13. CASE Delete
    <2>1. \A f \in Files : pages'[f] = 0 /\ disk'[f] = 0 BY <1>13 DEF Delete, Wiped, Nothing
    <2>2. ~Exists' BY <1>13 DEF Delete, Wiped, Exists
    <2> QED BY <1>13, <2>1, <2>2, JobUndisturbed DEF Delete
  <1>14. CASE Dies BY <1>14, Restful DEF Dies, Restarts
  <1>15. CASE DeleteDies BY <1>15, Restful DEF DeleteDies, Restarts
  <1>16. ASSUME NEW f \in Files, NEW v \in Versions, RawWrite(f, v) PROVE JobInv'
    BY <1>0, <1>16, Restful DEF RawWrite, Edit, Building
  <1>17. ASSUME NEW f \in Files, NEW kind \in {"raw", "page"}, RmStarts(kind, f) PROVE JobInv'
    BY <1>17, JobUndisturbed DEF RmStarts, Exists
  <1>18. ASSUME NEW f \in Files, PageWrite(f) PROVE JobInv'
    BY <1>0, <1>18, Restful DEF PageWrite, Edit, Building
  <1>19. ASSUME NEW f \in Files, PageRmEnds(f) PROVE JobInv'
    <2>1. \A g \in Files : pages'[g] \in {0, Dropped, pages[g]} BY <1>19 DEF PageRmEnds, TypeOK
    <2> QED BY <1>19, <2>1, JobUndisturbed DEF PageRmEnds, Exists
  <1>20. ASSUME NEW f \in Files, NEW keep \in SUBSET {f}, RawRmEnds(f, keep) PROVE JobInv'
    <2>1. \A g \in Files : pages'[g] \in {0, Dropped, pages[g]}
      BY <1>20, CascadeValue DEF RawRmEnds, TypeOK
    <2>2. \A g \in Files : disk'[g] \in {0, disk[g]} BY <1>20 DEF RawRmEnds, TypeOK
    <2> QED BY <1>20, <2>1, <2>2, JobUndisturbed DEF RawRmEnds, Exists
  <1>21. CASE UNCHANGED vars BY <1>21, JobUndisturbed DEF vars, Exists
  <1> QED
    BY <1>1, <1>2, <1>3, <1>4, <1>5, <1>6, <1>7, <1>8, <1>9, <1>10, <1>11, <1>12, <1>13, <1>14,
       <1>15, <1>16, <1>17, <1>18, <1>19, <1>20, <1>21 DEF Next, BuildSteps

\* No build overwrites what a user has written (mergePage, pageWrite).
THEOREM UserEditsAlwaysKept == Spec => UserEditsKept
  <1>1. Init => JobInv BY DEF Init, JobInv
  <1>2. TypeOK /\ BuildInv /\ JobInv /\ [Next]_vars
          => [\A f \in Files : pages[f] = Mine => pages'[f] \notin Versions]_vars
    <2> SUFFICES ASSUME TypeOK, BuildInv, JobInv, Next, NEW f \in Files, pages[f] = Mine
                 PROVE  pages'[f] \notin Versions
      BY MineIsNoVersion DEF vars
    <2> USE MineIsNoVersion DEF files, TypeOK, Nothing
    <2>1. ASSUME NEW S, NEW keep, pages' = Cascade(S, keep) PROVE pages'[f] \notin Versions
      BY <2>1, CascadeValue
    <2>2. ASSUME NEW g \in Files, MergeWrites(g) PROVE pages'[f] \notin Versions
      BY <2>2 DEF MergeWrites, JobInv
    <2>3. CASE pages' = pages \/ pages' = Nothing BY <2>3
    <2>4. ASSUME NEW g \in Files, PageWrite(g) \/ PageRmEnds(g) PROVE pages'[f] \notin Versions
      BY <2>4 DEF PageWrite, PageRmEnds
    <2> QED
      BY <2>1, <2>2, <2>3, <2>4
      DEF Next, BuildSteps, Create, Ingest, Starts, FinishCancelled, Scans, Extracts, MergeReads, MergeSkips,
          MergeFails, Commits, BuildThrows, HookEnds, Drains, Delete, Wiped, Dies, DeleteDies, Restarts, RawWrite,
          RmStarts, RawRmEnds
  <1> QED BY <1>1, <1>2, BuildsSafe, JobStep, PTL DEF Spec, UserEditsKept
-----------------------------------------------------------------------------
(* Files, table and pages agree, and what a build remembers of them is     *)
(* true until it records it.                                               *)

Follows(f) ==
  /\ sources[f].st = "ingested"
       => f \in Readable /\ disk[f] = sources[f].sha /\ pages[f] \in {disk[f], Mine, Dropped}
  /\ sources[f] # NoRow /\ disk[f] # 0 => sources[f].sha = disk[f]
  /\ pages[f] \in Versions => disk[f] # 0 \/ sources[f] # NoRow

Known(f) ==
  phase = "scan" => job.seen[f] = sources[f] \/ (sources[f] = NoRow /\ disk[f] = 0)

InHand(f) ==
  phase \in {"extract", "merge"} =>
    /\ f \in Taken => f \in Readable /\ disk[f] = job.taken[f] /\ sources[f].st # "ingested"
    /\ f \in job.missing => sources[f].st # "ingested"

Merged(f) ==
  phase = "merge" =>
    /\ f \in job.good => f \in job.left \/ f \in job.at \/ pages[f] \in {job.taken[f], Mine, Dropped}
    /\ f \in job.at /\ job.old = Mine => pages[f] \in {Mine, Dropped}

Sound(f) == Follows(f) /\ Known(f) /\ InHand(f) /\ Merged(f)

PagesInv == Exists => \A f \in Files \ gaps : Sound(f)

LEMMA RowTypes ==
  ASSUME TypeOK, NEW f \in Files
  PROVE  /\ sources[f] = NoRow \/ sources[f] \in Rows
         /\ sources[f].st \in {"none", "uploaded", "ingested", "failed"}
         /\ sources[f].st = "none" <=> sources[f] = NoRow
         /\ sources[f] # NoRow => sources[f].sha \in Versions
         /\ sources[f].st = "ingested" => sources[f] = [sha |-> sources[f].sha, st |-> "ingested"]
         /\ disk[f] \in {0} \cup Versions /\ pages[f] \in Pages /\ job.taken[f] \in {0} \cup Versions
         /\ f \in Taken <=> job.taken[f] # 0
  BY JobFields DEF TypeOK, Rows, NoRow, Taken

\* Outside of a build only the files, the table and the pages matter.
LEMMA AtRest ==
  ASSUME NEW f, Follows(f)', phase' \notin Building
  PROVE  Sound(f)'
  BY DEF Sound, Known, InHand, Merged, Building

\* A step that leaves the files and what the build knows alone.
LEMMA SameSound ==
  ASSUME NEW f, Sound(f), phase' = phase, job' = job, disk'[f] = disk[f], sources'[f] = sources[f], pages'[f] = pages[f]
  PROVE  Sound(f)'
  BY DEF Sound, Follows, Known, InHand, Merged, Taken

LEMMA StartSound ==
  ASSUME NEW f \in Files, Sound(f), Starts, ~Deleted, TypeOK
  PROVE  Sound(f)'
  <1>1. phase' = "scan" /\ job'.seen = sources /\ UNCHANGED files
    BY NothingType DEF Starts, Jobs
  <1> QED BY <1>1 DEF Sound, Follows, Known, InHand, Merged, files

LEMMA ScanSound ==
  ASSUME NEW f \in Files, Sound(f), Scans, TypeOK
  PROVE  Sound(f)'
  <1> USE RowTypes DEF files
  <1>1. /\ job'.taken[f] = IF f \in ToIngest THEN disk[f] ELSE 0
        /\ job'.missing = {g \in Files \ OnDisk : job.seen[g] # NoRow}
        /\ phase' = "extract" /\ disk' = disk /\ sources' = sources /\ pages' = pages
    BY DEF Scans, TypeOK, Jobs
  <1>2. Known(f) /\ Follows(f) /\ phase = "scan"
    BY DEF Scans, Sound
  <1>3. sources[f].st = "ingested" => f \in OnDisk /\ f \notin ToIngest
    <2> SUFFICES ASSUME sources[f].st = "ingested" PROVE f \in OnDisk /\ f \notin ToIngest
      OBVIOUS
    <2>1. job.seen[f] = sources[f] /\ sources[f] = [sha |-> disk[f], st |-> "ingested"]
      BY <1>2 DEF Known, Follows
    <2>2. f \in Readable /\ disk[f] # 0
      BY <1>2, MineIsNoVersion DEF Follows
    <2> QED BY <2>1, <2>2 DEF OnDisk, ToIngest
  <1>4. InHand(f)'
    <2>1. f \in Taken' => f \in ToIngest /\ job'.taken[f] = disk[f]
      BY <1>1 DEF Taken
    <2>2. f \in job'.missing => f \notin OnDisk
      BY <1>1
    <2> QED BY <1>1, <1>3, <2>1, <2>2 DEF InHand, ToIngest, OnDisk
  <1> QED BY <1>1, <1>2, <1>4 DEF Sound, Follows, Known, Merged

LEMMA ExtractSound ==
  ASSUME NEW f \in Files, Sound(f), NEW good, NEW keep, Extracts(good, keep), TypeOK, JobInv
  PROVE  Sound(f)'
  <1> USE RowTypes
  <1>1. /\ job'.taken = job.taken /\ job'.missing = job.missing /\ job'.at = {} /\ job'.good = job'.left
        /\ phase = "extract" /\ phase' = "merge" /\ sources' = sources /\ Taken' = Taken
    BY DEF Extracts, TypeOK, Jobs, JobInv, Taken
  <1>2. CASE f \in job.missing
    <2>1. disk'[f] = 0 /\ pages'[f] \in {0, Mine}
      BY <1>2, CascadeValue DEF Extracts, TypeOK
    <2>2. f \notin Taken /\ sources[f].st # "ingested"
      BY <1>1, <1>2 DEF JobInv, Sound, InHand
    <2> QED BY <1>1, <2>1, <2>2, MineIsNoVersion DEF Sound, Follows, Known, InHand, Merged
  <1>3. CASE f \notin job.missing
    <2>1. disk'[f] = disk[f] /\ pages'[f] = pages[f]
      BY <1>3, CascadeValue DEF Extracts, TypeOK
    <2> QED BY <1>1, <1>3, <2>1 DEF Sound, Follows, Known, InHand, Merged
  <1> QED BY <1>2, <1>3

LEMMA MergeSound ==
  ASSUME NEW f \in Files, Sound(f), TypeOK, JobInv, NEW g \in Files,
         MergeReads(g) \/ MergeSkips \/ MergeWrites(g) \/ MergeFails(g)
  PROVE  Sound(f)'
  <1> USE RowTypes DEF files
  <1>1. /\ job'.taken = job.taken /\ job'.missing = job.missing /\ Taken' = Taken
        /\ phase = "merge" /\ phase' = "merge" /\ disk' = disk /\ sources' = sources
    <2>1. job'.taken = job.taken /\ job'.missing = job.missing
      <3>1. CASE MergeReads(g) BY <3>1 DEF MergeReads, TypeOK, Jobs
      <3>2. CASE MergeSkips BY <3>2 DEF MergeSkips, TypeOK, Jobs
      <3>3. CASE MergeWrites(g) BY <3>3 DEF MergeWrites, TypeOK, Jobs
      <3>4. CASE MergeFails(g) BY <3>4 DEF MergeFails, TypeOK, Jobs
      <3> QED BY <3>1, <3>2, <3>3, <3>4
    <2>2. phase = "merge" /\ phase' = "merge" /\ disk' = disk /\ sources' = sources
      BY DEF MergeReads, MergeSkips, MergeWrites, MergeFails
    <2> QED BY <2>1, <2>2 DEF Taken
  <1>2. InHand(f)' /\ Known(f)'
    BY <1>1 DEF Sound, InHand, Known
  <1>3. CASE MergeReads(g)
    <2>1. job'.good = job.good /\ job'.left = job.left \ {g} /\ job'.at = {g} /\ job'.old = pages[g] /\ pages' = pages
      BY <1>3 DEF MergeReads, TypeOK, Jobs
    <2>2. job.at = {} BY <1>3 DEF MergeReads
    <2> QED BY <1>1, <1>2, <2>1, <2>2 DEF Sound, Follows, Merged
  <1>4. CASE MergeSkips
    <2>1. job'.good = job.good /\ job'.left = job.left /\ job'.at = {} /\ pages' = pages /\ job.old = Mine
      BY <1>4 DEF MergeSkips, TypeOK, Jobs
    <2> QED BY <1>1, <1>2, <2>1 DEF Sound, Follows, Merged
  <1>5. CASE MergeWrites(g)
    <2>1. job'.good = job.good /\ job'.left = job.left /\ job'.at = {} /\ g \in job.at
      BY <1>5 DEF MergeWrites, TypeOK, Jobs
    <2>2. pages'[f] = IF f = g THEN job.taken[f] ELSE pages[f]
      BY <1>5 DEF MergeWrites, TypeOK
    <2>3. CASE f = g
      <3>1. f \in Taken BY <1>1, <2>1, <2>3 DEF JobInv
      <3>2. disk[f] = job.taken[f] /\ disk[f] # 0 /\ sources[f].st # "ingested"
        BY <1>1, <3>1 DEF Sound, InHand
      <3> QED BY <1>1, <1>2, <2>1, <2>2, <2>3, <3>2 DEF Sound, Follows, Merged
    <2>4. CASE f # g
      <3>1. f \notin job.at BY <1>1, <2>1, <2>4 DEF JobInv
      <3> QED BY <1>1, <1>2, <2>1, <2>2, <2>4, <3>1 DEF Sound, Follows, Merged
    <2> QED BY <2>3, <2>4
  <1>6. CASE MergeFails(g)
    <2>1. job'.good = job.good \ {g} /\ job'.left = job.left /\ job'.at = {} /\ pages' = pages /\ g \in job.at
      BY <1>6 DEF MergeFails, TypeOK, Jobs
    <2>2. f \in job.at => f = g BY <1>1, <2>1 DEF JobInv
    <2> QED BY <1>1, <1>2, <2>1, <2>2 DEF Sound, Follows, Merged
  <1> QED BY <1>3, <1>4, <1>5, <1>6

\* What a build records is what it has found and made.
LEMMA CommitSound ==
  ASSUME Commits, ~Deleted, TypeOK, JobInv, Exists, PagesInv, NEW f \in Files \ gaps'
  PROVE  Sound(f)'
  <1> USE RowTypes
  <1>1. /\ phase = "merge" /\ phase' = "hook" /\ job.left = {} /\ job.at = {} /\ disk' = disk /\ pages' = pages
        /\ gaps' = gaps \ job.missing
        /\ sources'[f] = IF f \in job.missing THEN NoRow ELSE IF f \in Taken THEN Recorded(f) ELSE sources[f]
    BY DEF Commits
  <1>2. CASE f \in job.missing
    <2>1. disk[f] = 0 /\ pages[f] \notin Versions BY <1>1, <1>2 DEF JobInv
    <2>2. Follows(f)' BY <1>1, <1>2, <2>1 DEF Follows, NoRow
    <2> QED BY <1>1, <2>2, AtRest DEF Building
  <1>3. CASE f \notin job.missing
    <2>1. Sound(f) BY <1>1, <1>3 DEF PagesInv
    <2>2. CASE f \notin Taken
      <3>1. Follows(f)' BY <1>1, <1>3, <2>1, <2>2 DEF Sound, Follows
      <3> QED BY <1>1, <3>1, AtRest DEF Building
    <2>3. CASE f \in Taken
      <3>1. f \in Readable /\ disk[f] = job.taken[f] /\ disk[f] # 0
        BY <1>1, <2>1, <2>3 DEF Sound, InHand
      <3>2. Recorded(f).sha = disk[f] /\ (Recorded(f).st = "ingested" => f \in job.good) /\ Recorded(f) # NoRow
        BY <2>1, <3>1 DEF Recorded, Sound, Follows, NoRow
      <3>3. f \in job.good => pages[f] \in {disk[f], Mine, Dropped}
        BY <1>1, <2>1, <3>1 DEF Sound, Merged
      <3>4. Follows(f)' BY <1>1, <1>3, <2>3, <3>1, <3>2, <3>3 DEF Follows
      <3> QED BY <1>1, <3>4, AtRest DEF Building
    <2> QED BY <2>2, <2>3
  <1> QED BY <1>2, <1>3
\* A request about files that a build does not have in hand.
LEMMA RequestSound ==
  ASSUME TypeOK, BuildInv, JobInv, Exists, PagesInv, NEW f \in Files, NEW v \in Versions, NEW keep \in SUBSET {f},
         RawWrite(f, v) \/ PageWrite(f) \/ PageRmEnds(f) \/ RawRmEnds(f, keep), NEW g \in Files \ gaps'
  PROVE  Sound(g)'
  <1> USE RowTypes, MineIsNoVersion
  <1>1. CASE RawWrite(f, v)
    <2>1. phase' \notin Building
      BY <1>1 DEF RawWrite, Edit, BuildInv, BusyHasBuild
    <2>2. pages' = pages /\ disk'[g] = IF g = f THEN v ELSE disk[g]
      BY <1>1 DEF RawWrite, TypeOK
    <2>3. CASE g # f
      <3>1. g \notin gaps /\ sources'[g] = sources[g] BY <1>1, <2>3 DEF RawWrite, TypeOK
      <3>2. Follows(g)' BY <2>2, <2>3, <3>1 DEF PagesInv, Sound, Follows
      <3> QED BY <2>1, <3>2, AtRest
    <2>4. CASE g = f /\ sources' = [sources EXCEPT ![f] = Uploaded(f, v)]
      <3>1. sources'[f] = Uploaded(f, v) /\ v # 0 BY <2>4 DEF TypeOK
      <3>2. CASE sources[f].sha = v
        <4>1. Sound(f) BY <1>1, <2>4, <3>2 DEF RawWrite, PagesInv
        <4>2. Follows(f)'
          BY <2>2, <2>4, <3>1, <3>2, <4>1 DEF Sound, Follows, Uploaded, NoRow
        <4> QED BY <2>1, <2>4, <4>2, AtRest
      <3>3. CASE sources[f].sha # v
        <4>1. Follows(f)' BY <2>2, <2>4, <3>1, <3>3 DEF Follows, Uploaded
        <4> QED BY <2>1, <2>4, <4>1, AtRest
      <3> QED BY <3>2, <3>3
    <2>5. CASE g = f /\ sources' = sources /\ gaps' = IF sources[f] = NoRow \/ sources[f].sha = v THEN gaps ELSE gaps \cup {f}
      <3>1. Sound(f) /\ (sources[f] = NoRow \/ sources[f].sha = v) BY <2>5 DEF PagesInv
      <3>2. Follows(f)' BY <2>2, <2>5, <3>1 DEF Sound, Follows, NoRow
      <3> QED BY <2>1, <2>5, <3>2, AtRest
    <2> QED BY <1>1, <2>3, <2>4, <2>5 DEF RawWrite
  <1>2. CASE PageWrite(f)
    <2>1. phase' \notin Building
      BY <1>2 DEF PageWrite, Edit, BuildInv, BusyHasBuild
    <2>2. /\ g \notin gaps /\ disk' = disk /\ sources' = sources
          /\ pages'[g] = IF g = f THEN Mine ELSE pages[g]
      BY <1>2 DEF PageWrite, TypeOK, history
    <2>3. Follows(g)' BY <2>2 DEF PagesInv, Sound, Follows
    <2> QED BY <2>1, <2>3, AtRest
  <1>3. CASE PageRmEnds(f)
    <2>1. /\ g \notin gaps /\ disk' = disk /\ sources' = sources /\ phase' = phase /\ job' = job
          /\ pages'[g] = IF g = f /\ pages[g] # 0 THEN Dropped ELSE pages[g]
      BY <1>3 DEF PageRmEnds, TypeOK, history
    <2>2. Sound(g) BY <2>1 DEF PagesInv
    <2>3. Follows(g)' BY <2>1, <2>2 DEF Sound, Follows
    <2>4. Taken' = Taken /\ (phase = "merge" => job.good \subseteq Taken) BY <2>1 DEF Taken, JobInv
    <2>5. Known(g)' /\ InHand(g)' BY <2>1, <2>2, <2>4 DEF Sound, Known, InHand
    <2>6. Merged(g)' BY <2>1, <2>2, <2>4 DEF Sound, Merged
    <2> QED BY <2>3, <2>5, <2>6 DEF Sound
  <1>4. CASE RawRmEnds(f, keep)
    <2>1. /\ phase' = phase /\ job' = job /\ disk'[g] = IF g = f THEN 0 ELSE disk[g]
          /\ (g # f => pages'[g] = pages[g]) /\ (g = f => pages'[g] \in {0, Mine})
      BY <1>4, CascadeValue DEF RawRmEnds, TypeOK
    <2>2. CASE g # f
      <3>1. g \notin gaps /\ sources'[g] = sources[g] BY <1>4, <2>2 DEF RawRmEnds, TypeOK
      <3>2. Sound(g) BY <3>1 DEF PagesInv
      <3> QED BY <2>1, <2>2, <3>1, <3>2, SameSound
    <2>3. CASE g = f
      <3>1. f \notin Taken /\ sources'[f] = NoRow
        BY <1>4, <2>3 DEF RawRmEnds, TypeOK
      <3>2. Taken' = Taken /\ (phase = "merge" => job.good \subseteq Taken /\ job.at \subseteq Taken)
        BY <2>1 DEF Taken, JobInv
      <3>3. Follows(f)' BY <2>1, <2>3, <3>1 DEF Follows, NoRow
      <3>4. Known(f)' /\ InHand(f)' BY <2>1, <2>3, <3>1, <3>2 DEF Known, InHand, NoRow
      <3>5. Merged(f)' BY <2>1, <3>1, <3>2 DEF Merged
      <3> QED BY <2>3, <3>3, <3>4, <3>5 DEF Sound
    <2> QED BY <2>2, <2>3
  <1> QED BY <1>1, <1>2, <1>3, <1>4

LEMMA PagesStep == TypeOK /\ BuildInv /\ JobInv /\ PagesInv /\ [Next]_vars => PagesInv'
  <1> SUFFICES ASSUME TypeOK, BuildInv, JobInv, PagesInv, [Next]_vars, Exists', NEW f \in Files \ gaps'
               PROVE  Sound(f)'
    BY DEF PagesInv
  <1> USE DEF files, history, counts, Exists
  <1>1. CASE Create
    <2>1. phase' = "idle" /\ sources'[f] = NoRow /\ disk'[f] = disk[f] /\ pages'[f] = 0
      BY <1>1 DEF Create, BuildInv, Young, NoJob, Nothing
    <2>2. Follows(f)' BY <2>1, MineIsNoVersion DEF Follows, NoRow
    <2> QED BY <2>1, <2>2, AtRest DEF Building
  <1>2. CASE Ingest
    <2>1. ~Deleted /\ Exists /\ phase \notin Building BY <1>2 DEF Ingest, Deleted, BuildInv, BusyHasBuild, Busy
    <2>2. CASE phase = "idle" /\ Starts
      <3>1. gaps' = gaps BY <2>1, <2>2 DEF Starts
      <3> QED BY <2>1, <2>2, <3>1, StartSound DEF PagesInv
    <2>3. CASE phase # "idle" /\ UNCHANGED <<phase, job, cancelled, dir, files, history>>
      BY <2>1, <2>3, SameSound DEF PagesInv
    <2> QED BY <1>2, <2>2, <2>3 DEF Ingest
  <1>3. CASE Scans BY <1>3, ScanSound DEF Scans, PagesInv
  <1>4. ASSUME NEW good, NEW keep, Extracts(good, keep) PROVE Sound(f)'
    BY <1>4, ExtractSound DEF Extracts, PagesInv
  <1>5. ASSUME NEW g \in Files, MergeReads(g) \/ MergeSkips \/ MergeWrites(g) \/ MergeFails(g) PROVE Sound(f)'
    <2>1. gaps' = gaps /\ row' = row BY <1>5 DEF MergeReads, MergeSkips, MergeWrites, MergeFails
    <2> QED BY <1>5, <2>1, MergeSound DEF PagesInv
  <1>6. CASE Commits
    <2>1. CASE Deleted /\ FinishCancelled
      BY <1>6, <2>1 DEF Commits, Deleted, FinishCancelled, BuildInv, BusyHasBuild
    <2>2. CASE ~Deleted BY <1>6, <2>2, CommitSound DEF Deleted
    <2> QED BY <1>6, <2>1, <2>2 DEF Commits
  <1>7. CASE BuildThrows
    <2>1. CASE Deleted /\ FinishCancelled
      BY <1>7, <2>1 DEF BuildThrows, Deleted, FinishCancelled, BuildInv, BusyHasBuild
    <2>2. CASE ~Deleted /\ phase' = "hook" /\ UNCHANGED <<files, history>>
      <3>1. Sound(f) BY <2>2 DEF Deleted, PagesInv
      <3>2. Follows(f)' BY <2>2, <3>1 DEF Sound, Follows
      <3> QED BY <2>2, <3>2, AtRest DEF Building
    <2> QED BY <1>7, <2>1, <2>2 DEF BuildThrows
  <1>8. CASE HookEnds
    <2>1. Sound(f) BY <1>8 DEF HookEnds, PagesInv
    <2>2. Follows(f)' BY <1>8, <2>1 DEF HookEnds, Sound, Follows
    <2> QED BY <1>8, <2>2, AtRest DEF HookEnds, Building
  <1>9. CASE Drains
    <2>1. CASE queue = 0 /\ phase' = "idle" /\ UNCHANGED <<row, files, history>>
      <3>1. Sound(f) BY <2>1 DEF PagesInv
      <3>2. Follows(f)' BY <2>1, <3>1 DEF Sound, Follows
      <3> QED BY <2>1, <3>2, AtRest DEF Building
    <2>2. CASE Starts /\ Deleted
      BY <2>2 DEF Starts, FinishCancelled, Deleted, BuildInv, BusyHasBuild
    <2>3. CASE Starts /\ ~Deleted
      <3>1. gaps' = gaps /\ Exists BY <2>3 DEF Starts, Deleted
      <3> QED BY <2>3, <3>1, StartSound DEF PagesInv
    <2> QED BY <1>9, <2>1, <2>2, <2>3 DEF Drains
  <1>10. CASE Delete \/ DeleteDies BY <1>10 DEF Delete, Wiped, DeleteDies
  <1>11. CASE Dies
    <2>1. phase' = "idle" /\ gaps' = gaps /\ UNCHANGED files /\ Exists
      BY <1>11 DEF Dies, Restarts, Swept, Busy
    <2>2. Follows(f)' BY <2>1 DEF PagesInv, Sound, Follows
    <2> QED BY <2>1, <2>2, AtRest DEF Building
  <1>12. ASSUME NEW g \in Files, NEW v \in Versions, RawWrite(g, v) PROVE Sound(f)'
    BY <1>12, RequestSound DEF RawWrite, Edit
  <1>13. ASSUME NEW g \in Files, NEW kind, RmStarts(kind, g) PROVE Sound(f)'
    BY <1>13, SameSound DEF RmStarts, Edit, PagesInv
  <1>14. ASSUME NEW g \in Files, PageWrite(g) \/ PageRmEnds(g) PROVE Sound(f)'
    <2>1. Exists BY <1>14 DEF PageWrite, PageRmEnds, Edit
    <2>2. 1 \in Versions BY DEF Versions
    <2> QED BY <1>14, <2>1, <2>2, RequestSound
  <1>15. ASSUME NEW g \in Files, NEW keep \in SUBSET {g}, RawRmEnds(g, keep) PROVE Sound(f)'
    <2>1. Exists BY <1>15 DEF RawRmEnds
    <2>2. 1 \in Versions BY DEF Versions
    <2> QED BY <1>15, <2>1, <2>2, RequestSound
  <1>16. CASE UNCHANGED vars BY <1>16, SameSound DEF vars, PagesInv
  <1> QED
    BY <1>1, <1>2, <1>3, <1>4, <1>5, <1>6, <1>7, <1>8, <1>9, <1>10, <1>11, <1>12, <1>13, <1>14,
       <1>15, <1>16 DEF Next, BuildSteps

\* The next build skips only what needs no build, and no page is left of a
\* source that is gone, for every file no swallowed failure or overlapping
\* removal has touched (classifySources, recordSourceIngestResult).
THEOREM PagesAlwaysFollow == Spec => []PagesFollowSources
  <1>1. Init => JobInv /\ PagesInv BY DEF Init, JobInv, PagesInv, Exists
  <1>2. PagesInv => PagesFollowSources BY DEF PagesInv, Sound, Follows, PagesFollowSources
  <1> QED BY <1>1, <1>2, BuildsSafe, JobStep, PagesStep, PTL DEF Spec
=============================================================================
