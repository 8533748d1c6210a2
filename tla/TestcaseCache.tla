--------------------------- MODULE TestcaseCache ---------------------------
(***************************************************************************)
(* The test case cache of one worker process                               *)
(* (src/go/internal/worker/minio.go): Prepare, which downloads the zip of  *)
(* a problem and unzips it, and the LRU list that deletes what does not    *)
(* fit.  A task is one call of Prepare.                                    *)
(*                                                                         *)
(* The content of an object, its ETag and what was made from it are        *)
(* versions 1, 2, ...; 0 is an absent file.  Calls for one problem share   *)
(* one download and one unzip (singleflight), so the flock, which only     *)
(* keeps other processes out, is not modelled: one process per workspace.  *)
(***************************************************************************)
EXTENDS Naturals, FiniteSetsExt, Faults

CONSTANTS
    Problems,
    Tasks,              \* slots of the worker's pool
    MaxVersion,         \* bound: an object is replaced up to this version
    CacheByteBudget,    \* deriveCacheByteBudget; a zip or a directory is 1
    CacheMax,           \* TESTCASE_CACHE_MAX, used when there is no byte budget
    None

ASSUME CacheAssumption ==
    /\ MaxVersion \in Nat \ {0}
    /\ CacheByteBudget \in Nat
    /\ CacheMax \in Nat
    /\ None \notin Problems

VARIABLES
    remote,     \* remote[p]: version of problems/<p>.zip in MinIO
    disk,       \* disk[p]: the files of p under the workspace
    lru,        \* cacheList, as the pairs <<p, q>> with p not behind q in it
    entry,      \* entry[p]: what cacheMap knows of p
    prep        \* prep[t]: where task t is in Prepare

cacheVars == <<remote, disk, lru, entry, prep>>

Version == 0..MaxVersion

Files == [zip : Version, tag : Version,     \* <p>.zip and <p>.zip.etag
          dir : Version,                    \* cases_unzipped/<p>
          ready : BOOLEAN, rtag : Version]  \* .ready and .ready.etag in it

NoFiles == [zip |-> 0, tag |-> 0, dir |-> 0, ready |-> FALSE, rtag |-> 0]

NoEntry == [zip |-> FALSE, dir |-> FALSE, size |-> 0]

Downloading == {"stat", "check", "fetch", "retag"}

Unzipping == {"extract", "swap", "mark"}

PrepPC == {"off", "dlwait", "offline", "local", "enter", "uzwait", "ready", "failed"}
              \cup Downloading \cup Unzipping

NotPreparing == [pc |-> "off", prob |-> None, tag |-> 0, tmp |-> 0]

CacheTypeOK ==
    /\ remote \in [Problems -> 1..MaxVersion]
    /\ disk \in [Problems -> Files]
    /\ lru \subseteq Problems \X Problems
    /\ entry \in [Problems -> [zip : BOOLEAN, dir : BOOLEAN, size : 0..2]]
    /\ prep \in [Tasks -> [pc : PrepPC, prob : Problems \cup {None},
                           tag : Version, tmp : Version]]

CacheInit ==
    /\ remote = [p \in Problems |-> 1]
    /\ disk = [p \in Problems |-> NoFiles]
    /\ lru = {}
    /\ entry = [p \in Problems |-> NoEntry]
    /\ prep = [t \in Tasks |-> NotPreparing]

---------------------------------------------------------------------------
(* touchCache and evictIfNeeded. *)

\* calcEntrySizeBytes
EntrySize(f, e) == (IF e.zip /\ f.zip # 0 THEN 1 ELSE 0) + (IF e.dir /\ f.dir # 0 THEN 1 ELSE 0)

Fits(S, e) ==
    IF CacheByteBudget > 0
    THEN MapThenSumSet(LAMBDA p : e[p].size, S) <= CacheByteBudget
    ELSE CacheMax > 0 => Cardinality(S) <= CacheMax

Listed(list) == {p \in Problems : <<p, p>> \in list}

OnlyListed(list, S) == list \cap (S \X S)

\* Entries are dropped from the back until the rest fits: one stays if it
\* fits together with all that are in front of it.
Kept(list, e) == {p \in Listed(list) : Fits({q \in Problems : <<q, p>> \in list}, e)}

\* removeEntry deletes the files under the paths the entry knows.
RemoveEntry(f, e) ==
    [f EXCEPT !.zip   = IF e.zip THEN 0 ELSE @,
              !.tag   = IF e.zip THEN 0 ELSE @,
              !.dir   = IF e.dir THEN 0 ELSE @,
              !.ready = @ /\ ~e.dir,
              !.rtag  = IF e.dir THEN 0 ELSE @]

\* A task that is past its download has touched its problem's entry.
Fresh(p) == \E t \in Tasks : prep[t].prob = p
                             /\ prep[t].pc \notin {"off", "dlwait", "offline"} \cup Downloading

PushFront(p) == lru \cup ({p} \X (Listed(lru) \cup {p}))

\* cacheList.MoveToFront, or PushFront for a new entry.
MoveToFront(p) ==
    OnlyListed(lru, Listed(lru) \ {p}) \cup ({p} \X (Listed(lru) \cup {p}))

\* The files are f when p is touched with the paths z (zip) and d (workDir).
\* Any entry may be past its TTL, one a live task has touched only if that
\* task takes longer than the TTL.
Touch(f, p, z, d) ==
    LET known == [zip |-> entry[p].zip \/ z, dir |-> entry[p].dir \/ d]
        e     == [entry EXCEPT ![p] = [zip |-> known.zip, dir |-> known.dir,
                                       size |-> EntrySize(f[p], known)]]
        front == MoveToFront(p)
    IN  \E expired \in SUBSET (Listed(lru) \ {p}) :
          LET kept == Kept(OnlyListed(front, Listed(front) \ expired), e)
              out  == Listed(front) \ kept
          IN  /\ lru' = OnlyListed(front, kept)
              /\ entry' = [q \in Problems |-> IF q \in out THEN NoEntry ELSE e[q]]
              /\ disk' = [q \in Problems |-> IF q \in out THEN RemoveEntry(f[q], e[q]) ELSE f[q]]
              /\ IF \E q \in expired : Fresh(q) THEN Fault("slow_task") ELSE NoFault

---------------------------------------------------------------------------
(* Download. *)

GotoPrep(t, pc) == prep' = [prep EXCEPT ![t].pc = pc]

\* The leader of a singleflight group returns: its followers get its result.
FinishDownload(t, pc) ==
    prep' = [u \in Tasks |->
                IF u = t \/ (prep[u].pc = "dlwait" /\ prep[u].prob = prep[t].prob)
                THEN [prep[u] EXCEPT !.pc = pc] ELSE prep[u]]

BeginPrepare(t, p) ==
    /\ prep' = [prep EXCEPT ![t] = [NotPreparing EXCEPT !.prob = p,
                  !.pc = IF \E u \in Tasks : prep[u].prob = p /\ prep[u].pc \in Downloading
                         THEN "dlwait" ELSE "stat"]]
    /\ UNCHANGED <<remote, disk, lru, entry>>

DownloadStatLosesFollowers(t) ==
    LET p == prep[t].prob IN
    /\ prep[t].pc = "stat"
    /\ \/ prep' = [prep EXCEPT ![t] = [@ EXCEPT !.tag = remote[p], !.pc = "check"]] /\ NoFault
       \/ Fault("minio") /\ GotoPrep(t, "offline")
    /\ UNCHANGED <<remote, disk, lru, entry>>

\* getRemoteETagWithRetry; the failure is one that outlasts the retries.
DownloadStat(t) ==
    LET p == prep[t].prob IN
    /\ prep[t].pc = "stat"
    /\ \/ prep' = [prep EXCEPT ![t] = [@ EXCEPT !.tag = remote[p], !.pc = "check"]] /\ NoFault
       \/ Fault("minio") /\ FinishDownload(t, "offline")
    /\ UNCHANGED <<remote, disk, lru, entry>>

EtagMatch(p, tag) == disk[p].zip # 0 /\ disk[p].tag = tag

DownloadCheck(t) ==
    LET p == prep[t].prob IN
    /\ prep[t].pc = "check"
    /\ IF EtagMatch(p, prep[t].tag)
       THEN Touch(disk, p, TRUE, FALSE) /\ FinishDownload(t, "local")
       ELSE GotoPrep(t, "fetch") /\ NoFault /\ UNCHANGED <<disk, lru, entry>>
    /\ UNCHANGED remote

\* FGetObject into a temporary file, then rename: the object may have been
\* replaced since its ETag was read.
DownloadFetch(t) ==
    LET p == prep[t].prob IN
    /\ prep[t].pc = "fetch"
    /\ \/ disk' = [disk EXCEPT ![p].zip = remote[p]] /\ GotoPrep(t, "retag") /\ NoFault
       \/ Fault("minio") /\ FinishDownload(t, "offline") /\ UNCHANGED disk
    /\ UNCHANGED <<remote, lru, entry>>

DownloadTagStatsAgain(t) ==
    LET p == prep[t].prob IN
    /\ prep[t].pc = "retag"
    /\ Touch([disk EXCEPT ![p].tag = remote[p]], p, TRUE, FALSE)
    /\ FinishDownload(t, "local")
    /\ UNCHANGED remote

\* The ETag file is written last.  (A failed write is ignored: it leaves the
\* files as a restart just before it does.)
DownloadTag(t) ==
    LET p == prep[t].prob IN
    /\ prep[t].pc = "retag"
    /\ Touch([disk EXCEPT ![p].tag = prep[t].tag], p, TRUE, FALSE)
    /\ FinishDownload(t, "local")
    /\ UNCHANGED remote

---------------------------------------------------------------------------
(* The rest of Prepare. *)

\* MinIO is unavailable: whatever is unzipped and ready is used.
UseLocalCopy(t) ==
    LET p == prep[t].prob IN
    /\ prep[t].pc = "offline"
    /\ IF disk[p].ready
       THEN Touch(disk, p, FALSE, TRUE) /\ GotoPrep(t, "ready")
       ELSE GotoPrep(t, "failed") /\ NoFault /\ UNCHANGED <<disk, lru, entry>>
    /\ UNCHANGED remote

ReadyMatchesETag(p, tag) == disk[p].ready /\ (tag = 0 \/ disk[p].rtag = tag)

\* expectedETag is read from the file beside the zip.
CheckReady(t) ==
    LET p == prep[t].prob IN
    /\ prep[t].pc = "local"
    /\ prep' = [prep EXCEPT ![t] = [@ EXCEPT !.tag = disk[p].tag,
                  !.pc = IF ReadyMatchesETag(p, disk[p].tag) THEN "ready" ELSE "enter"]]
    /\ NoFault
    /\ UNCHANGED <<remote, disk, lru, entry>>

FinishUnzip(t, pc) ==
    prep' = [u \in Tasks |->
                IF u = t \/ (prep[u].pc = "uzwait" /\ prep[u].prob = prep[t].prob)
                THEN [prep[u] EXCEPT !.pc = pc] ELSE prep[u]]

\* Joins the group or leads it.  Under the lock the leader only asks whether
\* the ready marker exists, not which ETag it was written for.
EnterUnzip(t) ==
    LET p == prep[t].prob IN
    /\ prep[t].pc = "enter"
    /\ GotoPrep(t, IF \E u \in Tasks : prep[u].prob = p /\ prep[u].pc \in Unzipping THEN "uzwait"
                   ELSE IF disk[p].ready THEN "ready" ELSE "extract")
    /\ NoFault
    /\ UNCHANGED <<remote, disk, lru, entry>>

\* UnzipWithLimits into a temporary directory; the zip may be gone by now.
UnzipExtract(t) ==
    LET p == prep[t].prob IN
    /\ prep[t].pc = "extract"
    /\ \/ /\ disk[p].zip # 0
          /\ prep' = [prep EXCEPT ![t] = [@ EXCEPT !.tmp = disk[p].zip, !.pc = "swap"]]
          /\ NoFault
       \/ disk[p].zip = 0 /\ FinishUnzip(t, "failed") /\ NoFault
       \/ Fault("disk") /\ FinishUnzip(t, "failed")
    /\ UNCHANGED <<remote, disk, lru, entry>>

\* RemoveAll(workDir) ; Rename(tmpDir, workDir)
UnzipSwap(t) ==
    /\ prep[t].pc = "swap"
    /\ disk' = [disk EXCEPT ![prep[t].prob] =
                   [@ EXCEPT !.dir = prep[t].tmp, !.ready = FALSE, !.rtag = 0]]
    /\ GotoPrep(t, "mark")
    /\ NoFault
    /\ UNCHANGED <<remote, lru, entry>>

\* .ready.etag, then .ready; both fail when the directory was evicted.
UnzipMark(t) ==
    LET p == prep[t].prob
        f == [disk EXCEPT ![p] = [@ EXCEPT !.ready = TRUE, !.rtag = prep[t].tag]]
    IN  /\ prep[t].pc = "mark"
        /\ IF disk[p].dir # 0
           THEN Touch(f, p, TRUE, TRUE) /\ FinishUnzip(t, "ready")
           ELSE FinishUnzip(t, "failed") /\ NoFault /\ UNCHANGED <<disk, lru, entry>>
        /\ UNCHANGED remote

PrepareStep(t) ==
    \/ DownloadStat(t) \/ DownloadCheck(t) \/ DownloadFetch(t) \/ DownloadTag(t)
    \/ UseLocalCopy(t) \/ CheckReady(t) \/ EnterUnzip(t)
    \/ UnzipExtract(t) \/ UnzipSwap(t) \/ UnzipMark(t)

---------------------------------------------------------------------------
(* An operator replaces the object of a problem. *)
ReplaceObject(p) ==
    /\ remote[p] < MaxVersion
    /\ remote' = [remote EXCEPT ![p] = remote[p] + 1]
    /\ NoFault
    /\ UNCHANGED <<disk, lru, entry, prep>>

(* A restart forgets the list and the calls; the files stay. *)
RestartCache ==
    /\ lru' = {}
    /\ entry' = [p \in Problems |-> NoEntry]
    /\ prep' = [t \in Tasks |-> NotPreparing]
    /\ UNCHANGED <<remote, disk>>
=============================================================================
