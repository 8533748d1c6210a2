-------------------------- MODULE JudgeTaskProofs --------------------------
(***************************************************************************)
(* What TLAPS proves about JudgeTask: the types and the LRU list, that an  *)
(* ETag never runs ahead of its data, and that the program alone decides   *)
(* its verdict when nothing takes the files of a task away.                *)
(***************************************************************************)
EXTENDS JudgeTask, WellFoundedInduction, TLAPS

---------------------------------------------------------------------------
(* The calls: a live task prepares the problem of its job, and is past     *)
(* Prepare only when Prepare has returned.                                 *)

TaskPC == {"free", "prepare", "save", "compile", "glob", "exec", "compare", "report",
           "error", "done", "dead"}

Judging == {"save", "compile", "glob", "exec", "compare", "report"}

CallOf(k, c) ==
    /\ k.pc \in {"free", "done", "dead"} => c.pc = "off"
    /\ k.pc \notin {"free", "done", "dead"} => /\ k.job \in Jobs
                                               /\ c.prob = ProblemOf[k.job]
    /\ k.pc = "prepare" => c.pc # "off"
    /\ k.pc \in Judging => c.pc = "ready"
    /\ k.pc = "error" => c.pc \in {"ready", "failed"}
    /\ k.verdict # "none" => k.job \in Jobs
    /\ k.pc \in {"prepare", "save", "compile", "glob", "exec", "compare"} => k.verdict = "none"

CallInv == \A t \in Tasks : CallOf(task[t], prep[t])

TaskInv == TypeOK /\ CallInv

---------------------------------------------------------------------------
(* The ETags: f are the files of a problem, r is the version in MinIO, and *)
(* c is a call of Prepare for the problem.                                 *)

FilesOK(f, r) ==
    /\ f.zip <= r /\ f.tag <= r
    /\ f.zip # 0 => f.tag <= f.zip
    /\ f.ready => f.dir # 0 /\ f.rtag <= f.dir

TagKnown(c, f, r) ==
    /\ c.pc \in {"check", "fetch", "retag", "enter", "extract"} => c.tag <= r
    /\ c.pc \in {"retag", "enter", "extract"} => (f.zip # 0 => c.tag <= f.zip)
    /\ c.pc = "swap" => c.tmp # 0 /\ c.tag <= c.tmp
    /\ c.pc = "mark" => (f.dir # 0 => c.tag <= f.dir)
    /\ c.pc \in Unzipping => ~f.ready

UnzipsAlone ==
    \A t, u \in Tasks : /\ prep[t].pc \in Unzipping /\ prep[u].pc \in Unzipping
                        /\ prep[t].prob = prep[u].prob
                        => t = u

TagInv ==
    /\ \A p \in Problems : FilesOK(disk[p], remote[p])
    /\ \A t \in Tasks : prep[t].pc # "off"
           => TagKnown(prep[t], disk[prep[t].prob], remote[prep[t].prob])
    /\ UnzipsAlone

---------------------------------------------------------------------------
(* The verdict: nobody else runs the job of a task, the cases it was given *)
(* stay, and all that it has passed so far its program g solves.           *)

OneAttempt == \A t, u \in Tasks : Live(t) /\ Live(u) /\ Job(t) = Job(u) => t = u

CasesStay == \A t \in Tasks : prep[t].pc = "ready" => disk[prep[t].prob].ready

Solves(g, v, c) == <<v, c>> \in g.solves

\* saved: the directory of the job is there; out: what its output answers;
\* v: the version of the cases in the directory.
Attempt(k, saved, out, g, v) ==
    /\ k.pc \in {"compile", "glob", "exec", "compare"} => saved
    /\ k.pc \in {"exec", "compare"} => /\ k.todo # {}
                                       /\ \A c \in Cases \ k.todo : Solves(g, v, c)
    /\ k.pc = "compare" =>
         out = IF Solves(g, v, Min(k.todo)) THEN <<v, Min(k.todo)>> ELSE NoCase

Earned(verdict, g) ==
    /\ verdict = "Accepted" => \E v \in Versions : \A c \in Cases : Solves(g, v, c)
    /\ verdict \in {"Wrong Answer", "Runtime Error"} =>
         \E v \in Versions, c \in Cases : ~Solves(g, v, c)
    /\ verdict = "Compile Error" => ~ g.compiles

AttemptIn(k, dirs, outs, progs, files) ==
    k.job \in Jobs => /\ Attempt(k, k.job \in dirs, outs[k.job], progs[k.job],
                                 files[ProblemOf[k.job]].dir)
                      /\ Earned(k.verdict, progs[k.job])

EarnedInv ==
    /\ OneAttempt
    /\ CasesStay
    /\ \A t \in Tasks : AttemptIn(task[t], jobDir, userOut, prog, disk)

\* The cache has room for all problems.
RoomForAll ==
    \A S \in SUBSET Problems, e \in [Problems -> [zip : BOOLEAN, dir : BOOLEAN, size : 0..2]] :
        Fits(S, e)

\* Nothing takes the files of a task away: the cache has room and no
\* task outlives the TTL of an entry, a job has one attempt at a time, and the
\* judge does not fail while it compiles.
Undisturbed ==
    /\ RoomForAll
    /\ FaultKinds \cap {"slow_task", "overlap", "judge_compile"} = {}

---------------------------------------------------------------------------
(* The LRU list and touchCache. *)

Entries == [zip : BOOLEAN, dir : BOOLEAN, size : 0..2]

Calls == [pc : PrepPC, prob : Problems \cup {None}, tag : Version, tmp : Version]

TaskRecords == [pc : TaskPC, job : Jobs \cup {None}, todo : SUBSET Cases, verdict : Verdicts]

LEMMA OnlyListedIsList ==
    ASSUME NEW L, IsList(L), NEW S, S \subseteq Listed(L)
    PROVE  IsList(OnlyListed(L, S)) /\ Listed(OnlyListed(L, S)) = S
<1>1. Listed(L) \subseteq Problems /\ \A p \in Listed(L) : <<p, p>> \in L
  BY DEF Listed
<1>2. Listed(OnlyListed(L, S)) = S
  BY <1>1 DEF Listed, OnlyListed
<1>3. OnlyListed(L, S) \subseteq S \X S /\ OnlyListed(L, S) \subseteq L
  BY DEF OnlyListed
<1>4. \A p, q \in S : <<p, q>> \in OnlyListed(L, S) <=> <<p, q>> \in L
  BY DEF OnlyListed
<1>5. \A p, q \in S : <<p, q>> \in L \/ <<q, p>> \in L
  BY DEF IsList
<1>6. \A p, q \in S : <<p, q>> \in L /\ <<q, p>> \in L => p = q
  BY DEF IsList
<1>7. \A p, q, r \in S : <<p, q>> \in L /\ <<q, r>> \in L => <<p, r>> \in L
  BY DEF IsList
<1> QED  BY <1>2, <1>3, <1>4, <1>5, <1>6, <1>7 DEF IsList

LEMMA MoveToFrontIsList ==
    ASSUME IsList(lru), NEW p \in Problems
    PROVE  IsList(MoveToFront(p)) /\ Listed(MoveToFront(p)) = Listed(lru) \cup {p}
<1> DEFINE O == Listed(lru) \ {p}
           B == OnlyListed(lru, O)
           N == Listed(lru) \cup {p}
           F == MoveToFront(p)
<1>1. IsList(B) /\ Listed(B) = O
  BY OnlyListedIsList
<1>2. F = B \cup ({p} \X N)
  BY DEF MoveToFront
<1>3. B \subseteq O \X O /\ p \notin O /\ N = O \cup {p} /\ O \subseteq Problems
  BY DEF OnlyListed, Listed
<1>4. \A q, r : <<q, r>> \in F <=> (<<q, r>> \in B \/ (q = p /\ r \in N))
  BY <1>2
<1>5. Listed(F) = N
  BY <1>1, <1>3, <1>4 DEF Listed
<1>6. F \subseteq N \X N
  BY <1>2, <1>3
<1>7. \A q, r \in N : <<q, r>> \in F \/ <<r, q>> \in F
  <2>1. \A q, r \in O : <<q, r>> \in B \/ <<r, q>> \in B
    BY <1>1 DEF IsList
  <2> QED  BY <2>1, <1>3, <1>4
<1>8. \A q, r \in N : <<q, r>> \in F /\ <<r, q>> \in F => q = r
  <2>1. \A q, r \in O : <<q, r>> \in B /\ <<r, q>> \in B => q = r
    BY <1>1 DEF IsList
  <2> QED  BY <2>1, <1>3, <1>4
<1>9. \A q, r, s \in N : <<q, r>> \in F /\ <<r, s>> \in F => <<q, s>> \in F
  <2>1. \A q, r, s \in O : <<q, r>> \in B /\ <<r, s>> \in B => <<q, s>> \in B
    BY <1>1 DEF IsList
  <2> QED  BY <2>1, <1>3, <1>4
<1> QED  BY <1>5, <1>6, <1>7, <1>8, <1>9 DEF IsList

\* What removeEntry, or leaving the files alone, makes of files f.
Shrunk(g, f) ==
    /\ \/ g.zip = f.zip /\ g.tag = f.tag
       \/ g.zip = 0 /\ g.tag = 0
    /\ \/ g.dir = f.dir /\ g.ready = f.ready /\ g.rtag = f.rtag
       \/ g.dir = 0 /\ g.ready = FALSE /\ g.rtag = 0

LEMMA RemoveShrinks ==
    ASSUME NEW f \in Files, NEW e \in Entries
    PROVE  RemoveEntry(f, e) \in Files /\ Shrunk(RemoveEntry(f, e), f)
<1>1. MaxVersion \in Nat /\ 0 \in Version
  BY CacheAssumption DEF Version
<1>2. e.zip \in BOOLEAN /\ e.dir \in BOOLEAN
  BY DEF Entries
<1> DEFINE g == RemoveEntry(f, e)
<1>3. g.zip = (IF e.zip THEN 0 ELSE f.zip) /\ g.tag = (IF e.zip THEN 0 ELSE f.tag)
      /\ g.dir = (IF e.dir THEN 0 ELSE f.dir) /\ g.rtag = (IF e.dir THEN 0 ELSE f.rtag)
  BY <1>2 DEF RemoveEntry, Files
<1>3a. g.ready = (f.ready /\ ~e.dir)
  BY <1>2 DEF RemoveEntry, Files
<1>4. g \in Files
  BY <1>1, <1>2 DEF RemoveEntry, Files
<1> HIDE DEF g
<1>5. (g.zip = f.zip /\ g.tag = f.tag) \/ (g.zip = 0 /\ g.tag = 0)
  BY <1>2, <1>3
<1>6. f.ready \in BOOLEAN
  BY DEF Files
<1>7. \/ g.dir = f.dir /\ g.ready = f.ready /\ g.rtag = f.rtag
      \/ g.dir = 0 /\ g.ready = FALSE /\ g.rtag = 0
  BY <1>2, <1>3, <1>3a, <1>6
<1> QED  BY <1>4, <1>5, <1>7 DEF g, Shrunk

LEMMA ShrunkSame ==
    ASSUME NEW f
    PROVE  Shrunk(f, f)
  BY Zenon DEF Shrunk

CacheInv ==
    /\ CacheTypeOK
    /\ budget \in Nat
    /\ IsList(lru)
    /\ \A p \in Problems : p \in Listed(lru) <=> entry[p] # NoEntry

ListInv == /\ lru \subseteq Problems \X Problems /\ IsList(lru)
           /\ entry \in [Problems -> Entries]
           /\ \A p \in Problems : p \in Listed(lru) <=> entry[p] # NoEntry

\* An entry as touchCache leaves it: the paths it knows and their size.
Touched(f, e, z, d) ==
    LET known == [zip |-> e.zip \/ z, dir |-> e.dir \/ d]
    IN  [zip |-> known.zip, dir |-> known.dir, size |-> EntrySize(f, known)]

LEMMA TouchedEntry ==
    ASSUME NEW f \in Files, NEW e \in Entries, NEW z \in BOOLEAN, NEW d \in BOOLEAN, z \/ d
    PROVE  Touched(f, e, z, d) \in Entries /\ Touched(f, e, z, d) # NoEntry
<1> DEFINE known == [zip |-> e.zip \/ z, dir |-> e.dir \/ d]
           new == Touched(f, e, z, d)
<1>1. e.zip \in BOOLEAN /\ e.dir \in BOOLEAN
  BY DEF Entries
<1>2. EntrySize(f, known) \in 0..2
  <2> HIDE DEF known
  <2> QED  BY DEF EntrySize
<1>3. new = [zip |-> e.zip \/ z, dir |-> e.dir \/ d, size |-> EntrySize(f, known)]
  BY Zenon DEF Touched
<1> HIDE DEF known
<1>4. new.zip = (e.zip \/ z) /\ new.dir = (e.dir \/ d)
  BY <1>3
<1>5. new \in Entries
  BY <1>1, <1>2, <1>3 DEF Entries
<1>6. NoEntry.zip = FALSE /\ NoEntry.dir = FALSE
  BY DEF NoEntry
<1> QED  BY <1>4, <1>5, <1>6

LEMMA NoEntryType == NoEntry \in Entries
  BY DEF NoEntry, Entries

LEMMA TouchCache ==
    ASSUME ListInv, budget \in Nat, NEW f \in [Problems -> Files], NEW p \in Problems,
           NEW z \in BOOLEAN, NEW d \in BOOLEAN, z \/ d, Touch(f, p, z, d)
    PROVE  /\ ListInv' /\ budget' \in Nat
           /\ disk' \in [Problems -> Files]
           /\ \A q \in Problems : Shrunk(disk'[q], f[q])
           /\ RoomForAll /\ "slow_task" \notin FaultKinds =>
                \A q \in Problems : q = p \/ Fresh(q) => disk'[q] = f[q]
<1> DEFINE e == [entry EXCEPT ![p] = Touched(f[p], entry[p], z, d)]
           front == MoveToFront(p)
           left(expired) == OnlyListed(front, Listed(front) \ expired)
           kept(expired) == Kept(left(expired), e)
           out(expired) == Listed(front) \ kept(expired)
<1>1. PICK expired \in SUBSET (Listed(lru) \ {p}) :
          /\ lru' = OnlyListed(front, kept(expired))
          /\ entry' = [q \in Problems |-> IF q \in out(expired) THEN NoEntry ELSE e[q]]
          /\ disk' = [q \in Problems |-> IF q \in out(expired) THEN RemoveEntry(f[q], e[q])
                                         ELSE f[q]]
          /\ IF \E q \in expired : Fresh(q) THEN Fault("slow_task") ELSE NoFault
  BY Zenon DEF Touch, Touched
<1>2. IsList(front) /\ Listed(front) = Listed(lru) \cup {p}
  BY MoveToFrontIsList DEF ListInv
<1>3. IsList(left(expired)) /\ Listed(left(expired)) = Listed(front) \ expired
  BY <1>2, OnlyListedIsList
<1>4. kept(expired) \subseteq Listed(front) \ expired
  BY <1>3 DEF Kept
<1>5. Touched(f[p], entry[p], z, d) \in Entries /\ Touched(f[p], entry[p], z, d) # NoEntry
  BY TouchedEntry DEF ListInv
<1>6. e \in [Problems -> Entries]
  BY <1>5 DEF ListInv
<1>6a. Listed(lru) \subseteq Problems
  BY DEF Listed
<1>7. \A q \in Listed(front) : e[q] # NoEntry
  BY <1>2, <1>5, <1>6a DEF ListInv
<1>8. \A q \in Problems \ Listed(front) : e[q] = NoEntry
  BY <1>2 DEF ListInv
<1>9. Listed(front) \subseteq Problems
  BY DEF Listed
<1> HIDE DEF e, front, left
<1>10. kept(expired) \subseteq Listed(front)
  BY <1>4
<1>11. IsList(lru') /\ Listed(lru') = kept(expired)
  BY <1>1, <1>2, <1>10, OnlyListedIsList
<1>12. lru' \subseteq Problems \X Problems
  BY <1>11, <1>9, <1>10 DEF IsList
<1>13. entry' \in [Problems -> Entries]
  BY <1>1, <1>6, NoEntryType
<1>14. \A q \in Problems : q \in Listed(lru') <=> entry'[q] # NoEntry
  BY <1>1, <1>11, <1>7, <1>8, <1>9, <1>10
<1>15. ListInv'
  BY <1>11, <1>12, <1>13, <1>14 DEF ListInv, IsList, Listed
<1>16. \A q \in Problems : RemoveEntry(f[q], e[q]) \in Files /\ Shrunk(RemoveEntry(f[q], e[q]), f[q])
  BY <1>6, RemoveShrinks
<1>17. disk' \in [Problems -> Files] /\ \A q \in Problems : Shrunk(disk'[q], f[q])
  BY <1>1, <1>16, ShrunkSame
<1>18. budget' \in Nat
  BY <1>1 DEF Fault, NoFault
<1>19. ASSUME RoomForAll, "slow_task" \notin FaultKinds, NEW q \in Problems, q = p \/ Fresh(q)
       PROVE  disk'[q] = f[q]
  <2>1. q \notin expired
    BY <1>1, <1>19 DEF Fault
  <2>2. kept(expired) = Listed(front) \ expired
    BY <1>3, <1>6, <1>19 DEF Kept, RoomForAll, Entries
  <2> QED  BY <1>1, <2>1, <2>2
<1> QED  BY <1>15, <1>17, <1>18, <1>19

---------------------------------------------------------------------------
(* A step of Prepare, in one form for all ten: the call of task t moves    *)
(* on, tasks that wait for it are told its result, the files of its        *)
(* problem are written and, if it ends in touchCache, files are removed.   *)

Told == {"local", "offline", "ready", "failed"}

Waiting == {"dlwait", "uzwait"}

Advance(t) ==
    /\ prep' \in [Tasks -> Calls]
    /\ prep'[t].prob = prep[t].prob /\ prep'[t].pc # "off"
    /\ \A u \in Tasks \ {t} :
         \/ prep'[u] = prep[u]
         \/ /\ prep[u].prob = prep[t].prob /\ prep[u].pc \in Waiting
            /\ prep'[u].prob = prep[u].prob
            /\ prep'[u].pc = prep'[t].pc /\ prep'[t].pc \in Told

\* Call c becomes d and writes files g into f; r is the version in MinIO.
Wrote(c, d, g, f, r) ==
    \/ c.pc = "stat" /\ f = g /\ d.pc = "check" /\ d.tag = r
    \/ c.pc \in {"stat", "fetch"} /\ f = g /\ d.pc = "offline"
    \/ c.pc = "check" /\ f = g /\ d.pc \in {"local", "fetch"} /\ d.tag = c.tag
    \/ c.pc = "fetch" /\ f = [g EXCEPT !.zip = r] /\ d.pc = "retag" /\ d.tag = c.tag
    \/ c.pc = "retag" /\ f = [g EXCEPT !.tag = c.tag] /\ d.pc = "local"
    \/ c.pc \in {"offline", "local", "enter"} /\ f = g /\ d.pc = "ready" /\ g.ready
    \/ c.pc \in {"offline", "extract", "mark"} /\ f = g /\ d.pc = "failed"
    \/ c.pc = "local" /\ f = g /\ d.pc = "enter" /\ d.tag = g.tag
    \/ c.pc = "enter" /\ f = g /\ d.pc = "uzwait"
    \/ c.pc = "enter" /\ f = g /\ d.pc = "extract" /\ d.tag = c.tag /\ ~g.ready
    \/ c.pc = "extract" /\ f = g /\ d.pc = "swap" /\ d.tag = c.tag /\ d.tmp = g.zip /\ g.zip # 0
    \/ /\ c.pc = "swap" /\ d.pc = "mark" /\ d.tag = c.tag
       /\ f = [g EXCEPT !.dir = c.tmp, !.ready = FALSE, !.rtag = 0]
    \/ /\ c.pc = "mark" /\ d.pc = "ready" /\ g.dir # 0
       /\ f = [g EXCEPT !.ready = TRUE, !.rtag = c.tag]

\* With room for everything touchCache removes only what no call holds.
Removed(f, p) ==
    /\ disk' \in [Problems -> Files]
    /\ \A q \in Problems : Shrunk(disk'[q], f[q])
    /\ RoomForAll /\ "slow_task" \notin FaultKinds =>
         \A q \in Problems : q = p \/ Fresh(q) => disk'[q] = f[q]

Summary(t) ==
    LET p == prep[t].prob IN
    /\ Advance(t)
    /\ \E f \in [Problems -> Files] :
         /\ \A q \in Problems \ {p} : f[q] = disk[q]
         /\ Wrote(prep[t], prep'[t], disk[p], f[p], remote[p])
         /\ Removed(f, p)
    /\ prep'[t].pc \in Unzipping /\ prep[t].pc \notin Unzipping =>
         ~ \E u \in Tasks : prep[u].prob = p /\ prep[u].pc \in Unzipping
    /\ remote' = remote
    /\ ListInv' /\ budget' \in Nat

LEMMA UpdateAdvances ==
    ASSUME prep \in [Tasks -> Calls], NEW t \in Tasks, NEW v \in Calls,
           v.prob = prep[t].prob, v.pc # "off",
           prep' = [prep EXCEPT ![t] = v]
    PROVE  Advance(t) /\ prep'[t] = v
  BY DEF Advance

LEMMA CallSetPC ==
    ASSUME NEW c \in Calls, NEW x \in PrepPC
    PROVE  /\ [c EXCEPT !.pc = x] \in Calls
           /\ [c EXCEPT !.pc = x].pc = x /\ [c EXCEPT !.pc = x].prob = c.prob
           /\ [c EXCEPT !.pc = x].tag = c.tag /\ [c EXCEPT !.pc = x].tmp = c.tmp
  BY DEF Calls

LEMMA GotoAdvances ==
    ASSUME prep \in [Tasks -> Calls], NEW t \in Tasks, NEW x \in PrepPC, x # "off",
           GotoPrep(t, x)
    PROVE  /\ Advance(t) /\ prep'[t].pc = x
           /\ prep'[t].tag = prep[t].tag /\ prep'[t].tmp = prep[t].tmp
<1> DEFINE v == [prep[t] EXCEPT !.pc = x]
<1>1. prep[t] \in Calls
  OBVIOUS
<1>2. v \in Calls /\ v.pc = x /\ v.prob = prep[t].prob /\ v.tag = prep[t].tag
      /\ v.tmp = prep[t].tmp
  BY <1>1, CallSetPC
<1>3. prep' = [prep EXCEPT ![t] = v]
  BY DEF GotoPrep
<1> HIDE DEF v
<1>4. Advance(t) /\ prep'[t] = v
  BY <1>2, <1>3, UpdateAdvances
<1> QED  BY <1>2, <1>4

LEMMA FinishAdvances ==
    ASSUME prep \in [Tasks -> Calls], NEW t \in Tasks, NEW x \in Told,
           FinishDownload(t, x) \/ FinishUnzip(t, x)
    PROVE  /\ Advance(t) /\ prep'[t].pc = x
           /\ prep'[t].tag = prep[t].tag /\ prep'[t].tmp = prep[t].tmp
<1> DEFINE v(u) == [prep[u] EXCEPT !.pc = x]
<1>1. x \in PrepPC /\ x # "off"
  BY DEF Told, PrepPC
<1>2. \A u \in Tasks : /\ v(u) \in Calls /\ v(u).pc = x /\ v(u).prob = prep[u].prob
                       /\ v(u).tag = prep[u].tag /\ v(u).tmp = prep[u].tmp
  BY <1>1, CallSetPC
<1>3. PICK w \in Waiting :
        prep' = [u \in Tasks |-> IF u = t \/ (prep[u].pc = w /\ prep[u].prob = prep[t].prob)
                                 THEN v(u) ELSE prep[u]]
  BY DEF FinishDownload, FinishUnzip, Waiting
<1> HIDE DEF v
<1>4. prep' \in [Tasks -> Calls]
  BY <1>2, <1>3
<1>5. prep'[t] = v(t)
  BY <1>3
<1>6. \A u \in Tasks \ {t} :
         \/ prep'[u] = prep[u]
         \/ /\ prep[u].prob = prep[t].prob /\ prep[u].pc \in Waiting
            /\ prep'[u] = v(u)
  BY <1>3
<1> QED  BY <1>1, <1>2, <1>4, <1>5, <1>6 DEF Advance

LEMMA NothingRemoved ==
    ASSUME NEW f \in [Problems -> Files], NEW p, disk' = f
    PROVE  Removed(f, p)
  BY ShrunkSame DEF Removed

LEMMA ListKept ==
    ASSUME ListInv, UNCHANGED <<lru, entry>>
    PROVE  ListInv'
  BY DEF ListInv, IsList, Listed

LEMMA TouchSummary ==
    ASSUME ListInv, budget \in Nat, NEW f \in [Problems -> Files], NEW p \in Problems,
           NEW z \in BOOLEAN, NEW d \in BOOLEAN, z \/ d, Touch(f, p, z, d)
    PROVE  ListInv' /\ budget' \in Nat /\ Removed(f, p)
  BY TouchCache DEF Removed

LEMMA SetFiles ==
    ASSUME disk \in [Problems -> Files], NEW p \in Problems, NEW g \in Files
    PROVE  /\ [disk EXCEPT ![p] = g] \in [Problems -> Files]
           /\ [disk EXCEPT ![p] = g][p] = g
           /\ \A q \in Problems \ {p} : [disk EXCEPT ![p] = g][q] = disk[q]
  OBVIOUS

LEMMA FilesWritten ==
    ASSUME NEW g \in Files, NEW v \in Version, NEW b \in BOOLEAN
    PROVE  /\ [g EXCEPT !.zip = v] \in Files
           /\ [g EXCEPT !.tag = v] \in Files
           /\ [g EXCEPT !.dir = v, !.ready = FALSE, !.rtag = 0] \in Files
           /\ [g EXCEPT !.ready = TRUE, !.rtag = v] \in Files
<1>1. 0 \in Version
  BY CacheAssumption DEF Version
<1> QED  BY <1>1 DEF Files

LEMMA SummaryByTouch ==
    ASSUME ListInv, budget \in Nat, NEW t \in Tasks, prep[t].prob \in Problems,
           NEW f \in [Problems -> Files],
           \A q \in Problems \ {prep[t].prob} : f[q] = disk[q],
           NEW z \in BOOLEAN, NEW d \in BOOLEAN, z \/ d, Touch(f, prep[t].prob, z, d),
           Advance(t), remote' = remote, prep'[t].pc \notin Unzipping,
           Wrote(prep[t], prep'[t], disk[prep[t].prob], f[prep[t].prob], remote[prep[t].prob])
    PROVE  Summary(t)
<1>1. ListInv' /\ budget' \in Nat /\ Removed(f, prep[t].prob)
  BY TouchSummary
<1> QED  BY <1>1 DEF Summary

LEMMA SummaryByWrite ==
    ASSUME ListInv, NEW t \in Tasks, prep[t].prob \in Problems,
           NEW f \in [Problems -> Files], disk' = f,
           \A q \in Problems \ {prep[t].prob} : f[q] = disk[q],
           UNCHANGED <<remote, lru, entry>>, budget' \in Nat, Advance(t),
           prep'[t].pc \in Unzipping /\ prep[t].pc \notin Unzipping =>
             ~ \E u \in Tasks : prep[u].prob = prep[t].prob /\ prep[u].pc \in Unzipping,
           Wrote(prep[t], prep'[t], disk[prep[t].prob], f[prep[t].prob], remote[prep[t].prob])
    PROVE  Summary(t)
<1>1. ListInv' /\ Removed(f, prep[t].prob)
  BY ListKept, NothingRemoved
<1> QED  BY <1>1 DEF Summary

LEMMA PCs ==
    ASSUME NEW x \in PrepPC \cup Told
    PROVE  x \in PrepPC
  BY DEF Told, PrepPC

LEMMA FaultBudget ==
    ASSUME budget \in Nat
    PROVE  /\ \A k : Fault(k) => budget' \in Nat
           /\ NoFault => budget' \in Nat
  BY DEF Fault, NoFault

LEMMA CacheFacts ==
    ASSUME CacheInv
    PROVE  /\ ListInv /\ budget \in Nat
           /\ disk \in [Problems -> Files] /\ prep \in [Tasks -> Calls]
           /\ remote \in [Problems -> 1..MaxVersion]
           /\ \A p \in Problems : remote[p] \in Version /\ remote[p] # 0
<1>1. MaxVersion \in Nat
  BY CacheAssumption
<1>2. remote \in [Problems -> 1..MaxVersion]
  BY DEF CacheInv, CacheTypeOK
<1>3. \A p \in Problems : remote[p] \in Version /\ remote[p] # 0
  BY <1>1, <1>2 DEF Version
<1> QED  BY <1>2, <1>3 DEF CacheInv, CacheTypeOK, ListInv, Calls, Entries

\* What every lemma on a step of Prepare starts from.
Preparation(t) == CacheInv /\ t \in Tasks /\ prep[t].prob \in Problems

LEMMA StatSummary ==
    ASSUME NEW t, Preparation(t), DownloadStat(t)
    PROVE  Summary(t)
<1> DEFINE p == prep[t].prob
           v == [prep[t] EXCEPT !.tag = remote[p], !.pc = "check"]
<1>1. ListInv /\ budget \in Nat /\ disk \in [Problems -> Files] /\ prep \in [Tasks -> Calls]
      /\ remote[p] \in Version /\ t \in Tasks /\ p \in Problems /\ prep[t] \in Calls
  BY CacheFacts DEF Preparation
<1>2. prep[t].pc = "stat" /\ disk' = disk /\ UNCHANGED <<remote, lru, entry>>
  BY DEF DownloadStat
<1>3. CASE prep' = [prep EXCEPT ![t] = v] /\ NoFault
  <2>1. v \in Calls /\ v.pc = "check" /\ v.tag = remote[p] /\ v.prob = p
    BY <1>1 DEF Calls, PrepPC, Downloading
  <2> HIDE DEF v
  <2>2. Advance(t) /\ prep'[t] = v
    BY <1>1, <1>3, <2>1, UpdateAdvances
  <2>3. Wrote(prep[t], prep'[t], disk[p], disk[p], remote[p])
    BY <1>2, <2>1, <2>2 DEF Wrote
  <2>4. prep'[t].pc \notin Unzipping
    BY <2>1, <2>2 DEF Unzipping
  <2>5. budget' \in Nat
    BY <1>1, <1>3, FaultBudget
  <2> QED  BY <1>1, <1>2, <2>2, <2>3, <2>4, <2>5, SummaryByWrite
<1>4. CASE Fault("minio") /\ FinishDownload(t, "offline")
  <2>1. Advance(t) /\ prep'[t].pc = "offline"
    BY <1>1, <1>4, FinishAdvances DEF Told
  <2>2. Wrote(prep[t], prep'[t], disk[p], disk[p], remote[p])
    BY <1>2, <2>1 DEF Wrote
  <2>3. prep'[t].pc \notin Unzipping
    BY <2>1 DEF Unzipping
  <2>4. budget' \in Nat
    BY <1>1, <1>4, FaultBudget
  <2> QED  BY <1>1, <1>2, <2>1, <2>2, <2>3, <2>4, SummaryByWrite
<1> QED  BY <1>3, <1>4 DEF DownloadStat

LEMMA CheckSummary ==
    ASSUME NEW t, Preparation(t), DownloadCheck(t)
    PROVE  Summary(t)
<1> DEFINE p == prep[t].prob
<1>1. ListInv /\ budget \in Nat /\ disk \in [Problems -> Files] /\ prep \in [Tasks -> Calls]
      /\ remote[p] \in Version /\ t \in Tasks /\ p \in Problems
  BY CacheFacts DEF Preparation
<1>2. prep[t].pc = "check" /\ remote' = remote
  BY DEF DownloadCheck
<1>3. CASE Touch(disk, p, TRUE, FALSE) /\ FinishDownload(t, "local")
  <2>1. Advance(t) /\ prep'[t].pc = "local" /\ prep'[t].tag = prep[t].tag
    BY <1>1, <1>3, FinishAdvances DEF Told
  <2>2. Wrote(prep[t], prep'[t], disk[p], disk[p], remote[p])
    BY <1>2, <2>1 DEF Wrote
  <2>3. prep'[t].pc \notin Unzipping
    BY <2>1 DEF Unzipping
  <2> QED  BY <1>1, <1>2, <1>3, <2>1, <2>2, <2>3, SummaryByTouch
<1>4. CASE GotoPrep(t, "fetch") /\ NoFault /\ UNCHANGED <<disk, lru, entry>>
  <2>1. Advance(t) /\ prep'[t].pc = "fetch" /\ prep'[t].tag = prep[t].tag
    BY <1>1, <1>4, GotoAdvances DEF PrepPC, Downloading
  <2>2. Wrote(prep[t], prep'[t], disk[p], disk[p], remote[p])
    BY <1>2, <2>1 DEF Wrote
  <2>3. prep'[t].pc \notin Unzipping
    BY <2>1 DEF Unzipping
  <2>4. budget' \in Nat
    BY <1>1, <1>4, FaultBudget
  <2> QED  BY <1>1, <1>2, <1>4, <2>1, <2>2, <2>3, <2>4, SummaryByWrite
<1> QED  BY <1>3, <1>4 DEF DownloadCheck

LEMMA FetchSummary ==
    ASSUME NEW t, Preparation(t), DownloadFetch(t)
    PROVE  Summary(t)
<1> DEFINE p == prep[t].prob
           g == [disk[p] EXCEPT !.zip = remote[p]]
           f == [disk EXCEPT ![p] = g]
<1>1. ListInv /\ budget \in Nat /\ disk \in [Problems -> Files] /\ prep \in [Tasks -> Calls]
      /\ remote[p] \in Version /\ t \in Tasks /\ p \in Problems
  BY CacheFacts DEF Preparation
<1>2. prep[t].pc = "fetch" /\ UNCHANGED <<remote, lru, entry>>
  BY DEF DownloadFetch
<1>3. CASE disk' = [disk EXCEPT ![p].zip = remote[p]] /\ GotoPrep(t, "retag") /\ NoFault
  <2>1. Advance(t) /\ prep'[t].pc = "retag" /\ prep'[t].tag = prep[t].tag
    BY <1>1, <1>3, GotoAdvances DEF PrepPC, Downloading
  <2>2. g \in Files
    BY <1>1, FilesWritten
  <2>3. disk' = f
    BY <1>3
  <2>4. Wrote(prep[t], prep'[t], disk[p], g, remote[p])
    BY <1>2, <2>1 DEF Wrote
  <2> HIDE DEF g
  <2>5. f \in [Problems -> Files] /\ f[p] = g /\ \A q \in Problems \ {p} : f[q] = disk[q]
    BY <1>1, <2>2, SetFiles
  <2> HIDE DEF f
  <2>6. prep'[t].pc \notin Unzipping
    BY <2>1 DEF Unzipping
  <2>7. budget' \in Nat
    BY <1>1, <1>3, FaultBudget
  <2> QED  BY <1>1, <1>2, <2>1, <2>3, <2>4, <2>5, <2>6, <2>7, SummaryByWrite
<1>4. CASE Fault("minio") /\ FinishDownload(t, "offline") /\ UNCHANGED disk
  <2>1. Advance(t) /\ prep'[t].pc = "offline"
    BY <1>1, <1>4, FinishAdvances DEF Told
  <2>2. Wrote(prep[t], prep'[t], disk[p], disk[p], remote[p])
    BY <1>2, <2>1 DEF Wrote
  <2>3. prep'[t].pc \notin Unzipping
    BY <2>1 DEF Unzipping
  <2>4. budget' \in Nat
    BY <1>1, <1>4, FaultBudget
  <2> QED  BY <1>1, <1>2, <1>4, <2>1, <2>2, <2>3, <2>4, SummaryByWrite
<1> QED  BY <1>3, <1>4 DEF DownloadFetch

LEMMA TagSummary ==
    ASSUME NEW t, Preparation(t), DownloadTag(t)
    PROVE  Summary(t)
<1> DEFINE p == prep[t].prob
           g == [disk[p] EXCEPT !.tag = prep[t].tag]
           f == [disk EXCEPT ![p] = g]
<1>1. ListInv /\ budget \in Nat /\ disk \in [Problems -> Files] /\ prep \in [Tasks -> Calls]
      /\ remote[p] \in Version /\ t \in Tasks /\ p \in Problems /\ prep[t] \in Calls
  BY CacheFacts DEF Preparation
<1>2. prep[t].pc = "retag" /\ remote' = remote /\ FinishDownload(t, "local")
      /\ Touch([disk EXCEPT ![p].tag = prep[t].tag], p, TRUE, FALSE)
  BY DEF DownloadTag
<1>3. Advance(t) /\ prep'[t].pc = "local" /\ prep'[t].tag = prep[t].tag
  BY <1>1, <1>2, FinishAdvances DEF Told
<1>4. prep[t].tag \in Version
  BY <1>1 DEF Calls
<1>5. g \in Files
  BY <1>1, <1>4, FilesWritten
<1>6. f = [disk EXCEPT ![p].tag = prep[t].tag]
  OBVIOUS
<1>7. Touch(f, p, TRUE, FALSE)
  BY <1>2, <1>6
<1>8. Wrote(prep[t], prep'[t], disk[p], g, remote[p])
  BY <1>2, <1>3 DEF Wrote
<1> HIDE DEF g
<1>9. f \in [Problems -> Files] /\ f[p] = g /\ \A q \in Problems \ {p} : f[q] = disk[q]
  BY <1>1, <1>5, SetFiles
<1> HIDE DEF f
<1>10. prep'[t].pc \notin Unzipping
  BY <1>3 DEF Unzipping
<1> QED  BY <1>1, <1>2, <1>3, <1>7, <1>8, <1>9, <1>10, SummaryByTouch

LEMMA LocalSummary ==
    ASSUME NEW t, Preparation(t), UseLocalCopy(t)
    PROVE  Summary(t)
<1> DEFINE p == prep[t].prob
<1>1. ListInv /\ budget \in Nat /\ disk \in [Problems -> Files] /\ prep \in [Tasks -> Calls]
      /\ remote[p] \in Version /\ t \in Tasks /\ p \in Problems
  BY CacheFacts DEF Preparation
<1>2. prep[t].pc = "offline" /\ remote' = remote
  BY DEF UseLocalCopy
<1>3. CASE disk[p].ready
  <2>1. Touch(disk, p, FALSE, TRUE) /\ GotoPrep(t, "ready")
    BY <1>3 DEF UseLocalCopy
  <2>2. Advance(t) /\ prep'[t].pc = "ready"
    BY <1>1, <2>1, GotoAdvances DEF PrepPC
  <2>3. Wrote(prep[t], prep'[t], disk[p], disk[p], remote[p])
    BY <1>2, <1>3, <2>2 DEF Wrote
  <2>4. prep'[t].pc \notin Unzipping
    BY <2>2 DEF Unzipping
  <2> QED  BY <1>1, <1>2, <2>1, <2>2, <2>3, <2>4, SummaryByTouch
<1>4. CASE ~disk[p].ready
  <2>1. GotoPrep(t, "failed") /\ NoFault /\ UNCHANGED <<disk, lru, entry>>
    BY <1>4 DEF UseLocalCopy
  <2>2. Advance(t) /\ prep'[t].pc = "failed"
    BY <1>1, <2>1, GotoAdvances DEF PrepPC
  <2>3. Wrote(prep[t], prep'[t], disk[p], disk[p], remote[p])
    BY <1>2, <2>2 DEF Wrote
  <2>4. prep'[t].pc \notin Unzipping
    BY <2>2 DEF Unzipping
  <2>5. budget' \in Nat
    BY <1>1, <2>1, FaultBudget
  <2> QED  BY <1>1, <1>2, <2>1, <2>2, <2>3, <2>4, <2>5, SummaryByWrite
<1> QED  BY <1>3, <1>4

LEMMA CheckReadySummary ==
    ASSUME NEW t, Preparation(t), CheckReady(t)
    PROVE  Summary(t)
<1> DEFINE p == prep[t].prob
           x == IF ReadyMatchesETag(p, disk[p].tag) THEN "ready" ELSE "enter"
           v == [prep[t] EXCEPT !.tag = disk[p].tag, !.pc = x]
<1>1. ListInv /\ budget \in Nat /\ disk \in [Problems -> Files] /\ prep \in [Tasks -> Calls]
      /\ remote[p] \in Version /\ t \in Tasks /\ p \in Problems /\ prep[t] \in Calls
  BY CacheFacts DEF Preparation
<1>2. prep[t].pc = "local" /\ UNCHANGED <<remote, disk, lru, entry>> /\ NoFault
      /\ prep' = [prep EXCEPT ![t] = v]
  BY DEF CheckReady
<1>3. disk[p].tag \in Version
  BY <1>1 DEF Files
<1>4. x \in PrepPC /\ x # "off" /\ x \in {"ready", "enter"}
  BY DEF PrepPC
<1>5. x = "ready" => disk[p].ready
  BY DEF ReadyMatchesETag
<1> HIDE DEF x
<1>6. v \in Calls /\ v.pc = x /\ v.tag = disk[p].tag /\ v.prob = p
  BY <1>1, <1>3, <1>4 DEF Calls
<1> HIDE DEF v
<1>7. Advance(t) /\ prep'[t] = v
  BY <1>1, <1>2, <1>4, <1>6, UpdateAdvances
<1>8. Wrote(prep[t], prep'[t], disk[p], disk[p], remote[p])
  BY <1>2, <1>4, <1>5, <1>6, <1>7 DEF Wrote
<1>9. prep'[t].pc \notin Unzipping
  BY <1>4, <1>6, <1>7 DEF Unzipping
<1>10. budget' \in Nat
  BY <1>1, <1>2, FaultBudget
<1> QED  BY <1>1, <1>2, <1>7, <1>8, <1>9, <1>10, SummaryByWrite

LEMMA EnterSummary ==
    ASSUME NEW t, Preparation(t), EnterUnzip(t)
    PROVE  Summary(t)
<1> DEFINE p == prep[t].prob
           busy == \E u \in Tasks : prep[u].prob = p /\ prep[u].pc \in Unzipping
           x == IF busy THEN "uzwait" ELSE IF disk[p].ready THEN "ready" ELSE "extract"
<1>1. ListInv /\ budget \in Nat /\ disk \in [Problems -> Files] /\ prep \in [Tasks -> Calls]
      /\ remote[p] \in Version /\ t \in Tasks /\ p \in Problems
  BY CacheFacts DEF Preparation
<1>2. prep[t].pc = "enter" /\ UNCHANGED <<remote, disk, lru, entry>> /\ NoFault /\ GotoPrep(t, x)
  BY DEF EnterUnzip
<1>3. x \in PrepPC /\ x # "off" /\ x \in {"uzwait", "ready", "extract"}
  BY DEF PrepPC, Unzipping
<1>4. (x = "ready" => disk[p].ready) /\ (x = "extract" => ~disk[p].ready)
  OBVIOUS
<1>5. x \in Unzipping => ~busy
  BY DEF Unzipping
<1> HIDE DEF x
<1>6. Advance(t) /\ prep'[t].pc = x /\ prep'[t].tag = prep[t].tag
  BY <1>1, <1>2, <1>3, GotoAdvances
<1>7. Wrote(prep[t], prep'[t], disk[p], disk[p], remote[p])
  BY <1>2, <1>3, <1>4, <1>6 DEF Wrote
<1>8. budget' \in Nat
  BY <1>1, <1>2, FaultBudget
<1> QED  BY <1>1, <1>2, <1>5, <1>6, <1>7, <1>8, SummaryByWrite

LEMMA ExtractSummary ==
    ASSUME NEW t, Preparation(t), UnzipExtract(t)
    PROVE  Summary(t)
<1> DEFINE p == prep[t].prob
           v == [prep[t] EXCEPT !.tmp = disk[p].zip, !.pc = "swap"]
<1>1. ListInv /\ budget \in Nat /\ disk \in [Problems -> Files] /\ prep \in [Tasks -> Calls]
      /\ remote[p] \in Version /\ t \in Tasks /\ p \in Problems /\ prep[t] \in Calls
  BY CacheFacts DEF Preparation
<1>2. prep[t].pc = "extract" /\ UNCHANGED <<remote, disk, lru, entry>>
  BY DEF UnzipExtract
<1>3. CASE disk[p].zip # 0 /\ prep' = [prep EXCEPT ![t] = v] /\ NoFault
  <2>1. disk[p].zip \in Version
    BY <1>1 DEF Files
  <2>2. v \in Calls /\ v.pc = "swap" /\ v.tag = prep[t].tag /\ v.prob = p /\ v.tmp = disk[p].zip
    BY <1>1, <2>1 DEF Calls, PrepPC, Unzipping
  <2> HIDE DEF v
  <2>3. Advance(t) /\ prep'[t] = v
    BY <1>1, <1>3, <2>2, UpdateAdvances
  <2>4. Wrote(prep[t], prep'[t], disk[p], disk[p], remote[p])
    BY <1>2, <1>3, <2>2, <2>3 DEF Wrote
  <2>5. prep[t].pc \in Unzipping
    BY <1>2 DEF Unzipping
  <2>6. budget' \in Nat
    BY <1>1, <1>3, FaultBudget
  <2> QED  BY <1>1, <1>2, <2>3, <2>4, <2>5, <2>6, SummaryByWrite
<1>4. ASSUME FinishUnzip(t, "failed"), budget' \in Nat
      PROVE  Summary(t)
  <2>1. Advance(t) /\ prep'[t].pc = "failed"
    BY <1>1, <1>4, FinishAdvances DEF Told
  <2>2. Wrote(prep[t], prep'[t], disk[p], disk[p], remote[p])
    BY <1>2, <2>1 DEF Wrote
  <2>3. prep'[t].pc \notin Unzipping
    BY <2>1 DEF Unzipping
  <2> QED  BY <1>1, <1>2, <1>4, <2>1, <2>2, <2>3, SummaryByWrite
<1> QED  BY <1>1, <1>3, <1>4, FaultBudget DEF UnzipExtract

LEMMA SwapSummary ==
    ASSUME NEW t, Preparation(t), UnzipSwap(t)
    PROVE  Summary(t)
<1> DEFINE p == prep[t].prob
           g == [disk[p] EXCEPT !.dir = prep[t].tmp, !.ready = FALSE, !.rtag = 0]
           f == [disk EXCEPT ![p] = g]
<1>1. ListInv /\ budget \in Nat /\ disk \in [Problems -> Files] /\ prep \in [Tasks -> Calls]
      /\ remote[p] \in Version /\ t \in Tasks /\ p \in Problems /\ prep[t] \in Calls
  BY CacheFacts DEF Preparation
<1>2. prep[t].pc = "swap" /\ UNCHANGED <<remote, lru, entry>> /\ NoFault /\ GotoPrep(t, "mark")
      /\ disk' = f
  BY DEF UnzipSwap
<1>3. Advance(t) /\ prep'[t].pc = "mark" /\ prep'[t].tag = prep[t].tag
  BY <1>1, <1>2, GotoAdvances DEF PrepPC, Unzipping
<1>4. prep[t].tmp \in Version
  BY <1>1 DEF Calls
<1>5. g \in Files
  BY <1>1, <1>4, FilesWritten
<1>6. Wrote(prep[t], prep'[t], disk[p], g, remote[p])
  BY <1>2, <1>3 DEF Wrote
<1> HIDE DEF g
<1>7. f \in [Problems -> Files] /\ f[p] = g /\ \A q \in Problems \ {p} : f[q] = disk[q]
  BY <1>1, <1>5, SetFiles
<1> HIDE DEF f
<1>8. prep[t].pc \in Unzipping
  BY <1>2 DEF Unzipping
<1>9. budget' \in Nat
  BY <1>1, <1>2, FaultBudget
<1> QED  BY <1>1, <1>2, <1>3, <1>6, <1>7, <1>8, <1>9, SummaryByWrite

LEMMA MarkSummary ==
    ASSUME NEW t, Preparation(t), UnzipMark(t)
    PROVE  Summary(t)
<1> DEFINE p == prep[t].prob
           g == [disk[p] EXCEPT !.ready = TRUE, !.rtag = prep[t].tag]
           f == [disk EXCEPT ![p] = g]
<1>1. ListInv /\ budget \in Nat /\ disk \in [Problems -> Files] /\ prep \in [Tasks -> Calls]
      /\ remote[p] \in Version /\ t \in Tasks /\ p \in Problems /\ prep[t] \in Calls
  BY CacheFacts DEF Preparation
<1>2. prep[t].pc = "mark" /\ remote' = remote
  BY DEF UnzipMark
<1>3. CASE disk[p].dir # 0
  <2>1. Touch(f, p, TRUE, TRUE) /\ FinishUnzip(t, "ready")
    BY <1>3 DEF UnzipMark
  <2>2. Advance(t) /\ prep'[t].pc = "ready"
    BY <1>1, <2>1, FinishAdvances DEF Told
  <2>3. prep[t].tag \in Version
    BY <1>1 DEF Calls
  <2>4. g \in Files
    BY <1>1, <2>3, FilesWritten
  <2>5. Wrote(prep[t], prep'[t], disk[p], g, remote[p])
    BY <1>2, <1>3, <2>2 DEF Wrote
  <2> HIDE DEF g
  <2>6. f \in [Problems -> Files] /\ f[p] = g /\ \A q \in Problems \ {p} : f[q] = disk[q]
    BY <1>1, <2>4, SetFiles
  <2> HIDE DEF f
  <2>7. prep'[t].pc \notin Unzipping
    BY <2>2 DEF Unzipping
  <2> QED  BY <1>1, <1>2, <2>1, <2>2, <2>5, <2>6, <2>7, SummaryByTouch
<1>4. CASE ~ (disk[p].dir # 0)
  <2>1. FinishUnzip(t, "failed") /\ NoFault /\ UNCHANGED <<disk, lru, entry>>
    BY <1>4 DEF UnzipMark
  <2>2. Advance(t) /\ prep'[t].pc = "failed"
    BY <1>1, <2>1, FinishAdvances DEF Told
  <2>3. Wrote(prep[t], prep'[t], disk[p], disk[p], remote[p])
    BY <1>2, <2>2 DEF Wrote
  <2>4. prep'[t].pc \notin Unzipping
    BY <2>2 DEF Unzipping
  <2>5. budget' \in Nat
    BY <1>1, <2>1, FaultBudget
  <2> QED  BY <1>1, <1>2, <2>1, <2>2, <2>3, <2>4, <2>5, SummaryByWrite
<1> QED  BY <1>3, <1>4

LEMMA PrepareSummary ==
    ASSUME NEW t, Preparation(t), PrepareStep(t)
    PROVE  Summary(t)
  BY StatSummary, CheckSummary, FetchSummary, TagSummary, LocalSummary, CheckReadySummary,
     EnterSummary, ExtractSummary, SwapSummary, MarkSummary DEF PrepareStep

---------------------------------------------------------------------------
(* Types and calls. *)

JudgeTyped ==
    /\ prog \in [Jobs -> Programs] /\ task \in [Tasks -> TaskRecords]
    /\ jobDir \subseteq Jobs /\ exeDir \subseteq Jobs
    /\ userOut \in [Jobs -> (Versions \X Cases) \cup {NoCase}]

LEMMA TypeParts ==
    TypeOK <=> CacheInv /\ JudgeTyped
  BY DEF TypeOK, CacheInv, JudgeTypeOK, JudgeTyped, TaskRecords, TaskPC

FilesTyped == /\ jobDir \subseteq Jobs /\ exeDir \subseteq Jobs
              /\ userOut \in [Jobs -> (Versions \X Cases) \cup {NoCase}]

LEMMA TaskSetPC ==
    ASSUME NEW k \in TaskRecords, NEW x \in TaskPC
    PROVE  /\ [k EXCEPT !.pc = x] \in TaskRecords
           /\ [k EXCEPT !.pc = x].pc = x /\ [k EXCEPT !.pc = x].job = k.job
           /\ [k EXCEPT !.pc = x].todo = k.todo /\ [k EXCEPT !.pc = x].verdict = k.verdict
  BY DEF TaskRecords

\* Task t goes to record v; nothing else is called or judged.
Moves(t, v) ==
    /\ v \in TaskRecords
    /\ task' = [task EXCEPT ![t] = v]
    /\ v.job = task[t].job

LEMMA GotoMoves ==
    ASSUME task \in [Tasks -> TaskRecords], NEW t \in Tasks, NEW x \in TaskPC, Goto(t, x)
    PROVE  \E v : Moves(t, v) /\ v.pc = x /\ v.todo = task[t].todo /\ v.verdict = task[t].verdict
<1> DEFINE v == [task[t] EXCEPT !.pc = x]
<1>1. task[t] \in TaskRecords
  OBVIOUS
<1>2. v \in TaskRecords /\ v.pc = x /\ v.job = task[t].job /\ v.todo = task[t].todo
      /\ v.verdict = task[t].verdict
  BY <1>1, TaskSetPC
<1>3. task' = [task EXCEPT ![t] = v]
  BY DEF Goto
<1> HIDE DEF v
<1>4. Moves(t, v)
  BY <1>2, <1>3 DEF Moves
<1> QED  BY <1>2, <1>4

LEMMA VerdictMoves ==
    ASSUME task \in [Tasks -> TaskRecords], NEW t \in Tasks, NEW w \in Verdicts
    PROVE  /\ Conclude(t, w) => \E v : Moves(t, v) /\ v.pc = "report" /\ v.verdict = w
           /\ Fail(t, w) => \E v : Moves(t, v) /\ v.pc = "error" /\ v.verdict = w
<1> DEFINE v(x) == [task[t] EXCEPT !.pc = x, !.verdict = w]
<1>1. task[t] \in TaskRecords /\ {"report", "error"} \subseteq TaskPC
  BY DEF TaskPC
<1>2. \A x \in {"report", "error"} : v(x) \in TaskRecords /\ v(x).pc = x
                                     /\ v(x).job = task[t].job /\ v(x).verdict = w
  BY <1>1 DEF TaskRecords
<1>3. Conclude(t, w) => task' = [task EXCEPT ![t] = v("report")]
  BY DEF Conclude
<1>4. Fail(t, w) => task' = [task EXCEPT ![t] = v("error")]
  BY DEF Fail
<1> HIDE DEF v
<1>5. Conclude(t, w) => Moves(t, v("report"))
  BY <1>2, <1>3 DEF Moves
<1>6. Fail(t, w) => Moves(t, v("error"))
  BY <1>2, <1>4 DEF Moves
<1> QED  BY <1>2, <1>5, <1>6

LEMMA VerdictNames ==
    /\ "Accepted" \in Verdicts /\ "Wrong Answer" \in Verdicts /\ "Runtime Error" \in Verdicts
    /\ "Compile Error" \in Verdicts /\ "System Error" \in Verdicts
  BY DEF Verdicts

LEMMA FailMoves ==
    ASSUME task \in [Tasks -> TaskRecords], NEW t \in Tasks, NEW w \in Verdicts, Fail(t, w)
    PROVE  \E v : Moves(t, v) /\ v.pc = "error" /\ v.verdict = w
  BY VerdictMoves

LEMMA ConcludeMoves ==
    ASSUME task \in [Tasks -> TaskRecords], NEW t \in Tasks, NEW w \in Verdicts, Conclude(t, w)
    PROVE  \E v : Moves(t, v) /\ v.pc = "report" /\ v.verdict = w
  BY VerdictMoves

LEMMA TodoMoves ==
    ASSUME task \in [Tasks -> TaskRecords], NEW t \in Tasks, NEW S \in SUBSET Cases,
           task' = [task EXCEPT ![t] = [task[t] EXCEPT !.todo = S, !.pc = "exec"]]
    PROVE  \E v : Moves(t, v) /\ v.pc = "exec" /\ v.todo = S /\ v.verdict = task[t].verdict
<1> DEFINE v == [task[t] EXCEPT !.todo = S, !.pc = "exec"]
<1>1. task[t] \in TaskRecords /\ "exec" \in TaskPC
  BY DEF TaskPC
<1>2. v \in TaskRecords /\ v.pc = "exec" /\ v.job = task[t].job /\ v.todo = S
      /\ v.verdict = task[t].verdict
  BY <1>1 DEF TaskRecords
<1>3. task' = [task EXCEPT ![t] = v]
  OBVIOUS
<1> HIDE DEF v
<1>4. Moves(t, v)
  BY <1>2, <1>3 DEF Moves
<1> QED  BY <1>2, <1>4

LEMMA CacheInvKept ==
    ASSUME CacheInv, UNCHANGED cacheVars, budget' \in Nat
    PROVE  CacheInv'
  BY DEF CacheInv, cacheVars, CacheTypeOK, IsList, Listed

LEMMA TaskInvBy ==
    ASSUME TaskInv, NEW t \in Tasks, NEW v, Moves(t, v), CallOf(v, prep[t]),
           UNCHANGED <<cacheVars, prog>>, budget' \in Nat, FilesTyped'
    PROVE  TaskInv'
<1>1. CacheInv'
  BY CacheInvKept, TypeParts DEF TaskInv
<1>2. task' \in [Tasks -> TaskRecords] /\ task'[t] = v /\ \A u \in Tasks \ {t} : task'[u] = task[u]
  BY TypeParts DEF TaskInv, JudgeTyped, Moves
<1>3. prep' = prep
  BY DEF cacheVars
<1>4. \A u \in Tasks : CallOf(task'[u], prep'[u])
  BY <1>2, <1>3 DEF TaskInv, CallInv
<1>5. CallInv'
  BY <1>4 DEF CallInv
<1>6. JudgeTyped'
  BY <1>2, TypeParts DEF TaskInv, FilesTyped, JudgeTyped
<1>7. TypeOK'
  BY <1>1, <1>6, TypeParts, PTL
<1> QED  BY <1>5, <1>7 DEF TaskInv

\* Where a task goes from its record k, its call being c.
Onward(k, v, c) ==
    /\ v.job = k.job
    /\ \/ k.pc \in Judging \ {"report"}
       \/ k.pc = "prepare" /\ c.pc = "ready" /\ v.pc = "save"
       \/ k.pc = "prepare" /\ c.pc = "failed" /\ v.pc = "error"
    /\ \/ v.pc \in {"save", "compile", "glob", "exec", "compare"} /\ v.verdict = k.verdict
       \/ v.pc \in {"report", "error"}

LEMMA OnwardCall ==
    ASSUME NEW k, NEW v, NEW c, CallOf(k, c), Onward(k, v, c)
    PROVE  CallOf(v, c)
  BY DEF CallOf, Onward, Judging

LEMMA TaskFacts ==
    ASSUME TaskInv, NEW t \in Tasks
    PROVE  /\ CacheInv /\ JudgeTyped /\ FilesTyped /\ budget \in Nat
           /\ task \in [Tasks -> TaskRecords] /\ task[t] \in TaskRecords
           /\ CallOf(task[t], prep[t])
           /\ Live(t) => Job(t) \in Jobs /\ prep[t].prob = ProblemOf[Job(t)]
                         /\ ProblemOf[Job(t)] \in Problems /\ prog[Job(t)] \in Programs
<1>1. CacheInv /\ JudgeTyped
  BY TypeParts DEF TaskInv
<1>2. FilesTyped /\ task \in [Tasks -> TaskRecords] /\ task[t] \in TaskRecords
  BY <1>1 DEF JudgeTyped, FilesTyped
<1>3. CallOf(task[t], prep[t])
  BY DEF TaskInv, CallInv
<1>4. Live(t) => Job(t) \in Jobs /\ prep[t].prob = ProblemOf[Job(t)]
  BY <1>3 DEF CallOf, Live, Job
<1>5. \A j \in Jobs : ProblemOf[j] \in Problems /\ prog[j] \in Programs
  BY <1>1, JudgeAssumption DEF JudgeTyped
<1>6. budget \in Nat
  BY <1>1 DEF CacheInv
<1> QED  BY <1>1, <1>2, <1>3, <1>4, <1>5, <1>6

LEMMA OnwardStep ==
    ASSUME TaskInv, NEW t \in Tasks, NEW v, Moves(t, v), Onward(task[t], v, prep[t]),
           UNCHANGED <<cacheVars, prog>>, budget' \in Nat, FilesTyped'
    PROVE  TaskInv'
<1>1. CallOf(v, prep[t])
  BY TaskFacts, OnwardCall
<1> QED  BY <1>1, TaskInvBy

LEMMA PreparedTypes ==
    ASSUME TaskInv, NEW t \in Tasks, Prepared(t)
    PROVE  TaskInv'
<1>1. task[t].pc = "prepare" /\ UNCHANGED <<cacheVars, prog, jobDir, exeDir, userOut>> /\ NoFault
  BY DEF Prepared
<1>2. FilesTyped' /\ budget' \in Nat
  BY <1>1, TaskFacts, FaultBudget DEF FilesTyped
<1>3. CASE prep[t].pc = "ready" /\ Goto(t, "save")
  <2>1. PICK v : Moves(t, v) /\ v.pc = "save" /\ v.verdict = task[t].verdict
    BY <1>3, TaskFacts, GotoMoves DEF TaskPC
  <2>2. Onward(task[t], v, prep[t])
    BY <1>1, <1>3, <2>1 DEF Onward, Moves
  <2> QED  BY <1>1, <1>2, <2>1, <2>2, OnwardStep
<1>4. CASE prep[t].pc = "failed" /\ Fail(t, "System Error")
  <2>1. PICK v : Moves(t, v) /\ v.pc = "error"
    BY <1>4, TaskFacts, FailMoves, VerdictNames, Zenon
  <2>2. Onward(task[t], v, prep[t])
    BY <1>1, <1>4, <2>1 DEF Onward, Moves
  <2> QED  BY <1>1, <1>2, <2>1, <2>2, OnwardStep
<1> QED  BY <1>3, <1>4 DEF Prepared

LEMMA SaveTypes ==
    ASSUME TaskInv, NEW t \in Tasks, SaveCode(t)
    PROVE  TaskInv'
<1>1. task[t].pc = "save" /\ UNCHANGED <<cacheVars, prog, exeDir, userOut>>
  BY DEF SaveCode
<1>2. Job(t) \in Jobs
  BY <1>1, TaskFacts DEF Live
<1>3. CASE jobDir' = jobDir \cup {Job(t)} /\ Goto(t, "compile") /\ NoFault
  <2>1. PICK v : Moves(t, v) /\ v.pc = "compile" /\ v.verdict = task[t].verdict
    BY <1>3, TaskFacts, GotoMoves DEF TaskPC
  <2>2. Onward(task[t], v, prep[t])
    BY <1>1, <2>1 DEF Onward, Moves, Judging
  <2>3. FilesTyped' /\ budget' \in Nat
    BY <1>1, <1>2, <1>3, TaskFacts, FaultBudget DEF FilesTyped
  <2> QED  BY <1>1, <2>1, <2>2, <2>3, OnwardStep
<1>4. CASE Fault("disk") /\ Fail(t, "System Error") /\ UNCHANGED jobDir
  <2>1. PICK v : Moves(t, v) /\ v.pc = "error"
    BY <1>4, TaskFacts, FailMoves, VerdictNames, Zenon
  <2>2. Onward(task[t], v, prep[t])
    BY <1>1, <2>1 DEF Onward, Moves, Judging
  <2>3. FilesTyped' /\ budget' \in Nat
    BY <1>1, <1>4, TaskFacts, FaultBudget DEF FilesTyped
  <2> QED  BY <1>1, <2>1, <2>2, <2>3, OnwardStep
<1> QED  BY <1>3, <1>4 DEF SaveCode

LEMMA CompileTypes ==
    ASSUME TaskInv, NEW t \in Tasks, Compile(t)
    PROVE  TaskInv'
<1>1. task[t].pc = "compile" /\ UNCHANGED <<cacheVars, prog, jobDir, userOut>>
  BY DEF Compile
<1>2. Job(t) \in Jobs
  BY <1>1, TaskFacts DEF Live
<1>3. exeDir' \subseteq Jobs
  BY <1>2, TaskFacts DEF Compile, SandboxCompile, FilesTyped
<1>4. FilesTyped' /\ budget' \in Nat
  <2>1. NoFault \/ Fault("judge_compile")
    BY DEF Compile
  <2> QED  BY <1>1, <1>3, <2>1, TaskFacts, FaultBudget DEF FilesTyped
<1>5. CASE Goto(t, "glob")
  <2>1. PICK v : Moves(t, v) /\ v.pc = "glob" /\ v.verdict = task[t].verdict
    BY <1>5, TaskFacts, GotoMoves DEF TaskPC
  <2>2. Onward(task[t], v, prep[t])
    BY <1>1, <2>1 DEF Onward, Moves, Judging
  <2> QED  BY <1>1, <1>4, <2>1, <2>2, OnwardStep
<1>6. CASE Fail(t, "Compile Error")
  <2>1. PICK v : Moves(t, v) /\ v.pc = "error"
    BY <1>6, TaskFacts, FailMoves, VerdictNames, Zenon
  <2>2. Onward(task[t], v, prep[t])
    BY <1>1, <2>1 DEF Onward, Moves, Judging
  <2> QED  BY <1>1, <1>4, <2>1, <2>2, OnwardStep
<1> QED  BY <1>5, <1>6 DEF Compile

LEMMA GlobTypes ==
    ASSUME TaskInv, NEW t \in Tasks, Glob(t)
    PROVE  TaskInv'
<1>1. task[t].pc = "glob" /\ UNCHANGED <<cacheVars, prog, jobDir, exeDir, userOut>> /\ NoFault
  BY DEF Glob
<1>2. FilesTyped' /\ budget' \in Nat
  BY <1>1, TaskFacts, FaultBudget DEF FilesTyped
<1>3. CASE task' = [task EXCEPT ![t] = [task[t] EXCEPT !.todo = Cases, !.pc = "exec"]]
  <2>1. PICK v : Moves(t, v) /\ v.pc = "exec" /\ v.verdict = task[t].verdict
    BY <1>3, TaskFacts, TodoMoves
  <2>2. Onward(task[t], v, prep[t])
    BY <1>1, <2>1 DEF Onward, Moves, Judging
  <2> QED  BY <1>1, <1>2, <2>1, <2>2, OnwardStep
<1>4. CASE Conclude(t, "Accepted")
  <2>1. PICK v : Moves(t, v) /\ v.pc = "report"
    BY <1>4, TaskFacts, ConcludeMoves, VerdictNames, Zenon
  <2>2. Onward(task[t], v, prep[t])
    BY <1>1, <2>1 DEF Onward, Moves, Judging
  <2> QED  BY <1>1, <1>2, <2>1, <2>2, OnwardStep
<1> QED  BY <1>3, <1>4 DEF Glob

\* The output of task t on case c; what WriteOutput keeps of it.
Output(t, c) == IF Dir(t) # 0 /\ <<Dir(t), c>> \in prog[Job(t)].solves THEN <<Dir(t), c>> ELSE NoCase

LEMMA OutputType ==
    ASSUME TaskInv, NEW t \in Tasks, NEW c, Live(t)
    PROVE  Output(t, c) \in (Versions \X Cases) \cup {NoCase}
<1>1. prog[Job(t)] \in Programs
  BY TaskFacts
<1>2. prog[Job(t)].solves \subseteq Versions \X Cases
  BY <1>1, JudgeAssumption
<1> QED  BY <1>2 DEF Output

LEMMA ExecuteCases ==
    ASSUME NEW t, Execute(t)
    PROVE  LET j == Job(t)
               c == Min(task[t].todo)
               solved == Dir(t) # 0 /\ <<Dir(t), c>> \in prog[j].solves
           IN  /\ task[t].pc = "exec"
               /\ UNCHANGED <<cacheVars, prog, jobDir, exeDir>>
               /\ \/ Goto(t, "compare") /\ NoFault /\ WriteOutput(j, Output(t, c))
                  \/ Conclude(t, "Runtime Error") /\ ~solved /\ NoFault /\ UNCHANGED userOut
                  \/ Conclude(t, "System Error") /\ NoFault /\ UNCHANGED userOut
                  \/ Fail(t, "System Error") /\ Fault("judge_run") /\ UNCHANGED userOut
  BY DEF Execute, Output

LEMMA ExecuteTypes ==
    ASSUME TaskInv, NEW t \in Tasks, Execute(t)
    PROVE  TaskInv'
<1> DEFINE out == Output(t, Min(task[t].todo))
<1>1. task[t].pc = "exec" /\ UNCHANGED <<cacheVars, prog, jobDir, exeDir>>
  BY ExecuteCases
<1>2. Job(t) \in Jobs /\ Live(t)
  BY <1>1, TaskFacts DEF Live
<1>3. out \in (Versions \X Cases) \cup {NoCase}
  BY <1>2, OutputType
<1>4. budget' \in Nat
  <2>1. NoFault \/ Fault("judge_run")
    BY ExecuteCases
  <2> QED  BY <2>1, TaskFacts, FaultBudget
<1>5. UNCHANGED userOut \/ WriteOutput(Job(t), out)
  BY ExecuteCases
<1> HIDE DEF out
<1>6. FilesTyped'
  BY <1>1, <1>2, <1>3, <1>5, TaskFacts DEF FilesTyped, WriteOutput
<1>7. CASE Goto(t, "compare")
  <2>1. PICK v : Moves(t, v) /\ v.pc = "compare" /\ v.verdict = task[t].verdict
    BY <1>7, TaskFacts, GotoMoves DEF TaskPC
  <2>2. Onward(task[t], v, prep[t])
    BY <1>1, <2>1 DEF Onward, Moves, Judging
  <2> QED  BY <1>1, <1>4, <1>6, <2>1, <2>2, OnwardStep
<1>8. ASSUME NEW w \in Verdicts, Conclude(t, w)
      PROVE  TaskInv'
  <2>1. PICK v : Moves(t, v) /\ v.pc = "report"
    BY <1>8, TaskFacts, ConcludeMoves
  <2>2. Onward(task[t], v, prep[t])
    BY <1>1, <2>1 DEF Onward, Moves, Judging
  <2> QED  BY <1>1, <1>4, <1>6, <2>1, <2>2, OnwardStep
<1>9. ASSUME NEW w \in Verdicts, Fail(t, w)
      PROVE  TaskInv'
  <2>1. PICK v : Moves(t, v) /\ v.pc = "error"
    BY <1>9, TaskFacts, FailMoves
  <2>2. Onward(task[t], v, prep[t])
    BY <1>1, <2>1 DEF Onward, Moves, Judging
  <2> QED  BY <1>1, <1>4, <1>6, <2>1, <2>2, OnwardStep
<1> QED  BY <1>7, <1>8, <1>9, ExecuteCases, VerdictNames

LEMMA CompareCases ==
    ASSUME NEW t, Compare(t)
    PROVE  LET c == Min(task[t].todo)
               ok == userOut[Job(t)] = <<Dir(t), c>>
           IN  \/ Conclude(t, "Wrong Answer") /\ ~ok
               \/ Conclude(t, "Accepted") /\ ok /\ task[t].todo = {c}
               \/ /\ ok /\ task[t].todo # {c}
                  /\ task' = [task EXCEPT ![t] = [task[t] EXCEPT !.todo = task[t].todo \ {c},
                                                                !.pc = "exec"]]
<1> DEFINE c == Min(task[t].todo)
           ok == userOut[Job(t)] = <<Dir(t), c>>
           next == [task EXCEPT ![t] = [task[t] EXCEPT !.todo = task[t].todo \ {c}, !.pc = "exec"]]
<1>1. IF ~ok THEN Conclude(t, "Wrong Answer")
      ELSE IF task[t].todo = {c} THEN Conclude(t, "Accepted") ELSE task' = next
  BY DEF Compare
<1> HIDE DEF c, ok, next
<1>2. \/ Conclude(t, "Wrong Answer") /\ ~ok
      \/ Conclude(t, "Accepted") /\ ok /\ task[t].todo = {c}
      \/ ok /\ task[t].todo # {c} /\ task' = next
  BY <1>1
<1> QED  BY <1>2 DEF c, ok, next

LEMMA CompareTypes ==
    ASSUME TaskInv, NEW t \in Tasks, Compare(t)
    PROVE  TaskInv'
<1> DEFINE rest == task[t].todo \ {Min(task[t].todo)}
<1>1. task[t].pc = "compare" /\ UNCHANGED <<cacheVars, prog, jobDir, exeDir, userOut>> /\ NoFault
  BY DEF Compare
<1>2. FilesTyped' /\ budget' \in Nat
  BY <1>1, TaskFacts, FaultBudget DEF FilesTyped
<1>3. CASE task' = [task EXCEPT ![t] = [task[t] EXCEPT !.todo = rest, !.pc = "exec"]]
  <2>1. rest \in SUBSET Cases
    BY TaskFacts DEF TaskRecords
  <2> HIDE DEF rest
  <2>2. PICK v : Moves(t, v) /\ v.pc = "exec" /\ v.verdict = task[t].verdict
    BY <1>3, <2>1, TaskFacts, TodoMoves
  <2>3. Onward(task[t], v, prep[t])
    BY <1>1, <2>2 DEF Onward, Moves, Judging
  <2> QED  BY <1>1, <1>2, <2>2, <2>3, OnwardStep
<1>4. ASSUME NEW w \in Verdicts, Conclude(t, w)
      PROVE  TaskInv'
  <2>1. PICK v : Moves(t, v) /\ v.pc = "report"
    BY <1>4, TaskFacts, ConcludeMoves
  <2>2. Onward(task[t], v, prep[t])
    BY <1>1, <2>1 DEF Onward, Moves, Judging
  <2> QED  BY <1>1, <1>2, <2>1, <2>2, OnwardStep
<1> QED  BY <1>3, <1>4, CompareCases, VerdictNames

LEMMA NotPreparingCall == NotPreparing \in Calls /\ NotPreparing.pc = "off"
<1>1. 0 \in Version
  BY CacheAssumption DEF Version
<1> QED  BY <1>1 DEF NotPreparing, Calls, PrepPC

LEMMA CacheInvPrep ==
    ASSUME CacheInv, UNCHANGED <<remote, disk, lru, entry>>, prep' \in [Tasks -> Calls],
           budget' \in Nat
    PROVE  CacheInv'
  BY DEF CacheInv, CacheTypeOK, IsList, Listed, Calls

LEMMA ReturnTypes ==
    ASSUME TaskInv, NEW t \in Tasks, Live(t), NEW x \in {"done", "dead"}, NEW cleanup \in BOOLEAN,
           Return(t, x, cleanup), budget' \in Nat
    PROVE  TaskInv'
<1> DEFINE v == [task[t] EXCEPT !.pc = x]
<1>1. task[t] \in TaskRecords /\ x \in TaskPC /\ Job(t) \in Jobs /\ CacheInv
      /\ prep \in [Tasks -> Calls] /\ CallOf(task[t], prep[t])
  BY TaskFacts, CacheFacts DEF TaskPC
<1>2. v \in TaskRecords /\ v.pc = x /\ v.job = task[t].job /\ v.verdict = task[t].verdict
  BY <1>1, TaskSetPC
<1>3. task' = [task EXCEPT ![t] = v]
  BY DEF Return
<1> HIDE DEF v
<1>4. task' \in [Tasks -> TaskRecords] /\ task'[t] = v /\ \A u \in Tasks \ {t} : task'[u] = task[u]
  BY <1>2, <1>3, TaskFacts
<1>5. prep' \in [Tasks -> Calls] /\ prep'[t].pc = "off" /\ \A u \in Tasks \ {t} : prep'[u] = prep[u]
  BY <1>1, NotPreparingCall DEF Return
<1>6. UNCHANGED <<remote, disk, lru, entry, prog>>
  BY DEF Return
<1>7. CacheInv'
  BY <1>1, <1>5, <1>6, CacheInvPrep
<1>8. FilesTyped'
  BY <1>1, TaskFacts DEF Return, FilesTyped
<1>9. JudgeTyped'
  BY <1>4, <1>6, <1>8, TaskFacts DEF JudgeTyped, FilesTyped
<1>10. TypeOK'
  BY <1>7, <1>9, TypeParts, PTL
<1>11. CallOf(task'[t], prep'[t])
  BY <1>1, <1>2, <1>4, <1>5 DEF CallOf, Judging, Job
<1>12. \A u \in Tasks : CallOf(task'[u], prep'[u])
  BY <1>4, <1>5, <1>11 DEF TaskInv, CallInv
<1> QED  BY <1>10, <1>12 DEF TaskInv, CallInv

LEMMA ReportTypes ==
    ASSUME TaskInv, NEW t \in Tasks, Report(t) \/ Cancel(t)
    PROVE  TaskInv'
<1>1. Live(t)
  BY DEF Report, Cancel, Live
<1>2. PICK x \in {"done", "dead"}, cleanup \in BOOLEAN : Return(t, x, cleanup)
  BY DEF Report, Cancel
<1>3. budget' \in Nat
  BY TaskFacts, FaultBudget DEF Report, Cancel
<1> QED  BY <1>1, <1>2, <1>3, ReturnTypes

LEMMA RestartTypes ==
    ASSUME TaskInv, Restart
    PROVE  TaskInv'
<1> DEFINE v(t) == IF Live(t) THEN [task[t] EXCEPT !.pc = "dead"] ELSE task[t]
<1>1. CacheInv /\ JudgeTyped /\ budget \in Nat
  BY TypeParts DEF TaskInv, CacheInv
<1>2. \A t \in Tasks : /\ v(t) \in TaskRecords /\ v(t).job = task[t].job
                       /\ v(t).verdict = task[t].verdict /\ v(t).pc \in {"free", "done", "dead"}
  <2> SUFFICES ASSUME NEW t \in Tasks
               PROVE  /\ v(t) \in TaskRecords /\ v(t).job = task[t].job
                      /\ v(t).verdict = task[t].verdict /\ v(t).pc \in {"free", "done", "dead"}
    OBVIOUS
  <2>1. task[t] \in TaskRecords /\ "dead" \in TaskPC
    BY <1>1 DEF JudgeTyped, TaskPC
  <2>2. CASE Live(t)
    BY <2>1, <2>2, TaskSetPC
  <2>3. CASE ~Live(t)
    BY <2>1, <2>3 DEF Live
  <2> QED  BY <2>2, <2>3
<1>3. task' = [t \in Tasks |-> v(t)]
  BY DEF Restart
<1> HIDE DEF v
<1>4. task' \in [Tasks -> TaskRecords] /\ \A t \in Tasks : task'[t] = v(t)
  BY <1>2, <1>3
<1>5. budget' \in Nat
  BY <1>1, FaultBudget DEF Restart
<1>6. prep' = [t \in Tasks |-> NotPreparing] /\ lru' = {} /\ entry' = [p \in Problems |-> NoEntry]
      /\ UNCHANGED <<remote, disk, prog, jobDir, exeDir, userOut>>
  BY DEF Restart, RestartCache
<1>7. IsList({}) /\ Listed({}) = {}
  BY DEF IsList, Listed
<1>8. CacheInv'
  <2>1. prep' \in [Tasks -> Calls] /\ entry' \in [Problems -> Entries]
    BY <1>6, NotPreparingCall, NoEntryType
  <2>2. IsList(lru') /\ \A p \in Problems : p \in Listed(lru') <=> entry'[p] # NoEntry
    BY <1>6, <1>7
  <2>3. CacheTypeOK'
    BY <1>1, <1>6, <2>1 DEF CacheInv, CacheTypeOK, Calls, Entries
  <2> QED  BY <1>5, <2>2, <2>3 DEF CacheInv, IsList, Listed
<1>9. JudgeTyped'
  BY <1>1, <1>4, <1>6 DEF JudgeTyped
<1>10. TypeOK'
  BY <1>8, <1>9, TypeParts, PTL
<1>11. \A t \in Tasks : CallOf(task'[t], prep'[t])
  <2> SUFFICES ASSUME NEW t \in Tasks PROVE CallOf(task'[t], prep'[t])
    OBVIOUS
  <2>1. CallOf(task[t], prep[t])
    BY TaskFacts
  <2>2. prep'[t].pc = "off"
    BY <1>6, NotPreparingCall
  <2> QED  BY <1>2, <1>4, <2>1, <2>2 DEF CallOf, Judging
<1> QED  BY <1>10, <1>11 DEF TaskInv, CallInv

LEMMA BeginEffect ==
    ASSUME TaskInv, NEW t \in Tasks, NEW j \in Jobs, Begin(t, j)
    PROVE  \E k \in TaskRecords, c \in Calls :
             /\ task' = [task EXCEPT ![t] = k] /\ prep' = [prep EXCEPT ![t] = c]
             /\ k.pc = "prepare" /\ k.job = j /\ k.verdict = "none"
             /\ c.prob = ProblemOf[j] /\ c.pc \in {"dlwait", "stat"}
             /\ budget' \in Nat
             /\ UNCHANGED <<remote, disk, lru, entry, prog, jobDir, exeDir, userOut>>
<1> DEFINE p == ProblemOf[j]
           x == IF \E u \in Tasks : prep[u].prob = p /\ prep[u].pc \in Downloading
                THEN "dlwait" ELSE "stat"
           k == [Idle EXCEPT !.pc = "prepare", !.job = j]
           c == [NotPreparing EXCEPT !.prob = p, !.pc = x]
<1>1. task' = [task EXCEPT ![t] = k] /\ prep' = [prep EXCEPT ![t] = c]
      /\ UNCHANGED <<remote, disk, lru, entry, prog, jobDir, exeDir, userOut>>
  BY DEF Begin, BeginPrepare
<1>2. budget' \in Nat
  BY TaskFacts, FaultBudget DEF Begin
<1>3. p \in Problems
  BY JudgeAssumption
<1>4. x \in {"dlwait", "stat"} /\ x \in PrepPC
  BY DEF PrepPC, Downloading
<1> HIDE DEF x, p
<1>5. c \in Calls /\ c.prob = p /\ c.pc = x
  <2>1. 0 \in Version
    BY CacheAssumption DEF Version
  <2> QED  BY <1>3, <1>4, <2>1 DEF NotPreparing, Calls
<1>6. k \in TaskRecords /\ k.pc = "prepare" /\ k.job = j /\ k.verdict = "none"
  BY DEF Idle, TaskRecords, TaskPC, Verdicts
<1> HIDE DEF k, c
<1> QED  BY <1>1, <1>2, <1>4, <1>5, <1>6 DEF p

LEMMA BeginTypes ==
    ASSUME TaskInv, NEW t \in Tasks, NEW j \in Jobs, Begin(t, j)
    PROVE  TaskInv'
<1>1. PICK k \in TaskRecords, c \in Calls :
             /\ task' = [task EXCEPT ![t] = k] /\ prep' = [prep EXCEPT ![t] = c]
             /\ k.pc = "prepare" /\ k.job = j /\ k.verdict = "none"
             /\ c.prob = ProblemOf[j] /\ c.pc \in {"dlwait", "stat"}
             /\ budget' \in Nat
             /\ UNCHANGED <<remote, disk, lru, entry, prog, jobDir, exeDir, userOut>>
  BY BeginEffect
<1>2. CacheInv /\ JudgeTyped /\ prep \in [Tasks -> Calls]
  BY TaskFacts, CacheFacts
<1>3. task' \in [Tasks -> TaskRecords] /\ task'[t] = k /\ \A u \in Tasks \ {t} : task'[u] = task[u]
  BY <1>1, TaskFacts
<1>4. prep' \in [Tasks -> Calls] /\ prep'[t] = c /\ \A u \in Tasks \ {t} : prep'[u] = prep[u]
  BY <1>1, <1>2
<1>5. CacheInv'
  BY <1>1, <1>2, <1>4, CacheInvPrep
<1>6. JudgeTyped'
  BY <1>1, <1>2, <1>3 DEF JudgeTyped
<1>7. TypeOK'
  BY <1>5, <1>6, TypeParts, PTL
<1>8. CallOf(k, c)
  BY <1>1 DEF CallOf, Judging
<1>9. \A u \in Tasks : CallOf(task'[u], prep'[u])
  BY <1>3, <1>4, <1>8 DEF TaskInv, CallInv
<1> QED  BY <1>7, <1>9 DEF TaskInv, CallInv

LEMMA PreparingSummary ==
    ASSUME TaskInv, NEW t \in Tasks, Preparing(t)
    PROVE  /\ Summary(t) /\ task[t].pc = "prepare" /\ UNCHANGED judgeVars
           /\ prep[t].prob \in Problems
<1>1. task[t].pc = "prepare" /\ PrepareStep(t) /\ UNCHANGED judgeVars
  BY DEF Preparing
<1>2. prep[t].prob \in Problems /\ CacheInv
  BY <1>1, TaskFacts DEF Live
<1> QED  BY <1>1, <1>2, PrepareSummary DEF Preparation

LEMMA PreparingTypes ==
    ASSUME TaskInv, NEW t \in Tasks, Preparing(t)
    PROVE  TaskInv'
<1>1. Summary(t) /\ task[t].pc = "prepare" /\ UNCHANGED judgeVars
  BY PreparingSummary
<1>2. prep' \in [Tasks -> Calls] /\ ListInv' /\ budget' \in Nat /\ remote' = remote
      /\ disk' \in [Problems -> Files]
  BY <1>1 DEF Summary, Advance, Removed
<1>3. CacheInv'
  BY <1>2, TaskFacts DEF CacheInv, CacheTypeOK, ListInv, Calls, Entries
<1>4. JudgeTyped'
  BY <1>1, TaskFacts DEF JudgeTyped, judgeVars
<1>5. TypeOK'
  BY <1>3, <1>4, TypeParts, PTL
<1>6. \A u \in Tasks : CallOf(task'[u], prep'[u])
  <2> SUFFICES ASSUME NEW u \in Tasks PROVE CallOf(task'[u], prep'[u])
    OBVIOUS
  <2>1. task'[u] = task[u] /\ CallOf(task[u], prep[u])
    BY <1>1, TaskFacts DEF judgeVars
  <2>2. CASE u = t
    BY <1>1, <2>1, <2>2 DEF Summary, Advance, CallOf, Judging
  <2>3. CASE u # t /\ prep'[u] = prep[u]
    BY <2>1, <2>3
  <2>4. CASE /\ prep[u].pc \in Waiting /\ prep'[u].prob = prep[u].prob
             /\ prep'[u].pc \in Told
    BY <2>1, <2>4 DEF CallOf, Judging, Waiting, Told
  <2> QED  BY <1>1, <2>2, <2>3, <2>4 DEF Summary, Advance
<1> QED  BY <1>5, <1>6 DEF TaskInv, CallInv

LEMMA ReplaceTypes ==
    ASSUME TaskInv, NEW p \in Problems, ReplaceObject(p), UNCHANGED judgeVars
    PROVE  TaskInv'
<1>1. CacheInv /\ JudgeTyped
  BY TypeParts DEF TaskInv
<1>2. remote' \in [Problems -> 1..MaxVersion]
  BY <1>1, CacheFacts, CacheAssumption DEF ReplaceObject
<1>3. UNCHANGED <<disk, lru, entry, prep, budget>>
  BY DEF ReplaceObject, NoFault
<1>4. CacheInv'
  BY <1>1, <1>2, <1>3 DEF CacheInv, CacheTypeOK, IsList, Listed
<1>5. JudgeTyped'
  BY <1>1 DEF JudgeTyped, judgeVars
<1>6. TypeOK'
  BY <1>4, <1>5, TypeParts, PTL
<1> QED  BY <1>3, <1>6 DEF TaskInv, CallInv, judgeVars

LEMMA InitTypes == Init => TaskInv
<1> SUFFICES ASSUME Init PROVE TaskInv
  OBVIOUS
<1>1. remote \in [Problems -> 1..MaxVersion]
  BY CacheAssumption DEF Init, CacheInit
<1>2. NoFiles \in Files
  <2>1. 0 \in Version
    BY CacheAssumption DEF Version
  <2> QED  BY <2>1 DEF NoFiles, Files
<1>3. disk \in [Problems -> Files]
  BY <1>2 DEF Init, CacheInit
<1>4. entry \in [Problems -> Entries] /\ \A p \in Problems : entry[p] = NoEntry
  BY NoEntryType DEF Init, CacheInit
<1>5. prep \in [Tasks -> Calls] /\ \A t \in Tasks : prep[t].pc = "off"
  BY NotPreparingCall DEF Init, CacheInit
<1>6. IsList(lru) /\ Listed(lru) = {} /\ lru \subseteq Problems \X Problems
  BY DEF Init, CacheInit, IsList, Listed
<1>7. CacheInv
  BY <1>1, <1>3, <1>4, <1>5, <1>6, MaxFaultsAssumption
     DEF CacheInv, CacheTypeOK, Calls, Entries, Init, FaultsInit
<1>8. Idle \in TaskRecords /\ Idle.pc = "free" /\ Idle.verdict = "none"
  BY DEF Idle, TaskRecords, TaskPC, Verdicts
<1>9. task \in [Tasks -> TaskRecords] /\ \A t \in Tasks : task[t] = Idle
  BY <1>8 DEF Init
<1>10. JudgeTyped
  BY <1>9 DEF Init, JudgeTyped
<1>11. CallInv
  BY <1>5, <1>8, <1>9 DEF CallInv, CallOf, Judging
<1> QED  BY <1>7, <1>10, <1>11, TypeParts DEF TaskInv

LEMMA TaskInvStutter ==
    ASSUME TaskInv, UNCHANGED vars
    PROVE  TaskInv'
<1>1. CacheInv /\ JudgeTyped
  BY TypeParts DEF TaskInv
<1>2. CacheInv' /\ JudgeTyped'
  BY <1>1 DEF vars, cacheVars, judgeVars, CacheInv, CacheTypeOK, IsList, Listed, JudgeTyped
<1>3. TypeOK'
  BY <1>2, TypeParts, PTL
<1> QED  BY <1>3 DEF TaskInv, CallInv, vars, cacheVars, judgeVars

LEMMA TaskInvStep ==
    ASSUME TaskInv, [Next]_vars
    PROVE  TaskInv'
<1>1. ASSUME NEW t \in Tasks, TaskStep(t) \/ Cancel(t)
      PROVE  TaskInv'
  BY <1>1, PreparingTypes, PreparedTypes, SaveTypes, CompileTypes, GlobTypes, ExecuteTypes,
     CompareTypes, ReportTypes DEF TaskStep
<1> QED  BY <1>1, BeginTypes, RestartTypes, ReplaceTypes, TaskInvStutter DEF Next

(* The inductive invariant of the calls: the types, and what a task and    *)
(* its call of Prepare know of each other.                                 *)
THEOREM TaskInvHolds == Spec => []TaskInv
  BY InitTypes, TaskInvStep, PTL DEF Spec

(* The types, and the LRU list and its map agree, whatever is touched,     *)
(* evicted, expired or forgotten (touchCache, evictIfNeeded).              *)
THEOREM TypeCorrect == Spec => []TypeOK
<1>1. TaskInv => TypeOK
  BY DEF TaskInv
<1> QED  BY <1>1, TaskInvHolds, PTL

---------------------------------------------------------------------------
(* The ETags. *)

LEMMA VersionNat == Version \subseteq Nat
  BY CacheAssumption DEF Version

LEMMA FileFacts ==
    ASSUME NEW f \in Files
    PROVE  /\ f.zip \in Nat /\ f.tag \in Nat /\ f.dir \in Nat /\ f.rtag \in Nat
           /\ f.ready \in BOOLEAN
  BY VersionNat DEF Files

LEMMA CallFacts ==
    ASSUME NEW c \in Calls
    PROVE  c.tag \in Nat /\ c.tmp \in Nat
  BY VersionNat DEF Calls

LEMMA ShrunkFilesOK ==
    ASSUME NEW f \in Files, NEW g, NEW r \in Nat, FilesOK(f, r), Shrunk(g, f)
    PROVE  FilesOK(g, r)
<1>1. f.zip \in Nat /\ f.tag \in Nat /\ f.dir \in Nat /\ f.rtag \in Nat
  BY FileFacts
<1> QED  BY <1>1 DEF FilesOK, Shrunk

LEMMA ShrunkTagKnown ==
    ASSUME NEW f, NEW g, NEW r, NEW c, TagKnown(c, f, r), Shrunk(g, f)
    PROVE  TagKnown(c, g, r)
  BY DEF TagKnown, Shrunk

\* What a step of Prepare writes into the files g, field by field.
WroteInto(c, d, g, f, r) ==
    /\ f.zip = IF c.pc = "fetch" /\ d.pc = "retag" THEN r ELSE g.zip
    /\ f.tag = IF c.pc = "retag" THEN c.tag ELSE g.tag
    /\ f.dir = IF c.pc = "swap" THEN c.tmp ELSE g.dir
    /\ f.rtag = IF c.pc = "swap" THEN 0
                ELSE IF c.pc = "mark" /\ d.pc = "ready" THEN c.tag ELSE g.rtag
    /\ c.pc = "swap" => f.ready = FALSE
    /\ c.pc = "mark" /\ d.pc = "ready" => g.dir # 0
    /\ c.pc # "swap" /\ ~(c.pc = "mark" /\ d.pc = "ready") => f.ready = g.ready

LEMMA WroteFields ==
    ASSUME NEW c \in Calls, NEW d, NEW g \in Files, NEW f, NEW r, Wrote(c, d, g, f, r)
    PROVE  WroteInto(c, d, g, f, r)
  BY DEF Wrote, WroteInto, Files

LEMMA WroteFilesOK ==
    ASSUME NEW c \in Calls, NEW d, NEW g \in Files, NEW f, NEW r \in Nat,
           Wrote(c, d, g, f, r), FilesOK(g, r), TagKnown(c, g, r)
    PROVE  FilesOK(f, r)
<1>1. g.zip \in Nat /\ g.tag \in Nat /\ g.dir \in Nat /\ g.rtag \in Nat /\ c.tag \in Nat
      /\ c.tmp \in Nat
  BY FileFacts, CallFacts
<1>2. WroteInto(c, d, g, f, r)
  BY WroteFields
<1>3. f.zip <= r /\ f.tag <= r /\ (f.zip # 0 => f.tag <= f.zip)
  BY <1>1, <1>2 DEF FilesOK, TagKnown, WroteInto
<1>4. f.ready => f.dir # 0 /\ f.rtag <= f.dir
  BY <1>1, <1>2 DEF FilesOK, TagKnown, WroteInto
<1> QED  BY <1>3, <1>4 DEF FilesOK

LEMMA WroteOwnTag ==
    ASSUME NEW c \in Calls, NEW d, NEW g \in Files, NEW f, NEW r \in Nat,
           Wrote(c, d, g, f, r), FilesOK(g, r), TagKnown(c, g, r)
    PROVE  TagKnown(d, f, r)
<1>1. g.zip \in Nat /\ g.tag \in Nat /\ c.tag \in Nat /\ c.tmp \in Nat
  BY FileFacts, CallFacts
<1>2. WroteInto(c, d, g, f, r)
  BY WroteFields
<1>3. d.pc \in Unzipping => ~f.ready
  BY <1>2 DEF TagKnown, Wrote, WroteInto, Unzipping
<1> QED  BY <1>1, <1>2, <1>3 DEF FilesOK, TagKnown, Wrote, WroteInto

LEMMA WroteOtherTag ==
    ASSUME NEW c \in Calls, NEW d, NEW g \in Files, NEW f, NEW r \in Nat,
           Wrote(c, d, g, f, r), NEW o \in Calls, TagKnown(o, g, r),
           ~(c.pc \in Unzipping /\ o.pc \in Unzipping)
    PROVE  TagKnown(o, f, r)
<1>1. WroteInto(c, d, g, f, r)
  BY WroteFields
<1> QED  BY <1>1 DEF TagKnown, WroteInto, Unzipping

LEMMA QuietTag ==
    ASSUME NEW c, c.pc \in Told \cup {"off", "stat", "dlwait", "uzwait"}, NEW f, NEW r
    PROVE  TagKnown(c, f, r)
  BY DEF TagKnown, Told, Unzipping

LEMMA TagPrepared ==
    ASSUME TaskInv, TagInv, NEW t \in Tasks, Preparing(t)
    PROVE  TagInv'
<1> DEFINE p == prep[t].prob
<1>1. Summary(t) /\ task[t].pc = "prepare" /\ p \in Problems
  BY PreparingSummary
<1>2. disk \in [Problems -> Files] /\ prep \in [Tasks -> Calls]
      /\ \A q \in Problems : remote[q] \in Version
  BY TaskFacts, CacheFacts
<1>3. \A q \in Problems : remote[q] \in Nat
  BY <1>2, VersionNat
<1>4. PICK f \in [Problems -> Files] :
         /\ \A q \in Problems \ {p} : f[q] = disk[q]
         /\ Wrote(prep[t], prep'[t], disk[p], f[p], remote[p])
         /\ Removed(f, p)
  BY <1>1 DEF Summary
<1>5. remote' = remote /\ Advance(t)
  BY <1>1 DEF Summary
<1>6. prep[t].pc # "off" /\ prep[t] \in Calls /\ disk[p] \in Files
  BY <1>1, <1>2, TaskFacts DEF CallOf
<1>7. TagKnown(prep[t], disk[p], remote[p]) /\ FilesOK(disk[p], remote[p])
  BY <1>1, <1>6 DEF TagInv
<1> HIDE DEF p
<1>8. \A q \in Problems : FilesOK(f[q], remote[q])
  <2>1. FilesOK(f[p], remote[p])
    BY <1>1, <1>3, <1>4, <1>6, <1>7, WroteFilesOK
  <2> QED  BY <1>4, <2>1 DEF TagInv
<1>9. \A q \in Problems : FilesOK(disk'[q], remote'[q])
  BY <1>3, <1>4, <1>5, <1>8, ShrunkFilesOK DEF Removed
<1>10. ASSUME NEW u \in Tasks, prep'[u].pc # "off"
       PROVE  TagKnown(prep'[u], disk'[prep'[u].prob], remote'[prep'[u].prob])
  <2>1. CASE u = t
    <3>1. TagKnown(prep'[t], f[p], remote[p])
      BY <1>1, <1>3, <1>4, <1>6, <1>7, WroteOwnTag
    <3>2. prep'[t].prob = p
      BY <1>5 DEF Advance, p
    <3> QED  BY <1>1, <1>4, <1>5, <2>1, <3>1, <3>2, ShrunkTagKnown DEF Removed
  <2>2. CASE u # t /\ prep'[u] = prep[u]
    <3> DEFINE q == prep[u].prob
    <3>1. prep[u].pc # "off" /\ prep[u] \in Calls
      BY <1>2, <1>10, <2>2
    <3>2. q \in Problems
      BY <3>1, TaskFacts DEF CallOf, Live
    <3>3. TagKnown(prep[u], disk[q], remote[q])
      BY <3>1 DEF TagInv
    <3>4. TagKnown(prep[u], f[q], remote[q])
      <4>1. CASE q = p
        <5>1. ~(prep[t].pc \in Unzipping /\ prep[u].pc \in Unzipping)
          BY <2>2, <4>1 DEF TagInv, UnzipsAlone, p
        <5> QED  BY <1>1, <1>3, <1>4, <1>6, <3>1, <3>3, <4>1, <5>1, WroteOtherTag
      <4>2. CASE q # p
        BY <1>4, <3>2, <3>3, <4>2
      <4> QED  BY <4>1, <4>2
    <3> HIDE DEF q
    <3>5. TagKnown(prep[u], disk'[q], remote'[q])
      BY <1>4, <1>5, <3>2, <3>4, ShrunkTagKnown DEF Removed
    <3> QED  BY <2>2, <3>5 DEF q
  <2>3. CASE prep'[u].pc \in Told
    BY <2>3, QuietTag
  <2> QED  BY <1>5, <2>1, <2>2, <2>3 DEF Advance
<1>11. UnzipsAlone'
  <2>1. \A u \in Tasks \ {t} : prep'[u].pc \in Unzipping => prep'[u] = prep[u]
    BY <1>5 DEF Advance, Told, Unzipping
  <2>2. prep'[t].pc \in Unzipping /\ prep[t].pc \notin Unzipping =>
         ~ \E u \in Tasks : prep[u].prob = p /\ prep[u].pc \in Unzipping
    BY <1>1 DEF Summary, p
  <2>3. prep'[t].prob = p /\ p = prep[t].prob
    BY <1>5 DEF Advance, p
  <2> QED  BY <2>1, <2>2, <2>3 DEF UnzipsAlone, TagInv
<1> QED  BY <1>9, <1>10, <1>11 DEF TagInv

LEMMA TagInvPrep ==
    ASSUME TagInv, UNCHANGED <<disk, remote>>,
           \A u \in Tasks : prep'[u] = prep[u] \/ prep'[u].pc \in {"off", "stat", "dlwait"}
    PROVE  TagInv'
<1>1. \A p \in Problems : FilesOK(disk'[p], remote'[p])
  BY DEF TagInv
<1>2. ASSUME NEW u \in Tasks, prep'[u].pc # "off"
      PROVE  TagKnown(prep'[u], disk'[prep'[u].prob], remote'[prep'[u].prob])
  <2>1. CASE prep'[u] = prep[u]
    BY <1>2, <2>1 DEF TagInv
  <2>2. CASE prep'[u].pc \in {"off", "stat", "dlwait"}
    BY <2>2, QuietTag
  <2> QED  BY <2>1, <2>2
<1>3. \A u \in Tasks : prep'[u].pc \in Unzipping => prep'[u] = prep[u]
  BY DEF Unzipping
<1>4. UnzipsAlone'
  BY <1>3 DEF UnzipsAlone, TagInv
<1> QED  BY <1>1, <1>2, <1>4 DEF TagInv

LEMMA TagReplaced ==
    ASSUME TaskInv, TagInv, NEW p \in Problems, ReplaceObject(p)
    PROVE  TagInv'
<1>1. CacheInv /\ disk \in [Problems -> Files] /\ prep \in [Tasks -> Calls]
      /\ remote \in [Problems -> 1..MaxVersion]
  BY TypeParts, CacheFacts DEF TaskInv
<1>2. UNCHANGED <<disk, prep>> /\ remote' = [remote EXCEPT ![p] = remote[p] + 1]
  BY DEF ReplaceObject
<1>3. \A q \in Problems : remote[q] \in Nat /\ remote'[q] \in Nat /\ remote[q] <= remote'[q]
  BY <1>1, <1>2, CacheAssumption
<1>4. ASSUME NEW q \in Problems
      PROVE  FilesOK(disk'[q], remote'[q])
  <2>1. FilesOK(disk[q], remote[q])
    BY DEF TagInv
  <2>2. disk[q].zip \in Nat /\ disk[q].tag \in Nat
    BY <1>1, FileFacts
  <2>3. disk'[q] = disk[q]
    BY <1>2
  <2> QED  BY <1>3, <2>1, <2>2, <2>3 DEF FilesOK
<1>5. ASSUME NEW u \in Tasks, prep'[u].pc # "off"
      PROVE  TagKnown(prep'[u], disk'[prep'[u].prob], remote'[prep'[u].prob])
  <2> DEFINE q == prep[u].prob
  <2>1. TagKnown(prep[u], disk[q], remote[q])
    BY <1>2, <1>5 DEF TagInv
  <2>2. q \in Problems
    BY <1>2, <1>5, TaskFacts DEF CallOf, Live
  <2>3. prep[u].tag \in Nat
    BY <1>1, CallFacts
  <2>4. TagKnown(prep[u], disk[q], remote'[q])
    <3> HIDE DEF q
    <3> QED  BY <1>3, <2>1, <2>2, <2>3 DEF TagKnown
  <2> QED  BY <1>2, <2>4
<1>6. UnzipsAlone'
  BY <1>2 DEF TagInv, UnzipsAlone
<1> QED  BY <1>4, <1>5, <1>6 DEF TagInv

LEMMA InitTag == Init => TagInv
<1> SUFFICES ASSUME Init PROVE TagInv
  OBVIOUS
<1>1. \A p \in Problems : disk[p] = NoFiles /\ remote[p] = 1
  BY DEF Init, CacheInit
<1>2. FilesOK(NoFiles, 1)
  BY DEF FilesOK, NoFiles
<1>3. \A t \in Tasks : prep[t].pc = "off"
  BY NotPreparingCall DEF Init, CacheInit
<1> QED  BY <1>1, <1>2, <1>3 DEF TagInv, UnzipsAlone, Unzipping

\* The steps after Prepare leave the cache alone.
Judges(t) == Prepared(t) \/ SaveCode(t) \/ Compile(t) \/ Glob(t) \/ Execute(t) \/ Compare(t)

LEMMA JudgesFrame ==
    ASSUME NEW t, Judges(t)
    PROVE  UNCHANGED <<cacheVars, prog>>
  BY DEF Judges, Prepared, SaveCode, Compile, Glob, Execute, Compare

LEMMA TagInvStep ==
    ASSUME TaskInv, TagInv, [Next]_vars
    PROVE  TagInv'
<1>1. prep \in [Tasks -> Calls]
  BY TypeParts, CacheFacts DEF TaskInv
<1>2. ASSUME NEW t \in Tasks, Judges(t)
      PROVE  TagInv'
  BY <1>2, JudgesFrame, TagInvPrep DEF cacheVars
<1>3. ASSUME NEW t \in Tasks, Report(t) \/ Cancel(t)
      PROVE  TagInv'
  <2>1. UNCHANGED <<disk, remote>> /\ prep' = [prep EXCEPT ![t] = NotPreparing]
    BY <1>3 DEF Report, Cancel, Return
  <2>2. \A u \in Tasks : prep'[u] = prep[u] \/ prep'[u].pc \in {"off", "stat", "dlwait"}
    BY <1>1, <2>1, NotPreparingCall
  <2> QED  BY <2>1, <2>2, TagInvPrep
<1>4. ASSUME NEW t \in Tasks, NEW j \in Jobs, Begin(t, j)
      PROVE  TagInv'
  <2>1. PICK c \in Calls : /\ prep' = [prep EXCEPT ![t] = c] /\ c.pc \in {"dlwait", "stat"}
                           /\ UNCHANGED <<disk, remote>>
    BY <1>4, BeginEffect
  <2>2. \A u \in Tasks : prep'[u] = prep[u] \/ prep'[u].pc \in {"off", "stat", "dlwait"}
    BY <1>1, <2>1
  <2> QED  BY <2>1, <2>2, TagInvPrep
<1>5. ASSUME Restart
      PROVE  TagInv'
  <2>1. UNCHANGED <<disk, remote>> /\ prep' = [t \in Tasks |-> NotPreparing]
    BY <1>5 DEF Restart, RestartCache
  <2>2. \A u \in Tasks : prep'[u].pc = "off"
    BY <2>1, NotPreparingCall
  <2> QED  BY <2>1, <2>2, TagInvPrep
<1>6. ASSUME UNCHANGED vars
      PROVE  TagInv'
  BY <1>6, TagInvPrep DEF vars, cacheVars
<1>7. ASSUME NEW t \in Tasks, TaskStep(t) \/ Cancel(t)
      PROVE  TagInv'
  BY <1>2, <1>3, <1>7, TagPrepared DEF TaskStep, Judges
<1> QED  BY <1>4, <1>5, <1>6, <1>7, TagReplaced DEF Next

(* The inductive invariant of the ETags: a call of Prepare never holds an  *)
(* ETag newer than the zip or the directory it is about to write it to,    *)
(* and one call at a time unzips a problem.                                *)
THEOREM TagInvHolds == Spec => []TagInv
  BY InitTag, TagInvStep, TaskInvHolds, PTL DEF Spec

(* The ETag beside a zip, or in a ready directory, is never newer than the *)
(* data, for any number of tasks, problems, versions and failures, and     *)
(* however small the cache is (Download and Prepare write it last).        *)
THEOREM TagNeverAheadCorrect == Spec => []TagNeverAhead
<1>1. TagInv => TagNeverAhead
  BY DEF TagInv, TagNeverAhead, FilesOK
<1> QED  BY <1>1, TagInvHolds, PTL

---------------------------------------------------------------------------
(* The verdict. *)

LEMMA MinIn ==
    ASSUME NEW S, S \subseteq Nat, S # {}
    PROVE  Min(S) \in S
<1>1. \E x \in S : \A y \in S : ~(<<y, x>> \in OpToRel(<, Nat))
  BY NatLessThanWellFounded, WFMin
<1>2. PICK x \in S : \A y \in S : ~(<<y, x>> \in OpToRel(<, Nat))
  BY <1>1
<1>3. \A y \in S : ~(y < x)
  BY <1>2 DEF OpToRel
<1>4. \A y \in S : x <= y
  BY <1>3
<1>5. \E m \in S : \A y \in S : m =< y
  BY <1>4
<1> QED  BY <1>5 DEF Min

\* A task with another job is not disturbed by what task t does to its own.
LEMMA OthersUndisturbed ==
    ASSUME TaskInv, EarnedInv, NEW t \in Tasks, Live(t), NEW u \in Tasks, u # t,
           task'[u] = task[u], UNCHANGED <<disk, prog>>,
           \A j \in Jobs : j # Job(t) => /\ j \in jobDir' <=> j \in jobDir
                                         /\ userOut'[j] = userOut[j]
    PROVE  AttemptIn(task'[u], jobDir', userOut', prog', disk')
<1> DEFINE k == task[u]
<1>1. AttemptIn(k, jobDir, userOut, prog, disk)
  BY DEF EarnedInv
<1>2. CASE Live(u)
  <2>1. Job(u) # Job(t)
    BY <1>2 DEF EarnedInv, OneAttempt
  <2>2. k.job \in Jobs => (k.job \in jobDir' <=> k.job \in jobDir) /\ userOut'[k.job] = userOut[k.job]
    BY <2>1 DEF Job
  <2> HIDE DEF k
  <2>3. AttemptIn(k, jobDir', userOut', prog, disk)
    BY <1>1, <2>2 DEF AttemptIn
  <2> QED  BY <2>3 DEF k
<1>3. CASE ~Live(u)
  <2>1. k.pc \in {"free", "done", "dead"}
    BY <1>3 DEF Live
  <2> HIDE DEF k
  <2>2. AttemptIn(k, jobDir', userOut', prog, disk)
    BY <1>1, <2>1 DEF AttemptIn, Attempt
  <2> QED  BY <2>2 DEF k
<1> QED  BY <1>2, <1>3

LEMMA OneAttemptKept ==
    ASSUME OneAttempt, \A u \in Tasks : Live(u)' => Live(u) /\ task'[u].job = task[u].job
    PROVE  OneAttempt'
  BY DEF OneAttempt, Job

LEMMA CasesStayKept ==
    ASSUME CasesStay, UNCHANGED disk,
           \A u \in Tasks : prep'[u] = prep[u] \/ prep'[u].pc # "ready"
    PROVE  CasesStay'
  BY DEF CasesStay

\* A step of task t after Prepare, given what becomes of its own record.
LEMMA EarnedBy ==
    ASSUME TaskInv, EarnedInv, NEW t \in Tasks, Live(t), NEW v, Moves(t, v),
           UNCHANGED <<cacheVars, prog>>,
           \A j \in Jobs : j # Job(t) => /\ j \in jobDir' <=> j \in jobDir
                                         /\ userOut'[j] = userOut[j],
           Attempt(v, Job(t) \in jobDir', userOut'[Job(t)], prog[Job(t)], Dir(t)),
           Earned(v.verdict, prog[Job(t)])
    PROVE  EarnedInv'
<1>1. task \in [Tasks -> TaskRecords]
  BY TaskFacts
<1>2. task'[t] = v /\ v.job = Job(t) /\ \A u \in Tasks \ {t} : task'[u] = task[u]
  BY <1>1 DEF Moves, Job
<1>3. AttemptIn(task'[t], jobDir', userOut', prog', disk')
  BY <1>2 DEF AttemptIn, Dir, cacheVars
<1>4. \A u \in Tasks : AttemptIn(task'[u], jobDir', userOut', prog', disk')
  BY <1>2, <1>3, OthersUndisturbed DEF cacheVars
<1>5. OneAttempt'
  <2>1. \A u \in Tasks : Live(u)' => Live(u) /\ task'[u].job = task[u].job
    BY <1>2 DEF Live, Job
  <2> QED  BY <2>1, OneAttemptKept DEF EarnedInv
<1>6. CasesStay'
  BY CasesStayKept DEF EarnedInv, cacheVars
<1> QED  BY <1>4, <1>5, <1>6 DEF EarnedInv

\* The record of a task that runs its job.
LEMMA OwnAttempt ==
    ASSUME TaskInv, EarnedInv, NEW t \in Tasks, Live(t)
    PROVE  /\ Job(t) \in Jobs
           /\ Attempt(task[t], Job(t) \in jobDir, userOut[Job(t)], prog[Job(t)], Dir(t))
           /\ Earned(task[t].verdict, prog[Job(t)])
<1>1. Job(t) \in Jobs
  BY TaskFacts
<1> QED  BY <1>1 DEF EarnedInv, AttemptIn, Job, Dir

LEMMA SystemErrorEarned ==
    ASSUME NEW g
    PROVE  Earned("System Error", g) /\ Earned("none", g)
  BY DEF Earned

\* While a task judges, the directory of its cases is there.
LEMMA DirIsThere ==
    ASSUME TaskInv, TagInv, EarnedInv, NEW t \in Tasks, task[t].pc \in Judging
    PROVE  Dir(t) # 0 /\ Dir(t) \in Versions
<1>1. Live(t)
  BY DEF Live, Judging
<1>2. prep[t].pc = "ready" /\ prep[t].prob = ProblemOf[Job(t)] /\ ProblemOf[Job(t)] \in Problems
  BY <1>1, TaskFacts DEF CallOf
<1>3. Dir(t) # 0
  BY <1>2 DEF EarnedInv, CasesStay, Dir, TagInv, FilesOK
<1>4. disk \in [Problems -> Files]
  BY TaskFacts, CacheFacts
<1>5. Dir(t) \in Version
  BY <1>2, <1>4 DEF Dir, Files
<1> QED  BY <1>3, <1>5, CacheAssumption DEF Version, Versions

LEMMA PreparedEarned ==
    ASSUME TaskInv, EarnedInv, NEW t \in Tasks, Prepared(t)
    PROVE  EarnedInv'
<1>1. task[t].pc = "prepare" /\ UNCHANGED <<cacheVars, prog, jobDir, exeDir, userOut>>
  BY DEF Prepared
<1>2. Live(t)
  BY <1>1 DEF Live
<1>3. task[t].verdict = "none"
  BY <1>1, TaskFacts DEF CallOf
<1>4. PICK v : /\ Moves(t, v)
               /\ \/ v.pc = "save" /\ v.verdict = task[t].verdict
                  \/ v.pc = "error" /\ v.verdict = "System Error"
  <2>1. CASE Goto(t, "save")
    <3>1. PICK v : Moves(t, v) /\ v.pc = "save" /\ v.verdict = task[t].verdict
      BY <2>1, TaskFacts, GotoMoves DEF TaskPC
    <3> QED  BY <2>1, <3>1
  <2>2. CASE Fail(t, "System Error")
    <3>1. PICK v : Moves(t, v) /\ v.pc = "error" /\ v.verdict = "System Error"
      BY <2>2, TaskFacts, FailMoves, VerdictNames, Zenon
    <3> QED  BY <2>2, <3>1
  <2> QED  BY <2>1, <2>2 DEF Prepared
<1>5. Earned(v.verdict, prog[Job(t)])
  BY <1>3, <1>4, SystemErrorEarned
<1>6. Attempt(v, Job(t) \in jobDir', userOut'[Job(t)], prog[Job(t)], Dir(t))
  BY <1>4 DEF Attempt
<1> QED  BY <1>1, <1>2, <1>4, <1>5, <1>6, EarnedBy

LEMMA SaveEarned ==
    ASSUME TaskInv, EarnedInv, NEW t \in Tasks, SaveCode(t)
    PROVE  EarnedInv'
<1>1. task[t].pc = "save" /\ UNCHANGED <<cacheVars, prog, exeDir, userOut>>
  BY DEF SaveCode
<1>2. Live(t)
  BY <1>1 DEF Live
<1>3. task[t].verdict = "none"
  BY <1>1, TaskFacts DEF CallOf
<1>4. PICK v : /\ Moves(t, v)
               /\ \/ v.pc = "compile" /\ v.verdict = task[t].verdict
                     /\ jobDir' = jobDir \cup {Job(t)}
                  \/ v.pc = "error" /\ v.verdict = "System Error" /\ jobDir' = jobDir
  <2>1. CASE Goto(t, "compile") /\ jobDir' = jobDir \cup {Job(t)}
    <3>1. PICK v : Moves(t, v) /\ v.pc = "compile" /\ v.verdict = task[t].verdict
      BY <2>1, TaskFacts, GotoMoves DEF TaskPC
    <3> QED  BY <2>1, <3>1
  <2>2. CASE Fail(t, "System Error") /\ jobDir' = jobDir
    <3>1. PICK v : Moves(t, v) /\ v.pc = "error" /\ v.verdict = "System Error"
      BY <2>2, TaskFacts, FailMoves, VerdictNames, Zenon
    <3> QED  BY <2>2, <3>1
  <2> QED  BY <2>1, <2>2 DEF SaveCode
<1>5. Earned(v.verdict, prog[Job(t)])
  BY <1>3, <1>4, SystemErrorEarned
<1>6. Attempt(v, Job(t) \in jobDir', userOut'[Job(t)], prog[Job(t)], Dir(t))
  BY <1>4 DEF Attempt
<1>7. \A j \in Jobs : j # Job(t) => (j \in jobDir' <=> j \in jobDir) /\ userOut'[j] = userOut[j]
  BY <1>1, <1>4
<1> QED  BY <1>1, <1>2, <1>4, <1>5, <1>6, <1>7, EarnedBy

LEMMA CompileEarned ==
    ASSUME TaskInv, EarnedInv, Undisturbed, NEW t \in Tasks, Compile(t)
    PROVE  EarnedInv'
<1>1. task[t].pc = "compile" /\ UNCHANGED <<cacheVars, prog, jobDir, userOut>>
  BY DEF Compile
<1>2. Live(t)
  BY <1>1 DEF Live
<1>3. task[t].verdict = "none"
  BY <1>1, TaskFacts DEF CallOf
<1>4. Job(t) \in jobDir
  BY <1>1, <1>2, OwnAttempt DEF Attempt
<1>5. ~Fault("judge_compile")
  BY DEF Undisturbed, Fault
<1>6. PICK v : /\ Moves(t, v)
               /\ \/ v.pc = "glob" /\ v.verdict = task[t].verdict
                  \/ v.pc = "error" /\ v.verdict = "Compile Error" /\ ~prog[Job(t)].compiles
  <2>1. CASE Goto(t, "glob")
    <3>1. PICK v : Moves(t, v) /\ v.pc = "glob" /\ v.verdict = task[t].verdict
      BY <2>1, TaskFacts, GotoMoves DEF TaskPC
    <3> QED  BY <2>1, <3>1
  <2>2. CASE Fail(t, "Compile Error") /\ ~prog[Job(t)].compiles
    <3>1. PICK v : Moves(t, v) /\ v.pc = "error" /\ v.verdict = "Compile Error"
      BY <2>2, TaskFacts, FailMoves, VerdictNames, Zenon
    <3> QED  BY <2>2, <3>1
  <2> QED  BY <1>4, <1>5, <2>1, <2>2 DEF Compile
<1>7. Earned(v.verdict, prog[Job(t)])
  <2>1. CASE v.verdict = "none"
    BY <2>1, SystemErrorEarned
  <2>2. CASE v.verdict = "Compile Error" /\ ~prog[Job(t)].compiles
    BY <2>2 DEF Earned
  <2> QED  BY <1>3, <1>6, <2>1, <2>2
<1>8. Attempt(v, Job(t) \in jobDir', userOut'[Job(t)], prog[Job(t)], Dir(t))
  BY <1>1, <1>4, <1>6 DEF Attempt
<1> QED  BY <1>1, <1>2, <1>6, <1>7, <1>8, EarnedBy

LEMMA GlobEarned ==
    ASSUME TaskInv, TagInv, EarnedInv, NEW t \in Tasks, Glob(t)
    PROVE  EarnedInv'
<1>1. task[t].pc = "glob" /\ UNCHANGED <<cacheVars, prog, jobDir, exeDir, userOut>>
  BY DEF Glob
<1>2. Live(t)
  BY <1>1 DEF Live
<1>3. task[t].verdict = "none"
  BY <1>1, TaskFacts DEF CallOf
<1>4. Job(t) \in jobDir
  BY <1>1, <1>2, OwnAttempt DEF Attempt
<1>5. Dir(t) # 0 /\ Dir(t) \in Versions
  BY <1>1, DirIsThere DEF Judging
<1>6. PICK v : /\ Moves(t, v)
               /\ \/ v.pc = "exec" /\ v.verdict = task[t].verdict /\ v.todo = Cases /\ Cases # {}
                  \/ v.pc = "report" /\ v.verdict = "Accepted" /\ Cases = {}
  <2>1. CASE /\ task' = [task EXCEPT ![t] = [task[t] EXCEPT !.todo = Cases, !.pc = "exec"]]
             /\ Cases # {}
    <3>0. Cases \in SUBSET Cases
      OBVIOUS
    <3>1. PICK v : Moves(t, v) /\ v.pc = "exec" /\ v.todo = Cases /\ v.verdict = task[t].verdict
      BY <2>1, <3>0, TaskFacts, TodoMoves, Zenon
    <3> QED  BY <2>1, <3>1
  <2>2. CASE Conclude(t, "Accepted") /\ Cases = {}
    <3>1. PICK v : Moves(t, v) /\ v.pc = "report" /\ v.verdict = "Accepted"
      BY <2>2, TaskFacts, ConcludeMoves, VerdictNames, Zenon
    <3> QED  BY <2>2, <3>1
  <2> QED  BY <1>5, <2>1, <2>2 DEF Glob
<1>7. Earned(v.verdict, prog[Job(t)])
  <2>1. CASE v.verdict = "none"
    BY <2>1, SystemErrorEarned
  <2>2. CASE v.verdict = "Accepted" /\ Cases = {}
    BY <1>5, <2>2 DEF Earned
  <2> QED  BY <1>3, <1>6, <2>1, <2>2
<1>8. Attempt(v, Job(t) \in jobDir', userOut'[Job(t)], prog[Job(t)], Dir(t))
  BY <1>1, <1>4, <1>6 DEF Attempt
<1> QED  BY <1>1, <1>2, <1>6, <1>7, <1>8, EarnedBy

LEMMA NextCase ==
    ASSUME TaskInv, EarnedInv, NEW t \in Tasks, task[t].pc \in {"exec", "compare"}
    PROVE  /\ Min(task[t].todo) \in task[t].todo /\ task[t].todo \subseteq Cases
           /\ Job(t) \in jobDir /\ \A c \in Cases \ task[t].todo : Solves(prog[Job(t)], Dir(t), c)
           /\ Live(t) /\ task[t].verdict = "none"
<1>1. Live(t)
  BY DEF Live
<1>2. /\ task[t].todo # {} /\ Job(t) \in jobDir
      /\ \A c \in Cases \ task[t].todo : Solves(prog[Job(t)], Dir(t), c)
  BY <1>1, OwnAttempt DEF Attempt
<1>3. task[t].todo \subseteq Cases /\ Cases \subseteq Nat
  BY TaskFacts, JudgeAssumption DEF TaskRecords
<1>4. task[t].verdict = "none"
  BY TaskFacts DEF CallOf
<1> QED  BY <1>1, <1>2, <1>3, <1>4, MinIn

LEMMA ExecuteEarned ==
    ASSUME TaskInv, TagInv, EarnedInv, NEW t \in Tasks, Execute(t)
    PROVE  EarnedInv'
<1> DEFINE c == Min(task[t].todo)
           g == prog[Job(t)]
           out == IF Solves(g, Dir(t), c) THEN <<Dir(t), c>> ELSE NoCase
<1>1. task[t].pc = "exec" /\ UNCHANGED <<cacheVars, prog, jobDir, exeDir>>
  BY ExecuteCases
<1>2. /\ c \in task[t].todo /\ task[t].todo \subseteq Cases /\ Job(t) \in jobDir
      /\ \A d \in Cases \ task[t].todo : Solves(g, Dir(t), d)
      /\ Live(t) /\ task[t].verdict = "none"
  BY <1>1, NextCase
<1>3. Dir(t) # 0 /\ Dir(t) \in Versions
  BY <1>1, DirIsThere DEF Judging
<1>4. Output(t, c) = out
  BY <1>3 DEF Output, Solves
<1>5. Job(t) \in Jobs
  BY <1>2, TaskFacts
<1>6. CASE Goto(t, "compare") /\ WriteOutput(Job(t), Output(t, c))
  <2>1. PICK v : Moves(t, v) /\ v.pc = "compare" /\ v.todo = task[t].todo /\ v.verdict = "none"
    BY <1>2, <1>6, TaskFacts, GotoMoves DEF TaskPC
  <2>2. userOut \in [Jobs -> (Versions \X Cases) \cup {NoCase}]
    BY TaskFacts DEF FilesTyped
  <2>3. userOut' = [userOut EXCEPT ![Job(t)] = Output(t, c)]
    BY <1>2, <1>6 DEF WriteOutput
  <2>4. userOut'[Job(t)] = out /\ \A j \in Jobs : j # Job(t) => userOut'[j] = userOut[j]
    BY <1>4, <1>5, <2>2, <2>3
  <2>5. Attempt(v, Job(t) \in jobDir', userOut'[Job(t)], g, Dir(t))
    BY <1>1, <1>2, <2>1, <2>4 DEF Attempt
  <2>6. Earned(v.verdict, g)
    BY <2>1, SystemErrorEarned
  <2> QED  BY <1>1, <1>2, <2>1, <2>4, <2>5, <2>6, EarnedBy
<1>7. ASSUME NEW w \in Verdicts, Conclude(t, w) \/ Fail(t, w), Earned(w, g), UNCHANGED userOut
      PROVE  EarnedInv'
  <2>1. PICK v : Moves(t, v) /\ v.pc \in {"report", "error"} /\ v.verdict = w
    BY <1>7, TaskFacts, ConcludeMoves, FailMoves
  <2>2. Attempt(v, Job(t) \in jobDir', userOut'[Job(t)], g, Dir(t))
    BY <2>1 DEF Attempt
  <2> QED  BY <1>1, <1>2, <1>7, <2>1, <2>2, EarnedBy
<1>8. ~Solves(g, Dir(t), c) => Earned("Runtime Error", g)
  BY <1>2, <1>3 DEF Earned
<1>9. Earned("System Error", g)
  BY SystemErrorEarned
<1>10. ~(Dir(t) # 0 /\ <<Dir(t), c>> \in g.solves) => ~Solves(g, Dir(t), c)
  BY <1>3 DEF Solves
<1> QED  BY <1>6, <1>7, <1>8, <1>9, <1>10, ExecuteCases, VerdictNames

LEMMA CompareEarned ==
    ASSUME TaskInv, TagInv, EarnedInv, NEW t \in Tasks, Compare(t)
    PROVE  EarnedInv'
<1> DEFINE c == Min(task[t].todo)
           g == prog[Job(t)]
           ok == userOut[Job(t)] = <<Dir(t), c>>
           rest == task[t].todo \ {c}
<1>1. task[t].pc = "compare" /\ UNCHANGED <<cacheVars, prog, jobDir, exeDir, userOut>>
  BY DEF Compare
<1>2. /\ c \in task[t].todo /\ task[t].todo \subseteq Cases /\ Job(t) \in jobDir
      /\ \A d \in Cases \ task[t].todo : Solves(g, Dir(t), d)
      /\ Live(t) /\ task[t].verdict = "none"
  BY <1>1, NextCase
<1>3. Dir(t) # 0 /\ Dir(t) \in Versions
  BY <1>1, DirIsThere DEF Judging
<1>4. userOut[Job(t)] = IF Solves(g, Dir(t), c) THEN <<Dir(t), c>> ELSE NoCase
  BY <1>1, <1>2, OwnAttempt DEF Attempt
<1>5. ok <=> Solves(g, Dir(t), c)
  <2>1. NoCase # <<Dir(t), c>>
    BY <1>3 DEF NoCase
  <2> QED  BY <1>3, <1>4, <2>1
<1>6. ASSUME NEW w \in Verdicts, Conclude(t, w), Earned(w, g)
      PROVE  EarnedInv'
  <2>1. PICK v : Moves(t, v) /\ v.pc = "report" /\ v.verdict = w
    BY <1>6, TaskFacts, ConcludeMoves
  <2>2. Attempt(v, Job(t) \in jobDir', userOut'[Job(t)], g, Dir(t))
    BY <2>1 DEF Attempt
  <2> QED  BY <1>1, <1>2, <1>6, <2>1, <2>2, EarnedBy
<1>7. CASE /\ ok /\ task[t].todo # {c}
           /\ task' = [task EXCEPT ![t] = [task[t] EXCEPT !.todo = rest, !.pc = "exec"]]
  <2>1. rest \in SUBSET Cases /\ rest # {}
    BY <1>2, <1>7
  <2>2. \A d \in Cases \ rest : Solves(g, Dir(t), d)
    BY <1>2, <1>5, <1>7
  <2> HIDE DEF rest
  <2>3. PICK v : Moves(t, v) /\ v.pc = "exec" /\ v.todo = rest /\ v.verdict = task[t].verdict
    BY <1>7, <2>1, TaskFacts, TodoMoves
  <2>4. Attempt(v, Job(t) \in jobDir', userOut'[Job(t)], g, Dir(t))
    BY <1>1, <1>2, <2>1, <2>2, <2>3 DEF Attempt
  <2>5. Earned(v.verdict, g)
    BY <1>2, <2>3, SystemErrorEarned
  <2> QED  BY <1>1, <1>2, <2>3, <2>4, <2>5, EarnedBy
<1>8. ~ok => Earned("Wrong Answer", g)
  BY <1>2, <1>3, <1>5 DEF Earned
<1>9. ok /\ task[t].todo = {c} => Earned("Accepted", g)
  BY <1>2, <1>3, <1>5 DEF Earned
<1> QED  BY <1>6, <1>7, <1>8, <1>9, CompareCases, VerdictNames

LEMMA PreparingEarned ==
    ASSUME TaskInv, TagInv, EarnedInv, Undisturbed, NEW t \in Tasks, Preparing(t)
    PROVE  EarnedInv'
<1> DEFINE p == prep[t].prob
<1>1. Summary(t) /\ task[t].pc = "prepare" /\ p \in Problems /\ UNCHANGED judgeVars
  BY PreparingSummary
<1>2. disk \in [Problems -> Files] /\ prep \in [Tasks -> Calls]
  BY TaskFacts, CacheFacts
<1>3. PICK f \in [Problems -> Files] :
         /\ \A q \in Problems \ {p} : f[q] = disk[q]
         /\ Wrote(prep[t], prep'[t], disk[p], f[p], remote[p])
         /\ Removed(f, p)
  BY <1>1 DEF Summary
<1>4. Advance(t)
  BY <1>1 DEF Summary
<1>5. prep[t].pc # "off" /\ prep[t] \in Calls /\ disk[p] \in Files
  BY <1>1, <1>2, TaskFacts DEF CallOf
<1>6. TagKnown(prep[t], disk[p], remote[p]) /\ FilesOK(disk[p], remote[p])
  BY <1>1, <1>5 DEF TagInv
<1>7. \A q \in Problems : q = p \/ Fresh(q) => disk'[q] = f[q]
  BY <1>3 DEF Removed, Undisturbed
<1>8. WroteInto(prep[t], prep'[t], disk[p], f[p], remote[p])
  BY <1>3, <1>5, WroteFields
<1>9. disk[p].ready => f[p].dir = disk[p].dir /\ f[p].ready
  BY <1>6, <1>8 DEF WroteInto, TagKnown, Unzipping
<1>10. prep'[t].pc = "ready" => f[p].ready
  BY <1>3, <1>5, <1>8 DEF Wrote, Files
<1>11. ASSUME NEW u \in Tasks, prep[u].pc = "ready"
       PROVE  LET q == prep[u].prob
              IN  q \in Problems /\ disk'[q].ready /\ disk'[q].dir = disk[q].dir
  <2> DEFINE q == prep[u].prob
  <2>1. q \in Problems
    BY <1>11, TaskFacts DEF CallOf, Live
  <2>2. Fresh(q)
    BY <1>11 DEF Fresh, Downloading
  <2>3. disk[q].ready
    BY <1>11 DEF EarnedInv, CasesStay
  <2>4. disk'[q] = f[q]
    BY <1>7, <2>1, <2>2
  <2>5. f[q].ready /\ f[q].dir = disk[q].dir
    BY <1>3, <1>9, <2>1, <2>3
  <2> QED  BY <2>1, <2>4, <2>5
<1>12. ASSUME NEW u \in Tasks, prep'[u].pc = "ready"
       PROVE  disk'[prep'[u].prob].ready
  <2>1. CASE prep'[t].pc = "ready" /\ prep'[u].prob = p
    BY <1>1, <1>7, <1>10, <2>1
  <2>2. CASE prep'[u] = prep[u]
    BY <1>11, <1>12, <2>2
  <2>3. CASE u = t
    BY <1>4, <1>12, <2>1, <2>3 DEF Advance
  <2>4. CASE prep[u].prob = p /\ prep'[u].prob = prep[u].prob /\ prep'[u].pc = prep'[t].pc
    BY <1>12, <2>1, <2>4
  <2> QED  BY <1>4, <2>2, <2>3, <2>4 DEF Advance
<1>13. OneAttempt'
  BY <1>1 DEF EarnedInv, OneAttempt, Live, Job, judgeVars
<1>14. ASSUME NEW u \in Tasks
       PROVE  AttemptIn(task[u], jobDir, userOut, prog, disk')
  <2> DEFINE k == task[u]
  <2>1. AttemptIn(k, jobDir, userOut, prog, disk)
    BY DEF EarnedInv
  <2>2. k.pc \in {"exec", "compare"} => disk'[ProblemOf[k.job]].dir = disk[ProblemOf[k.job]].dir
    <3> SUFFICES ASSUME k.pc \in {"exec", "compare"}
                 PROVE  disk'[ProblemOf[k.job]].dir = disk[ProblemOf[k.job]].dir
      OBVIOUS
    <3>1. prep[u].pc = "ready" /\ prep[u].prob = ProblemOf[k.job]
      BY TaskFacts DEF CallOf, Judging
    <3> QED  BY <1>11, <3>1
  <2> HIDE DEF k
  <2>3. AttemptIn(k, jobDir, userOut, prog, disk')
    BY <2>1, <2>2 DEF AttemptIn, Attempt
  <2> QED  BY <2>3 DEF k
<1>15. CasesStay'
  BY <1>12 DEF CasesStay
<1>16. \A u \in Tasks : AttemptIn(task'[u], jobDir', userOut', prog', disk')
  BY <1>1, <1>14 DEF judgeVars
<1> QED  BY <1>13, <1>15, <1>16 DEF EarnedInv

LEMMA AttemptOver ==
    ASSUME NEW k, NEW v, v.job = k.job, v.verdict = k.verdict, v.pc \in {"free", "done", "dead"},
           NEW dirs, NEW outs, NEW files, NEW dirs2, NEW outs2, NEW progs,
           AttemptIn(k, dirs, outs, progs, files)
    PROVE  AttemptIn(v, dirs2, outs2, progs, files)
  BY DEF AttemptIn, Attempt

LEMMA ReturnEarned ==
    ASSUME TaskInv, EarnedInv, NEW t \in Tasks, Report(t) \/ Cancel(t)
    PROVE  EarnedInv'
<1> DEFINE v(x) == [task[t] EXCEPT !.pc = x]
<1>1. Live(t)
  BY DEF Report, Cancel, Live
<1>2. PICK x \in {"done", "dead"}, cleanup \in BOOLEAN : Return(t, x, cleanup)
  BY DEF Report, Cancel
<1>3. task \in [Tasks -> TaskRecords] /\ task[t] \in TaskRecords /\ x \in TaskPC
      /\ Job(t) \in Jobs /\ prep \in [Tasks -> Calls] /\ FilesTyped
  BY <1>1, TaskFacts, CacheFacts DEF TaskPC
<1>4. v(x).pc = x /\ v(x).job = task[t].job /\ v(x).verdict = task[t].verdict
  BY <1>3, TaskSetPC
<1>5. task' = [task EXCEPT ![t] = v(x)]
  BY <1>2 DEF Return
<1> HIDE DEF v
<1>6. task'[t] = v(x) /\ \A u \in Tasks \ {t} : task'[u] = task[u]
  BY <1>3, <1>5
<1>7. prep' = [prep EXCEPT ![t] = NotPreparing] /\ UNCHANGED <<disk, prog>>
  BY <1>2 DEF Return
<1>8. \A j \in Jobs : j # Job(t) => (j \in jobDir' <=> j \in jobDir) /\ userOut'[j] = userOut[j]
  BY <1>2, <1>3 DEF Return, FilesTyped
<1>9. CasesStay'
  <2>1. \A u \in Tasks : prep'[u] = prep[u] \/ prep'[u].pc # "ready"
    BY <1>3, <1>7, NotPreparingCall
  <2> QED  BY <1>7, <2>1, CasesStayKept DEF EarnedInv
<1>10. OneAttempt'
  <2>1. \A u \in Tasks : Live(u)' => Live(u) /\ task'[u].job = task[u].job
    BY <1>4, <1>6 DEF Live
  <2> QED  BY <2>1, OneAttemptKept DEF EarnedInv
<1>11. AttemptIn(task'[t], jobDir', userOut', prog', disk')
  <2>1. AttemptIn(task[t], jobDir, userOut, prog, disk)
    BY DEF EarnedInv
  <2>2. AttemptIn(v(x), jobDir', userOut', prog, disk)
    BY <1>4, <2>1, AttemptOver
  <2> QED  BY <1>6, <1>7, <2>2
<1>12. \A u \in Tasks : AttemptIn(task'[u], jobDir', userOut', prog', disk')
  BY <1>1, <1>6, <1>7, <1>8, <1>11, OthersUndisturbed
<1> QED  BY <1>9, <1>10, <1>12 DEF EarnedInv

LEMMA RestartEarned ==
    ASSUME TaskInv, EarnedInv, Restart
    PROVE  EarnedInv'
<1> DEFINE v(t) == IF Live(t) THEN [task[t] EXCEPT !.pc = "dead"] ELSE task[t]
<1>1. \A t \in Tasks : /\ v(t).job = task[t].job /\ v(t).verdict = task[t].verdict
                       /\ v(t).pc \in {"free", "done", "dead"}
  <2> SUFFICES ASSUME NEW t \in Tasks
               PROVE  /\ v(t).job = task[t].job /\ v(t).verdict = task[t].verdict
                      /\ v(t).pc \in {"free", "done", "dead"}
    OBVIOUS
  <2>1. task[t] \in TaskRecords /\ "dead" \in TaskPC
    BY TaskFacts DEF TaskPC
  <2>2. CASE Live(t)
    BY <2>1, <2>2, TaskSetPC
  <2>3. CASE ~Live(t)
    BY <2>3 DEF Live
  <2> QED  BY <2>2, <2>3
<1>2. task' = [t \in Tasks |-> v(t)]
  BY DEF Restart
<1> HIDE DEF v
<1>3. \A t \in Tasks : task'[t] = v(t)
  BY <1>2
<1>4. prep' = [t \in Tasks |-> NotPreparing] /\ UNCHANGED <<disk, prog, jobDir, userOut>>
  BY DEF Restart, RestartCache
<1>5. CasesStay'
  BY <1>4, NotPreparingCall DEF CasesStay
<1>6. OneAttempt'
  BY <1>1, <1>3 DEF OneAttempt, Live
<1>7. \A t \in Tasks : AttemptIn(task'[t], jobDir', userOut', prog', disk')
  <2> SUFFICES ASSUME NEW t \in Tasks PROVE AttemptIn(task'[t], jobDir', userOut', prog', disk')
    OBVIOUS
  <2>1. AttemptIn(task[t], jobDir, userOut, prog, disk)
    BY DEF EarnedInv
  <2>2. AttemptIn(v(t), jobDir', userOut', prog, disk)
    BY <1>1, <2>1, AttemptOver
  <2> QED  BY <1>3, <1>4, <2>2
<1> QED  BY <1>5, <1>6, <1>7 DEF EarnedInv

LEMMA BeginEarned ==
    ASSUME TaskInv, EarnedInv, Undisturbed, NEW t \in Tasks, NEW j \in Jobs, Begin(t, j)
    PROVE  EarnedInv'
<1>1. PICK k \in TaskRecords, c \in Calls :
             /\ task' = [task EXCEPT ![t] = k] /\ prep' = [prep EXCEPT ![t] = c]
             /\ k.pc = "prepare" /\ k.job = j /\ k.verdict = "none"
             /\ c.pc \in {"dlwait", "stat"}
             /\ UNCHANGED <<disk, prog, jobDir, userOut>>
  BY BeginEffect
<1>2. task \in [Tasks -> TaskRecords] /\ prep \in [Tasks -> Calls]
  BY TaskFacts, CacheFacts
<1>3. task'[t] = k /\ \A u \in Tasks \ {t} : task'[u] = task[u]
  BY <1>1, <1>2
<1>4. ~Fault("overlap")
  BY DEF Undisturbed, Fault
<1>5. \A u \in Tasks : ~(Live(u) /\ Job(u) = j)
  BY <1>4 DEF Begin
<1>6. OneAttempt'
  BY <1>1, <1>3, <1>5 DEF EarnedInv, OneAttempt, Live, Job
<1>7. CasesStay'
  <2>1. \A u \in Tasks : prep'[u] = prep[u] \/ prep'[u].pc # "ready"
    BY <1>1, <1>2
  <2> QED  BY <1>1, <2>1, CasesStayKept DEF EarnedInv
<1>8. AttemptIn(k, jobDir, userOut, prog, disk)
  BY <1>1, SystemErrorEarned DEF AttemptIn, Attempt
<1>9. \A u \in Tasks : AttemptIn(task'[u], jobDir', userOut', prog', disk')
  BY <1>1, <1>3, <1>8 DEF EarnedInv
<1> QED  BY <1>6, <1>7, <1>9 DEF EarnedInv

LEMMA InitEarned == Init => EarnedInv
<1> SUFFICES ASSUME Init PROVE EarnedInv
  OBVIOUS
<1>1. \A t \in Tasks : task[t] = Idle /\ prep[t].pc = "off"
  BY NotPreparingCall DEF Init, CacheInit
<1>2. Idle.pc = "free" /\ Idle.verdict = "none"
  BY DEF Idle
<1>3. \A t \in Tasks : ~Live(t)
  BY <1>1, <1>2 DEF Live
<1>4. AttemptIn(Idle, jobDir, userOut, prog, disk)
  BY <1>2, SystemErrorEarned DEF AttemptIn, Attempt
<1> QED  BY <1>1, <1>3, <1>4 DEF EarnedInv, OneAttempt, CasesStay

LEMMA EarnedFrame ==
    ASSUME EarnedInv, UNCHANGED <<disk, prep, judgeVars>>
    PROVE  EarnedInv'
  BY DEF EarnedInv, OneAttempt, CasesStay, Live, Job, judgeVars

LEMMA EarnedInvStep ==
    ASSUME TaskInv, TagInv, EarnedInv, Undisturbed, [Next]_vars
    PROVE  EarnedInv'
<1>1. ASSUME NEW t \in Tasks, TaskStep(t) \/ Cancel(t)
      PROVE  EarnedInv'
  BY <1>1, PreparingEarned, PreparedEarned, SaveEarned, CompileEarned, GlobEarned,
     ExecuteEarned, CompareEarned, ReturnEarned DEF TaskStep
<1>2. ASSUME NEW p \in Problems, ReplaceObject(p), UNCHANGED judgeVars
      PROVE  EarnedInv'
  BY <1>2, EarnedFrame DEF ReplaceObject
<1>3. ASSUME UNCHANGED vars
      PROVE  EarnedInv'
  BY <1>3, EarnedFrame DEF vars, cacheVars
<1> QED  BY <1>1, <1>2, <1>3, BeginEarned, RestartEarned DEF Next

LEMMA EarnedVerdicts ==
    ASSUME TaskInv, EarnedInv
    PROVE  VerdictIsEarned
<1>1. \A t \in Tasks : task[t].verdict # "none" => Earned(task[t].verdict, prog[Job(t)])
  BY TaskFacts DEF CallOf, EarnedInv, AttemptIn, Job
<1>2. AcceptedIsEarned
  <2> SUFFICES ASSUME NEW t \in Tasks, task[t].verdict = "Accepted"
               PROVE  \E v \in Versions : {v} \X Cases \subseteq prog[Job(t)].solves
    BY DEF AcceptedIsEarned
  <2>1. PICK v \in Versions : \A c \in Cases : Solves(prog[Job(t)], v, c)
    BY <1>1 DEF Earned
  <2> QED  BY <2>1 DEF Solves
<1>3. RejectionIsEarned
  <2> SUFFICES ASSUME NEW t \in Tasks, task[t].verdict \in {"Wrong Answer", "Runtime Error"},
                      Versions \X Cases \subseteq prog[Job(t)].solves
               PROVE  FALSE
    BY DEF RejectionIsEarned
  <2>1. \A v \in Versions, c \in Cases : Solves(prog[Job(t)], v, c)
    BY DEF Solves
  <2> QED  BY <1>1, <2>1 DEF Earned
<1>4. CompileErrorIsEarned
  BY <1>1 DEF CompileErrorIsEarned, Earned
<1> QED  BY <1>2, <1>3, <1>4 DEF VerdictIsEarned

(* The program alone decides its verdict, whatever other tasks, expiries,  *)
(* restarts, failing services and replaced test data do meanwhile, for any *)
(* number of tasks, jobs, problems, versions, cases and failures           *)
(* (ExecuteTask), as long as nothing takes the files of a task away.  Each *)
(* part of Undisturbed is needed: without it TLC finds an undeserved       *)
(* verdict.                                                                *)
THEOREM VerdictIsEarnedCorrect ==
    ASSUME Undisturbed
    PROVE  Spec => []VerdictIsEarned
<1>1. TaskInv /\ TagInv /\ EarnedInv /\ [Next]_vars => EarnedInv'
  BY EarnedInvStep
<1>2. TaskInv /\ EarnedInv => VerdictIsEarned
  BY EarnedVerdicts
<1> QED  BY <1>1, <1>2, InitEarned, TaskInvHolds, TagInvHolds, PTL DEF Spec
=============================================================================
