------------------------- MODULE SessionDirsProofs -------------------------
(***************************************************************************)
(* Proofs about the sessions directory, for any number of instances,       *)
(* sessions, compactions and crashes: only a session that somebody opens   *)
(* while its deletion is decided can lose work.                            *)
(***************************************************************************)
EXTENDS SessionDirs, Integers, TLAPS

-----------------------------------------------------------------------------
(* The inductive invariant: what holds of an instance, of two instances and *)
(* of a session                                                             *)

Creating == {"made", "locked", "begun"}
Holding  == {"locked", "begun", "opening"}

User(i) == task[i]["user"]

\* Whoever is at work on a session names one.
ShapeAt(i) ==
  /\ mem[i].s = NoOne => mem[i] = NoSession
  /\ mem[i].comp \in {"copy", "journal"} => mem[i].gen + 1 \in Gens
  /\ \A t \in {"scan", "user"} :
       /\ task[i][t].pc \notin {"idle", "next"} => task[i][t].s \in Sess
       /\ task[i][t].pc = "empty" => task[i][t].s \in unmoved

\* Nobody but the opener of a lock file holds the lock.
LockAt(i) ==
  /\ task[i]["scan"].pc = "classify" => lock[task[i]["scan"].s] = <<i, "scan">>
  /\ User(i).pc \in Holding => lock[User(i).s] = <<i, "user">>
  /\ mem[i].s # NoOne => lock[mem[i].s] = <<i, "session">>

\* What is in memory or in a dialog belongs to an id that was given out.
UsedAt(i) ==
  /\ mem[i].s # NoOne => mem[i].s \in used
  /\ offered[i] \subseteq used
  /\ User(i).pc \in Creating \cup {"opening"} => User(i).s \in used

\* What a deletion in place has not touched.
Sound(s) == s \notin raced \/ (s \notin unmoved /\ dir[s].at = "here")

\* A directory that is being created has no journal and no takes ...
Pristine(s) ==
  /\ dir[s].files \subseteq {Meta} /\ dir[s].gen = 0 /\ ~dir[s].log[0].closed
  /\ s \notin work

CreateAt(i) ==
  LET s == User(i).s IN
  User(i).pc \in Creating =>
    /\ Pristine(s)
    /\ User(i).pc # "made" /\ s \notin raced => dir[s].at = "here"
    /\ User(i).pc = "begun" /\ Sound(s) => Meta \in dir[s].files

\* ... and nobody else works on it but scans.
AloneAt(i, j) ==
  User(i).pc \in Creating =>
    /\ mem[j].s # User(i).s /\ User(i).s \notin offered[j]
    /\ j # i /\ User(j).pc \in Creating \cup {"opening"} => User(j).s # User(i).s

\* An open session has its files, and the journal in use is meta.json's.
OpenAt(i) ==
  LET s == mem[i].s
      g == mem[i].gen
  IN
  s # NoOne =>
    /\ s \notin raced =>
         /\ dir[s].at = "here" /\ ~dir[s].log[g].closed
         /\ mem[i].comp = "journal" => dir[s].log[g + 1] = dir[s].log[g]
    /\ Sound(s) =>
         /\ dir[s].gen = g
         /\ {Meta} \cup Generation(g) \subseteq dir[s].files
         /\ mem[i].comp = "journal" => Generation(g + 1) \subseteq dir[s].files
         /\ mem[i].comp = "copy" => <<"chunks", g + 1>> \in dir[s].files

\* A session that is being recovered was not closed.
RecoverAt(i) ==
  LET s == User(i).s IN
  User(i).pc = "opening" /\ s \notin raced => ~dir[s].log[dir[s].gen].closed

\* A session whose deletion was decided has no work and nobody has it open.
DeleteAt(s) ==
  s \notin raced /\ Deleting(s) =>
    /\ s \notin work
    /\ lock[s] = NoOne \/ lock[s][2] = "scan"

\* Where nothing was deleted in place there is all of a session or nothing.
FilesAt(s) ==
  s \notin unmoved /\ dir[s].at = "here" =>
    dir[s].files \subseteq {Meta} \/ Loadable(dir[s])

\* What OnlyRacesLoseWork says of one session.
WorkAt(s) == s \in work => Kept(s) \/ s \in raced

\* What is on disk belongs to an id that was given out.
FreshAt(s) == s \notin used => dir[s] = NoDir

DirsInv ==
  /\ TypeOK
  /\ \A i \in Inst : ShapeAt(i) /\ LockAt(i) /\ UsedAt(i)
                     /\ CreateAt(i) /\ OpenAt(i) /\ RecoverAt(i)
  /\ \A i, j \in Inst : AloneAt(i, j)
  /\ \A s \in Sess : DeleteAt(s) /\ FilesAt(s) /\ FreshAt(s) /\ WorkAt(s)

-----------------------------------------------------------------------------
(* What the assignments of the actions do, field by field *)

OtherDirs(s)     == \A r \in Sess : r # s => dir'[r] = dir[r]
OtherTasks(i, t) == /\ \A j \in Inst : j # i => task'[j] = task[j]
                    /\ \A u \in {"scan", "user"} : u # t => task'[i][u] = task[i][u]
OtherMem(i)      == \A j \in Inst : j # i => mem'[j] = mem[j]

LEMMA EnterEffect ==
  ASSUME TypeOK, NEW i \in Inst, NEW t \in {"scan", "user"}, NEW pc, NEW s, NEW for,
         [pc |-> pc, s |-> s, for |-> for] \in Task, Enter(i, t, pc, s, for)
  PROVE  /\ task' \in [Inst -> [{"scan", "user"} -> Task]]
         /\ OtherTasks(i, t)
         /\ task'[i][t] = [pc |-> pc, s |-> s, for |-> for]
BY DEF TypeOK, OtherTasks, Enter

\* Going on keeps the session that the task is about.
LEMMA GotoEffect ==
  ASSUME TypeOK, NEW i \in Inst, NEW t \in {"scan", "user"},
         NEW pc \in {"classify", "made", "locked", "begun", "opening", "delete", "tomb", "empty"},
         Goto(i, t, pc)
  PROVE  /\ task' \in [Inst -> [{"scan", "user"} -> Task]]
         /\ OtherTasks(i, t)
         /\ task'[i][t].pc = pc /\ task'[i][t].s = task[i][t].s
<1>1. task[i][t] \in Task
  BY DEF TypeOK
<1>2. [pc |-> pc, s |-> task[i][t].s, for |-> task[i][t].for] \in Task
  BY <1>1 DEF Task
<1> QED BY <1>2, EnterEffect DEF Goto

LEMMA FinishEffect ==
  ASSUME TypeOK, NEW i \in Inst, NEW t \in {"scan", "user"}, Finish(i, t)
  PROVE  /\ task' \in [Inst -> [{"scan", "user"} -> Task]]
         /\ OtherTasks(i, t)
         /\ task'[i][t].pc \in {"idle", "next"}
BY DEF TypeOK, OtherTasks, Finish, Idle, Task

LEMMA CompactToEffect ==
  ASSUME TypeOK, NEW i \in Inst, NEW g \in Gens,
         NEW comp \in {"no", "copy", "journal", "meta"}, CompactTo(i, comp, g)
  PROVE  /\ mem' \in [Inst -> Mem] /\ OtherMem(i)
         /\ mem'[i].s = mem[i].s /\ mem'[i].gen = g /\ mem'[i].comp = comp
<1>1. mem[i] \in Mem
  BY DEF TypeOK
<1>2. [s |-> mem[i].s, gen |-> g, comp |-> comp] \in Mem
  BY <1>1 DEF Mem
<1> QED BY <1>2 DEF TypeOK, OtherMem, CompactTo

SetsFiles(s, files)       == dir' = [dir EXCEPT ![s].files = files]
SetsLog(s, g, log, files) == dir' = [dir EXCEPT ![s].log[g] = log, ![s].files = files]
AlsoLog(s, g, log, files) == dir' = [dir EXCEPT ![s].files = files, ![s].log[g] = log]

LEMMA FilesEffect ==
  ASSUME TypeOK, NEW s \in Sess, NEW files \in SUBSET Names,
         SetsFiles(s, files)
  PROVE  /\ dir' \in [Sess -> Dir] /\ OtherDirs(s)
         /\ dir'[s].files = files /\ dir'[s].at = dir[s].at
         /\ dir'[s].gen = dir[s].gen /\ dir'[s].log = dir[s].log
<1>0. dir \in [Sess -> Dir] /\ dir[s] \in Dir
  BY DEF TypeOK
<1>1. dir' \in [Sess -> Dir]
  <2>1. [dir[s] EXCEPT !.files = files] \in Dir
    BY <1>0 DEF Dir
  <2>2. dir' = [dir EXCEPT ![s] = [dir[s] EXCEPT !.files = files]]
    BY <1>0 DEF SetsFiles
  <2> QED BY <1>0, <2>1, <2>2
<1>2. OtherDirs(s)
  BY DEF SetsFiles, TypeOK, OtherDirs
<1>3. dir'[s].files = files /\ dir'[s].at = dir[s].at
  BY DEF SetsFiles, TypeOK, Dir
<1>4. dir'[s].gen = dir[s].gen /\ dir'[s].log = dir[s].log
  BY DEF SetsFiles, TypeOK, Dir
<1> QED BY <1>1, <1>2, <1>3, <1>4

LEMMA AtEffect ==
  ASSUME TypeOK, NEW s \in Sess, NEW at \in {"none", "here", "tomb"},
         dir' = [dir EXCEPT ![s].at = at]
  PROVE  /\ dir' \in [Sess -> Dir] /\ OtherDirs(s)
         /\ dir'[s].files = dir[s].files /\ dir'[s].at = at
         /\ dir'[s].gen = dir[s].gen /\ dir'[s].log = dir[s].log
<1>1. dir' \in [Sess -> Dir]
  <2>1. dir[s] \in Dir
    BY DEF TypeOK
  <2>2. [dir[s] EXCEPT !.at = at] \in Dir
    BY <2>1 DEF Dir
  <2>3. dir' = [dir EXCEPT ![s] = [dir[s] EXCEPT !.at = at]] /\ dir \in [Sess -> Dir]
    BY DEF TypeOK
  <2> QED BY <2>2, <2>3
<1>2. OtherDirs(s)
  BY DEF TypeOK, OtherDirs
<1>3. dir'[s].files = dir[s].files /\ dir'[s].at = at
  BY DEF TypeOK, Dir
<1>4. dir'[s].gen = dir[s].gen /\ dir'[s].log = dir[s].log
  BY DEF TypeOK, Dir
<1> QED BY <1>1, <1>2, <1>3, <1>4

LEMMA NoDirFacts ==
  /\ NoDir \in Dir
  /\ NoDir.at = "none" /\ NoDir.files = {} /\ NoDir.gen = 0 /\ ~NoDir.log[0].closed
BY BoundsAreNat DEF NoDir, Dir, Log, Gens, Names

LEMMA NoDirEffect ==
  ASSUME TypeOK, NEW s \in Sess, dir' = [dir EXCEPT ![s] = NoDir]
  PROVE  dir' \in [Sess -> Dir] /\ OtherDirs(s) /\ dir'[s] = NoDir
BY NoDirFacts DEF TypeOK, OtherDirs

\* A listing names what there is.
LEMMA ListingType == TypeOK => Listing \in SUBSET (Sess \X {"here", "tomb"})
<1> SUFFICES ASSUME TypeOK, NEW s \in Sess, dir[s].at # "none"
             PROVE  <<s, dir[s].at>> \in Sess \X {"here", "tomb"}
  BY DEF Listing
<1>1. dir[s] \in Dir
  BY DEF TypeOK
<1> QED BY <1>1 DEF Dir


LEMMA GenEffect ==
  ASSUME TypeOK, NEW s \in Sess, NEW g \in Gens, dir' = [dir EXCEPT ![s].gen = g]
  PROVE  /\ dir' \in [Sess -> Dir] /\ OtherDirs(s)
         /\ dir'[s].files = dir[s].files /\ dir'[s].at = dir[s].at
         /\ dir'[s].gen = g /\ dir'[s].log = dir[s].log
<1>1. dir' \in [Sess -> Dir]
  <2>1. dir[s] \in Dir
    BY DEF TypeOK
  <2>2. [dir[s] EXCEPT !.gen = g] \in Dir
    BY <2>1 DEF Dir
  <2> QED BY <2>2 DEF TypeOK
<1>2. OtherDirs(s)
  BY DEF TypeOK, OtherDirs
<1>3. dir'[s].files = dir[s].files /\ dir'[s].at = dir[s].at
  BY DEF TypeOK, Dir
<1>4. dir'[s].gen = g /\ dir'[s].log = dir[s].log
  BY DEF TypeOK, Dir
<1> QED BY <1>1, <1>2, <1>3, <1>4

LEMMA LogEffect ==
  ASSUME TypeOK, NEW s \in Sess, NEW g \in Gens, NEW log \in Log, NEW files \in SUBSET Names,
         SetsLog(s, g, log, files)
  PROVE  /\ dir' \in [Sess -> Dir] /\ OtherDirs(s)
         /\ dir'[s].files = files /\ dir'[s].at = dir[s].at /\ dir'[s].gen = dir[s].gen
         /\ dir'[s].log[g] = log
         /\ \A h \in Gens : h # g => dir'[s].log[h] = dir[s].log[h]
<1> DEFINE new == [dir[s] EXCEPT !.log = [dir[s].log EXCEPT ![g] = log], !.files = files]
<1>1. dir[s] \in Dir
  BY DEF TypeOK
<1>2. /\ new \in Dir
      /\ new.files = files /\ new.at = dir[s].at /\ new.gen = dir[s].gen
      /\ new.log = [dir[s].log EXCEPT ![g] = log]
  BY <1>1 DEF Dir
<1>3. dir' = [dir EXCEPT ![s] = new]
  BY <1>1 DEF SetsLog, TypeOK, Dir
<1>4. dir' \in [Sess -> Dir] /\ OtherDirs(s) /\ dir'[s] = new
  BY <1>2, <1>3 DEF TypeOK, OtherDirs
<1>5. dir[s].log \in [Gens -> Log]
  BY <1>1 DEF Dir
<1> HIDE DEF new
<1> QED BY <1>2, <1>4, <1>5

LEMMA AlsoLogEffect ==
  ASSUME TypeOK, NEW s \in Sess, NEW g \in Gens, NEW log \in Log, NEW files \in SUBSET Names,
         AlsoLog(s, g, log, files)
  PROVE  /\ dir' \in [Sess -> Dir] /\ OtherDirs(s)
         /\ dir'[s].files = files /\ dir'[s].at = dir[s].at /\ dir'[s].gen = dir[s].gen
         /\ dir'[s].log[g] = log
         /\ \A h \in Gens : h # g => dir'[s].log[h] = dir[s].log[h]
<1> DEFINE new == [dir[s] EXCEPT !.files = files, !.log = [dir[s].log EXCEPT ![g] = log]]
<1>1. dir[s] \in Dir
  BY DEF TypeOK
<1>2. /\ new \in Dir
      /\ new.files = files /\ new.at = dir[s].at /\ new.gen = dir[s].gen
      /\ new.log = [dir[s].log EXCEPT ![g] = log]
  BY <1>1 DEF Dir
<1>3. dir' = [dir EXCEPT ![s] = new]
  BY <1>1 DEF AlsoLog, TypeOK, Dir
<1>4. dir' \in [Sess -> Dir] /\ OtherDirs(s) /\ dir'[s] = new
  BY <1>2, <1>3 DEF TypeOK, OtherDirs
<1>5. dir[s].log \in [Gens -> Log]
  BY <1>1 DEF Dir
<1> HIDE DEF new
<1> QED BY <1>2, <1>4, <1>5

-----------------------------------------------------------------------------
(* What an action leaves alone keeps its part of the invariant *)

\* The sets that only grow.
Grow == used \subseteq used' /\ raced \subseteq raced' /\ unmoved \subseteq unmoved'

\* An instance takes up nothing new: its command goes on as it is, or is over
\* or a deletion, and so with the session it has open.
Rests(i) ==
  /\ User(i)' = User(i) \/ User(i)'.pc \notin Creating \cup {"opening"}
  /\ mem'[i] = mem[i] \/ mem'[i] = NoSession
  /\ offered'[i] \subseteq offered[i]

LEMMA ShapeFrame ==
  ASSUME NEW i \in Inst, ShapeAt(i), mem'[i] = mem[i] \/ mem'[i] = NoSession, Grow,
         \A t \in {"scan", "user"} :
           task'[i][t] = task[i][t] \/ task'[i][t].pc \in {"idle", "next"}
  PROVE  ShapeAt(i)'
BY DEF ShapeAt, Grow, NoSession

LEMMA LockFrame ==
  ASSUME TypeOK, NEW i \in Inst, ShapeAt(i), LockAt(i), Rests(i),
         task'[i]["scan"] = task[i]["scan"] \/ task'[i]["scan"].pc # "classify",
         \A s \in Sess, k \in {"scan", "user", "session"} :
           lock[s] = <<i, k>> => lock'[s] = <<i, k>>
  PROVE  LockAt(i)'
<1>1. mem[i].s \in Sess \cup {NoOne}
  BY DEF TypeOK, Mem
<1> QED BY <1>1 DEF ShapeAt, LockAt, Holding, Creating, Rests, User, NoSession

LEMMA UsedFrame ==
  ASSUME NEW i \in Inst, UsedAt(i), Rests(i), Grow
  PROVE  UsedAt(i)'
BY DEF UsedAt, Rests, Grow, NoSession

LEMMA CreateFrame ==
  ASSUME NEW i \in Inst, CreateAt(i), Rests(i), Grow,
         User(i).pc \in Creating =>
           dir'[User(i).s] = dir[User(i).s] /\ (User(i).s \in work' => User(i).s \in work)
  PROVE  CreateAt(i)'
BY DEF CreateAt, Rests, Grow, Pristine, Sound

LEMMA AloneFrame ==
  ASSUME NEW i \in Inst, NEW j \in Inst, ShapeAt(i), AloneAt(i, j), Rests(i), Rests(j)
  PROVE  AloneAt(i, j)'
BY NoOneIsNobody DEF ShapeAt, AloneAt, Rests, NoSession, Creating, User

LEMMA OpenFrame ==
  ASSUME NEW i \in Inst, OpenAt(i), Rests(i), Grow,
         mem[i].s # NoOne => dir'[mem[i].s] = dir[mem[i].s]
  PROVE  OpenAt(i)'
BY DEF OpenAt, Sound, Grow, Rests, NoSession

LEMMA RecoverFrame ==
  ASSUME NEW i \in Inst, RecoverAt(i), Rests(i), Grow,
         User(i).pc = "opening" => dir'[User(i).s] = dir[User(i).s]
  PROVE  RecoverAt(i)'
BY DEF RecoverAt, Rests, Grow

LEMMA DeleteFrame ==
  ASSUME NEW s \in Sess, DeleteAt(s), Grow, Deleting(s)' => Deleting(s),
         s \in work' => s \in work,
         lock'[s] = lock[s] \/ lock'[s] = NoOne \/ lock'[s][2] = "scan"
  PROVE  DeleteAt(s)'
BY DEF DeleteAt, Grow

LEMMA FilesFrame ==
  ASSUME NEW s \in Sess, FilesAt(s), Grow, dir'[s] = dir[s]
  PROVE  FilesAt(s)'
BY DEF FilesAt, Loadable, Grow

LEMMA FreshFrame ==
  ASSUME NEW s \in Sess, FreshAt(s), Grow, dir'[s] = dir[s]
  PROVE  FreshAt(s)'
BY DEF FreshAt, Grow

LEMMA WorkFrame ==
  ASSUME NEW s \in Sess, WorkAt(s), Grow, dir'[s] = dir[s], s \in work' => s \in work
  PROVE  WorkAt(s)'
BY DEF WorkAt, Grow, Kept, Recoverable, Loadable, MetaGen

-----------------------------------------------------------------------------
(* Two facts about who works on a session *)

\* Nobody else has the session open, creates it or recovers it.
Only(i, s) ==
  \A j \in Inst : j # i =>
    mem[j].s # s /\ (User(j).pc \in Creating \cup {"opening"} => User(j).s # s)

\* Who has a session open, creates it or recovers it is alone with it.
LEMMA OwnerAlone ==
  ASSUME DirsInv, NEW i \in Inst, NEW s \in Sess,
         mem[i].s = s \/ (User(i).pc \in Creating \cup {"opening"} /\ User(i).s = s)
  PROVE  Only(i, s)
<1> SUFFICES ASSUME NEW j \in Inst, j # i
             PROVE  mem[j].s # s /\ (User(j).pc \in Creating \cup {"opening"} => User(j).s # s)
  BY DEF Only
<1>1. LockAt(i) /\ LockAt(j) /\ AloneAt(i, j) /\ AloneAt(j, i)
  BY DEF DirsInv
<1>2. CASE mem[i].s = s
  <2>1. lock[s] = <<i, "session">>
    BY <1>1, <1>2, NoOneIsNobody DEF LockAt
  <2>2. mem[j].s # s
    BY <1>1, <2>1, NoOneIsNobody DEF LockAt
  <2>3. User(j).pc \in {"opening"} => User(j).s # s
    BY <1>1, <2>1 DEF LockAt, Holding
  <2>4. User(j).pc \in Creating => User(j).s # s
    BY <1>1, <1>2 DEF AloneAt
  <2> QED BY <2>2, <2>3, <2>4
<1>3. CASE User(i).pc \in Creating /\ User(i).s = s
  BY <1>1, <1>3 DEF AloneAt
<1>4. CASE User(i).pc = "opening" /\ User(i).s = s
  <2>1. lock[s] = <<i, "user">>
    BY <1>1, <1>4 DEF LockAt, Holding
  <2>2. mem[j].s # s
    BY <1>1, <2>1, NoOneIsNobody DEF LockAt
  <2>3. User(j).pc \in {"opening"} => User(j).s # s
    BY <1>1, <2>1 DEF LockAt, Holding
  <2>4. User(j).pc \in Creating => User(j).s # s
    BY <1>1, <1>4 DEF AloneAt
  <2> QED BY <2>2, <2>3, <2>4
<1> QED BY <1>2, <1>3, <1>4

\* Removing what a deletion removes hurts only who opened the session in a race.
LEMMA DeletionKeeps ==
  ASSUME DirsInv, NEW s \in Sess, OtherDirs(s), Grow, work' \subseteq work,
         dir[s].at # "here" \/ Deleting(s),
         dir'[s].at # "here" \/ s \in unmoved',
         dir'[s].files \subseteq dir[s].files,
         dir'[s] = NoDir \/ (dir[s].at # "none" /\ dir'[s].gen = dir[s].gen /\ dir'[s].log = dir[s].log)
  PROVE  /\ \A j \in Inst : Rests(j) => CreateAt(j)' /\ OpenAt(j)' /\ RecoverAt(j)'
         /\ \A r \in Sess : FilesAt(r)' /\ FreshAt(r)' /\ WorkAt(r)'
<1>0. ASSUME Deleting(s), NEW j \in Inst,
             lock[s] = <<j, "session">> \/ lock[s] = <<j, "user">>
      PROVE  s \in raced
  <2>1. <<j, "session">> # NoOne /\ <<j, "user">> # NoOne
    BY NoOneIsNobody
  <2>2. lock[s] # NoOne /\ lock[s][2] # "scan"
    BY <1>0, <2>1
  <2> QED BY <1>0, <2>2 DEF DirsInv, DeleteAt
<1>1. ASSUME NEW j \in Inst, mem[j].s = s
      PROVE  s \in raced'
  <2>1. s # NoOne /\ OpenAt(j) /\ LockAt(j)
    BY NoOneIsNobody DEF DirsInv
  <2>2. CASE dir[s].at # "here"
    BY <1>1, <2>1, <2>2 DEF OpenAt, Grow
  <2>3. CASE Deleting(s)
    BY <1>0, <1>1, <2>1, <2>3 DEF LockAt, Grow
  <2> QED BY <2>2, <2>3
<1>2. ASSUME NEW j \in Inst, User(j).pc \in {"locked", "begun"}, User(j).s = s
      PROVE  s \in raced'
  <2>1. CreateAt(j) /\ LockAt(j)
    BY DEF DirsInv
  <2>2. CASE dir[s].at # "here"
    BY <1>2, <2>1, <2>2 DEF CreateAt, Creating, Grow
  <2>3. CASE Deleting(s)
    BY <1>0, <1>2, <2>1, <2>3 DEF LockAt, Holding, Grow
  <2> QED BY <2>2, <2>3
<1>3. ~Sound(s)' \/ s \notin raced'
  BY DEF Sound
<1>4. ASSUME NEW j \in Inst, Rests(j)
      PROVE  CreateAt(j)'
  <2>1. CASE User(j).pc \in Creating /\ User(j).s = s /\ User(j)' = User(j)
    <3>1. Pristine(s)'
      BY <2>1, NoDirFacts DEF DirsInv, CreateAt, Pristine
    <3> QED BY <1>2, <1>3, <2>1, <3>1 DEF CreateAt, Creating
  <2>2. CASE ~(User(j).pc \in Creating /\ User(j).s = s)
    <3>1. User(j).pc \in Creating => User(j).s \in Sess
      BY DEF DirsInv, ShapeAt, Creating, User
    <3> QED BY <1>4, <2>2, <3>1, CreateFrame DEF DirsInv, OtherDirs
  <2>3. CASE User(j)'.pc \notin Creating
    BY <2>3 DEF CreateAt
  <2> QED BY <1>4, <2>1, <2>2, <2>3 DEF Rests
<1>5. ASSUME NEW j \in Inst, Rests(j)
      PROVE  OpenAt(j)'
  <2>0. mem[j].s \in Sess \cup {NoOne}
    BY DEF DirsInv, TypeOK, Mem
  <2>1. CASE mem[j].s = s /\ mem'[j] = mem[j]
    BY <1>1, <1>3, <2>1 DEF OpenAt
  <2>2. CASE mem[j].s # s
    BY <1>5, <2>0, <2>2, OpenFrame DEF DirsInv, OtherDirs
  <2>3. CASE mem'[j] = NoSession
    BY <2>3 DEF OpenAt, NoSession
  <2> QED BY <1>5, <2>1, <2>2, <2>3 DEF Rests
<1>6. ASSUME NEW j \in Inst, Rests(j)
      PROVE  RecoverAt(j)'
  <2>1. User(j).pc = "opening" => User(j).s \in Sess
    BY DEF DirsInv, ShapeAt, User
  <2>2. CASE User(j).pc = "opening" /\ User(j).s = s
    BY <1>6, <2>2, NoDirFacts DEF DirsInv, RecoverAt, Rests, Grow
  <2>3. CASE ~(User(j).pc = "opening" /\ User(j).s = s)
    BY <1>6, <2>1, <2>3, RecoverFrame DEF DirsInv, OtherDirs
  <2> QED BY <2>2, <2>3
<1>7. ASSUME NEW r \in Sess
      PROVE  FilesAt(r)' /\ FreshAt(r)' /\ WorkAt(r)'
  <2>1. CASE r = s
    <3>1. FilesAt(s)'
      BY DEF FilesAt
    <3>2. FreshAt(s)'
      BY NoDirFacts DEF DirsInv, FreshAt, Grow
    <3>3. WorkAt(s)'
      BY DEF DirsInv, WorkAt, DeleteAt, Kept, Recoverable, Grow
    <3> QED BY <2>1, <3>1, <3>2, <3>3
  <2>2. CASE r # s
    BY <2>2, FilesFrame, FreshFrame, WorkFrame DEF DirsInv, OtherDirs
  <2> QED BY <2>1, <2>2
<1> QED BY <1>4, <1>5, <1>6, <1>7

-----------------------------------------------------------------------------
(* The kinds of steps *)

\* Nobody takes anything up: tasks are over or as they were, locks are given up.
LEMMA RestStep ==
  ASSUME DirsInv, TypeOK', UNCHANGED <<dir, used, raced, unmoved>>, work' = work,
         \A j \in Inst : Rests(j) /\ LockAt(j)',
         \A j \in Inst, t \in {"scan", "user"} :
           task'[j][t] = task[j][t] \/ task'[j][t].pc \in {"idle", "next"},
         \A s \in Sess : lock'[s] = lock[s] \/ lock'[s] = NoOne
  PROVE  DirsInv'
<1>1. Grow
  BY DEF Grow
<1>2. \A j \in Inst : ShapeAt(j)' /\ UsedAt(j)'
  BY <1>1, ShapeFrame, UsedFrame DEF DirsInv, Rests
<1>3. \A j \in Inst : CreateAt(j)' /\ OpenAt(j)' /\ RecoverAt(j)'
  BY <1>1, CreateFrame, OpenFrame, RecoverFrame DEF DirsInv
<1>4. \A j, k \in Inst : AloneAt(j, k)'
  BY AloneFrame DEF DirsInv
<1>5. ASSUME NEW s \in Sess
      PROVE  DeleteAt(s)' /\ FilesAt(s)' /\ FreshAt(s)' /\ WorkAt(s)'
  <2>1. Deleting(s)' => Deleting(s)
    BY DEF Deleting
  <2> QED BY <1>1, <2>1, DeleteFrame, FilesFrame, FreshFrame, WorkFrame DEF DirsInv
<1> QED BY <1>2, <1>3, <1>4, <1>5 DEF DirsInv

\* A directory that is being deleted, or is not there any more, is removed.
Deletes(s, i, t) ==
  /\ UNCHANGED <<lock, mem, offered, used, raced>> /\ work' = work
  /\ unmoved \subseteq unmoved'
  /\ OtherTasks(i, t) \/ task' = task
  /\ \/ task'[i][t] = task[i][t]
     \/ task'[i][t].pc \in {"idle", "next"}
     \/ /\ task[i][t].pc = "delete" /\ task'[i][t].s = task[i][t].s
        /\ \/ task'[i][t].pc = "tomb"
           \/ task'[i][t].pc = "empty" /\ task'[i][t].s \in unmoved'
  /\ \/ dir' = dir
     \/ /\ OtherDirs(s)
        /\ dir[s].at # "here" \/ Deleting(s)
        /\ dir'[s].at # "here" \/ s \in unmoved'
        /\ dir'[s].files \subseteq dir[s].files
        /\ \/ dir'[s] = NoDir
           \/ dir[s].at # "none" /\ dir'[s].gen = dir[s].gen /\ dir'[s].log = dir[s].log

\* Such a step keeps the invariant.
LEMMA DeletionStep ==
  ASSUME DirsInv, TypeOK', NEW s \in Sess, NEW i \in Inst, NEW t \in {"scan", "user"},
         Deletes(s, i, t)
  PROVE  DirsInv'
<1>0. /\ UNCHANGED <<lock, mem, offered, used, raced>> /\ work' = work
      /\ unmoved \subseteq unmoved'
      /\ OtherTasks(i, t) \/ task' = task
  BY DEF Deletes
<1>t. \/ task'[i][t] = task[i][t]
      \/ task'[i][t].pc \in {"idle", "next"}
      \/ /\ task[i][t].pc = "delete" /\ task'[i][t].s = task[i][t].s
         /\ \/ task'[i][t].pc = "tomb"
            \/ task'[i][t].pc = "empty" /\ task'[i][t].s \in unmoved'
  BY DEF Deletes
<1>d. \/ dir' = dir
      \/ /\ OtherDirs(s)
         /\ dir[s].at # "here" \/ Deleting(s)
         /\ dir'[s].at # "here" \/ s \in unmoved'
         /\ dir'[s].files \subseteq dir[s].files
         /\ \/ dir'[s] = NoDir
            \/ dir[s].at # "none" /\ dir'[s].gen = dir[s].gen /\ dir'[s].log = dir[s].log
  BY DEF Deletes
<1>1. Grow
  BY <1>0 DEF Grow
<1>2. \A j \in Inst, u \in {"scan", "user"} :
        \/ task'[j][u] = task[j][u]
        \/ task'[j][u].pc \in {"idle", "next"}
        \/ /\ task[j][u].pc = "delete" /\ task'[j][u].s = task[j][u].s
           /\ \/ task'[j][u].pc = "tomb"
              \/ task'[j][u].pc = "empty" /\ task'[j][u].s \in unmoved'
  BY <1>0, <1>t DEF OtherTasks
<1>3. \A j \in Inst : Rests(j)
  BY <1>0, <1>2 DEF Rests, User, Creating
<1>4. ASSUME NEW j \in Inst
      PROVE  ShapeAt(j)'
  BY <1>0, <1>1, <1>2 DEF DirsInv, ShapeAt, Grow, NoSession
<1>5. \A j \in Inst : LockAt(j)'
  BY <1>0, <1>2, <1>3, LockFrame DEF DirsInv
<1>6. \A j \in Inst : UsedAt(j)'
  BY <1>0, <1>1, <1>3, UsedFrame DEF DirsInv
<1>7. \A j \in Inst : CreateAt(j)' /\ OpenAt(j)' /\ RecoverAt(j)'
  <2>1. CASE dir' = dir
    BY <1>0, <1>1, <1>3, <2>1, CreateFrame, OpenFrame, RecoverFrame DEF DirsInv
  <2>2. CASE dir' # dir
    BY <1>0, <1>d, <1>1, <1>3, <2>2, DeletionKeeps
  <2> QED BY <2>1, <2>2
<1>8. \A j, k \in Inst : AloneAt(j, k)'
  BY <1>0, <1>3, AloneFrame DEF DirsInv
<1>9. ASSUME NEW r \in Sess
      PROVE  DeleteAt(r)'
  <2>1. Deleting(r)' => Deleting(r)
    BY <1>0, <1>2 DEF Deleting
  <2> QED BY <1>0, <1>1, <2>1, DeleteFrame DEF DirsInv
<1>10. \A r \in Sess : FilesAt(r)' /\ FreshAt(r)' /\ WorkAt(r)'
  <2>1. CASE dir' = dir
    BY <1>0, <1>1, <2>1, FilesFrame, FreshFrame, WorkFrame DEF DirsInv
  <2>2. CASE dir' # dir
    BY <1>0, <1>d, <1>1, <2>2, DeletionKeeps
  <2> QED BY <2>1, <2>2
<1> QED BY <1>4, <1>5, <1>6, <1>7, <1>8, <1>9, <1>10 DEF DirsInv

\* Who works on a session alone disturbs nobody else, and no other session.
LEMMA OwnerKeeps ==
  ASSUME DirsInv, NEW i \in Inst, NEW s \in Sess,
         Only(i, s), OtherDirs(s), Grow, \A r \in Sess : r # s /\ r \in work' => r \in work
  PROVE  /\ \A j \in Inst : j # i /\ Rests(j) => CreateAt(j)' /\ OpenAt(j)' /\ RecoverAt(j)'
         /\ \A r \in Sess : r # s => FilesAt(r)' /\ FreshAt(r)' /\ WorkAt(r)'
<1>1. ASSUME NEW j \in Inst, j # i, Rests(j)
      PROVE  CreateAt(j)' /\ OpenAt(j)' /\ RecoverAt(j)'
  <2>1. mem[j].s # s /\ (User(j).pc \in Creating \cup {"opening"} => User(j).s # s)
    BY <1>1 DEF Only
  <2>2. /\ mem[j].s \in Sess \cup {NoOne}
        /\ User(j).pc \in Creating \cup {"opening"} => User(j).s \in Sess
    BY DEF DirsInv, ShapeAt, User, Creating, TypeOK, Mem
  <2>3. CreateAt(j)'
    BY <1>1, <2>1, <2>2, CreateFrame DEF DirsInv, OtherDirs
  <2>4. OpenAt(j)'
    BY <1>1, <2>1, <2>2, OpenFrame DEF DirsInv, OtherDirs
  <2>5. RecoverAt(j)'
    BY <1>1, <2>1, <2>2, RecoverFrame DEF DirsInv, OtherDirs
  <2> QED BY <2>3, <2>4, <2>5
<1>2. \A r \in Sess : r # s => FilesAt(r)' /\ FreshAt(r)' /\ WorkAt(r)'
  BY FilesFrame, FreshFrame, WorkFrame DEF DirsInv, OtherDirs
<1> QED BY <1>1, <1>2

\* A step of the session that an instance has open.
LEMMA HolderStep ==
  ASSUME DirsInv, TypeOK', NEW i \in Inst, NEW s \in Sess, mem[i].s = s,
         UNCHANGED <<lock, task, offered, used, raced, unmoved>>,
         OtherDirs(s), OtherMem(i), mem'[i].s = s,
         mem'[i].comp \in {"copy", "journal"} => mem'[i].gen + 1 \in Gens,
         \A r \in Sess : r # s => (r \in work' <=> r \in work),
         OpenAt(i)', FilesAt(s)', WorkAt(s)'
  PROVE  DirsInv'
<1>1. Grow /\ s # NoOne /\ LockAt(i) /\ lock[s] = <<i, "session">>
  BY NoOneIsNobody DEF DirsInv, Grow, LockAt
<1>2. \A j \in Inst : j # i => Rests(j)
  BY DEF Rests, User, OtherMem
<1>3. ASSUME NEW j \in Inst
      PROVE  ShapeAt(j)' /\ UsedAt(j)' /\ LockAt(j)'
  <2>1. ShapeAt(j) /\ UsedAt(j) /\ LockAt(j) /\ ShapeAt(i) /\ UsedAt(i)
    BY DEF DirsInv
  <2>2. ShapeAt(j)'
    BY <1>1, <2>1 DEF ShapeAt, OtherMem
  <2>3. UsedAt(j)'
    BY <1>1, <2>1 DEF UsedAt, User, OtherMem
  <2>4. LockAt(j)'
    BY <1>1, <2>1 DEF LockAt, User, OtherMem
  <2> QED BY <2>2, <2>3, <2>4
<1>4. CreateAt(i)'
  <2>1. User(i).pc \in Creating => User(i).s \in Sess /\ User(i).s # s
    BY DEF DirsInv, ShapeAt, AloneAt, User, Creating
  <2> QED BY <1>1, <2>1 DEF DirsInv, CreateAt, Pristine, Sound, User, OtherDirs
<1>5. RecoverAt(i)'
  <2>1. User(i).pc = "opening" => User(i).s \in Sess /\ User(i).s # s
    BY <1>1 DEF DirsInv, ShapeAt, LockAt, User, Holding
  <2> QED BY <2>1 DEF DirsInv, RecoverAt, User, OtherDirs
<1>6. \A j \in Inst : CreateAt(j)' /\ OpenAt(j)' /\ RecoverAt(j)'
  BY <1>1, <1>2, <1>4, <1>5, OwnerAlone, OwnerKeeps
<1>7. \A j, k \in Inst : AloneAt(j, k)'
  BY DEF DirsInv, AloneAt, User, OtherMem
<1>8. ASSUME NEW r \in Sess
      PROVE  DeleteAt(r)' /\ FilesAt(r)' /\ FreshAt(r)' /\ WorkAt(r)'
  <2>1. CASE r = s
    <3>1. s \in used
      BY <1>1 DEF DirsInv, UsedAt
    <3>2. <<i, "session">> # NoOne /\ <<i, "session">>[2] # "scan"
      BY NoOneIsNobody
    <3>3. DeleteAt(s)'
      BY <1>1, <3>2 DEF DirsInv, DeleteAt, Deleting
    <3> QED BY <2>1, <3>1, <3>3 DEF FreshAt
  <2>2. CASE r # s
    <3>1. DeleteAt(r)'
      BY <2>2 DEF DirsInv, DeleteAt, Deleting
    <3> QED BY <1>1, <2>2, <3>1, OwnerAlone, OwnerKeeps
  <2> QED BY <2>1, <2>2
<1> QED BY <1>3, <1>6, <1>7, <1>8 DEF DirsInv

\* A step of a command that is alone with its session.
LEMMA OwnerStep ==
  ASSUME DirsInv, TypeOK', NEW i \in Inst, NEW s \in Sess, Only(i, s), s \in used',
         OtherDirs(s), Grow, OtherTasks(i, "user"), OtherMem(i),
         \A j \in Inst : offered'[j] \subseteq offered[j],
         \A r \in Sess : r # s => lock'[r] = lock[r] /\ (r \in work' <=> r \in work),
         \A j \in Inst, k \in {"scan", "user", "session"} :
           (j # i \/ k = "scan") /\ lock[s] = <<j, k>> => lock'[s] = <<j, k>>,
         \/ mem'[i] = mem[i] \/ mem'[i] = NoSession
         \/ mem'[i].s = s /\ mem'[i].comp = "no",
         \/ User(i)'.pc \in {"idle", "next"}
         \/ User(i)'.s = s /\ User(i)'.pc # "empty",
         User(i)'.pc \in Creating => mem'[i].s # s /\ \A j \in Inst : s \notin offered[j],
         User(i)'.pc \in Holding => lock'[s] = <<i, "user">>,
         mem'[i].s # NoOne => lock'[mem'[i].s] = <<i, "session">>,
         CreateAt(i)', OpenAt(i)', RecoverAt(i)', DeleteAt(s)', FilesAt(s)', WorkAt(s)'
  PROVE  DirsInv'
<1>1. \A j \in Inst : j # i => Rests(j)
  BY DEF Rests, User, OtherMem, OtherTasks
<1>2. ASSUME NEW j \in Inst
      PROVE  ShapeAt(j)'
  <2>1. CASE j # i
    BY <2>1, ShapeFrame DEF DirsInv, OtherMem, OtherTasks
  <2>2. CASE j = i
    <3>1. ShapeAt(i)
      BY DEF DirsInv
    <3>2. task'[i]["scan"] = task[i]["scan"]
      BY DEF OtherTasks
    <3> QED BY <2>2, <3>1, <3>2, NoOneIsNobody DEF ShapeAt, NoSession, Grow, User
  <2> QED BY <2>1, <2>2
<1>3. ASSUME NEW j \in Inst
      PROVE  LockAt(j)'
  <2>0. \A r \in Sess, l \in Inst, k \in {"scan", "user", "session"} :
          (l # i \/ k = "scan") /\ lock[r] = <<l, k>> => lock'[r] = <<l, k>>
    OBVIOUS
  <2>1. CASE j # i
    BY <1>1, <2>0, <2>1, LockFrame DEF DirsInv, OtherTasks
  <2>2. CASE j = i
    <3>1. /\ task[i]["scan"].pc = "classify" => lock[task[i]["scan"].s] = <<i, "scan">>
          /\ task[i]["scan"].pc = "classify" => task[i]["scan"].s \in Sess
          /\ task'[i]["scan"] = task[i]["scan"]
      BY DEF DirsInv, LockAt, ShapeAt, OtherTasks
    <3>2. task'[i]["scan"].pc = "classify" => lock'[task'[i]["scan"].s] = <<i, "scan">>
      BY <2>0, <3>1
    <3> QED BY <2>2, <3>2 DEF LockAt, Holding
  <2> QED BY <2>1, <2>2
<1>4. ASSUME NEW j \in Inst
      PROVE  UsedAt(j)'
  <2>1. CASE j # i
    BY <1>1, <2>1, UsedFrame DEF DirsInv
  <2>2. CASE j = i
    <3>1. UsedAt(i)
      BY DEF DirsInv
    <3> QED BY <2>2, <3>1 DEF UsedAt, NoSession, Grow, Creating
  <2> QED BY <2>1, <2>2
<1>5. \A j \in Inst : CreateAt(j)' /\ OpenAt(j)' /\ RecoverAt(j)'
  BY <1>1, OwnerKeeps
<1>6. ASSUME NEW j \in Inst, NEW k \in Inst
      PROVE  AloneAt(j, k)'
  <2>1. CASE j # i /\ k # i
    BY <1>1, <2>1, AloneFrame DEF DirsInv
  <2>2. CASE j # i /\ k = i
    <3>1. /\ AloneAt(j, i) /\ User(j)' = User(j)
          /\ User(j).pc \in Creating => User(j).s \in Sess /\ User(j).s # NoOne /\ User(j).s # s
      BY <2>2, NoOneIsNobody DEF DirsInv, ShapeAt, OtherTasks, User, Creating, Only
    <3> QED BY <2>2, <3>1 DEF AloneAt, NoSession, Creating
  <2>3. CASE j = i /\ k # i
    <3>1. mem'[k] = mem[k] /\ User(k)' = User(k)
      BY <2>3 DEF OtherMem, OtherTasks, User
    <3> QED BY <2>3, <3>1 DEF AloneAt, Only, Creating
  <2>4. CASE j = i /\ k = i
    BY <2>4 DEF AloneAt, Creating
  <2> QED BY <2>1, <2>2, <2>3, <2>4
<1>7. ASSUME NEW r \in Sess
      PROVE  DeleteAt(r)' /\ FilesAt(r)' /\ FreshAt(r)' /\ WorkAt(r)'
  <2>1. CASE r = s
    BY <2>1 DEF FreshAt
  <2>2. CASE r # s
    <3>1. Deleting(r)' => Deleting(r)
      BY <2>2 DEF Deleting, OtherTasks, User
    <3>2. DeleteAt(r)'
      BY <2>2, <3>1, DeleteFrame DEF DirsInv
    <3> QED BY <2>2, <3>2, OwnerKeeps
  <2> QED BY <2>1, <2>2
<1> QED BY <1>2, <1>3, <1>4, <1>5, <1>6, <1>7 DEF DirsInv

-----------------------------------------------------------------------------
(* Instances come and go *)

LEMMA StartKeeps ==
  ASSUME DirsInv, NEW i \in Inst, Start(i)
  PROVE  DirsInv'
<1>1. TypeOK /\ UNCHANGED <<dir, lock, mem, offered, crashes, used, work, dead, raced, unmoved>>
  BY DEF DirsInv, Start, ghosts
<1>2. /\ task' \in [Inst -> [{"scan", "user"} -> Task]] /\ OtherTasks(i, "scan")
      /\ task'[i]["scan"].pc \in {"idle", "next"} /\ task'[i]["scan"].pc # "classify"
  BY <1>1, FinishEffect DEF Start
<1>3. TypeOK'
  BY <1>1, <1>2, ListingType DEF Start, TypeOK
<1>4. \A j \in Inst : Rests(j)
  BY <1>1, <1>2 DEF Rests, User, OtherTasks
<1>5. \A j \in Inst : LockAt(j)'
  BY <1>1, <1>2, <1>4, LockFrame DEF DirsInv, OtherTasks
<1> QED BY <1>1, <1>2, <1>3, <1>4, <1>5, RestStep DEF OtherTasks

\* The locks of a process go with it.
LEMMA CrashKeeps ==
  ASSUME DirsInv, NEW i \in Inst, Crash(i)
  PROVE  DirsInv'
<1>1. TypeOK /\ UNCHANGED <<dir, used, work, dead, raced, unmoved>>
  BY DEF DirsInv, Crash, ghosts
<1>2. /\ task' \in [Inst -> [{"scan", "user"} -> Task]]
      /\ \A j \in Inst : j # i => task'[j] = task[j]
      /\ \A t \in {"scan", "user"} : task'[i][t].pc = "idle"
  BY <1>1 DEF Crash, TypeOK, Idle, Task
<1>3. mem' \in [Inst -> Mem] /\ OtherMem(i) /\ mem'[i] = NoSession
  BY <1>1, BoundsAreNat DEF Crash, NoSession, TypeOK, Mem, Gens, OtherMem
<1>4. /\ lock' \in [Sess -> {NoOne} \cup Inst \X {"scan", "user", "session"}]
      /\ \A s \in Sess : lock'[s] = lock[s] \/ lock'[s] = NoOne
      /\ \A s \in Sess, j \in Inst, k \in {"scan", "user", "session"} :
           j # i /\ lock[s] = <<j, k>> => lock'[s] = <<j, k>>
  BY <1>1, NoOneIsNobody DEF Crash, TypeOK
<1>5. /\ up' \subseteq Inst /\ crashes' \in 0..MaxCrashes
      /\ todo' \in [Inst -> SUBSET (Sess \X {"here", "tomb"})]
      /\ offered' \in [Inst -> SUBSET Sess] /\ \A j \in Inst : offered'[j] \subseteq offered[j]
  BY <1>1, BoundsAreNat DEF Crash, TypeOK
<1>6. TypeOK'
  BY <1>1, <1>2, <1>3, <1>4, <1>5 DEF TypeOK
<1>7. \A j \in Inst : Rests(j)
  BY <1>2, <1>3, <1>5 DEF Rests, User, OtherMem, Creating
<1>8. ASSUME NEW j \in Inst
      PROVE  LockAt(j)'
  <2>1. CASE j = i
    BY <1>2, <1>3, <2>1 DEF LockAt, NoSession, User, Holding
  <2>2. CASE j # i
    BY <1>1, <1>2, <1>4, <1>7, <2>2, LockFrame DEF DirsInv
  <2> QED BY <2>1, <2>2
<1> QED BY <1>1, <1>2, <1>4, <1>6, <1>7, <1>8, RestStep

-----------------------------------------------------------------------------
(* The scan *)

LEMMA ScanStartKeeps ==
  ASSUME DirsInv, NEW i \in Inst, ScanStart(i)
  PROVE  DirsInv'
<1>1. TypeOK /\ UNCHANGED <<dir, lock, mem, up, crashes, used, work, dead, raced, unmoved>>
  BY DEF DirsInv, ScanStart, ghosts
<1>2. /\ task' \in [Inst -> [{"scan", "user"} -> Task]] /\ OtherTasks(i, "scan")
      /\ task'[i]["scan"].pc \in {"idle", "next"} /\ task'[i]["scan"].pc # "classify"
  BY <1>1, FinishEffect DEF ScanStart
<1>3. /\ offered' \in [Inst -> SUBSET Sess] /\ \A j \in Inst : offered'[j] \subseteq offered[j]
      /\ todo' \in [Inst -> SUBSET (Sess \X {"here", "tomb"})]
  BY <1>1, ListingType DEF ScanStart, TypeOK
<1>4. TypeOK'
  BY <1>1, <1>2, <1>3 DEF TypeOK
<1>5. \A j \in Inst : Rests(j)
  BY <1>1, <1>2, <1>3 DEF Rests, User, OtherTasks
<1>6. \A j \in Inst : LockAt(j)'
  BY <1>1, <1>2, <1>5, LockFrame DEF DirsInv, OtherTasks
<1> QED BY <1>1, <1>2, <1>4, <1>5, <1>6, RestStep DEF OtherTasks

LEMMA ScanEndKeeps ==
  ASSUME DirsInv, NEW i \in Inst, ScanEnd(i)
  PROVE  DirsInv'
<1>1. /\ TypeOK
      /\ UNCHANGED <<dir, lock, mem, todo, offered, up, crashes, used, work, dead, raced, unmoved>>
  BY DEF DirsInv, ScanEnd, ghosts
<1>2. /\ task' \in [Inst -> [{"scan", "user"} -> Task]] /\ OtherTasks(i, "scan")
      /\ task'[i]["scan"].pc = "idle"
  BY <1>1 DEF ScanEnd, TypeOK, Idle, Task, OtherTasks
<1>3. TypeOK'
  BY <1>1, <1>2 DEF TypeOK
<1>4. \A j \in Inst : Rests(j)
  BY <1>1, <1>2 DEF Rests, User, OtherTasks
<1>5. \A j \in Inst : LockAt(j)'
  BY <1>1, <1>2, <1>4, LockFrame DEF DirsInv, OtherTasks
<1> QED BY <1>1, <1>2, <1>3, <1>4, <1>5, RestStep DEF OtherTasks

LEMMA ScanTombKeeps ==
  ASSUME DirsInv, NEW i \in Inst, NEW s \in Sess, ScanTomb(i, s)
  PROVE  DirsInv'
<1>1. /\ TypeOK
      /\ UNCHANGED <<lock, mem, task, offered, up, crashes, used, work, dead, raced, unmoved>>
  BY DEF DirsInv, ScanTomb, ghosts
<1>2. \/ dir' = dir
      \/ /\ dir' \in [Sess -> Dir] /\ OtherDirs(s) /\ dir'[s] = NoDir
         /\ dir[s].at # "here" /\ dir'[s].at # "here" /\ dir'[s].files \subseteq dir[s].files
  BY <1>1, NoDirEffect, NoDirFacts DEF ScanTomb
<1>3. TypeOK'
  BY <1>1, <1>2 DEF ScanTomb, TypeOK
<1>4. Deletes(s, i, "scan")
  BY <1>1, <1>2 DEF Deletes
<1> QED BY <1>3, <1>4, DeletionStep

\* A scan takes the lock of a directory that nobody has.
LEMMA ScanDirKeeps ==
  ASSUME DirsInv, NEW i \in Inst, NEW s \in Sess, ScanDir(i, s)
  PROVE  DirsInv'
<1>1. TypeOK /\ UNCHANGED <<dir, mem, offered, up, crashes, used, work, dead, raced, unmoved>>
  BY DEF DirsInv, ScanDir, ghosts
<1>2. todo' \in [Inst -> SUBSET (Sess \X {"here", "tomb"})]
  BY <1>1 DEF ScanDir, TypeOK
<1>3. CASE UNCHANGED <<lock, task>>
  <2>1. TypeOK'
    BY <1>1, <1>2, <1>3 DEF TypeOK
  <2>2. \A j \in Inst : Rests(j) /\ LockAt(j)'
    BY <1>1, <1>3, LockFrame DEF DirsInv, Rests, User
  <2> QED BY <1>1, <1>3, <2>1, <2>2, RestStep
<1>4. CASE /\ lock[s] = NoOne
           /\ lock' = [lock EXCEPT ![s] = <<i, "scan">>]
           /\ Enter(i, "scan", "classify", s, "scan")
  <2>1. /\ task' \in [Inst -> [{"scan", "user"} -> Task]] /\ OtherTasks(i, "scan")
        /\ task'[i]["scan"].pc = "classify" /\ task'[i]["scan"].s = s
    <3>1. [pc |-> "classify", s |-> s, for |-> "scan"] \in Task
      BY DEF Task
    <3> QED BY <1>1, <1>4, <3>1, EnterEffect
  <2>2. /\ lock' \in [Sess -> {NoOne} \cup Inst \X {"scan", "user", "session"}]
        /\ lock'[s] = <<i, "scan">> /\ \A r \in Sess : r # s => lock'[r] = lock[r]
    BY <1>1, <1>4 DEF TypeOK
  <2>3. TypeOK'
    BY <1>1, <1>2, <2>1, <2>2 DEF TypeOK
  <2>4. Grow /\ \A j \in Inst : Rests(j)
    BY <1>1, <2>1 DEF Grow, Rests, User, OtherTasks
  <2>5. \A r \in Sess, j \in Inst, k \in {"scan", "user", "session"} :
          lock[r] = <<j, k>> => lock'[r] = <<j, k>>
    BY <1>4, <2>2, NoOneIsNobody
  <2>6. ASSUME NEW j \in Inst
        PROVE  ShapeAt(j)' /\ LockAt(j)' /\ UsedAt(j)'
    <3>1. UsedAt(j)'
      BY <2>4, UsedFrame DEF DirsInv
    <3>2. CASE j # i
      BY <1>1, <2>1, <2>4, <2>5, <3>1, <3>2, ShapeFrame, LockFrame DEF DirsInv, OtherTasks
    <3>3. CASE j = i
      <4>1. ShapeAt(i)'
        BY <1>1, <2>1 DEF DirsInv, ShapeAt, OtherTasks
      <4>2. mem[i].s \in Sess \cup {NoOne} /\ (User(i).pc \in Holding => User(i).s \in Sess)
        BY <1>1 DEF DirsInv, ShapeAt, User, Holding, TypeOK, Mem
      <4>3. LockAt(i) /\ User(i)' = User(i) /\ mem'[i] = mem[i]
        BY <1>1, <2>1 DEF DirsInv, User, OtherTasks
      <4>4. User(i).pc \in Holding => lock'[User(i).s] = <<i, "user">>
        BY <2>5, <4>2, <4>3 DEF LockAt
      <4>5. mem[i].s # NoOne => lock'[mem[i].s] = <<i, "session">>
        BY <2>5, <4>2, <4>3 DEF LockAt
      <4>6. LockAt(i)'
        BY <2>1, <2>2, <4>3, <4>4, <4>5 DEF LockAt
      <4> QED BY <3>1, <3>3, <4>1, <4>6
    <3> QED BY <3>2, <3>3
  <2>7. \A j \in Inst : CreateAt(j)' /\ OpenAt(j)' /\ RecoverAt(j)'
    BY <1>1, <2>4, CreateFrame, OpenFrame, RecoverFrame DEF DirsInv
  <2>8. \A j, k \in Inst : AloneAt(j, k)'
    BY <2>4, AloneFrame DEF DirsInv
  <2>9. ASSUME NEW r \in Sess
        PROVE  DeleteAt(r)' /\ FilesAt(r)' /\ FreshAt(r)' /\ WorkAt(r)'
    <3>1. Deleting(r)' => Deleting(r)
      BY <2>1 DEF Deleting, OtherTasks
    <3>2. lock'[r] = lock[r] \/ lock'[r][2] = "scan"
      BY <2>2
    <3> QED BY <1>1, <2>4, <3>1, <3>2, DeleteFrame, FilesFrame, FreshFrame, WorkFrame
            DEF DirsInv
  <2> QED BY <2>3, <2>6, <2>7, <2>8, <2>9 DEF DirsInv
<1> QED BY <1>3, <1>4 DEF ScanDir

\* A clean session has no work; its lock is free when its deletion begins.
LEMMA ClassifyKeeps ==
  ASSUME DirsInv, NEW i \in Inst, Classify(i)
  PROVE  DirsInv'
<1>0. task[i]["scan"].s \in Sess
  BY DEF DirsInv, Classify, ShapeAt
<1> PICK s \in Sess : s = task[i]["scan"].s
  BY <1>0
<1>1. TypeOK /\ UNCHANGED <<dir, mem, todo, up, crashes, used, work, raced, unmoved>>
  BY DEF DirsInv, Classify
<1>2. lock[s] = <<i, "scan">>
  BY DEF DirsInv, Classify, LockAt
<1>3. /\ lock' \in [Sess -> {NoOne} \cup Inst \X {"scan", "user", "session"}]
      /\ lock'[s] = NoOne /\ \A r \in Sess : r # s => lock'[r] = lock[r]
  BY <1>1, <1>2 DEF Classify, TypeOK
<1>4. \/ /\ Recoverable(dir[s]) /\ Finish(i, "scan")
         /\ offered' = [offered EXCEPT ![i] = @ \cup {s}] /\ UNCHANGED dead
      \/ /\ ~Recoverable(dir[s]) /\ Goto(i, "scan", "delete")
         /\ dead' = dead \cup {s} /\ UNCHANGED offered
  BY DEF Classify
<1>5. /\ task' \in [Inst -> [{"scan", "user"} -> Task]] /\ OtherTasks(i, "scan")
      /\ \/ task'[i]["scan"].pc \in {"idle", "next"} /\ Recoverable(dir[s])
         \/ task'[i]["scan"].pc = "delete" /\ task'[i]["scan"].s = s /\ ~Recoverable(dir[s])
  BY <1>1, <1>4, FinishEffect, GotoEffect
<1>6. /\ offered' \in [Inst -> SUBSET Sess] /\ dead' \subseteq Sess
      /\ \A j \in Inst : \/ offered'[j] = offered[j]
                         \/ Recoverable(dir[s]) /\ offered'[j] = offered[j] \cup {s}
  <2>1. CASE Recoverable(dir[s]) /\ offered' = [offered EXCEPT ![i] = @ \cup {s}] /\ dead' = dead
    BY <1>1, <2>1 DEF TypeOK
  <2>2. CASE dead' = dead \cup {s} /\ offered' = offered
    BY <1>1, <2>2 DEF TypeOK
  <2> QED BY <1>4, <2>1, <2>2
<1>7. TypeOK'
  BY <1>1, <1>3, <1>5, <1>6 DEF TypeOK
<1>8. Grow
  BY <1>1 DEF Grow
<1>9. ASSUME NEW j \in Inst
      PROVE  ShapeAt(j)'
  BY <1>1, <1>2, <1>5 DEF DirsInv, ShapeAt, OtherTasks
<1>10. ASSUME NEW j \in Inst
       PROVE  LockAt(j)'
  <2>1. /\ mem[j].s \in Sess \cup {NoOne} /\ (User(j).pc \in Holding => User(j).s \in Sess)
        /\ task[j]["scan"].pc = "classify" => task[j]["scan"].s \in Sess
    BY <1>1 DEF DirsInv, ShapeAt, User, Holding, TypeOK, Mem
  <2>2. User(j)' = User(j) /\ (j # i => task'[j] = task[j])
    BY <1>5 DEF User, OtherTasks
  <2>3. task'[i]["scan"].pc # "classify"
    BY <1>5
  <2>4. LockAt(j) /\ mem'[j] = mem[j]
    BY <1>1 DEF DirsInv
  <2>5. User(j).pc \in Holding => lock'[User(j).s] = <<j, "user">>
    BY <1>2, <1>3, <2>1, <2>4 DEF LockAt
  <2>6. mem[j].s # NoOne => lock'[mem[j].s] = <<j, "session">>
    BY <1>2, <1>3, <2>1, <2>4 DEF LockAt
  <2>7. task'[j]["scan"].pc = "classify" => lock'[task'[j]["scan"].s] = <<j, "scan">>
    BY <1>2, <1>3, <2>1, <2>2, <2>3, <2>4 DEF LockAt
  <2> QED BY <2>2, <2>4, <2>5, <2>6, <2>7 DEF LockAt
<1>11. Recoverable(dir[s]) => s \in used /\ \A j \in Inst : User(j).pc \in Creating => User(j).s # s
  <2>1. NoDir.at # "here"
    BY NoDirFacts
  <2>2. Recoverable(dir[s]) => s \in used
    BY <1>2, <2>1 DEF DirsInv, FreshAt, Recoverable
  <2>3. ASSUME Recoverable(dir[s]), NEW j \in Inst, User(j).pc \in Creating, User(j).s = s
        PROVE  FALSE
    <3>1. dir[s].files \subseteq {Meta}
      BY <2>3 DEF DirsInv, CreateAt, Pristine
    <3> QED BY <2>3, <3>1 DEF Recoverable, Meta, Takes
  <2> QED BY <2>2, <2>3
<1>12. ASSUME NEW j \in Inst
       PROVE  UsedAt(j)' /\ CreateAt(j)' /\ OpenAt(j)' /\ RecoverAt(j)'
  <2>1. User(j)' = User(j)
    BY <1>5 DEF User, OtherTasks
  <2>2. UsedAt(j)'
    BY <1>1, <1>6, <1>11, <2>1 DEF DirsInv, UsedAt
  <2>3. CreateAt(j)' /\ RecoverAt(j)'
    BY <1>1, <2>1 DEF DirsInv, CreateAt, RecoverAt, Pristine, Sound
  <2>4. OpenAt(j)'
    BY <1>1 DEF DirsInv, OpenAt, Sound
  <2> QED BY <2>2, <2>3, <2>4
<1>13. ASSUME NEW j \in Inst, NEW k \in Inst
       PROVE  AloneAt(j, k)'
  <2>1. User(j)' = User(j) /\ User(k)' = User(k)
    BY <1>5 DEF User, OtherTasks
  <2> QED BY <1>1, <1>6, <1>11, <2>1 DEF DirsInv, AloneAt
<1>14. ASSUME NEW r \in Sess
       PROVE  DeleteAt(r)' /\ FilesAt(r)' /\ FreshAt(r)' /\ WorkAt(r)'
  <2>1. FilesAt(r)' /\ FreshAt(r)' /\ WorkAt(r)'
    BY <1>1, <1>8, FilesFrame, FreshFrame, WorkFrame DEF DirsInv
  <2>2. CASE r # s
    <3>1. Deleting(r)' => Deleting(r)
      BY <1>5, <2>2 DEF Deleting, OtherTasks
    <3> QED BY <1>1, <1>3, <1>8, <2>1, <2>2, <3>1, DeleteFrame DEF DirsInv
  <2>3. CASE r = s
    <3>1. CASE Recoverable(dir[s])
      <4>0. task'[i]["scan"].pc \in {"idle", "next"}
        BY <1>5, <3>1
      <4>1. Deleting(s)' => Deleting(s)
        BY <1>5, <4>0 DEF Deleting, OtherTasks
      <4> QED BY <1>1, <1>2, <1>3, <1>8, <2>1, <2>3, <4>1, DeleteFrame DEF DirsInv
    <3>2. CASE ~Recoverable(dir[s])
      <4>1. s \in work => s \in raced
        BY <1>2, <3>2 DEF DirsInv, WorkAt, Kept
      <4> QED BY <1>1, <1>3, <2>1, <2>3, <4>1 DEF DeleteAt
    <3> QED BY <3>1, <3>2
  <2> QED BY <2>2, <2>3
<1> QED BY <1>7, <1>9, <1>10, <1>12, <1>13, <1>14 DEF DirsInv

-----------------------------------------------------------------------------
(* Deletions *)

LEMMA MoveAsideKeeps ==
  ASSUME DirsInv, NEW i \in Inst, NEW t \in {"scan", "user"}, MoveAside(i, t)
  PROVE  DirsInv'
<1>0. task[i][t].s \in Sess
  BY DEF DirsInv, MoveAside, ShapeAt
<1> PICK s \in Sess : s = task[i][t].s
  BY <1>0
<1>1. /\ TypeOK /\ task[i][t].pc = "delete" /\ Deleting(s)
      /\ UNCHANGED <<lock, mem, todo, offered, up, crashes, used, work, raced>>
  BY DEF DirsInv, MoveAside, Deleting
<1>2. CASE /\ dir[s].at = "here" /\ dir' = [dir EXCEPT ![s].at = "tomb"]
           /\ Goto(i, t, "tomb") /\ dead' = dead \cup {s} /\ UNCHANGED unmoved
  <2>1. /\ dir' \in [Sess -> Dir] /\ OtherDirs(s)
        /\ dir'[s].at = "tomb" /\ dir'[s].files = dir[s].files
        /\ dir'[s].gen = dir[s].gen /\ dir'[s].log = dir[s].log
    BY <1>1, <1>2, AtEffect
  <2>2. /\ task' \in [Inst -> [{"scan", "user"} -> Task]] /\ OtherTasks(i, t)
        /\ task'[i][t].pc = "tomb" /\ task'[i][t].s = task[i][t].s
    BY <1>1, <1>2, GotoEffect
  <2>3. TypeOK'
    BY <1>1, <1>2, <2>1, <2>2 DEF TypeOK
  <2>4. Deletes(s, i, t)
    <3>1. task[i][t].pc = "delete" /\ task'[i][t].s = task[i][t].s /\ task'[i][t].pc = "tomb"
      BY <1>1, <2>2
    <3>2. /\ OtherDirs(s) /\ Deleting(s) /\ dir'[s].at # "here" /\ dir[s].at # "none"
          /\ dir'[s].files \subseteq dir[s].files
          /\ dir'[s].gen = dir[s].gen /\ dir'[s].log = dir[s].log
      BY <1>1, <1>2, <2>1
    <3>3. /\ UNCHANGED <<lock, mem, offered, used, raced>> /\ work' = work
          /\ unmoved \subseteq unmoved' /\ OtherTasks(i, t)
      BY <1>1, <1>2, <2>2
    <3> QED BY ONLY <3>1, <3>2, <3>3 DEF Deletes
  <2> QED BY <2>3, <2>4, DeletionStep
<1>3. CASE /\ Goto(i, t, "empty") /\ dead' = dead \cup {s} /\ unmoved' = unmoved \cup {s}
           /\ UNCHANGED dir
  <2>1. /\ task' \in [Inst -> [{"scan", "user"} -> Task]] /\ OtherTasks(i, t)
        /\ task'[i][t].pc = "empty" /\ task'[i][t].s = task[i][t].s
    BY <1>1, <1>3, GotoEffect
  <2>2. TypeOK'
    BY <1>1, <1>3, <2>1 DEF TypeOK
  <2>3. Deletes(s, i, t)
    <3>1. /\ task[i][t].pc = "delete" /\ task'[i][t].s = task[i][t].s
          /\ task'[i][t].pc = "empty" /\ task'[i][t].s \in unmoved'
      BY <1>1, <1>3, <2>1
    <3>2. /\ UNCHANGED <<lock, mem, offered, used, raced>> /\ work' = work
          /\ unmoved \subseteq unmoved' /\ OtherTasks(i, t) /\ dir' = dir
      BY <1>1, <1>3, <2>1
    <3> QED BY ONLY <3>1, <3>2 DEF Deletes
  <2> QED BY <2>2, <2>3, DeletionStep
<1>4. CASE /\ dir[s].at # "here" /\ dir' = [dir EXCEPT ![s] = NoDir]
           /\ Finish(i, t) /\ UNCHANGED <<dead, unmoved>>
  <2>1. /\ dir' \in [Sess -> Dir] /\ OtherDirs(s) /\ dir'[s] = NoDir
        /\ dir'[s].at # "here" /\ dir'[s].files \subseteq dir[s].files
    BY <1>1, <1>4, NoDirEffect, NoDirFacts
  <2>2. /\ task' \in [Inst -> [{"scan", "user"} -> Task]] /\ OtherTasks(i, t)
        /\ task'[i][t].pc \in {"idle", "next"}
    BY <1>1, <1>4, FinishEffect
  <2>3. TypeOK'
    BY <1>1, <1>4, <2>1, <2>2 DEF TypeOK
  <2>4. Deletes(s, i, t)
    <3>1. /\ UNCHANGED <<lock, mem, offered, used, raced>> /\ work' = work
          /\ unmoved \subseteq unmoved' /\ OtherTasks(i, t)
          /\ task'[i][t].pc \in {"idle", "next"}
      BY <1>1, <1>4, <2>2
    <3>2. /\ OtherDirs(s) /\ Deleting(s) /\ dir'[s].at # "here" /\ dir'[s] = NoDir
          /\ dir'[s].files \subseteq dir[s].files
      BY <1>1, <2>1
    <3> QED BY ONLY <3>1, <3>2 DEF Deletes
  <2> QED BY <2>3, <2>4, DeletionStep
<1> QED BY <1>2, <1>3, <1>4 DEF MoveAside

LEMMA RemoveTombKeeps ==
  ASSUME DirsInv, NEW i \in Inst, NEW t \in {"scan", "user"}, RemoveTomb(i, t)
  PROVE  DirsInv'
<1>0. task[i][t].s \in Sess
  BY DEF DirsInv, RemoveTomb, ShapeAt
<1> PICK s \in Sess : s = task[i][t].s
  BY <1>0
<1>1. /\ TypeOK
      /\ UNCHANGED <<lock, mem, todo, offered, up, crashes, used, work, dead, raced, unmoved>>
  BY DEF DirsInv, RemoveTomb, ghosts
<1>2. \/ dir' = dir
      \/ /\ dir' \in [Sess -> Dir] /\ OtherDirs(s) /\ dir'[s] = NoDir
         /\ dir[s].at # "here" /\ dir'[s].at # "here" /\ dir'[s].files \subseteq dir[s].files
  BY <1>1, NoDirEffect, NoDirFacts DEF RemoveTomb
<1>3. /\ task' \in [Inst -> [{"scan", "user"} -> Task]] /\ OtherTasks(i, t)
      /\ task'[i][t].pc \in {"idle", "next"}
  BY <1>1, FinishEffect DEF RemoveTomb
<1>4. TypeOK'
  BY <1>1, <1>2, <1>3 DEF TypeOK
<1>5. Deletes(s, i, t)
  BY <1>1, <1>2, <1>3 DEF Deletes
<1> QED BY <1>4, <1>5, DeletionStep

\* What is emptied in place was noted as unmoved.
LEMMA EmptyKeeps ==
  ASSUME DirsInv, NEW i \in Inst, NEW t \in {"scan", "user"}, Empty(i, t)
  PROVE  DirsInv'
<1>0. task[i][t].s \in Sess
  BY DEF DirsInv, Empty, ShapeAt
<1> PICK s \in Sess : s = task[i][t].s
  BY <1>0
<1>1. /\ TypeOK /\ Deleting(s) /\ s \in unmoved
      /\ UNCHANGED <<lock, mem, todo, offered, up, crashes, used, work, dead, raced, unmoved>>
  BY DEF DirsInv, Empty, ghosts, Deleting, ShapeAt
<1>2. dir[s].files \in SUBSET Names
  BY <1>1 DEF TypeOK, Dir
<1>3. CASE /\ dir[s].at = "here" /\ UNCHANGED task
           /\ \E n : dir' = [dir EXCEPT ![s].files = @ \ {n}]
  <2> PICK n : dir' = [dir EXCEPT ![s].files = @ \ {n}]
    BY <1>3
  <2>1. SetsFiles(s, dir[s].files \ {n}) /\ dir[s].files \ {n} \in SUBSET Names
    BY <1>2 DEF SetsFiles
  <2>2. /\ dir' \in [Sess -> Dir] /\ OtherDirs(s)
        /\ dir'[s].files = dir[s].files \ {n}
        /\ dir'[s].gen = dir[s].gen /\ dir'[s].log = dir[s].log
    BY <1>1, <2>1, FilesEffect
  <2>3. TypeOK'
    BY <1>1, <1>3, <2>2 DEF TypeOK
  <2>4. Deletes(s, i, t)
    <3>1. /\ UNCHANGED <<lock, mem, offered, used, raced>> /\ work' = work /\ task' = task
          /\ unmoved \subseteq unmoved'
      BY <1>1, <1>3
    <3>2. /\ OtherDirs(s) /\ Deleting(s) /\ s \in unmoved' /\ dir[s].at # "none"
          /\ dir'[s].files \subseteq dir[s].files
          /\ dir'[s].gen = dir[s].gen /\ dir'[s].log = dir[s].log
      BY <1>1, <1>3, <2>2
    <3> QED BY ONLY <3>1, <3>2 DEF Deletes
  <2> QED BY <2>3, <2>4, DeletionStep
<1>4. CASE /\ dir' = dir \/ dir' = [dir EXCEPT ![s] = NoDir]
           /\ Finish(i, t)
  <2>1. \/ dir' = dir
        \/ /\ dir' \in [Sess -> Dir] /\ OtherDirs(s) /\ dir'[s] = NoDir
           /\ dir'[s].files \subseteq dir[s].files
    BY <1>1, <1>4, NoDirEffect, NoDirFacts
  <2>2. /\ task' \in [Inst -> [{"scan", "user"} -> Task]] /\ OtherTasks(i, t)
        /\ task'[i][t].pc \in {"idle", "next"}
    BY <1>1, <1>4, FinishEffect
  <2>3. TypeOK'
    BY <1>1, <2>1, <2>2 DEF TypeOK
  <2>4. Deletes(s, i, t)
    <3>1. /\ UNCHANGED <<lock, mem, offered, used, raced>> /\ work' = work
          /\ unmoved \subseteq unmoved' /\ OtherTasks(i, t)
          /\ task'[i][t].pc \in {"idle", "next"}
      BY <1>1, <2>2
    <3>2. \/ dir' = dir
          \/ /\ OtherDirs(s) /\ Deleting(s) /\ s \in unmoved' /\ dir'[s] = NoDir
             /\ dir'[s].files \subseteq dir[s].files
      BY <1>1, <2>1
    <3> QED BY ONLY <3>1, <3>2 DEF Deletes
  <2> QED BY <2>3, <2>4, DeletionStep
<1> QED BY <1>3, <1>4 DEF Empty

-----------------------------------------------------------------------------
(* The open session *)

\* What an instance that has a session open can read.
LEMMA OpenFacts ==
  ASSUME DirsInv, NEW i \in Inst, mem[i] # NoSession
  PROVE  /\ mem[i].s \in Sess /\ mem[i].s # NoOne /\ mem[i].gen \in Gens
         /\ mem[i].comp \in {"no", "copy", "journal", "meta"}
         /\ dir[mem[i].s] \in Dir /\ dir[mem[i].s].files \in SUBSET Names
         /\ dir[mem[i].s].log \in [Gens -> Log] /\ LogOf(i) \in Log
<1>1. mem[i] \in Mem /\ mem[i].s # NoOne
  BY DEF DirsInv, ShapeAt, TypeOK
<1>2. mem[i].s \in Sess
  BY <1>1 DEF Mem
<1> QED BY <1>1, <1>2 DEF DirsInv, TypeOK, Mem, Dir, LogOf

\* A record that does not pretend to more than is there.
LEMMA AppendKeeps ==
  ASSUME DirsInv, NEW i \in Inst, Free(i), NEW log \in Log, NEW files \in SUBSET {Takes},
         log.open => Takes \in files, Append(i, log, files)
  PROVE  DirsInv'
<1>0. mem[i] # NoSession /\ mem[i].comp \in {"no", "copy"}
  BY DEF Free
<1> PICK s \in Sess : s = mem[i].s
  BY <1>0, OpenFacts
<1> PICK g \in Gens : g = mem[i].gen
  BY <1>0, OpenFacts
<1> DEFINE fs == IF dir[s].at = "here" THEN dir[s].files \cup files ELSE dir[s].files
           new == [log EXCEPT !.closed = FALSE]
<1>1. /\ TypeOK /\ s # NoOne /\ OpenAt(i)
      /\ UNCHANGED <<lock, mem, task, todo, offered, up, crashes, used, dead, raced, unmoved>>
      /\ work' = IF log.unsaved \/ log.open THEN work \cup {s} ELSE work \ {s}
      /\ SetsLog(s, g, new, fs)
  BY <1>0, OpenFacts DEF DirsInv, Append, SetsLog
<1>2. /\ new \in Log /\ ~new.closed /\ new.unsaved = log.unsaved /\ new.open = log.open
      /\ log.unsaved \in BOOLEAN /\ log.open \in BOOLEAN
  BY DEF Log
<1>3. fs \in SUBSET Names /\ dir[s].files \subseteq fs /\ (dir[s].at = "here" => files \subseteq fs)
  <2>1. Takes \in Names
    BY DEF Takes, Names
  <2> QED BY <1>0, <2>1, OpenFacts
<1> HIDE DEF new, fs
<1>4. /\ dir' \in [Sess -> Dir] /\ OtherDirs(s)
      /\ dir'[s].files = fs /\ dir'[s].at = dir[s].at /\ dir'[s].gen = dir[s].gen
      /\ dir'[s].log[g] = new
  BY <1>1, <1>2, <1>3, LogEffect
<1>5. TypeOK'
  <2>1. s \in used
    BY <1>1 DEF DirsInv, UsedAt
  <2> QED BY <1>1, <1>4, <2>1 DEF TypeOK
<1>6. OpenAt(i)'
  BY <1>0, <1>1, <1>2, <1>3, <1>4 DEF OpenAt, Sound
<1>7. FilesAt(s)'
  BY <1>1, <1>3, <1>4 DEF OpenAt, Sound, FilesAt, Loadable
<1>8. WorkAt(s)'
  <2> SUFFICES ASSUME s \in work', s \notin raced
               PROVE  Kept(s)'
    BY <1>1 DEF WorkAt
  <2>1. /\ dir'[s].at = "here" /\ dir'[s].gen = g
        /\ {Meta} \cup Generation(g) \subseteq dir'[s].files
    BY <1>1, <1>3, <1>4 DEF OpenAt, Sound
  <2>2. log.unsaved \/ (log.open /\ Takes \in dir'[s].files)
    BY <1>1, <1>2, <1>3, <1>4, <2>1
  <2>3. Meta \in dir'[s].files /\ <<"journal", g>> \in dir'[s].files
    BY <2>1 DEF Generation
  <2> QED BY <1>2, <1>4, <2>1, <2>2, <2>3 DEF Kept, Recoverable, Loadable, MetaGen
<1>9. /\ mem'[i].comp \in {"copy", "journal"} => mem'[i].gen + 1 \in Gens
      /\ \A r \in Sess : r # s => (r \in work' <=> r \in work)
      /\ OtherMem(i) /\ mem'[i].s = s
  BY <1>1 DEF DirsInv, ShapeAt, OtherMem
<1> QED BY <1>1, <1>4, <1>5, <1>6, <1>7, <1>8, <1>9, HolderStep

LEMMA DocumentKeeps ==
  ASSUME DirsInv, NEW i \in Inst,
         Edit(i) \/ Save(i) \/ BeginTake(i) \/ \E keep \in BOOLEAN : EndTake(i, keep)
  PROVE  DirsInv'
<1>1. Free(i) /\ LogOf(i) \in Log
  BY OpenFacts DEF Edit, Save, BeginTake, EndTake, Free
<1>2. CASE Edit(i)
  <2> DEFINE log == [LogOf(i) EXCEPT !.unsaved = TRUE]
  <2>1. log \in Log /\ ~log.open /\ Append(i, log, {})
    BY <1>1, <1>2 DEF Edit, Log
  <2> HIDE DEF log
  <2> QED BY <1>1, <2>1, AppendKeeps
<1>3. CASE Save(i)
  <2> DEFINE log == [LogOf(i) EXCEPT !.unsaved = FALSE]
  <2>1. log \in Log /\ ~log.open /\ Append(i, log, {})
    BY <1>1, <1>3 DEF Save, Log
  <2> HIDE DEF log
  <2> QED BY <1>1, <2>1, AppendKeeps
<1>4. CASE BeginTake(i)
  BY <1>1, <1>4, AppendKeeps DEF BeginTake, Log
<1>5. ASSUME NEW keep \in BOOLEAN, EndTake(i, keep)
      PROVE  DirsInv'
  <2> DEFINE log == [LogOf(i) EXCEPT !.open = FALSE, !.unsaved = @ \/ keep]
  <2>1. log \in Log /\ ~log.open /\ Append(i, log, {})
    BY <1>1, <1>5 DEF EndTake, Log
  <2> HIDE DEF log
  <2> QED BY <1>1, <2>1, AppendKeeps
<1> QED BY <1>2, <1>3, <1>4, <1>5

-----------------------------------------------------------------------------
(* Compactions *)

\* A step of a compaction keeps the takes, and the last facts of the journal in
\* use.
LEMMA CompactionStep ==
  ASSUME DirsInv, TypeOK', NEW i \in Inst, NEW s \in Sess, mem[i].s = s,
         UNCHANGED <<lock, task, offered, used, work, raced, unmoved>>,
         OtherDirs(s), OtherMem(i), mem'[i].s = s,
         mem'[i].comp \in {"copy", "journal"} => mem'[i].gen + 1 \in Gens,
         Takes \in dir[s].files => Takes \in dir'[s].files,
         s \notin raced => dir'[s].log[mem'[i].gen] = dir[s].log[mem[i].gen],
         OpenAt(i)'
  PROVE  DirsInv'
<1>1. s # NoOne
  BY NoOneIsNobody
<1>2. FilesAt(s)'
  BY <1>1 DEF OpenAt, FilesAt, Sound, Loadable
<1>3. WorkAt(s)'
  <2> SUFFICES ASSUME s \in work, s \notin raced
               PROVE  Kept(s)'
    BY DEF WorkAt
  <2>1. OpenAt(i) /\ Kept(s)
    BY DEF DirsInv, WorkAt
  <2>2. /\ dir[s].gen = mem[i].gen
        /\ Meta \in dir[s].files /\ <<"journal", mem[i].gen>> \in dir[s].files
    BY <1>1, <2>1 DEF OpenAt, Sound, Generation
  <2>3. LET l == dir[s].log[mem[i].gen] IN
        ~l.closed /\ (l.unsaved \/ (l.open /\ Takes \in dir[s].files))
    BY <2>1, <2>2 DEF Kept, Recoverable, MetaGen
  <2>4. /\ dir'[s].at = "here" /\ dir'[s].gen = mem'[i].gen
        /\ {Meta} \cup Generation(mem'[i].gen) \subseteq dir'[s].files
    BY <1>1 DEF OpenAt, Sound
  <2>5. Meta \in dir'[s].files /\ <<"journal", mem'[i].gen>> \in dir'[s].files
    BY <2>4 DEF Generation
  <2> QED BY <2>3, <2>4, <2>5 DEF Kept, Recoverable, Loadable, MetaGen
<1> QED BY <1>2, <1>3, HolderStep

\* Files of different generations are different files.
LEMMA GenerationsApart ==
  ASSUME NEW g \in Int, NEW h \in Int, g # h
  PROVE  /\ Generation(g) \cap Generation(h) = {}
         /\ Meta \notin Generation(g) /\ Takes \notin Generation(g)
BY DEF Generation, Meta, Takes

LEMMA BeginCompactKeeps ==
  ASSUME DirsInv, NEW i \in Inst, BeginCompact(i)
  PROVE  DirsInv'
<1>0. mem[i] # NoSession
  BY DEF BeginCompact, Free
<1> PICK s \in Sess, g \in Gens : s = mem[i].s /\ g = mem[i].gen
  BY <1>0, OpenFacts
<1> DEFINE fs == (dir[s].files \ Generation(g + 1)) \cup {<<"chunks", g + 1>>}
<1>1. /\ TypeOK /\ s # NoOne /\ OpenAt(i) /\ g + 1 \in Gens
      /\ UNCHANGED <<lock, task, todo, offered, up, crashes, used, work, dead, raced, unmoved>>
      /\ SetsFiles(s, fs) /\ CompactTo(i, "copy", g)
  BY <1>0, OpenFacts, BoundsAreNat DEF DirsInv, BeginCompact, SetsFiles, ghosts, Gens
<1>2. fs \in SUBSET Names
  <2>1. <<"chunks", g + 1>> \in Names
    BY <1>1 DEF Names
  <2> QED BY <1>0, <2>1, OpenFacts
<1>3. /\ Takes \in dir[s].files => Takes \in fs
      /\ {Meta} \cup Generation(g) \subseteq dir[s].files => {Meta} \cup Generation(g) \subseteq fs
      /\ <<"chunks", g + 1>> \in fs
  BY GenerationsApart DEF Gens
<1> HIDE DEF fs
<1>4. /\ dir' \in [Sess -> Dir] /\ OtherDirs(s)
      /\ dir'[s].files = fs /\ dir'[s].at = dir[s].at
      /\ dir'[s].gen = dir[s].gen /\ dir'[s].log = dir[s].log
  BY <1>1, <1>2, FilesEffect
<1>5. /\ mem' \in [Inst -> Mem] /\ OtherMem(i)
      /\ mem'[i].s = s /\ mem'[i].gen = g /\ mem'[i].comp = "copy"
  BY <1>1, CompactToEffect
<1>6. TypeOK'
  BY <1>1, <1>4, <1>5 DEF TypeOK
<1>7. OpenAt(i)'
  BY <1>1, <1>3, <1>4, <1>5 DEF OpenAt, Sound
<1> QED BY <1>1, <1>3, <1>4, <1>5, <1>6, <1>7, CompactionStep

LEMMA NewJournalKeeps ==
  ASSUME DirsInv, NEW i \in Inst, NewJournal(i)
  PROVE  DirsInv'
<1>0. mem[i] # NoSession /\ mem[i].comp = "copy"
  BY DEF NewJournal, NoSession
<1> PICK s \in Sess, g \in Gens : s = mem[i].s /\ g = mem[i].gen
  BY <1>0, OpenFacts
<1>1. /\ TypeOK /\ s # NoOne /\ OpenAt(i) /\ g + 1 \in Gens
      /\ dir[s].log \in [Gens -> Log] /\ LogOf(i) = dir[s].log[g]
      /\ UNCHANGED <<lock, task, todo, offered, up, crashes, used, work, dead, raced, unmoved>>
  BY <1>0, OpenFacts DEF DirsInv, ShapeAt, NewJournal, ghosts, LogOf
<1>2. CASE CompactTo(i, "no", g) /\ UNCHANGED dir
  <2>1. /\ mem' \in [Inst -> Mem] /\ OtherMem(i)
        /\ mem'[i].s = s /\ mem'[i].gen = g /\ mem'[i].comp = "no"
    BY <1>1, <1>2, CompactToEffect
  <2>2. TypeOK' /\ OtherDirs(s)
    BY <1>1, <1>2, <2>1 DEF TypeOK, OtherDirs
  <2>3. OpenAt(i)'
    BY <1>1, <1>2, <2>1 DEF OpenAt, Sound
  <2> QED BY <1>1, <1>2, <2>1, <2>2, <2>3, CompactionStep
<1> DEFINE fs  == dir[s].files \cup {<<"journal", g + 1>>}
           new == [dir[s].log[g] EXCEPT !.closed = FALSE]
<1>3. CASE AlsoLog(s, g + 1, new, fs) /\ CompactTo(i, "journal", g)
  <2>1. fs \in SUBSET Names /\ dir[s].files \subseteq fs
        /\ (<<"chunks", g + 1>> \in dir[s].files => Generation(g + 1) \subseteq fs)
    <3>1. <<"journal", g + 1>> \in Names
      BY <1>1 DEF Names
    <3> QED BY <1>0, <3>1, OpenFacts DEF Generation
  <2>2. dir[s].log[g] \in Log
    BY <1>1
  <2>3. new \in Log /\ (~dir[s].log[g].closed => new = dir[s].log[g])
    BY <2>2 DEF Log
  <2> HIDE DEF fs, new
  <2>4. /\ dir' \in [Sess -> Dir] /\ OtherDirs(s)
        /\ dir'[s].files = fs /\ dir'[s].at = dir[s].at /\ dir'[s].gen = dir[s].gen
        /\ dir'[s].log[g + 1] = new /\ dir'[s].log[g] = dir[s].log[g]
    <3>1. g # g + 1
      BY DEF Gens
    <3> QED BY <1>1, <1>3, <2>1, <2>3, <3>1, AlsoLogEffect
  <2>5. /\ mem' \in [Inst -> Mem] /\ OtherMem(i)
        /\ mem'[i].s = s /\ mem'[i].gen = g /\ mem'[i].comp = "journal"
    BY <1>1, <1>3, CompactToEffect
  <2>6. TypeOK'
    BY <1>1, <2>4, <2>5 DEF TypeOK
  <2>7. OpenAt(i)'
    BY <1>0, <1>1, <2>1, <2>3, <2>4, <2>5 DEF OpenAt, Sound
  <2> QED BY <1>1, <2>1, <2>4, <2>5, <2>6, <2>7, CompactionStep
<1> QED BY <1>1, <1>2, <1>3 DEF NewJournal, AlsoLog

LEMMA SwitchMetaKeeps ==
  ASSUME DirsInv, NEW i \in Inst, SwitchMeta(i)
  PROVE  DirsInv'
<1>0. mem[i] # NoSession /\ mem[i].comp = "journal"
  BY DEF SwitchMeta, NoSession
<1> PICK s \in Sess, g \in Gens : s = mem[i].s /\ g = mem[i].gen
  BY <1>0, OpenFacts
<1>1. /\ TypeOK /\ s # NoOne /\ OpenAt(i) /\ g + 1 \in Gens
      /\ UNCHANGED <<lock, task, todo, offered, up, crashes, used, work, dead, raced, unmoved>>
      /\ dir' = [dir EXCEPT ![s].gen = g + 1] /\ CompactTo(i, "meta", g + 1)
  BY <1>0, OpenFacts DEF DirsInv, ShapeAt, SwitchMeta, ghosts
<1>2. /\ dir' \in [Sess -> Dir] /\ OtherDirs(s)
      /\ dir'[s].files = dir[s].files /\ dir'[s].at = dir[s].at
      /\ dir'[s].gen = g + 1 /\ dir'[s].log = dir[s].log
  BY <1>1, GenEffect
<1>3. /\ mem' \in [Inst -> Mem] /\ OtherMem(i)
      /\ mem'[i].s = s /\ mem'[i].gen = g + 1 /\ mem'[i].comp = "meta"
  BY <1>1, CompactToEffect
<1>4. TypeOK'
  BY <1>1, <1>2, <1>3 DEF TypeOK
<1>5. OpenAt(i)'
  BY <1>0, <1>1, <1>2, <1>3 DEF OpenAt, Sound
<1>6. s \notin raced => dir'[s].log[mem'[i].gen] = dir[s].log[mem[i].gen]
  BY <1>0, <1>1, <1>2, <1>3 DEF OpenAt
<1> QED BY <1>1, <1>2, <1>3, <1>4, <1>5, <1>6, CompactionStep

\* Both ways to end a compaction remove the files of another generation.
LEMMA EndCompactStep ==
  ASSUME DirsInv, NEW i \in Inst, mem[i] # NoSession, NEW h \in Int, h # mem[i].gen,
         UNCHANGED <<lock, task, todo, offered, up, crashes, used, work, dead, raced, unmoved>>,
         dir' = dir \/ SetsFiles(mem[i].s, dir[mem[i].s].files \ Generation(h)),
         CompactTo(i, "no", mem[i].gen)
  PROVE  DirsInv'
<1> PICK s \in Sess, g \in Gens : s = mem[i].s /\ g = mem[i].gen
  BY OpenFacts
<1>1. TypeOK /\ s # NoOne /\ OpenAt(i)
  BY OpenFacts DEF DirsInv
<1> DEFINE fs == dir[s].files \ Generation(h)
<1>2. /\ fs \in SUBSET Names
      /\ Takes \in dir[s].files => Takes \in fs
      /\ {Meta} \cup Generation(g) \subseteq dir[s].files => {Meta} \cup Generation(g) \subseteq fs
  BY OpenFacts, GenerationsApart DEF Gens
<1> HIDE DEF fs
<1>3. /\ dir' \in [Sess -> Dir] /\ OtherDirs(s)
      /\ dir'[s].files = dir[s].files \/ dir'[s].files = fs
      /\ dir'[s].at = dir[s].at /\ dir'[s].gen = dir[s].gen /\ dir'[s].log = dir[s].log
  <2>1. CASE dir' = dir
    BY <1>1, <2>1 DEF TypeOK, OtherDirs
  <2>2. CASE SetsFiles(s, fs)
    BY <1>1, <1>2, <2>2, FilesEffect
  <2> QED BY <2>1, <2>2 DEF fs
<1>4. /\ mem' \in [Inst -> Mem] /\ OtherMem(i)
      /\ mem'[i].s = s /\ mem'[i].gen = g /\ mem'[i].comp = "no"
  BY <1>1, CompactToEffect
<1>5. TypeOK'
  BY <1>1, <1>3, <1>4 DEF TypeOK
<1>6. OpenAt(i)'
  BY <1>1, <1>2, <1>3, <1>4 DEF OpenAt, Sound
<1> QED BY <1>1, <1>2, <1>3, <1>4, <1>5, <1>6, CompactionStep

LEMMA CompactionKeeps ==
  ASSUME DirsInv, NEW i \in Inst, Compaction(i)
  PROVE  DirsInv'
<1>1. CASE CompactFails(i)
  <2>1. mem[i] # NoSession /\ mem[i].gen \in Gens
    BY <1>1, OpenFacts DEF CompactFails, NoSession
  <2>2. mem[i].gen + 1 \in Int /\ mem[i].gen + 1 # mem[i].gen
    BY <2>1 DEF Gens
  <2>3. dir' = dir \/ SetsFiles(mem[i].s, dir[mem[i].s].files \ Generation(mem[i].gen + 1))
    BY <1>1 DEF CompactFails, SetsFiles
  <2> QED BY <1>1, <2>1, <2>2, <2>3, EndCompactStep DEF CompactFails, ghosts
<1>2. CASE RemoveOld(i)
  <2>1. mem[i] # NoSession /\ mem[i].gen \in Gens
    BY <1>2, OpenFacts DEF RemoveOld, NoSession
  <2>2. mem[i].gen - 1 \in Int /\ mem[i].gen - 1 # mem[i].gen
    BY <2>1 DEF Gens
  <2>3. dir' = dir \/ SetsFiles(mem[i].s, dir[mem[i].s].files \ Generation(mem[i].gen - 1))
    BY <1>2 DEF RemoveOld, SetsFiles
  <2> QED BY <1>2, <2>1, <2>2, <2>3, EndCompactStep DEF RemoveOld, ghosts
<1> QED BY <1>1, <1>2, BeginCompactKeeps, NewJournalKeeps, SwitchMetaKeeps DEF Compaction

-----------------------------------------------------------------------------
(* Closing *)

LEMMA CloseFailsKeeps ==
  ASSUME DirsInv, NEW i \in Inst, CloseFails(i)
  PROVE  DirsInv'
<1>0. mem[i] # NoSession
  BY DEF CloseFails, Free
<1> PICK s \in Sess : s = mem[i].s
  BY <1>0, OpenFacts
<1>1. /\ TypeOK /\ lock[s] = <<i, "session">>
      /\ UNCHANGED <<dir, task, todo, offered, up, crashes, used, work, dead, raced, unmoved>>
  BY <1>0, OpenFacts DEF DirsInv, LockAt, CloseFails, ghosts
<1>2. mem' \in [Inst -> Mem] /\ OtherMem(i) /\ mem'[i] = NoSession
  BY <1>1, BoundsAreNat DEF CloseFails, NoSession, TypeOK, Mem, Gens, OtherMem
<1>3. /\ lock' \in [Sess -> {NoOne} \cup Inst \X {"scan", "user", "session"}]
      /\ lock'[s] = NoOne /\ \A r \in Sess : r # s => lock'[r] = lock[r]
  BY <1>1 DEF CloseFails, TypeOK
<1>4. TypeOK'
  BY <1>1, <1>2, <1>3 DEF TypeOK
<1>5. \A j \in Inst : Rests(j)
  BY <1>1, <1>2 DEF Rests, User, OtherMem
<1>6. ASSUME NEW j \in Inst
      PROVE  LockAt(j)'
  <2>1. /\ LockAt(j) /\ task'[j] = task[j] /\ (mem'[j] = mem[j] \/ mem'[j] = NoSession)
        /\ mem[j].s \in Sess \cup {NoOne} /\ (User(j).pc \in Holding => User(j).s \in Sess)
        /\ task[j]["scan"].pc = "classify" => task[j]["scan"].s \in Sess
    BY <1>1, <1>5 DEF DirsInv, ShapeAt, User, Holding, TypeOK, Mem, Rests
  <2>2. task[j]["scan"].pc = "classify" => lock'[task[j]["scan"].s] = <<j, "scan">>
    BY <1>1, <1>3, <2>1 DEF LockAt
  <2>3. User(j).pc \in Holding => lock'[User(j).s] = <<j, "user">>
    BY <1>1, <1>3, <2>1 DEF LockAt
  <2>4. mem'[j].s # NoOne => lock'[mem'[j].s] = <<j, "session">>
    BY <1>1, <1>2, <1>3, <2>1 DEF LockAt, NoSession, OtherMem
  <2> QED BY <2>1, <2>2, <2>3, <2>4 DEF LockAt, User
<1> QED BY <1>1, <1>3, <1>4, <1>5, <1>6, RestStep

LEMMA CloseKeeps ==
  ASSUME DirsInv, NEW i \in Inst, Close(i)
  PROVE  DirsInv'
<1>0. mem[i] # NoSession
  BY DEF Close
<1> PICK s \in Sess, g \in Gens : s = mem[i].s /\ g = mem[i].gen
  BY <1>0, OpenFacts
<1> DEFINE new == [dir[s].log[g] EXCEPT !.closed = TRUE]
<1>1. /\ TypeOK /\ s # NoOne /\ dir[s] \in Dir /\ dir[s].log \in [Gens -> Log]
      /\ Enter(i, "user", "delete", s, "close")
      /\ dead' = dead \cup {s} /\ work' = work \ {s}
      /\ UNCHANGED <<todo, offered, up, crashes, used, raced, unmoved>>
  BY <1>0, OpenFacts DEF DirsInv, Close
<1>2. /\ dir' \in [Sess -> Dir] /\ OtherDirs(s)
      /\ dir'[s].files = dir[s].files /\ dir'[s].at = dir[s].at /\ dir'[s].gen = dir[s].gen
  <2>1. dir' = [dir EXCEPT ![s].log = [dir[s].log EXCEPT ![g] = new]]
    BY <1>1 DEF Close, TypeOK, Dir
  <2>2. dir[s].log[g] \in Log
    BY <1>1
  <2>3. new \in Log
    BY <2>2 DEF Log
  <2> HIDE DEF new
  <2>4. [dir[s].log EXCEPT ![g] = new] \in [Gens -> Log]
    BY <1>1, <2>3
  <2>5. [dir[s] EXCEPT !.log = [dir[s].log EXCEPT ![g] = new]] \in Dir
    BY <1>1, <2>4 DEF Dir
  <2> QED BY <1>1, <2>1, <2>5 DEF TypeOK, OtherDirs, Dir
<1>3. /\ lock' \in [Sess -> {NoOne} \cup Inst \X {"scan", "user", "session"}]
      /\ lock'[s] = NoOne /\ \A r \in Sess : r # s => lock'[r] = lock[r]
  BY <1>1 DEF Close, TypeOK
<1>4. mem' \in [Inst -> Mem] /\ OtherMem(i) /\ mem'[i] = NoSession
  BY <1>1, BoundsAreNat DEF Close, NoSession, TypeOK, Mem, Gens, OtherMem
<1>5. /\ task' \in [Inst -> [{"scan", "user"} -> Task]] /\ OtherTasks(i, "user")
      /\ User(i)'.pc = "delete" /\ User(i)'.s = s
  <2>1. [pc |-> "delete", s |-> s, for |-> "close"] \in Task
    BY DEF Task
  <2> QED BY <1>1, <2>1, EnterEffect DEF User
<1>6. TypeOK'
  BY <1>1, <1>2, <1>3, <1>4, <1>5 DEF TypeOK
<1>7. /\ Only(i, s) /\ s \in used' /\ Grow /\ lock[s] = <<i, "session">>
      /\ \A r \in Sess : r # s => (r \in work' <=> r \in work)
  <2>1. LockAt(i) /\ UsedAt(i)
    BY DEF DirsInv
  <2> QED BY <1>1, <2>1, OwnerAlone DEF LockAt, UsedAt, Grow
<1>8. CreateAt(i)' /\ OpenAt(i)' /\ RecoverAt(i)'
  BY <1>4, <1>5 DEF CreateAt, OpenAt, RecoverAt, NoSession, Creating
<1>9. DeleteAt(s)' /\ FilesAt(s)' /\ WorkAt(s)'
  BY <1>1, <1>2, <1>3 DEF DirsInv, DeleteAt, FilesAt, Loadable, WorkAt
<1>10. \A j \in Inst, k \in {"scan", "user", "session"} :
         (j # i \/ k = "scan") /\ lock[s] = <<j, k>> => lock'[s] = <<j, k>>
  BY <1>7
<1>11. /\ User(i)'.pc \notin Creating /\ User(i)'.pc \notin Holding /\ mem'[i].s = NoOne
       /\ \A j \in Inst : offered'[j] \subseteq offered[j]
  BY <1>1, <1>4, <1>5 DEF Creating, Holding, NoSession
<1> QED BY <1>2, <1>3, <1>4, <1>5, <1>6, <1>7, <1>8, <1>9, <1>10, <1>11, OwnerStep

-----------------------------------------------------------------------------
(* Creating a session *)

\* A directory with a new id is nobody's.
LEMMA MakeDirKeeps ==
  ASSUME DirsInv, NEW i \in Inst, NEW s \in Sess, MakeDir(i, s)
  PROVE  DirsInv'
<1>1. /\ TypeOK /\ s \notin used /\ dir[s] = NoDir /\ s # NoOne
      /\ dir' = [dir EXCEPT ![s].at = "here"] /\ used' = used \cup {s}
      /\ mem[i] = NoSession
      /\ Enter(i, "user", "made", s, "create")
      /\ UNCHANGED <<lock, mem, todo, offered, up, crashes, work, dead, raced, unmoved>>
  BY NoOneIsNobody DEF DirsInv, MakeDir, FreshAt
<1>2. /\ dir' \in [Sess -> Dir] /\ OtherDirs(s)
      /\ dir'[s].files = {} /\ dir'[s].gen = 0 /\ ~dir'[s].log[0].closed
  BY <1>1, AtEffect, NoDirFacts
<1>3. /\ task' \in [Inst -> [{"scan", "user"} -> Task]] /\ OtherTasks(i, "user")
      /\ User(i)'.pc = "made" /\ User(i)'.s = s
  <2>1. [pc |-> "made", s |-> s, for |-> "create"] \in Task
    BY DEF Task
  <2> QED BY <1>1, <2>1, EnterEffect DEF User
<1>4. TypeOK'
  BY <1>1, <1>2, <1>3 DEF TypeOK
<1>5. Only(i, s) /\ s \in used' /\ Grow /\ s \notin work /\ \A j \in Inst : s \notin offered[j]
  BY <1>1 DEF DirsInv, TypeOK, UsedAt, Only, Grow
<1>6. CreateAt(i)'
  BY <1>1, <1>2, <1>3, <1>5 DEF CreateAt, Pristine
<1>7. OpenAt(i)' /\ RecoverAt(i)'
  BY <1>1, <1>3 DEF OpenAt, RecoverAt, NoSession
<1>8. DeleteAt(s)'
  <2>1. Deleting(s)' => Deleting(s)
    BY <1>3 DEF Deleting, OtherTasks, User
  <2> QED BY <1>1, <1>5, <2>1, DeleteFrame DEF DirsInv
<1>9. FilesAt(s)' /\ WorkAt(s)'
  BY <1>1, <1>2, <1>5 DEF FilesAt, WorkAt
<1>10. User(i)'.pc \notin Holding /\ mem'[i].s = NoOne /\ OtherMem(i)
  BY <1>1, <1>3 DEF Holding, NoSession, OtherMem
<1> QED BY <1>1, <1>2, <1>3, <1>4, <1>5, <1>6, <1>7, <1>8, <1>9, <1>10, OwnerStep

\* What a command that creates a session knows.
LEMMA CreateFacts ==
  ASSUME DirsInv, NEW i \in Inst, User(i).pc \in Creating
  PROVE  /\ User(i).s \in Sess /\ User(i).s \in used /\ User(i).s \notin work
         /\ Only(i, User(i).s) /\ Pristine(User(i).s) /\ mem[i].s # User(i).s
         /\ \A j \in Inst : User(i).s \notin offered[j]
<1>1. User(i).s \in Sess
  BY DEF DirsInv, ShapeAt, Creating, User
<1> QED BY <1>1, OwnerAlone DEF DirsInv, UsedAt, CreateAt, AloneAt, Pristine

LEMMA WriteMetaKeeps ==
  ASSUME DirsInv, NEW i \in Inst, WriteMeta(i)
  PROVE  DirsInv'
<1>0. User(i).pc \in Creating /\ User(i).pc = "locked"
  BY DEF WriteMeta, User, Creating
<1> PICK s \in Sess : s = User(i).s
  BY <1>0, CreateFacts
<1>1. /\ TypeOK /\ dir[s].at = "here" /\ SetsFiles(s, {Meta}) /\ Goto(i, "user", "begun")
      /\ UNCHANGED <<lock, mem, todo, offered, up, crashes, used, work, dead, raced, unmoved>>
  BY DEF DirsInv, WriteMeta, SetsFiles, ghosts, User
<1>2. /\ dir' \in [Sess -> Dir] /\ OtherDirs(s)
      /\ dir'[s].files = {Meta} /\ dir'[s].at = "here"
      /\ dir'[s].gen = dir[s].gen /\ dir'[s].log = dir[s].log
  <2>1. {Meta} \in SUBSET Names
    BY DEF Meta, Names
  <2> QED BY <1>1, <2>1, FilesEffect
<1>3. /\ task' \in [Inst -> [{"scan", "user"} -> Task]] /\ OtherTasks(i, "user")
      /\ User(i)'.pc = "begun" /\ User(i)'.s = s
  BY <1>1, GotoEffect DEF User
<1>4. TypeOK'
  BY <1>1, <1>2, <1>3 DEF TypeOK
<1>5. /\ Only(i, s) /\ s \in used' /\ Grow /\ s \notin work /\ Pristine(s) /\ mem[i].s # s
      /\ \A j \in Inst : s \notin offered[j]
  BY <1>0, <1>1, CreateFacts DEF Grow
<1>6. CreateAt(i)'
  BY <1>1, <1>2, <1>3, <1>5 DEF CreateAt, Pristine
<1>7. RecoverAt(i)'
  BY <1>3 DEF RecoverAt
<1>8. OpenAt(i)'
  <2>1. mem[i].s \in Sess \cup {NoOne}
    BY <1>1 DEF TypeOK, Mem
  <2> QED BY <1>1, <1>2, <1>5, <2>1 DEF DirsInv, OpenAt, Sound, OtherDirs
<1>9. DeleteAt(s)'
  <2>1. Deleting(s)' => Deleting(s)
    BY <1>3 DEF Deleting, OtherTasks, User
  <2> QED BY <1>1, <1>5, <2>1, DeleteFrame DEF DirsInv
<1>10. FilesAt(s)' /\ WorkAt(s)'
  BY <1>1, <1>2, <1>5 DEF FilesAt, WorkAt
<1>11. /\ lock'[s] = <<i, "user">> /\ OtherMem(i)
       /\ mem'[i].s # NoOne => lock'[mem'[i].s] = <<i, "session">>
  BY <1>0, <1>1 DEF DirsInv, LockAt, Holding, OtherMem
<1> QED BY <1>1, <1>2, <1>3, <1>4, <1>5, <1>6, <1>7, <1>8, <1>9, <1>10, <1>11, OwnerStep

LEMMA StartJournalKeeps ==
  ASSUME DirsInv, NEW i \in Inst, StartJournal(i)
  PROVE  DirsInv'
<1>0. User(i).pc \in Creating /\ User(i).pc = "begun"
  BY DEF StartJournal, User, Creating
<1> PICK s \in Sess : s = User(i).s
  BY <1>0, CreateFacts
<1> DEFINE fs == dir[s].files \cup Generation(0)
<1>1. /\ TypeOK /\ dir[s].at = "here" /\ SetsFiles(s, fs) /\ Finish(i, "user")
      /\ mem' = [mem EXCEPT ![i] = [s |-> s, gen |-> 0, comp |-> "no"]]
      /\ lock' = [lock EXCEPT ![s] = <<i, "session">>]
      /\ UNCHANGED <<todo, offered, up, crashes, used, work, dead, raced, unmoved>>
  BY DEF DirsInv, StartJournal, SetsFiles, ghosts, User
<1>2. fs \in SUBSET Names
  BY <1>1, BoundsAreNat DEF TypeOK, Dir, Generation, Names, Gens
<1>3. /\ dir' \in [Sess -> Dir] /\ OtherDirs(s)
      /\ dir'[s].files = fs /\ dir'[s].at = "here"
      /\ dir'[s].gen = dir[s].gen /\ dir'[s].log = dir[s].log
  <2> HIDE DEF fs
  <2> QED BY <1>1, <1>2, FilesEffect
<1>4. /\ task' \in [Inst -> [{"scan", "user"} -> Task]] /\ OtherTasks(i, "user")
      /\ User(i)'.pc \in {"idle", "next"}
  BY <1>1, FinishEffect DEF User
<1>5. /\ mem' \in [Inst -> Mem] /\ OtherMem(i)
      /\ mem'[i].s = s /\ mem'[i].gen = 0 /\ mem'[i].comp = "no"
  BY <1>1, BoundsAreNat DEF TypeOK, Mem, Gens, OtherMem
<1>6. /\ lock' \in [Sess -> {NoOne} \cup Inst \X {"scan", "user", "session"}]
      /\ lock'[s] = <<i, "session">> /\ \A r \in Sess : r # s => lock'[r] = lock[r]
  BY <1>1 DEF TypeOK
<1>7. TypeOK'
  BY <1>1, <1>3, <1>4, <1>5, <1>6 DEF TypeOK
<1>8. /\ Only(i, s) /\ s \in used' /\ Grow /\ s \notin work /\ Pristine(s)
      /\ lock[s] = <<i, "user">>
  BY <1>0, <1>1, CreateFacts DEF DirsInv, LockAt, Grow, Holding
<1>9. OpenAt(i)'
  <2>1. s \notin raced => ~dir'[s].log[0].closed
    BY <1>3, <1>8 DEF Pristine
  <2>2. Sound(s)' => Meta \in dir'[s].files
    BY <1>0, <1>1, <1>3 DEF DirsInv, CreateAt, Sound
  <2>3. dir'[s].gen = 0 /\ Generation(0) \subseteq dir'[s].files
    BY <1>3, <1>8 DEF Pristine
  <2> QED BY <1>1, <1>3, <1>5, <2>1, <2>2, <2>3 DEF OpenAt
<1>10. FilesAt(s)'
  BY <1>5, <1>9, NoOneIsNobody DEF OpenAt, FilesAt, Sound, Loadable
<1>11. WorkAt(s)'
  BY <1>1, <1>8 DEF WorkAt
<1>12. DeleteAt(s)'
  <2>1. Deleting(s)' => Deleting(s)
    BY <1>4 DEF Deleting, OtherTasks, User
  <2>2. <<i, "user">> # NoOne /\ <<i, "user">>[2] # "scan"
    BY NoOneIsNobody
  <2> QED BY <1>1, <1>8, <2>1, <2>2 DEF DirsInv, DeleteAt
<1>13. CreateAt(i)' /\ RecoverAt(i)'
  BY <1>4 DEF CreateAt, RecoverAt, Creating
<1>14. /\ User(i)'.pc \notin Creating /\ User(i)'.pc \notin Holding
       /\ \A j \in Inst, k \in {"scan", "user", "session"} :
            (j # i \/ k = "scan") /\ lock[s] = <<j, k>> => lock'[s] = <<j, k>>
  BY <1>4, <1>8 DEF Creating, Holding
<1> HIDE DEF fs
<1> QED BY <1>1, <1>3, <1>4, <1>5, <1>6, <1>7, <1>8, <1>9, <1>10, <1>11, <1>12, <1>13, <1>14,
        OwnerStep

\* The creator's command is over and its directory, if it was there, is gone.
LEMMA CreateGoneStep ==
  ASSUME DirsInv, NEW i \in Inst, NEW s \in Sess, s = User(i).s, User(i).pc \in Creating,
         Finish(i, "user"), dir' = dir \/ dir' = [dir EXCEPT ![s] = NoDir],
         lock' = lock \/ (lock[s] = <<i, "user">> /\ lock' = [lock EXCEPT ![s] = NoOne]),
         UNCHANGED <<mem, todo, offered, up, crashes, used, work, dead, raced, unmoved>>
  PROVE  DirsInv'
<1>1. TypeOK
  BY DEF DirsInv
<1>2. /\ dir' \in [Sess -> Dir] /\ OtherDirs(s)
      /\ dir' = dir \/ dir'[s] = NoDir
  BY <1>1, NoDirEffect DEF TypeOK, OtherDirs
<1>3. /\ task' \in [Inst -> [{"scan", "user"} -> Task]] /\ OtherTasks(i, "user")
      /\ User(i)'.pc \in {"idle", "next"}
  BY <1>1, FinishEffect DEF User
<1>4. /\ lock' \in [Sess -> {NoOne} \cup Inst \X {"scan", "user", "session"}]
      /\ lock'[s] = lock[s] \/ (lock'[s] = NoOne /\ lock[s] = <<i, "user">>)
      /\ \A r \in Sess : r # s => lock'[r] = lock[r]
  BY <1>1 DEF TypeOK
<1>5. TypeOK'
  BY <1>1, <1>2, <1>3, <1>4 DEF TypeOK
<1>6. /\ Only(i, s) /\ s \in used' /\ Grow /\ s \notin work /\ mem[i].s # s
      /\ OtherMem(i)
  BY CreateFacts DEF Grow, OtherMem
<1>7. CreateAt(i)' /\ RecoverAt(i)'
  BY <1>3 DEF CreateAt, RecoverAt, Creating
<1>8. OpenAt(i)'
  <2>1. mem[i].s \in Sess \cup {NoOne}
    BY <1>1 DEF TypeOK, Mem
  <2> QED BY <1>2, <1>6, <2>1 DEF DirsInv, OpenAt, Sound, OtherDirs
<1>9. DeleteAt(s)'
  <2>1. Deleting(s)' => Deleting(s)
    BY <1>3 DEF Deleting, OtherTasks, User
  <2> QED BY <1>4, <1>6, <2>1, DeleteFrame DEF DirsInv
<1>10. FilesAt(s)' /\ WorkAt(s)'
  BY <1>2, <1>6, NoDirFacts DEF DirsInv, FilesAt, WorkAt, Loadable
<1>11. /\ User(i)'.pc \notin Creating /\ User(i)'.pc \notin Holding
       /\ mem'[i].s # NoOne => lock'[mem'[i].s] = <<i, "session">>
       /\ \A j \in Inst, k \in {"scan", "user", "session"} :
            (j # i \/ k = "scan") /\ lock[s] = <<j, k>> => lock'[s] = <<j, k>>
  <2>1. mem[i].s \in Sess \cup {NoOne} /\ LockAt(i)
    BY <1>1 DEF DirsInv, TypeOK, Mem
  <2> QED BY <1>3, <1>4, <1>6, <2>1 DEF Creating, Holding, LockAt
<1> QED BY <1>2, <1>3, <1>4, <1>5, <1>6, <1>7, <1>8, <1>9, <1>10, <1>11, OwnerStep

LEMMA CreateFailsKeeps ==
  ASSUME DirsInv, NEW i \in Inst, CreateFails(i)
  PROVE  DirsInv'
<1>0. User(i).pc \in Creating /\ User(i).pc \in Holding
  BY DEF CreateFails, User, Creating, Holding
<1> PICK s \in Sess : s = User(i).s
  BY <1>0, CreateFacts
<1>1. lock[s] = <<i, "user">>
  BY <1>0 DEF DirsInv, LockAt
<1>2. /\ Finish(i, "user") /\ lock' = [lock EXCEPT ![s] = NoOne]
      /\ dir' = dir \/ dir' = [dir EXCEPT ![s] = NoDir]
      /\ UNCHANGED <<mem, todo, offered, up, crashes, used, work, dead, raced, unmoved>>
  BY DEF CreateFails, ghosts, User
<1> QED BY <1>0, <1>1, <1>2, CreateGoneStep

\* Whoever takes the lock of a session as a document notes it when its deletion
\* was decided.
LEMMA NoteRaceFacts ==
  ASSUME TypeOK, NEW s \in Sess, NoteRace(s)
  PROVE  /\ raced \subseteq raced' /\ raced' \subseteq Sess
         /\ s \notin raced' => ~Deleting(s) /\ ~dir[s].log[dir[s].gen].closed
BY DEF NoteRace, Doomed, TypeOK

LEMMA LockNewKeeps ==
  ASSUME DirsInv, NEW i \in Inst, LockNew(i)
  PROVE  DirsInv'
<1>0. User(i).pc \in Creating /\ User(i).pc = "made"
  BY DEF LockNew, User, Creating
<1> PICK s \in Sess : s = User(i).s
  BY <1>0, CreateFacts
<1>1. TypeOK /\ UNCHANGED <<mem, todo, offered, up, crashes, used, work, unmoved>>
  BY DEF DirsInv, LockNew
<1>2. CASE /\ dir[s].at = "here" /\ lock[s] = NoOne
           /\ lock' = [lock EXCEPT ![s] = <<i, "user">>]
           /\ NoteRace(s) /\ dead' = dead \ {s}
           /\ Goto(i, "user", "locked") /\ UNCHANGED dir
  <2>1. /\ task' \in [Inst -> [{"scan", "user"} -> Task]] /\ OtherTasks(i, "user")
        /\ User(i)'.pc = "locked" /\ User(i)'.s = s
    BY <1>1, <1>2, GotoEffect DEF User
  <2>2. /\ lock' \in [Sess -> {NoOne} \cup Inst \X {"scan", "user", "session"}]
        /\ lock'[s] = <<i, "user">> /\ \A r \in Sess : r # s => lock'[r] = lock[r]
    BY <1>1, <1>2 DEF TypeOK
  <2>3. /\ raced \subseteq raced' /\ raced' \subseteq Sess
        /\ s \notin raced' => ~Deleting(s)
    BY <1>1, <1>2, NoteRaceFacts
  <2>4. TypeOK'
    BY <1>1, <1>2, <2>1, <2>2, <2>3 DEF TypeOK
  <2>5. /\ Only(i, s) /\ s \in used' /\ Grow /\ s \notin work /\ Pristine(s)
        /\ mem'[i].s # s /\ \A j \in Inst : s \notin offered[j]
        /\ OtherMem(i) /\ OtherDirs(s)
    BY <1>0, <1>1, <1>2, <2>3, CreateFacts DEF Grow, OtherMem, OtherDirs
  <2>6. CreateAt(i)' /\ RecoverAt(i)'
    BY <1>1, <1>2, <2>1, <2>5 DEF CreateAt, RecoverAt, Pristine
  <2>7. OpenAt(i)'
    BY <1>1, <1>2, <2>5 DEF DirsInv, OpenAt, Sound, Grow
  <2>8. DeleteAt(s)'
    <3>1. Deleting(s)' => Deleting(s)
      BY <2>1 DEF Deleting, OtherTasks, User
    <3> QED BY <2>3, <3>1 DEF DeleteAt
  <2>9. FilesAt(s)' /\ WorkAt(s)'
    BY <1>1, <1>2, <2>5 DEF DirsInv, FilesAt, WorkAt, Loadable
  <2>10. /\ mem'[i].s # NoOne => lock'[mem'[i].s] = <<i, "session">>
         /\ \A j \in Inst, k \in {"scan", "user", "session"} : lock[s] # <<j, k>>
    <3>1. mem[i].s \in Sess \cup {NoOne} /\ LockAt(i)
      BY <1>1 DEF DirsInv, TypeOK, Mem
    <3> QED BY <1>1, <1>2, <2>2, <2>5, <3>1, NoOneIsNobody DEF LockAt
  <2> QED BY <1>1, <2>1, <2>2, <2>4, <2>5, <2>6, <2>7, <2>8, <2>9, <2>10, OwnerStep
<1>3. CASE /\ Finish(i, "user") /\ UNCHANGED <<lock, dead, raced>>
           /\ dir' = dir \/ dir' = [dir EXCEPT ![s] = NoDir]
  BY <1>0, <1>1, <1>3, CreateGoneStep
<1> QED BY <1>2, <1>3 DEF LockNew, User

-----------------------------------------------------------------------------
(* The recovery dialog *)

LEMMA DiscardKeeps ==
  ASSUME DirsInv, NEW i \in Inst, NEW s \in Sess, Discard(i, s)
  PROVE  DirsInv'
<1>1. /\ TypeOK /\ User(i).pc = "idle" /\ lock[s] = NoOne /\ s \in used
      /\ offered' = [offered EXCEPT ![i] = @ \ {s}] /\ work' = work \ {s}
      /\ Enter(i, "user", "delete", s, "discard")
      /\ UNCHANGED <<dir, lock, mem, todo, up, crashes, used, dead, raced, unmoved>>
  BY DEF DirsInv, Discard, IdleUser, Idle, User, UsedAt
<1>2. /\ task' \in [Inst -> [{"scan", "user"} -> Task]] /\ OtherTasks(i, "user")
      /\ User(i)'.pc = "delete" /\ User(i)'.s = s
  <2>1. [pc |-> "delete", s |-> s, for |-> "discard"] \in Task
    BY DEF Task
  <2> QED BY <1>1, <2>1, EnterEffect DEF User
<1>3. offered' \in [Inst -> SUBSET Sess] /\ \A j \in Inst : offered'[j] \subseteq offered[j]
  BY <1>1 DEF TypeOK
<1>4. TypeOK'
  BY <1>1, <1>2, <1>3 DEF TypeOK
<1>5. Only(i, s)
  <2>1. ASSUME NEW j \in Inst
        PROVE  /\ mem[j].s # s
               /\ User(j).pc \in Creating \cup {"opening"} => User(j).s # s
    <3>1. /\ LockAt(j) /\ AloneAt(j, i)
          /\ s \in offered[i] /\ s # NoOne /\ \A k \in {"user", "session"} : lock[s] # <<j, k>>
      BY <1>1, NoOneIsNobody DEF DirsInv, Discard
    <3> QED BY <3>1 DEF LockAt, AloneAt, Holding
  <2> QED BY <2>1 DEF Only
<1>6. Grow /\ s \in used' /\ OtherDirs(s) /\ OtherMem(i)
  BY <1>1 DEF Grow, OtherDirs, OtherMem
<1>7. CreateAt(i)' /\ RecoverAt(i)'
  BY <1>2 DEF CreateAt, RecoverAt, Creating
<1>8. OpenAt(i)'
  BY <1>1 DEF DirsInv, OpenAt, Sound
<1>9. DeleteAt(s)' /\ FilesAt(s)' /\ WorkAt(s)'
  BY <1>1 DEF DirsInv, DeleteAt, FilesAt, WorkAt, Loadable
<1>10. /\ User(i)'.pc \notin Creating /\ User(i)'.pc \notin Holding
       /\ mem'[i].s # NoOne => lock'[mem'[i].s] = <<i, "session">>
  BY <1>1, <1>2 DEF DirsInv, LockAt, Creating, Holding
<1> QED BY <1>1, <1>2, <1>3, <1>4, <1>5, <1>6, <1>7, <1>8, <1>9, <1>10, OwnerStep

LEMMA RecoverLockKeeps ==
  ASSUME DirsInv, NEW i \in Inst, NEW s \in Sess, RecoverLock(i, s)
  PROVE  DirsInv'
<1>1. /\ TypeOK /\ mem[i] = NoSession /\ lock[s] = NoOne /\ s \in used
      /\ lock' = [lock EXCEPT ![s] = <<i, "user">>] /\ NoteRace(s)
      /\ Enter(i, "user", "opening", s, "recover")
      /\ UNCHANGED <<dir, mem, todo, offered, up, crashes, used, work, dead, unmoved>>
  BY DEF DirsInv, RecoverLock, UsedAt
<1>2. /\ task' \in [Inst -> [{"scan", "user"} -> Task]] /\ OtherTasks(i, "user")
      /\ User(i)'.pc = "opening" /\ User(i)'.s = s
  <2>1. [pc |-> "opening", s |-> s, for |-> "recover"] \in Task
    BY DEF Task
  <2> QED BY <1>1, <2>1, EnterEffect DEF User
<1>3. /\ lock' \in [Sess -> {NoOne} \cup Inst \X {"scan", "user", "session"}]
      /\ lock'[s] = <<i, "user">> /\ \A r \in Sess : r # s => lock'[r] = lock[r]
  BY <1>1 DEF TypeOK
<1>4. /\ raced \subseteq raced' /\ raced' \subseteq Sess
      /\ s \notin raced' => ~Deleting(s) /\ ~dir[s].log[dir[s].gen].closed
  BY <1>1, NoteRaceFacts
<1>5. TypeOK'
  BY <1>1, <1>2, <1>3, <1>4 DEF TypeOK
<1>6. Only(i, s)
  <2>1. ASSUME NEW j \in Inst
        PROVE  /\ mem[j].s # s
               /\ User(j).pc \in Creating \cup {"opening"} => User(j).s # s
    <3>1. /\ LockAt(j) /\ AloneAt(j, i)
          /\ s \in offered[i] /\ s # NoOne /\ \A k \in {"user", "session"} : lock[s] # <<j, k>>
      BY <1>1, NoOneIsNobody DEF DirsInv, RecoverLock
    <3> QED BY <3>1 DEF LockAt, AloneAt, Holding
  <2> QED BY <2>1 DEF Only
<1>7. Grow /\ s \in used' /\ OtherDirs(s) /\ OtherMem(i)
  BY <1>1, <1>4 DEF Grow, OtherDirs, OtherMem
<1>8. CreateAt(i)' /\ OpenAt(i)' /\ RecoverAt(i)'
  BY <1>1, <1>2, <1>4 DEF CreateAt, OpenAt, RecoverAt, Creating, NoSession
<1>9. DeleteAt(s)'
  <2>1. Deleting(s)' => Deleting(s)
    BY <1>2 DEF Deleting, OtherTasks, User
  <2> QED BY <1>4, <2>1 DEF DeleteAt
<1>10. FilesAt(s)' /\ WorkAt(s)'
  BY <1>1, <1>7, FilesFrame, WorkFrame DEF DirsInv
<1>11. /\ User(i)'.pc \notin Creating /\ mem'[i].s = NoOne
       /\ \A j \in Inst, k \in {"scan", "user", "session"} : lock[s] # <<j, k>>
  BY <1>1, <1>2, NoOneIsNobody DEF Creating, NoSession
<1> QED BY <1>1, <1>2, <1>3, <1>5, <1>6, <1>7, <1>8, <1>9, <1>10, <1>11, OwnerStep

LEMMA RecoverKeeps ==
  ASSUME DirsInv, NEW i \in Inst, Recover(i)
  PROVE  DirsInv'
<1>0. /\ User(i).pc = "opening" /\ User(i).s \in Sess
      /\ User(i).pc \in Holding /\ User(i).pc \in Creating \cup {"opening"}
  BY DEF DirsInv, Recover, ShapeAt, User, Holding
<1> PICK s \in Sess : s = User(i).s
  BY <1>0
<1>1. /\ TypeOK /\ lock[s] = <<i, "user">> /\ s \in used /\ Only(i, s) /\ s # NoOne
      /\ offered' = [offered EXCEPT ![i] = @ \ {s}] /\ Finish(i, "user")
      /\ UNCHANGED <<todo, up, crashes, used, raced, unmoved>>
  BY <1>0, OwnerAlone, NoOneIsNobody DEF DirsInv, Recover, LockAt, UsedAt, User
<1>2. /\ task' \in [Inst -> [{"scan", "user"} -> Task]] /\ OtherTasks(i, "user")
      /\ User(i)'.pc \in {"idle", "next"}
  BY <1>1, FinishEffect DEF User
<1>3. offered' \in [Inst -> SUBSET Sess] /\ \A j \in Inst : offered'[j] \subseteq offered[j]
  BY <1>1 DEF TypeOK
<1>4. CreateAt(i)' /\ RecoverAt(i)'
  BY <1>2 DEF CreateAt, RecoverAt, Creating
<1>5. User(i)'.pc \notin Creating /\ User(i)'.pc \notin Holding /\ s \in used' /\ Grow
  BY <1>1, <1>2 DEF Creating, Holding, Grow
<1>6. Deleting(s)' => Deleting(s)
  BY <1>2 DEF Deleting, OtherTasks, User
<1>7. CASE /\ lock' = [lock EXCEPT ![s] = NoOne] /\ UNCHANGED <<dir, mem, work, dead>>
  <2>1. /\ lock' \in [Sess -> {NoOne} \cup Inst \X {"scan", "user", "session"}]
        /\ lock'[s] = NoOne /\ \A r \in Sess : r # s => lock'[r] = lock[r]
    BY <1>1, <1>7 DEF TypeOK
  <2>2. TypeOK'
    BY <1>1, <1>2, <1>3, <1>7, <2>1 DEF TypeOK
  <2>3. OtherMem(i) /\ OtherDirs(s)
    BY <1>7 DEF OtherMem, OtherDirs
  <2>4. OpenAt(i)' /\ DeleteAt(s)' /\ FilesAt(s)' /\ WorkAt(s)'
    <3>1. OpenAt(i)'
      BY <1>1, <1>7 DEF DirsInv, OpenAt, Sound
    <3> QED BY <1>1, <1>5, <1>6, <1>7, <2>1, <3>1, DeleteFrame, FilesFrame, WorkFrame DEF DirsInv
  <2>5. mem'[i].s # NoOne => lock'[mem'[i].s] = <<i, "session">>
    <3>1. mem[i].s \in Sess \cup {NoOne} /\ LockAt(i)
      BY <1>1 DEF DirsInv, TypeOK, Mem
    <3> QED BY <1>1, <1>7, <2>1, <3>1 DEF LockAt
  <2> QED BY <1>1, <1>2, <1>3, <1>4, <1>5, <1>7, <2>1, <2>2, <2>3, <2>4, <2>5, OwnerStep
<1>8. CASE Loadable(dir[s])
  <2> PICK g \in Gens : g = dir[s].gen
    BY <1>1 DEF TypeOK, Dir
  <2>0. PICK keep \in BOOLEAN :
        LET unsaved == dir[s].log[g].unsaved \/ keep IN
        /\ dir' = [dir EXCEPT
             ![s].files = dir[s].files \cap ({Meta, Takes} \cup Generation(g)),
             ![s].log[g] = [dir[s].log[g] EXCEPT !.unsaved = unsaved, !.open = FALSE]]
        /\ work' = IF unsaved THEN work \cup {s} ELSE work \ {s}
        /\ dead' = dead \ {s}
        /\ mem' = [mem EXCEPT ![i] = [s |-> s, gen |-> g, comp |-> "no"]]
        /\ lock' = [lock EXCEPT ![s] = <<i, "session">>]
    BY <1>8 DEF Recover, User
  <2> DEFINE fs  == dir[s].files \cap ({Meta, Takes} \cup Generation(g))
             new == [dir[s].log[g] EXCEPT !.unsaved = dir[s].log[g].unsaved \/ keep,
                                          !.open = FALSE]
  <2>1. /\ dir[s] \in Dir /\ dir[s].log \in [Gens -> Log] /\ dir[s].log[g] \in Log
        /\ fs \in SUBSET Names
    BY <1>1 DEF TypeOK, Dir
  <2>2. AlsoLog(s, g, new, fs)
    BY <2>0 DEF AlsoLog
  <2>3. /\ new \in Log /\ new.closed = dir[s].log[g].closed
        /\ new.unsaved = (dir[s].log[g].unsaved \/ keep)
    BY <2>1 DEF Log
  <2> HIDE DEF new, fs
  <2>4. /\ dir' \in [Sess -> Dir] /\ OtherDirs(s)
        /\ dir'[s].files = fs /\ dir'[s].at = dir[s].at /\ dir'[s].gen = g
        /\ dir'[s].log[g] = new
    BY <1>1, <2>1, <2>2, <2>3, AlsoLogEffect
  <2>5. /\ lock' \in [Sess -> {NoOne} \cup Inst \X {"scan", "user", "session"}]
        /\ lock'[s] = <<i, "session">> /\ \A r \in Sess : r # s => lock'[r] = lock[r]
    BY <1>1, <2>0 DEF TypeOK
  <2>6. /\ mem' \in [Inst -> Mem] /\ OtherMem(i)
        /\ mem'[i].s = s /\ mem'[i].gen = g /\ mem'[i].comp = "no"
    BY <1>1, <2>0 DEF TypeOK, Mem, OtherMem
  <2>7. TypeOK' /\ \A r \in Sess : r # s => (r \in work' <=> r \in work)
    <3>1. work' \in {work \cup {s}, work \ {s}} /\ dead' = dead \ {s}
      BY <2>0
    <3> QED BY <1>1, <1>2, <1>3, <2>4, <2>5, <2>6, <3>1 DEF TypeOK
  <2>8. {Meta} \cup Generation(g) \subseteq fs /\ dir[s].at = "here"
    BY <1>8 DEF Loadable, fs
  <2>9. s \notin raced => ~new.closed
    BY <1>0, <2>3 DEF DirsInv, RecoverAt
  <2>10. OpenAt(i)'
    BY <1>1, <2>4, <2>6, <2>8, <2>9 DEF OpenAt
  <2>11. FilesAt(s)'
    BY <2>4, <2>8 DEF FilesAt, Loadable
  <2>12. WorkAt(s)'
    <3>1. Meta \in dir'[s].files /\ <<"journal", g>> \in dir'[s].files
      BY <2>4, <2>8 DEF Generation
    <3>2. s \in work' => new.unsaved
      BY <2>0, <2>3
    <3> QED BY <1>1, <2>4, <2>8, <2>9, <3>1, <3>2
            DEF WorkAt, Kept, Recoverable, Loadable, MetaGen
  <2>13. DeleteAt(s)'
    <3>1. <<i, "user">> # NoOne /\ <<i, "user">>[2] # "scan"
      BY NoOneIsNobody
    <3> QED BY <1>1, <1>6, <3>1 DEF DirsInv, DeleteAt
  <2>14. \A j \in Inst, k \in {"scan", "user", "session"} :
           (j # i \/ k = "scan") /\ lock[s] = <<j, k>> => lock'[s] = <<j, k>>
    BY <1>1
  <2> QED BY <1>1, <1>2, <1>3, <1>4, <1>5, <2>4, <2>5, <2>6, <2>7, <2>10, <2>11, <2>12, <2>13,
          <2>14, OwnerStep
<1> QED BY <1>7, <1>8 DEF Recover, User

-----------------------------------------------------------------------------
(* The invariant, and what follows from it *)

LEMMA DirsInvInit == Init => DirsInv
<1> SUFFICES ASSUME Init PROVE DirsInv
  OBVIOUS
<1>1. /\ dir \in [Sess -> Dir] /\ \A s \in Sess : dir[s] = NoDir
      /\ used = {} /\ work = {} /\ raced = {} /\ unmoved = {}
      /\ \A i \in Inst : offered[i] = {}
      /\ \A s \in Sess : lock[s] = NoOne
  BY NoDirFacts DEF Init
<1>2. /\ mem \in [Inst -> Mem] /\ \A i \in Inst : mem[i] = NoSession
  BY BoundsAreNat DEF Init, NoSession, Mem, Gens
<1>3. /\ task \in [Inst -> [{"scan", "user"} -> Task]]
      /\ \A i \in Inst, t \in {"scan", "user"} : task[i][t] = Idle
  <2>1. task = [i \in Inst |-> [scan |-> Idle, user |-> Idle]] /\ Idle \in Task
    BY DEF Init, Idle, Task
  <2> QED BY <2>1
<1>4. TypeOK
  BY <1>1, <1>2, <1>3, BoundsAreNat DEF Init, TypeOK
<1>5. ASSUME NEW i \in Inst
      PROVE  /\ ShapeAt(i) /\ LockAt(i) /\ UsedAt(i)
             /\ CreateAt(i) /\ OpenAt(i) /\ RecoverAt(i)
  <2>1. User(i) = Idle /\ task[i]["scan"] = Idle /\ task[i]["user"] = Idle
    BY <1>3 DEF User
  <2>2. ShapeAt(i) /\ LockAt(i) /\ UsedAt(i)
    BY <1>1, <1>2, <2>1 DEF ShapeAt, LockAt, UsedAt, Idle, NoSession, Creating, Holding
  <2>3. CreateAt(i) /\ OpenAt(i) /\ RecoverAt(i)
    BY <1>1, <1>2, <2>1 DEF CreateAt, OpenAt, RecoverAt, Idle, NoSession, Creating
  <2> QED BY <2>2, <2>3
<1>6. ASSUME NEW i \in Inst, NEW j \in Inst
      PROVE  AloneAt(i, j)
  BY <1>3 DEF AloneAt, User, Idle, Creating
<1>7. ASSUME NEW s \in Sess
      PROVE  DeleteAt(s) /\ FilesAt(s) /\ FreshAt(s) /\ WorkAt(s)
  BY <1>1, NoDirFacts DEF DeleteAt, FilesAt, FreshAt, WorkAt
<1> QED BY <1>4, <1>5, <1>6, <1>7 DEF DirsInv

LEMMA DeleteKeeps ==
  ASSUME DirsInv, NEW i \in Inst, NEW t \in {"scan", "user"}, Delete(i, t)
  PROVE  DirsInv'
BY MoveAsideKeeps, RemoveTombKeeps, EmptyKeeps DEF Delete

LEMMA DirsInvNext == DirsInv /\ [Next]_vars => DirsInv'
<1> SUFFICES ASSUME DirsInv, [Next]_vars PROVE DirsInv'
  OBVIOUS
<1>1. CASE UNCHANGED vars
  <2>1. UNCHANGED <<dir, lock, mem, task, offered, used, work, raced, unmoved>> /\ TypeOK'
    BY <1>1 DEF DirsInv, TypeOK, vars, ghosts
  <2>2. \A j \in Inst : Rests(j) /\ LockAt(j)'
    BY <2>1, LockFrame DEF DirsInv, Rests, User
  <2> QED BY <2>1, <2>2, RestStep
<1>2. CASE Next
  <2> PICK i \in Inst : Start(i) \/ Crash(i) \/ Scan(i) \/ Command(i)
                        \/ Request(i) \/ Document(i) \/ Compaction(i)
    BY <1>2 DEF Next
  <2>1. CASE Start(i)
    BY <2>1, StartKeeps
  <2>2. CASE Crash(i)
    BY <2>2, CrashKeeps
  <2>3. CASE Scan(i)
    <3>1. ASSUME NEW s \in Sess, ScanTomb(i, s) \/ ScanDir(i, s)
          PROVE  DirsInv'
      BY <3>1, ScanTombKeeps, ScanDirKeeps
    <3> QED BY <2>3, <3>1, ClassifyKeeps, ScanEndKeeps, DeleteKeeps DEF Scan
  <2>4. CASE Command(i)
    BY <2>4, LockNewKeeps, WriteMetaKeeps, StartJournalKeeps, CreateFailsKeeps, RecoverKeeps,
       DeleteKeeps DEF Command
  <2>5. CASE Request(i)
    <3>1. ASSUME NEW s \in Sess, MakeDir(i, s) \/ Discard(i, s) \/ RecoverLock(i, s)
          PROVE  DirsInv'
      BY <3>1, MakeDirKeeps, DiscardKeeps, RecoverLockKeeps
    <3> QED BY <2>5, <3>1, ScanStartKeeps DEF Request
  <2>6. CASE Document(i)
    BY <2>6, DocumentKeeps, CloseKeeps, CloseFailsKeeps DEF Document
  <2>7. CASE Compaction(i)
    BY <2>7, CompactionKeeps
  <2> QED BY <2>1, <2>2, <2>3, <2>4, <2>5, <2>6, <2>7
<1> QED BY <1>1, <1>2

LEMMA DirsInvHolds == Spec => []DirsInv
BY DirsInvInit, DirsInvNext, PTL DEF Spec

\* The shapes of directories, locks and tasks: whatever runs, crashes and starts
\* again, a lock has one holder and a generation stays in its range.
THEOREM DirsTypeCorrect == Spec => []TypeOK
<1>1. DirsInv => TypeOK
  BY DEF DirsInv
<1> QED BY <1>1, DirsInvHolds, PTL

\* However many instances create, recover, compact, close, discard, scan and crash,
\* the changes that nobody saved or gave up are on disk, found by a scan and
\* loadable by Session::recover, but for a session that somebody opened between
\* the decision to delete it and its move, or after it was closed.
THEOREM DirsOnlyRacesLoseWork == Spec => []OnlyRacesLoseWork
<1>1. DirsInv => OnlyRacesLoseWork
  BY DEF DirsInv, TypeOK, WorkAt, OnlyRacesLoseWork
<1> QED BY <1>1, DirsInvHolds, PTL

\* What classify_session calls recoverable has the files that Session::recover
\* needs, at every point of a creation, a compaction, a deletion by a move and a
\* crash in them.
THEOREM DirsOfferedLoads == Spec => []OfferedLoads
<1>1. ASSUME DirsInv, NEW s \in Sess \ unmoved, Recoverable(dir[s])
      PROVE  Loadable(dir[s])
  <2>1. FilesAt(s) /\ dir[s].at = "here"
    BY <1>1 DEF DirsInv, Recoverable
  <2>2. ~(dir[s].files \subseteq {Meta})
    BY <1>1 DEF Recoverable, Meta, Takes
  <2> QED BY <2>1, <2>2 DEF FilesAt
<1>2. DirsInv => OfferedLoads
  BY <1>1 DEF OfferedLoads
<1> QED BY <1>2, DirsInvHolds, PTL

=============================================================================
