---------------------------- MODULE SessionDirs ----------------------------
(***************************************************************************)
(* The sessions directory that the instances of the program share          *)
(* (crates/project: gc.rs, Session::create, recover and close, and the     *)
(* switch of generations of budget.rs; src-tauri: DocumentService).        *)
(*                                                                         *)
(* A session is a directory with an advisory lock.  Start-up scans all of  *)
(* them: it finishes interrupted deletions, deletes clean ones and offers  *)
(* the others for recovery.  A deletion moves the directory aside and then *)
(* removes it, or empties it in place when it cannot be moved.  Instances  *)
(* may crash anywhere and be started again.  What the journal says is cut  *)
(* down to the three facts that classification reads (Session has the      *)
(* rest); a step of a session is journaled at once.                        *)
(***************************************************************************)
EXTENDS Naturals, FiniteSets

CONSTANTS Inst,         \* running copies of the program
          Sess,         \* session ids, never used twice
          NoOne,        \* no instance, no session
          CanMove,      \* whether fs::rename of a session works; else it may fail
          MaxGen,       \* bound: compactions per session
          MaxCrashes    \* bound

ASSUME BoundsAreNat == MaxGen \in Nat /\ MaxCrashes \in Nat
ASSUME CanMoveIsBoolean == CanMove \in BOOLEAN
ASSUME NoOneIsNobody == /\ NoOne \notin Inst /\ NoOne \notin Sess
                        /\ NoOne \notin Inst \X {"scan", "user", "session"}

VARIABLES
  dir,        \* per session: where it is, its files, meta.json's generation, its journals
  lock,       \* per session: the open file that holds its lock
  mem,        \* per instance: the session it has open
  task,       \* per instance: what its scan and its user's command are doing
  todo,       \* per instance: the entries its scan still has to visit
  offered,    \* per instance: the sessions of the recovery dialog
  up,         \* the running instances
  crashes,
  (* of the properties *)
  used,       \* the ids given out
  work,       \* sessions with changes that nobody saved or gave up
  dead,       \* sessions that are clean for good or whose deletion has begun
  raced,      \* sessions opened after they were closed or their deletion was decided
  unmoved     \* sessions that a deletion could not move

ghosts == <<used, work, dead, raced, unmoved>>
vars == <<dir, lock, mem, task, todo, offered, up, crashes, ghosts>>

-----------------------------------------------------------------------------
Gens  == 0..MaxGen
Log   == [closed : BOOLEAN, unsaved : BOOLEAN, open : BOOLEAN]
Names == {"meta", "takes"} \X {0} \cup {"chunks", "journal"} \X Gens

Meta         == <<"meta", 0>>
Takes        == <<"takes", 0>>
Generation(g) == {<<"chunks", g>>, <<"journal", g>>}

Idle      == [pc |-> "idle", s |-> NoOne, for |-> "idle"]
NoSession == [s |-> NoOne, gen |-> 0, comp |-> "no"]
NoDir     == [at |-> "none", files |-> {}, gen |-> 0,
              log |-> [g \in Gens |-> [closed |-> FALSE, unsaved |-> FALSE, open |-> FALSE]]]

Init ==
  /\ dir = [s \in Sess |-> NoDir]
  /\ lock = [s \in Sess |-> NoOne]
  /\ mem = [i \in Inst |-> NoSession]
  /\ task = [i \in Inst |-> [scan |-> Idle, user |-> Idle]]
  /\ todo = [i \in Inst |-> {}]
  /\ offered = [i \in Inst |-> {}]
  /\ up = {} /\ crashes = 0
  /\ used = {} /\ work = {} /\ dead = {} /\ raced = {} /\ unmoved = {}

(* What classify_session sees at the path of a session. *)

MetaGen(d) == IF Meta \in d.files THEN d.gen ELSE 0

Recoverable(d) ==
  /\ d.at = "here"
  /\ LET g == MetaGen(d) IN
     IF <<"journal", g>> \in d.files
     THEN /\ ~d.log[g].closed
          /\ d.log[g].unsaved \/ (d.log[g].open /\ Takes \in d.files)
     ELSE Takes \in d.files

\* What Session::recover needs to bring a session back.
Loadable(d) == d.at = "here" /\ Meta \in d.files /\ Generation(d.gen) \subseteq d.files

InDialog(i) == task[i].user.for \in {"create", "discard"}   \* holds session_dirs
IdleUser(i) == i \in up /\ task[i].user = Idle

Enter(i, t, pc, s, for) == task' = [task EXCEPT ![i][t] = [pc |-> pc, s |-> s, for |-> for]]
Goto(i, t, pc)          == Enter(i, t, pc, task[i][t].s, task[i][t].for)

\* A command is over; a scan goes on with its next entry.
Finish(i, t) == task' = [task EXCEPT ![i][t] =
                  IF t = "scan" THEN [pc |-> "next", s |-> NoOne, for |-> "scan"] ELSE Idle]

Deleting(s) == \E i \in Inst, t \in {"scan", "user"} :
                 task[i][t].s = s /\ task[i][t].pc \in {"delete", "empty"}

\* What taking the lock of s as a document means for the properties.
Doomed(s)   == Deleting(s) \/ dir[s].log[dir[s].gen].closed
NoteRace(s) == raced' = IF Doomed(s) THEN raced \cup {s} ELSE raced

-----------------------------------------------------------------------------
(* Session::create, under session_dirs *)

MakeDir(i, s) ==
  /\ IdleUser(i) /\ task[i].scan = Idle /\ mem[i] = NoSession
  /\ s \notin used
  /\ dir' = [dir EXCEPT ![s].at = "here"]
  /\ used' = used \cup {s}
  /\ Enter(i, "user", "made", s, "create")
  /\ UNCHANGED <<lock, mem, todo, offered, up, crashes, work, dead, raced, unmoved>>

\* The directory is removed when the lock is not free; it may be gone already.
LockNew(i) ==
  LET s == task[i].user.s IN
  /\ task[i].user.pc = "made"
  /\ \/ /\ dir[s].at = "here" /\ lock[s] = NoOne
        /\ lock' = [lock EXCEPT ![s] = <<i, "user">>]
        /\ NoteRace(s) /\ dead' = dead \ {s}
        /\ Goto(i, "user", "locked")
        /\ UNCHANGED dir
     \/ /\ dir[s].at = "here" /\ lock[s] # NoOne
        /\ dir' = [dir EXCEPT ![s] = NoDir]
        /\ Finish(i, "user")
        /\ UNCHANGED <<lock, dead, raced>>
     \/ /\ dir[s].at # "here"
        /\ Finish(i, "user")
        /\ UNCHANGED <<dir, lock, dead, raced>>
  /\ UNCHANGED <<mem, todo, offered, up, crashes, used, work, unmoved>>

WriteMeta(i) ==
  LET s == task[i].user.s IN
  /\ task[i].user.pc = "locked" /\ dir[s].at = "here"
  /\ dir' = [dir EXCEPT ![s].files = {Meta}]
  /\ Goto(i, "user", "begun")
  /\ UNCHANGED <<lock, mem, todo, offered, up, crashes, ghosts>>

StartJournal(i) ==
  LET s == task[i].user.s IN
  /\ task[i].user.pc = "begun" /\ dir[s].at = "here"
  /\ dir' = [dir EXCEPT ![s].files = @ \cup Generation(0)]
  /\ mem' = [mem EXCEPT ![i] = [s |-> s, gen |-> 0, comp |-> "no"]]
  /\ lock' = [lock EXCEPT ![s] = <<i, "session">>]
  /\ Finish(i, "user")
  /\ UNCHANGED <<todo, offered, up, crashes, ghosts>>

\* Writing fails, at the latest because the directory is no longer there.
CreateFails(i) ==
  LET s == task[i].user.s IN
  /\ task[i].user.pc \in {"locked", "begun"}
  /\ lock' = [lock EXCEPT ![s] = NoOne]
  /\ dir' = IF dir[s].at = "here" THEN [dir EXCEPT ![s] = NoDir] ELSE dir
  /\ Finish(i, "user")
  /\ UNCHANGED <<mem, todo, offered, up, crashes, ghosts>>

-----------------------------------------------------------------------------
(* collect_garbage, under session_dirs *)

Listing == {<<s, dir[s].at>> : s \in {s \in Sess : dir[s].at # "none"}}

ScanStart(i) ==
  /\ i \in up /\ task[i].scan = Idle /\ ~InDialog(i)
  /\ todo' = [todo EXCEPT ![i] = Listing]
  /\ offered' = [offered EXCEPT ![i] = {}]
  /\ Finish(i, "scan")
  /\ UNCHANGED <<dir, lock, mem, up, crashes, ghosts>>

\* An entry that ends in .deleting.
ScanTomb(i, s) ==
  /\ task[i].scan.pc = "next" /\ <<s, "tomb">> \in todo[i]
  /\ todo' = [todo EXCEPT ![i] = @ \ {<<s, "tomb">>}]
  /\ dir' = IF dir[s].at = "tomb" THEN [dir EXCEPT ![s] = NoDir] ELSE dir
  /\ UNCHANGED <<lock, mem, task, offered, up, crashes, ghosts>>

\* Mutant: the scan does not care about the lock.
ScanDirIgnoresLock(i, s) ==
  /\ task[i].scan.pc = "next" /\ <<s, "here">> \in todo[i]
  /\ todo' = [todo EXCEPT ![i] = @ \ {<<s, "here">>}]
  /\ IF dir[s].at = "here"
     THEN /\ lock' = [lock EXCEPT ![s] = <<i, "scan">>]
          /\ Enter(i, "scan", "classify", s, "scan")
     ELSE UNCHANGED <<lock, task>>
  /\ UNCHANGED <<dir, mem, offered, up, crashes, ghosts>>

ScanDir(i, s) ==
  /\ task[i].scan.pc = "next" /\ <<s, "here">> \in todo[i]
  /\ todo' = [todo EXCEPT ![i] = @ \ {<<s, "here">>}]
  /\ IF dir[s].at = "here" /\ lock[s] = NoOne
     THEN /\ lock' = [lock EXCEPT ![s] = <<i, "scan">>]
          /\ Enter(i, "scan", "classify", s, "scan")
     ELSE UNCHANGED <<lock, task>>
  /\ UNCHANGED <<dir, mem, offered, up, crashes, ghosts>>

\* The lock is given up before a clean session is deleted.
Classify(i) ==
  LET s == task[i].scan.s IN
  /\ task[i].scan.pc = "classify"
  /\ lock' = [lock EXCEPT ![s] = NoOne]
  /\ IF Recoverable(dir[s])
     THEN /\ offered' = [offered EXCEPT ![i] = @ \cup {s}]
          /\ Finish(i, "scan")
          /\ UNCHANGED dead
     ELSE /\ dead' = dead \cup {s}
          /\ Goto(i, "scan", "delete")
          /\ UNCHANGED offered
  /\ UNCHANGED <<dir, mem, todo, up, crashes, used, work, raced, unmoved>>

ScanEnd(i) ==
  /\ task[i].scan.pc = "next" /\ todo[i] = {}
  /\ task' = [task EXCEPT ![i].scan = Idle]
  /\ UNCHANGED <<dir, lock, mem, todo, offered, up, crashes, ghosts>>

-----------------------------------------------------------------------------
(* delete_session_dir, of a scan (t = "scan") or of a command *)

MoveAside(i, t) ==
  LET s == task[i][t].s IN
  /\ task[i][t].pc = "delete"
  /\ \/ /\ dir[s].at = "here"
        /\ dir' = [dir EXCEPT ![s].at = "tomb"]
        /\ dead' = dead \cup {s}
        /\ Goto(i, t, "tomb")
        /\ UNCHANGED unmoved
     \/ /\ dir[s].at = "here" /\ ~CanMove
        /\ dead' = dead \cup {s} /\ unmoved' = unmoved \cup {s}
        /\ Goto(i, t, "empty")
        /\ UNCHANGED dir
     \/ /\ dir[s].at # "here"                \* moved by another; the rest is removed
        /\ dir' = [dir EXCEPT ![s] = NoDir]
        /\ Finish(i, t)
        /\ UNCHANGED <<dead, unmoved>>
  /\ UNCHANGED <<lock, mem, todo, offered, up, crashes, used, work, raced>>

RemoveTomb(i, t) ==
  LET s == task[i][t].s IN
  /\ task[i][t].pc = "tomb"
  /\ dir' = IF dir[s].at = "tomb" THEN [dir EXCEPT ![s] = NoDir] ELSE dir
  /\ Finish(i, t)
  /\ UNCHANGED <<lock, mem, todo, offered, up, crashes, ghosts>>

\* delete_in_place: the journals after everything else, in no particular order
\* otherwise, then the directory.
Empty(i, t) ==
  LET s == task[i][t].s
      journals == dir[s].files \cap ({"journal"} \X Gens)
      others   == dir[s].files \ journals
  IN
  /\ task[i][t].pc = "empty"
  /\ \/ /\ dir[s].at = "here"
        /\ \E n \in IF others # {} THEN others ELSE journals :
             dir' = [dir EXCEPT ![s].files = @ \ {n}]
        /\ UNCHANGED task
     \/ /\ dir[s].at = "here" /\ dir[s].files = {}
        /\ dir' = [dir EXCEPT ![s] = NoDir]
        /\ Finish(i, t)
     \/ /\ Finish(i, t)                      \* an error: another was first, say
        /\ UNCHANGED dir
  /\ UNCHANGED <<lock, mem, todo, offered, up, crashes, ghosts>>

-----------------------------------------------------------------------------
(* The recovery dialog *)

\* Refused while the lock is held; taken and given up at once otherwise.
Discard(i, s) ==
  /\ IdleUser(i) /\ task[i].scan = Idle
  /\ s \in offered[i] /\ dir[s].at = "here" /\ lock[s] = NoOne
  /\ offered' = [offered EXCEPT ![i] = @ \ {s}]
  /\ Enter(i, "user", "delete", s, "discard")
  /\ work' = work \ {s}
  /\ UNCHANGED <<dir, lock, mem, todo, up, crashes, used, dead, raced, unmoved>>

\* Session::recover does not take session_dirs.
RecoverLock(i, s) ==
  /\ IdleUser(i) /\ mem[i] = NoSession
  /\ s \in offered[i] /\ dir[s].at = "here" /\ lock[s] = NoOne
  /\ lock' = [lock EXCEPT ![s] = <<i, "user">>]
  /\ NoteRace(s)
  /\ Enter(i, "user", "opening", s, "recover")
  /\ UNCHANGED <<dir, mem, todo, offered, up, crashes, used, work, dead, unmoved>>

\* An interrupted take is applied or discarded in the same call.  A closed
\* journal stays closed until the next record.
Recover(i) ==
  LET s == task[i].user.s
      g == dir[s].gen
  IN
  /\ task[i].user.pc = "opening"
  /\ offered' = [offered EXCEPT ![i] = @ \ {s}]
  /\ Finish(i, "user")
  /\ IF Loadable(dir[s])
     THEN \E keep \in IF dir[s].log[g].open THEN BOOLEAN ELSE {FALSE} :
            LET unsaved == dir[s].log[g].unsaved \/ keep IN
            /\ dir' = [dir EXCEPT
                 ![s].files = dir[s].files \cap ({Meta, Takes} \cup Generation(g)),
                 ![s].log[g] = [dir[s].log[g] EXCEPT !.unsaved = unsaved, !.open = FALSE]]
            /\ work' = IF unsaved THEN work \cup {s} ELSE work \ {s}
            /\ dead' = dead \ {s}
            /\ mem' = [mem EXCEPT ![i] = [s |-> s, gen |-> g, comp |-> "no"]]
            /\ lock' = [lock EXCEPT ![s] = <<i, "session">>]
     ELSE /\ lock' = [lock EXCEPT ![s] = NoOne]
          /\ UNCHANGED <<dir, mem, work, dead>>
  /\ UNCHANGED <<todo, up, crashes, used, raced, unmoved>>

-----------------------------------------------------------------------------
(* The open session *)

\* The document is free: no phase of a compaction that holds it is running.
Free(i) == mem[i] # NoSession /\ mem[i].comp \in {"no", "copy"}

\* A record reaches the journal through its open file, wherever that is now;
\* it comes after a close that a recovery found there.
Append(i, log, files) ==
  LET s == mem[i].s IN
  /\ dir' = [dir EXCEPT ![s].log[mem[i].gen] = [log EXCEPT !.closed = FALSE],
                        ![s].files = IF dir[s].at = "here" THEN @ \cup files ELSE @]
  /\ work' = IF log.unsaved \/ log.open THEN work \cup {s} ELSE work \ {s}
  /\ UNCHANGED <<lock, mem, task, todo, offered, up, crashes, used, dead, raced, unmoved>>

LogOf(i) == dir[mem[i].s].log[mem[i].gen]

Edit(i) ==
  /\ Free(i) /\ ~LogOf(i).open
  /\ Append(i, [LogOf(i) EXCEPT !.unsaved = TRUE], {})

Save(i) ==
  /\ Free(i) /\ ~LogOf(i).open
  /\ Append(i, [LogOf(i) EXCEPT !.unsaved = FALSE], {})

BeginTake(i) ==
  /\ Free(i) /\ ~LogOf(i).open /\ dir[mem[i].s].at = "here"
  /\ Append(i, [LogOf(i) EXCEPT !.open = TRUE], {Takes})

EndTake(i, keep) ==
  /\ Free(i) /\ LogOf(i).open
  /\ Append(i, [LogOf(i) EXCEPT !.open = FALSE, !.unsaved = @ \/ keep], {})

\* The last record, then the lock, then the directory.  Refused while a
\* compaction copies (it shares the store).
Close(i) ==
  LET s == mem[i].s IN
  /\ IdleUser(i) /\ mem[i] # NoSession /\ mem[i].comp = "no" /\ ~LogOf(i).open
  /\ dir' = [dir EXCEPT ![s].log[mem[i].gen].closed = TRUE]
  /\ lock' = [lock EXCEPT ![s] = NoOne]
  /\ mem' = [mem EXCEPT ![i] = NoSession]
  /\ Enter(i, "user", "delete", s, "close")
  /\ work' = work \ {s} /\ dead' = dead \cup {s}
  /\ UNCHANGED <<todo, offered, up, crashes, used, raced, unmoved>>

\* close_with_retry gives up: the session is dropped and left for the next scan.
CloseFails(i) ==
  /\ IdleUser(i) /\ Free(i) /\ ~LogOf(i).open
  /\ lock' = [lock EXCEPT ![mem[i].s] = NoOne]
  /\ mem' = [mem EXCEPT ![i] = NoSession]
  /\ UNCHANGED <<dir, task, todo, offered, up, crashes, ghosts>>

-----------------------------------------------------------------------------
(* Compaction: a new generation of files *)

CompactTo(i, comp, gen) == mem' = [mem EXCEPT ![i] = [s |-> @.s, gen |-> gen, comp |-> comp]]

BeginCompact(i) ==
  LET s == mem[i].s
      g == mem[i].gen + 1
  IN
  /\ Free(i) /\ mem[i].comp = "no" /\ ~LogOf(i).open /\ g <= MaxGen
  /\ dir[s].at = "here"
  /\ dir' = [dir EXCEPT ![s].files = (@ \ Generation(g)) \cup {<<"chunks", g>>}]
  /\ CompactTo(i, "copy", mem[i].gen)
  /\ UNCHANGED <<lock, task, todo, offered, up, crashes, ghosts>>

\* Mutant: the old generation is removed before the switch.
NewJournalReplaces(i) ==
  LET s == mem[i].s
      g == mem[i].gen + 1
  IN
  /\ mem[i].comp = "copy"
  /\ ~LogOf(i).open /\ dir[s].at = "here"
  /\ dir' = [dir EXCEPT ![s].files = (@ \ Generation(g - 1)) \cup {<<"journal", g>>},
                        ![s].log[g] = LogOf(i)]
  /\ CompactTo(i, "journal", mem[i].gen)
  /\ UNCHANGED <<lock, task, todo, offered, up, crashes, ghosts>>

\* finish_compact: refused while recording; the new journal starts with a
\* checkpoint of the document as it is now.
NewJournal(i) ==
  LET s == mem[i].s
      g == mem[i].gen + 1
  IN
  /\ mem[i].comp = "copy"
  /\ \/ /\ LogOf(i).open
        /\ CompactTo(i, "no", mem[i].gen)
        /\ UNCHANGED dir
     \/ /\ ~LogOf(i).open /\ dir[s].at = "here"
        /\ dir' = [dir EXCEPT ![s].files = @ \cup {<<"journal", g>>},
                              ![s].log[g] = [LogOf(i) EXCEPT !.closed = FALSE]]
        /\ CompactTo(i, "journal", mem[i].gen)
  /\ UNCHANGED <<lock, task, todo, offered, up, crashes, ghosts>>

\* meta.json is replaced in one step; when only the sync of the directory
\* fails after it, the session goes over to the new generation all the same.
SwitchMeta(i) ==
  LET s == mem[i].s
      g == mem[i].gen + 1
  IN
  /\ mem[i].comp = "journal" /\ dir[s].at = "here"
  /\ dir' = [dir EXCEPT ![s].gen = g]
  /\ CompactTo(i, "meta", g)
  /\ UNCHANGED <<lock, task, todo, offered, up, crashes, ghosts>>

\* An error before meta.json is replaced.  Copying and syncing leave the new store
\* behind (the next attempt removes it), the switch takes its files away.
CompactFails(i) ==
  LET s == mem[i].s IN
  /\ mem[i].comp \in {"copy", "journal"}
  /\ dir' = IF mem[i].comp = "journal" /\ dir[s].at = "here"
            THEN [dir EXCEPT ![s].files = @ \ Generation(mem[i].gen + 1)] ELSE dir
  /\ CompactTo(i, "no", mem[i].gen)
  /\ UNCHANGED <<lock, task, todo, offered, up, crashes, ghosts>>

RemoveOld(i) ==
  LET s == mem[i].s IN
  /\ mem[i].comp = "meta"
  /\ dir' = IF dir[s].at = "here"
            THEN [dir EXCEPT ![s].files = @ \ Generation(mem[i].gen - 1)] ELSE dir
  /\ CompactTo(i, "no", mem[i].gen)
  /\ UNCHANGED <<lock, task, todo, offered, up, crashes, ghosts>>

-----------------------------------------------------------------------------
\* Every start runs a scan before the window opens.
Start(i) ==
  /\ i \notin up
  /\ up' = up \cup {i}
  /\ todo' = [todo EXCEPT ![i] = Listing]
  /\ Finish(i, "scan")
  /\ UNCHANGED <<dir, lock, mem, offered, crashes, ghosts>>

\* The operating system releases the locks of a process that is gone.
Crash(i) ==
  /\ i \in up /\ crashes < MaxCrashes
  /\ up' = up \ {i} /\ crashes' = crashes + 1
  /\ lock' = [s \in Sess |-> IF lock[s] # NoOne /\ lock[s][1] = i THEN NoOne ELSE lock[s]]
  /\ mem' = [mem EXCEPT ![i] = NoSession]
  /\ task' = [task EXCEPT ![i] = [scan |-> Idle, user |-> Idle]]
  /\ todo' = [todo EXCEPT ![i] = {}]
  /\ offered' = [offered EXCEPT ![i] = {}]
  /\ UNCHANGED <<dir, ghosts>>

Delete(i, t) == MoveAside(i, t) \/ RemoveTomb(i, t) \/ Empty(i, t)

Scan(i) ==
  \/ \E s \in Sess : ScanTomb(i, s) \/ ScanDir(i, s)
  \/ Classify(i)
  \/ ScanEnd(i)
  \/ Delete(i, "scan")

Command(i) == LockNew(i) \/ WriteMeta(i) \/ StartJournal(i) \/ CreateFails(i)
              \/ Recover(i) \/ Delete(i, "user")

Request(i) ==
  \/ \E s \in Sess : MakeDir(i, s) \/ Discard(i, s) \/ RecoverLock(i, s)
  \/ ScanStart(i)

Document(i) ==
  \/ Edit(i) \/ Save(i) \/ BeginTake(i)
  \/ \E keep \in BOOLEAN : EndTake(i, keep)
  \/ Close(i) \/ CloseFails(i)

Compaction(i) == BeginCompact(i) \/ NewJournal(i) \/ SwitchMeta(i)
                 \/ CompactFails(i) \/ RemoveOld(i)

Next == \E i \in Inst : Start(i) \/ Crash(i) \/ Scan(i) \/ Command(i)
                        \/ Request(i) \/ Document(i) \/ Compaction(i)

\* What an instance has begun goes on, and the user starts the program again.
Fairness == \A i \in Inst : WF_vars(Start(i)) /\ WF_vars(Scan(i)) /\ WF_vars(Command(i))

Spec == Init /\ [][Next]_vars /\ Fairness

-----------------------------------------------------------------------------
(* Properties *)

Dir  == [at : {"none", "here", "tomb"}, files : SUBSET Names, gen : Gens, log : [Gens -> Log]]
Mem  == [s : Sess \cup {NoOne}, gen : Gens, comp : {"no", "copy", "journal", "meta"}]
Task == [pc : {"idle", "next", "classify", "made", "locked", "begun", "opening",
               "delete", "tomb", "empty"},
         s : Sess \cup {NoOne},
         for : {"idle", "scan", "create", "recover", "discard", "close"}]

\* Directories, locks and tasks have the shapes above.
TypeOK ==
  /\ dir \in [Sess -> Dir]
  /\ lock \in [Sess -> {NoOne} \cup Inst \X {"scan", "user", "session"}]
  /\ mem \in [Inst -> Mem]
  /\ task \in [Inst -> [{"scan", "user"} -> Task]]
  /\ todo \in [Inst -> SUBSET (Sess \X {"here", "tomb"})]
  /\ offered \in [Inst -> SUBSET Sess]
  /\ up \subseteq Inst /\ crashes \in 0..MaxCrashes
  /\ used \subseteq Sess /\ work \subseteq used
  /\ dead \subseteq Sess /\ raced \subseteq Sess /\ unmoved \subseteq Sess

Kept(s) == Recoverable(dir[s]) /\ Loadable(dir[s])

\* Changes that were neither saved nor given up are on disk, where the next
\* start finds them and recovery can load them, whatever crashed and wherever
\* a compaction was (gc.rs:84, "Never deletes a recoverable session").
WorkIsKept == \A s \in work : Kept(s)

\* With several instances one thing only can take work away: that somebody
\* opens a session after it was closed, or between the moment a deletion gives
\* its lock up and the move.
OnlyRacesLoseWork == \A s \in work : Kept(s) \/ s \in raced

\* What the dialog would offer can be loaded: no crash, of a creation, a
\* compaction or a deletion by a move, leaves a session that is offered and then
\* refused.  (A deletion in place may: ClosedStaysClean.)
OfferedLoads ==
  \A s \in Sess \ unmoved :
    Recoverable(dir[s]) /\ lock[s] = NoOne /\ ~Deleting(s) => Loadable(dir[s])

\* An interrupted deletion of a closed session still ends in close and is clean
\* at the next start, however far it came (gc.rs:5-7).
ClosedStaysClean ==
  \A s \in Sess, g \in Gens :
    <<"journal", g>> \in dir[s].files /\ dir[s].log[g].closed /\ ~Deleting(s)
      => ~Recoverable(dir[s])

\* A session that was closed, found clean, or whose deletion has begun is gone
\* in the end, by the next start when the program crashed (gc.rs:4-5), unless
\* somebody opens it first or its directory could not be moved (ClosedStaysClean).
DeletionFinishes ==
  \A s \in Sess : s \in dead ~> dir[s].at = "none" \/ s \notin dead \/ s \in unmoved

=============================================================================
