----------------------------- MODULE PathLease ------------------------------
(***************************************************************************)
(* automations/store.ts, tryAcquireLease() and what it calls: a lock file  *)
(* and, beside it, the guard directory under which one process at a time   *)
(* may remove an abandoned lock.  Every step is one call of the file       *)
(* system (reads whose results are only used together are one step),       *)
(* between any two of which other processes run or a process dies.  The    *)
(* numbers (inodes) of removed files are used again unless somebody still  *)
(* has the file open, and nobody has the guard open.  A file is abandoned  *)
(* when its writer is dead: at once if its pid is written, after a while   *)
(* (staleAfterMs) if it is not.  A live process is taken to finish before  *)
(* its files are that old.                                                 *)
(***************************************************************************)
EXTENDS Integers, FiniteSets

CONSTANTS
  Proc,       \* the processes
  Gone,       \* those that died before, and may have left a lock, a guard or both
  NoProc, NoFile,
  MaxCrashes  \* bound: the crashes

VARIABLES
  lock,   \* the file at path, and who wrote it
  guard,  \* the directory at guardPath: its owner.json and its .reaping
  at,     \* the next call of each process
  goal,   \* what it wants the guard for: to see it gone, to reclaim the lock;
          \* it has reclaimed it, it has given up
  fd,     \* the inode of the lock it has open: its own or the observed one
  saw,    \* the inode of the guard it has made or found abandoned
  again,  \* the processes that have retired one guard already
  dead,
  behind, \* history: who remembers a guard that has been removed
  mixed   \* history: somebody took a later guard for the one it remembered

vars == <<lock, guard, at, goal, fd, saw, again, dead, behind, mixed>>

Inode == 1..(Cardinality(Proc) + 1)
File  == [inode : Inode, by : Proc]
Dir   == [inode : Inode, owner : Proc \cup {NoProc}, by : Proc \cup {NoProc},
          reaper : Proc \cup {NoProc}]

FilesAssumption ==
  /\ IsFiniteSet(Proc) /\ NoProc \notin Proc /\ Gone \subseteq Proc
  /\ NoFile \notin File \cup Dir \cup Inode

Calls == {"out", "mkdir", "own", "look", "mark", "same", "move", "drop", "rmdir", "open",
          "recheck", "observe", "judge", "compare", "unlink", "reopen", "inside", "unlock"}

TypeOK ==
  /\ lock \in File \cup {NoFile} /\ guard \in Dir \cup {NoFile}
  /\ at \in [Proc -> Calls] /\ goal \in [Proc -> {"clear", "reclaim", "held", "none"}]
  /\ fd \in [Proc -> Inode \cup {NoFile}] /\ saw \in [Proc -> Inode \cup {NoFile}]
  /\ again \subseteq Proc /\ dead \subseteq Proc /\ behind \subseteq Proc /\ mixed \in BOOLEAN

Init ==
  /\ lock \in {NoFile} \cup {[inode |-> 1, by |-> g] : g \in Gone}
  /\ guard \in {NoFile} \cup {[inode |-> 1, owner |-> o, by |-> g, reaper |-> NoProc] :
                                 o \in Gone \cup {NoProc}, g \in Gone}
  /\ at = [p \in Proc |-> "out"] /\ goal = [p \in Proc |-> "clear"]
  /\ fd = [p \in Proc |-> NoFile] /\ saw = [p \in Proc |-> NoFile]
  /\ again = {} /\ dead = Gone /\ behind = {} /\ mixed = FALSE

-----------------------------------------------------------------------------
Wants(p, g)   == goal' = [goal EXCEPT ![p] = g]
Opens(p, i)   == fd' = [fd EXCEPT ![p] = i]
Goes(p, call) == at' = [at EXCEPT ![p] = call]
Files         == <<lock, guard>>

(* The attempt is over: whatever was open is closed.                       *)
Ends(p) == Goes(p, "out") /\ Opens(p, NoFile) /\ Wants(p, "clear")

(* A new file has the lowest number no file has.  A new guard has any: one *)
(* that somebody remembers, since the file system may give it out again at *)
(* once, or one that nobody does, of which one stands for all.             *)
Lowest(S)   == {i \in S : \A j \in S : i <= j}
FreeFile    == Lowest({i \in Inode : (lock # NoFile => lock.inode # i)
                              /\ \A q \in Proc \ dead : fd[q] # i})
Remembered  == {saw[q] : q \in Proc \ dead} \ {NoFile}
FreeDir     == Remembered \cup Lowest(Inode \ Remembered)

(* isLeaseAbandoned(), and the same judgement of a guard: one without an   *)
(* owner is left by a process that died, or could not remove it.           *)
Abandoned == lock.by \in dead
Retirable == guard.by \in dead \cup {NoProc}

(* Identities are compared by number.                                      *)
SameDir(p)  == guard # NoFile /\ guard.inode = saw[p]
SameFile(p) == lock # NoFile /\ lock.inode = fd[p]

(* tryAcquireLease(): a guard that stands must be seen gone first.         *)
Try(p) ==
  /\ at[p] = "out"
  /\ Goes(p, IF guard = NoFile THEN "open" ELSE "mkdir")
  /\ UNCHANGED <<lock, guard, goal, fd, saw, again, dead>>

(* The lock is created if there is none; one that is there is reclaimed,   *)
(* under the guard, if it was abandoned.                                   *)
Create(p, i) == lock' = [inode |-> i, by |-> p] /\ Opens(p, i)

Open(p) ==
  /\ at[p] = "open"
  /\ IF lock = NoFile
     THEN (\E i \in FreeFile : Create(p, i)) /\ Goes(p, "recheck") /\ UNCHANGED goal
     ELSE Wants(p, "reclaim") /\ Goes(p, "mkdir") /\ UNCHANGED <<lock, fd>>
  /\ UNCHANGED <<guard, saw, again, dead>>

(* Whoever found a guard, or another lock at the path, gives its own back. *)
Recheck(p) ==
  /\ at[p] = "recheck"
  /\ IF guard = NoFile /\ SameFile(p) THEN Goes(p, "inside") /\ UNCHANGED <<fd, goal>>
     ELSE IF SameFile(p) THEN Goes(p, "unlock") /\ UNCHANGED <<fd, goal>> ELSE Ends(p)
  /\ UNCHANGED <<lock, guard, saw, again, dead>>

-----------------------------------------------------------------------------
(* acquireReclaimGuard(): mkdir, once more after an abandoned guard was    *)
(* retired, and the owner's name in it.                                    *)
Notes(p, i) == saw' = [saw EXCEPT ![p] = i]
Turns(p, call) == Goes(p, call) /\ UNCHANGED <<goal, fd>>
NoGuard(p)  == Ends(p) /\ Notes(p, NoFile) /\ again' = again \ {p}

Mkdir(p) ==
  /\ at[p] = "mkdir"
  /\ \/ /\ guard = NoFile
        /\ \E i \in FreeDir :
             guard' = [inode |-> i, owner |-> NoProc, by |-> p, reaper |-> NoProc]
        /\ Turns(p, "own") /\ again' = again \ {p} /\ UNCHANGED saw
     \/ guard # NoFile /\ p \notin again /\ Turns(p, "look") /\ UNCHANGED <<guard, saw, again>>
     \/ guard # NoFile /\ p \in again /\ NoGuard(p) /\ UNCHANGED guard
  /\ UNCHANGED <<lock, dead>>

Own(p) ==
  /\ at[p] = "own"
  /\ IF guard # NoFile /\ guard.owner = NoProc
     THEN /\ guard' = [guard EXCEPT !.owner = p, !.by = p] /\ Notes(p, guard.inode)
          /\ Turns(p, IF goal[p] = "clear" THEN "drop" ELSE "observe") /\ UNCHANGED again
     ELSE NoGuard(p) /\ UNCHANGED guard
  /\ UNCHANGED <<lock, dead>>

(* retireAbandonedReclaimGuard(): look at it, mark it as being reaped, see *)
(* that it is still the one looked at, and move it away.                   *)
Look(p) ==
  /\ at[p] = "look"
  /\ IF guard # NoFile /\ Retirable
     THEN Notes(p, guard.inode) /\ Turns(p, "mark") /\ UNCHANGED again
     ELSE NoGuard(p)
  /\ UNCHANGED <<lock, guard, dead>>

Marked(q) == guard' = [guard EXCEPT !.reaper = q]

Mark(p) ==
  /\ at[p] = "mark"
  /\ \/ /\ guard # NoFile /\ guard.reaper = NoProc
        /\ Marked(p) /\ Turns(p, "same") /\ UNCHANGED <<saw, again>>
     \/ /\ guard # NoFile /\ guard.reaper # NoProc
        /\ Marked(IF guard.reaper \in dead THEN NoProc ELSE guard.reaper) /\ NoGuard(p)
     \/ guard = NoFile /\ NoGuard(p) /\ UNCHANGED guard
  /\ UNCHANGED <<lock, dead>>

Same(p) ==
  /\ at[p] = "same"
  /\ IF SameDir(p)
     THEN Turns(p, "move") /\ UNCHANGED <<guard, saw, again>>
     ELSE /\ IF guard # NoFile /\ guard.reaper = p THEN Marked(NoProc) ELSE UNCHANGED guard
          /\ NoGuard(p)
  /\ UNCHANGED <<lock, dead>>

Move(p) ==
  /\ at[p] = "move"
  /\ IF guard = NoFile THEN NoGuard(p)
     ELSE Turns(p, "mkdir") /\ Notes(p, NoFile) /\ again' = again \cup {p}
  /\ guard' = NoFile
  /\ UNCHANGED <<lock, dead>>

(* The release of the guard: the owner's name, then the directory, which   *)
(* stays, without an owner, while a reaper's mark is in it.                *)
Onward(p) ==
  /\ CASE goal[p] = "clear" -> Turns(p, "open")
       [] goal[p] = "held"  -> Goes(p, "inside") /\ Wants(p, "clear") /\ UNCHANGED fd
       [] OTHER             -> Ends(p)
  /\ Notes(p, NoFile)

Drop(p) ==
  /\ at[p] = "drop"
  /\ IF SameDir(p) /\ guard.owner = p
     THEN /\ guard' = [guard EXCEPT !.owner = NoProc]
          /\ Turns(p, "rmdir") /\ UNCHANGED saw
     ELSE Onward(p) /\ UNCHANGED guard
  /\ UNCHANGED <<lock, again, dead>>

Rmdir(p) ==
  /\ at[p] = "rmdir"
  /\ guard' = IF guard = NoFile \/ (guard.owner = NoProc /\ guard.reaper = NoProc) THEN NoFile
              ELSE IF guard.by = p THEN [guard EXCEPT !.by = NoProc] ELSE guard
  /\ Onward(p)
  /\ UNCHANGED <<lock, again, dead>>

-----------------------------------------------------------------------------
(* Under the guard: the lock is opened, judged by its path, compared with  *)
(* what was opened, removed and created anew.                              *)
Fails(p) == Goes(p, "drop") /\ Wants(p, "none")

Observe(p) ==
  /\ at[p] = "observe"
  /\ IF lock = NoFile THEN Fails(p) /\ UNCHANGED fd
     ELSE Goes(p, "judge") /\ Opens(p, lock.inode) /\ UNCHANGED goal
  /\ UNCHANGED <<lock, guard, saw, again, dead>>

\* Mutant of Judge: the lock is removed whoever holds it
MutJudge(p) ==
  /\ at[p] = "judge"
  /\ Goes(p, "compare") /\ UNCHANGED goal
  /\ UNCHANGED <<lock, guard, fd, saw, again, dead>>

Judge(p) ==
  /\ at[p] = "judge"
  /\ IF lock # NoFile /\ Abandoned THEN Goes(p, "compare") /\ UNCHANGED goal ELSE Fails(p)
  /\ UNCHANGED <<lock, guard, fd, saw, again, dead>>

Compare(p) ==
  /\ at[p] = "compare"
  /\ IF SameFile(p) THEN Goes(p, "unlink") /\ UNCHANGED goal ELSE Fails(p)
  /\ UNCHANGED <<lock, guard, fd, saw, again, dead>>

Unlink(p) ==
  /\ at[p] = "unlink"
  /\ IF lock # NoFile THEN Goes(p, "reopen") /\ UNCHANGED goal ELSE Fails(p)
  /\ lock' = NoFile
  /\ UNCHANGED <<guard, fd, saw, again, dead>>

Reopen(p) ==
  /\ at[p] = "reopen"
  /\ IF lock = NoFile
     THEN (\E i \in FreeFile : Create(p, i)) /\ Wants(p, "held") /\ Goes(p, "drop")
     ELSE Fails(p) /\ UNCHANGED <<lock, fd>>
  /\ UNCHANGED <<guard, saw, again, dead>>

(* AutomationLease.release(): only the lock that is still its own.         *)
Leave(p) ==
  /\ at[p] = "inside"
  /\ IF SameFile(p) THEN Goes(p, "unlock") /\ UNCHANGED <<fd, goal>> ELSE Ends(p)
  /\ UNCHANGED <<lock, guard, saw, again, dead>>

Unlock(p) ==
  /\ at[p] = "unlock"
  /\ lock' = NoFile /\ Ends(p)
  /\ UNCHANGED <<guard, saw, again, dead>>

Crash(p) ==
  /\ Cardinality(dead \ Gone) < MaxCrashes
  /\ dead' = dead \cup {p}
  /\ UNCHANGED <<lock, guard, at, goal, fd, saw, again>>

(* The history: a guard that is removed leaves behind whoever remembers    *)
(* it, until they look again.  Who is behind and finds the number it remembers *)
(* is about to move a guard it never looked at.                            *)
Remembers ==
  /\ behind' = {q \in Proc : /\ saw[q] # NoFile /\ saw'[q] = saw[q]
                             /\ q \in behind \/ (guard # NoFile /\ guard' = NoFile)}
  /\ mixed' = (mixed \/ \E q \in behind : at[q] = "same" /\ at'[q] = "move")

Next ==
  \E p \in Proc \ dead :
    /\ \/ Try(p) \/ Open(p) \/ Recheck(p) \/ Mkdir(p) \/ Own(p) \/ Look(p) \/ Mark(p) \/ Same(p)
       \/ Move(p) \/ Drop(p) \/ Rmdir(p) \/ Observe(p) \/ Judge(p) \/ Compare(p) \/ Unlink(p)
       \/ Reopen(p) \/ Leave(p) \/ Unlock(p) \/ Crash(p)
    /\ Remembers

Spec == Init /\ [][Next]_vars

-----------------------------------------------------------------------------
Inside    == {p \in Proc \ dead : at[p] = "inside"}
Reclaiming == {p \in Proc \ dead : at[p] \in {"observe", "judge", "compare", "unlink", "reopen"}}

(* store.ts:547: "Only one process may inspect and remove an abandoned     *)
(* poll lock at a time."  It fails when a reaper takes a new guard for the *)
(* one it judged, because the new one has the old one's inode.             *)
OneReclaimer == Cardinality(Reclaiming) <= 1

(* Two live processes never both hold the lease, and one at a time         *)
(* reclaims an abandoned one, whichever died while they held the lock, the *)
(* guard or both, and wherever the others were then; as long as no reaper  *)
(* has taken a new guard for the one it judged (mixed), which nothing in   *)
(* the code prevents where inodes are reused at once: see OneReclaimer.    *)
OneHolder == ~mixed => Cardinality(Inside) <= 1 /\ OneReclaimer
=============================================================================
