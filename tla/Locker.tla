------------------------------- MODULE Locker -------------------------------
(***************************************************************************)
(* gub/locker.py: a lock file taken with flock(2) without waiting, and     *)
(* unlinked when it is given back.  FileManager guards a system root with  *)
(* it, the CVS repository its checkout, and gub/with-lock.py a command     *)
(* that it runs as a child process.                                        *)
(*                                                                         *)
(* flock locks an open file, not a name.  A process that has opened the    *)
(* file before it was unlinked may lock it afterwards, when others already *)
(* find another file under the name.                                       *)
(***************************************************************************)
EXTENDS Naturals

CONSTANTS
  Processes,
  Inodes,   \* files; one per process and one under the name are enough
  NoFile,
  MaxDeaths \* bound: processes that are killed

ASSUME InodesAssumption == NoFile \notin Inodes
ASSUME DeathsAssumption == MaxDeaths \in Nat

VARIABLES
  name,     \* the file under the lock's name, or NoFile
  pc,       \* process -> where it is
  file,     \* process -> the file its descriptor refers to
  released, \* has the lock ever been given back by unlock ()?
  deaths    \* counter for the bound

vars == <<name, pc, file, released, deaths>>

\* The processes whose descriptor holds the flock of its file.  A command that
\* outlives with-lock.py, or the bin/gub that ran it, has inherited the descriptor.
Holds(p) == pc[p] \in {"inside", "orphan", "unlinked"}

\* The processes that rely on being alone.
Inside == {p \in Processes : pc[p] \in {"inside", "orphan"}}

TypeOK ==
  /\ name \in Inodes \cup {NoFile}
  /\ pc \in [Processes -> {"out", "opened", "inside", "orphan", "unlinked"}]
  /\ file \in [Processes -> Inodes \cup {NoFile}]
  /\ \A p \in Processes : pc[p] = "out" <=> file[p] = NoFile
  /\ released \in BOOLEAN
  /\ deaths \in 0..MaxDeaths

Init ==
  /\ name = NoFile
  /\ pc = [p \in Processes |-> "out"]
  /\ file = [p \in Processes |-> NoFile]
  /\ released = FALSE
  /\ deaths = 0

\* Mistake: the descriptor leaks.
CloseNothing(p) == /\ pc' = [pc EXCEPT ![p] = "out"]
                   /\ UNCHANGED file

Close(p) == /\ pc' = [pc EXCEPT ![p] = "out"]
            /\ file' = [file EXCEPT ![p] = NoFile]

\* Mistake: the file itself is the lock (O_EXCL), and who finds it gives up.
OpenExclusively(p) ==
  /\ pc[p] = "out"
  /\ \/ name # NoFile /\ UNCHANGED vars
     \/ /\ name = NoFile
        /\ \E i \in Inodes :
             /\ \A q \in Processes : file[q] # i
             /\ name' = i
             /\ file' = [file EXCEPT ![p] = i]
        /\ pc' = [pc EXCEPT ![p] = "opened"]
        /\ UNCHANGED <<released, deaths>>

\* open (lock_file_name, 'a') makes the file if there is none.
Open(p) ==
  /\ pc[p] = "out"
  /\ \E i \in Inodes :
       /\ IF name # NoFile THEN i = name ELSE \A q \in Processes : file[q] # i
       /\ name' = i
       /\ file' = [file EXCEPT ![p] = i]
  /\ pc' = [pc EXCEPT ![p] = "opened"]
  /\ UNCHANGED <<released, deaths>>

\* Mistake: commands do not inherit the descriptor.
FreeOfLockers(i) == \A q \in Processes : file[q] = i => pc[q] # "inside"
Free(i) == \A q \in Processes : file[q] = i => ~Holds(q)

Flock(p) ==
  /\ pc[p] = "opened" /\ Free(file[p])
  /\ pc' = [pc EXCEPT ![p] = "inside"]
  /\ UNCHANGED <<name, file, released, deaths>>

\* LockedError: the file is closed and stays where it is.
Refuse(p) ==
  /\ pc[p] = "opened" /\ ~Free(file[p])
  /\ Close(p)
  /\ UNCHANGED <<name, released, deaths>>

\* unlock: os.remove takes away whatever is under the name by now.  If that is
\* nothing it raises, but then the descriptor goes with the Locker object.
Unlink(p) ==
  /\ pc[p] = "inside"
  /\ name' = NoFile
  /\ released' = TRUE
  /\ pc' = [pc EXCEPT ![p] = "unlinked"]
  /\ UNCHANGED <<file, deaths>>

Unlock(p) ==
  /\ pc[p] = "unlinked"
  /\ Close(p)
  /\ UNCHANGED <<name, released, deaths>>

\* A killed process never gets to unlock; the kernel drops its lock with the
\* last copy of the descriptor, which may be its child's.
Die(p) ==
  /\ pc[p] \in {"opened", "inside", "unlinked"} /\ deaths < MaxDeaths
  /\ deaths' = deaths + 1
  /\ \/ Close(p)
     \/ /\ pc[p] = "inside"
        /\ pc' = [pc EXCEPT ![p] = "orphan"]
        /\ UNCHANGED file
  /\ UNCHANGED <<name, released>>

OrphanEnds(p) ==
  /\ pc[p] = "orphan"
  /\ Close(p)
  /\ UNCHANGED <<name, released, deaths>>

Step(p) == Open(p) \/ Flock(p) \/ Refuse(p) \/ Unlink(p) \/ Unlock(p) \/ OrphanEnds(p)
Next    == \E p \in Processes : Step(p) \/ Die(p)

Spec == Init /\ [][Next]_vars

\* The scheduler runs every process, and every command ends.
Fairness == \A p \in Processes : WF_vars(Step(p))
FairSpec == Spec /\ Fairness

-----------------------------------------------------------------------------
(* Properties *)

\* Locker (`Can't acquire lock') and with-lock.py: two processes are never in
\* the guarded part together.
Exclusive == \A p, q \in Inside : p = q

\* Runs that are killed, even while a child of theirs goes on, do not break
\* mutual exclusion: only giving the lock back does.
ExclusiveUntilReleased == ~released => Exclusive

\* Why: until then there is only ever one file.
OneFile ==
  ~released => \A p \in Processes :
    /\ pc[p] # "out" => name # NoFile /\ file[p] = name
    /\ pc[p] # "unlinked"

\* A lock file that a killed process left behind shuts nobody out: again and
\* again some process gets in.
Obtainable == []<>(\E p \in Processes : pc[p] = "inside")

=============================================================================
