-------------------------------- MODULE Registry --------------------------------
(***************************************************************************)
(* What the package database of a root promises to its users: a package    *)
(* comes and goes as a whole, and never touches the files of another.  That *)
(* ends when a process dies at work.  From then on files may belong to      *)
(* anybody, and still a package is not called installed before all of it    *)
(* has been unpacked.  Module Gup implements this one.                      *)
(***************************************************************************)
CONSTANTS Packages, Files, Contents, None

VARIABLES
  installed, \* package -> the paths it consists of, or None
  held,      \* file -> the package whose copy is there, or None
  sound      \* no process has died at work

vars == <<installed, held, sound>>

Init ==
  /\ installed = [p \in Packages |-> None]
  /\ held = [x \in Files |-> None]
  /\ sound = TRUE

Install(p) ==
  /\ sound /\ installed[p] = None
  /\ \E c \in Contents :
       /\ \A x \in c \cap Files : held[x] = None
       /\ installed' = [installed EXCEPT ![p] = c]
       /\ held' = [x \in Files |-> IF x \in c THEN p ELSE held[x]]
  /\ sound' = sound

Remove(p) ==
  /\ sound /\ installed[p] # None
  /\ installed' = [installed EXCEPT ![p] = None]
  /\ held' = [x \in Files |-> IF held[x] = p THEN None ELSE held[x]]
  /\ sound' = sound

\* Half of p may be there, called installed or not.
Crash(p) ==
  /\ sound /\ sound' = FALSE
  /\ \E c \in Contents \cup {None} : installed' = [installed EXCEPT ![p] = c]
  /\ \E S \in SUBSET Files : held' = [x \in Files |-> IF x \in S THEN p ELSE held[x]]

Unsound(p) ==
  /\ ~sound /\ sound' = sound
  /\ \/ /\ \E x \in Files : \E q \in {p, None} : held' = [held EXCEPT ![x] = q]
        /\ UNCHANGED installed
     \/ /\ installed[p] = None
        /\ \E c \in Contents :
             /\ \A x \in c \cap Files : held[x] = p
             /\ installed' = [installed EXCEPT ![p] = c]
        /\ UNCHANGED held
     \/ /\ installed[p] # None
        /\ installed' = [installed EXCEPT ![p] = None]
        /\ UNCHANGED held

Next == \E p \in Packages : Install(p) \/ Remove(p) \/ Crash(p) \/ Unsound(p)

Spec == Init /\ [][Next]_vars

=============================================================================
