----------------------------- MODULE BuildOrder -----------------------------
(***************************************************************************)
(* get_source_packages of gub/gup.py: which builds are needed for the      *)
(* names on the command line, and in which order they are built.           *)
(*                                                                         *)
(* A loop alternates set_cross_dependencies (gub/cross.py), which adds     *)
(* dependencies that follow from the builds known so far, with a search    *)
(* that loads every build it reaches.  When a search loads nothing new, a  *)
(* last one gives the order.  Both are topologically_sorted_one, a         *)
(* depth-first search; its recursion is a stack here, and the lists and    *)
(* dictionaries it goes through in some order are sets.                    *)
(***************************************************************************)
EXTENDS Naturals, Sequences, FiniteSets

CONSTANTS
  Names,     \* <platform>::<name> of every build there is
  Parts,     \* <platform>::<name>-devel and the like: its subpackages
  PartOf,    \* part -> the name of its build
  Recipes,   \* the dependencies that spec files may declare: name -> names, parts
  Arguments, \* const_todo: the command lines
  Class,     \* name -> "other", "cross", "sdk", "binary" or "tools"
  Platform,  \* name -> its platform
  HostPlatforms, \* those of what runs while building: tools, tools32, system
  Narrow,    \* 32-bit platforms that are built on 64 bits
  OwnDict,   \* builds whose class has a get_dependency_dict of its own, or that the
             \* host system provides: tools.py leaves them alone
  ToolsLibtool, \* tools::libtool
  LibtoolOf, \* platform -> its libtool
  ToolOf,    \* tools32::x -> tools::x
  Runtimes,  \* the parts <platform>::<name>-runtime
  CrossDeps, \* platform -> get_cross_build_dependencies, as names
  Bootstrap, \* bootstrap_names
  Kinds,     \* name -> what must be there to unpack, patch and build it
  Helpers,   \* kind -> the tools it depends on
  Extras,    \* kind -> tools that are built as well, without a dependency
  RsyncKinds \* the kinds of repository that need rsync, in order

Targets   == Names \cup Parts
KindNames == UNION {Kinds[n] : n \in Names}

ASSUME NamesAssumption ==
  /\ IsFiniteSet(Names) /\ IsFiniteSet(Parts)
  /\ Parts \cap Names = {} /\ PartOf \in [Parts -> Names]
  /\ Arguments \subseteq SUBSET Targets /\ Bootstrap \subseteq Names
  /\ Recipes \subseteq [Names -> SUBSET Targets]
  /\ CrossDeps \in [{Platform[n] : n \in Names} -> SUBSET Names]
  /\ OwnDict \subseteq Names /\ Runtimes \subseteq Parts
  /\ LibtoolOf \in [{Platform[n] : n \in Names} -> Names]
  /\ DOMAIN ToolOf \subseteq Targets /\ \A m \in DOMAIN ToolOf : ToolOf[m] \in Names
  /\ \A k \in KindNames : Helpers[k] \subseteq Names /\ Extras[k] \subseteq Names

VARIABLES
  declared, \* name -> the dependencies of its spec file
  specs,    \* the builds loaded so far
  added,    \* name -> dependencies added by set_cross_dependencies
  todo,     \* the names to search from
  count,    \* last_count
  pc,       \* "loop", "load", "sort" or "done"
  roots,    \* what topologically_sorted has left
  done,     \* its dictionary of names already visited
  stack,    \* the calls in progress, innermost first: name, dependencies left
  sorted    \* the result so far

vars   == <<declared, specs, added, todo, count, pc, roots, done, stack, sorted>>
search == <<roots, done, stack>>

\* get_base_package_name
Base(n) == IF n \in Parts THEN PartOf[n] ELSE n

(* package_auto_dependency_dict (gub/tools.py) *)

\* libtool_update needs the libtool of the platform a package is built for; tools
\* that only run while building are not built for 32 bits.
OwnLibtool(n, m) == IF m = ToolsLibtool /\ Class[n] # "cross" THEN LibtoolOf[Platform[n]] ELSE m
Rewritten(n, m)  == LET own == OwnLibtool(n, m) IN
                    IF Platform[n] \in Narrow /\ own \in DOMAIN ToolOf THEN ToolOf[own] ELSE own
Own(n) == IF n \in OwnDict THEN declared[n] ELSE {Rewritten(n, m) : m \in declared[n]}

\* What the headers of its packages name: what is no tool (one of n's own platform
\* may be written without it), with and without -devel, and what n itself makes.
Linked(n) == {m \in Own(n) : /\ Platform[Base(m)] \notin HostPlatforms \ {Platform[n]}
                             /\ Class[Base(m)] = "cross" => m \in Runtimes}
Header(n) == Linked(n) \cup {Base(m) : m \in Linked(n) \ Runtimes}
             \cup {n} \cup {m \in Runtimes : PartOf[m] = n}

\* Mistake: the dependencies are looked at before they are rewritten.
DeclaredDepsOf(n) == {Base(m) : m \in declared[n] \cup added[n]}

\* The builds that n depends on, a subpackage's being the one it comes from.
DepsOf(n) == {Base(m) : m \in Own(n) \cup added[n]}

TypeOK ==
  /\ declared \in Recipes
  /\ specs \subseteq Names /\ todo \subseteq Targets
  /\ added \in [Names -> SUBSET Names]
  /\ count \in Nat
  /\ pc \in {"loop", "load", "sort", "done"}
  /\ roots \subseteq Targets /\ done \subseteq Targets
  /\ stack \in Seq([name : Targets, left : SUBSET Names])
  /\ sorted \in Seq(Names)

Init ==
  /\ declared \in Recipes
  /\ specs = {} /\ todo \in Arguments
  /\ added = [n \in Names |-> {}]
  /\ count = Cardinality(todo)
  /\ pc = "loop"
  /\ roots = {} /\ done = {} /\ stack = <<>> /\ sorted = <<>>

-----------------------------------------------------------------------------
(* set_cross_dependencies, for the builds S *)

Alike(n, S, class) == {c \in S : Class[c] = class /\ Platform[c] = Platform[n]}
IsOther(n)         == Class[n] = "other" /\ n \notin Bootstrap

\* rsync_packs is the first of three lists that has any builds.
Rsync(S, k) == /\ \E n \in S : k \in Kinds[n]
               /\ \A i, j \in DOMAIN RsyncKinds :
                    RsyncKinds[j] = k /\ i < j => \A n \in S : RsyncKinds[i] \notin Kinds[n]
Active(S)   == {k \in KindNames :
                  IF \E i \in DOMAIN RsyncKinds : RsyncKinds[i] = k THEN Rsync(S, k)
                  ELSE \E n \in S : k \in Kinds[n]}

\* What get_build_dependencies of a build is overridden to add.
Implied(n, S) ==
  UNION ({Helpers[k] : k \in Kinds[n] \cap Active(S)}
    \cup (IF IsOther(n) THEN {Alike(n, S, "cross")} ELSE {})
    \cup (IF IsOther(n) \/ Class[n] = "cross" THEN {Alike(n, S, "sdk")} ELSE {})
    \cup (IF (IsOther(n) \/ Class[n] \in {"cross", "tools"}) /\ n \notin Bootstrap
          THEN {Bootstrap} ELSE {}))

\* What it returns: names for todo.
Needed(S) ==
  UNION ({CrossDeps[Platform[n]] \cup Bootstrap : n \in S}
    \cup {Helpers[k] \cup Extras[k] : k \in Active(S)})

\* Mistake: all searches share the dictionary of visited names.
SearchSharing(p, from) == pc' = p /\ roots' = from /\ done' = done /\ stack' = <<>>

Search(p, from) == pc' = p /\ roots' = from /\ done' = {} /\ stack' = <<>>

\* Mistake: the loop compares with the length of todo throughout.
SetCrossDependenciesTodo ==
  /\ pc = "loop" /\ count # Cardinality(specs)
  /\ added' = [n \in Names |-> IF n \in specs THEN added[n] \cup Implied(n, specs)
                                              ELSE added[n]]
  /\ todo' = todo \cup Needed(specs)
  /\ count' = Cardinality(todo')
  /\ Search("load", todo')
  /\ UNCHANGED <<declared, specs, sorted>>

SetCrossDependencies ==
  /\ pc = "loop" /\ count # Cardinality(specs)
  /\ added' = [n \in Names |-> IF n \in specs THEN added[n] \cup Implied(n, specs)
                                              ELSE added[n]]
  /\ todo' = todo \cup Needed(specs)
  /\ count' = Cardinality(specs)
  /\ Search("load", todo')
  /\ UNCHANGED <<declared, specs, sorted>>

-----------------------------------------------------------------------------
(* topologically_sorted_one *)

\* The names the innermost loop has left, and the state once it takes one.
Left    == IF stack = <<>> THEN roots ELSE Head(stack).left
Take(n) == IF stack = <<>> THEN roots' = roots \ {n} /\ stack' = stack
           ELSE /\ roots' = roots
                /\ stack' = <<[Head(stack) EXCEPT !.left = @ \ {n}]>> \o Tail(stack)

\* `if todo in done'.
Skip ==
  /\ pc \in {"load", "sort"}
  /\ \E n \in Left \cap done : Take(n)
  /\ UNCHANGED <<declared, specs, added, todo, count, pc, done, sorted>>

\* The call for a new name; in the loop its spec is loaded.
Call(n) == IF stack = <<>>
           THEN /\ roots' = roots \ {n}
                /\ stack' = <<[name |-> n, left |-> DepsOf(Base(n))]>>
           ELSE /\ roots' = roots
                /\ stack' = <<[name |-> n, left |-> DepsOf(Base(n))],
                              [Head(stack) EXCEPT !.left = @ \ {n}]>> \o Tail(stack)

Visit ==
  /\ pc \in {"load", "sort"}
  /\ \E n \in Left \ done :
       /\ Call(n)
       /\ done' = done \cup {n}
       /\ specs' = IF pc = "load" THEN specs \cup {Base(n)} ELSE specs
  /\ UNCHANGED <<declared, added, todo, count, pc, sorted>>

\* Mistakes: the result is put in front, or is the call itself.
ReturnInFront ==
  /\ pc \in {"load", "sort"} /\ stack # <<>> /\ Head(stack).left = {}
  /\ stack' = Tail(stack)
  /\ sorted' = IF pc = "sort" THEN <<Head(stack).name>> \o sorted ELSE sorted
  /\ UNCHANGED <<declared, specs, added, todo, count, pc, roots, done>>
ReturnCall ==
  /\ pc \in {"load", "sort"} /\ stack # <<>> /\ Head(stack).left = {}
  /\ stack' = Tail(stack)
  /\ sorted' = IF pc = "sort" THEN Append(sorted, Head(stack)) ELSE sorted
  /\ UNCHANGED <<declared, specs, added, todo, count, pc, roots, done>>

Return ==
  /\ pc \in {"load", "sort"} /\ stack # <<>> /\ Head(stack).left = {}
  /\ stack' = Tail(stack)
  /\ sorted' = IF pc = "sort" THEN Append(sorted, Head(stack).name) ELSE sorted
  /\ UNCHANGED <<declared, specs, added, todo, count, pc, roots, done>>

Searched == roots = {} /\ stack = <<>>

Loaded ==
  /\ pc = "load" /\ Searched
  /\ pc' = "loop"
  /\ UNCHANGED <<declared, specs, added, todo, count, search, sorted>>

\* Mistake: one round is enough.
SortAtOnce ==
  /\ pc = "loop" /\ specs # {}
  /\ Search("sort", specs)
  /\ UNCHANGED <<declared, specs, added, todo, count, sorted>>

\* The while loop ends.
Sort ==
  /\ pc = "loop" /\ count = Cardinality(specs)
  /\ Search("sort", specs)
  /\ UNCHANGED <<declared, specs, added, todo, count, sorted>>

Finish ==
  /\ pc = "sort" /\ Searched
  /\ pc' = "done"
  /\ UNCHANGED <<declared, specs, added, todo, count, search, sorted>>

Next == \/ SetCrossDependencies \/ Skip \/ Visit \/ Return
        \/ Loaded \/ Sort \/ Finish

Spec     == Init /\ [][Next]_vars
FairSpec == Spec /\ WF_vars(Next)

-----------------------------------------------------------------------------
(* Properties *)

\* Everything that is asked for or depended on is built, each build once.
Complete ==
  pc = "done" =>
    /\ {sorted[i] : i \in DOMAIN sorted} = specs /\ Len(sorted) = Cardinality(specs)
    /\ \A n \in todo : Base(n) \in specs
    /\ \A n \in specs : DepsOf(n) \subseteq specs

\* Although the headers of packages are made of a list of their own, all that they
\* name is built, so that bin/gib and the package manager find it.
Installable ==
  pc = "done" => \A n \in specs \ OwnDict : \A m \in Header(n) : Base(m) \in specs

\* The loop does not stop before set_cross_dependencies has nothing to add.
Settled ==
  pc = "done" => /\ Needed(specs) \subseteq todo
                 /\ \A n \in specs : Implied(n, specs) \subseteq added[n]

\* There is a chain of dependencies from m to n: every set with m in it that is
\* closed under dependencies has n in it.
Reaches(m, n) ==
  \A S \in SUBSET specs :
    m \in S /\ (\A s \in S : DepsOf(s) \cap specs \subseteq S) => n \in S

\* A build precedes one that it depends on only if the two are in a cycle.
OnlyCyclesAreUnordered ==
  pc = "done" => \A i, j \in DOMAIN sorted :
    i < j /\ sorted[j] \in DepsOf(sorted[i]) => Reaches(sorted[j], sorted[i])

\* The loop and the searches come to an end, cycles or not.
Terminates == <>(pc = "done")

=============================================================================
