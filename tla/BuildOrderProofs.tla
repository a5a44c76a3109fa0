-------------------------- MODULE BuildOrderProofs --------------------------
(* Theorems about BuildOrder, for every set of builds, whatever they depend  *)
(* on and whatever order the lists and dictionaries of gup.py have.          *)
EXTENDS BuildOrder, FiniteSetTheorems, TLAPS

Frame == [name : Targets, left : SUBSET Names]

Bases(T)  == {Base(n) : n \in T}
Closed(C) == \A c \in C : DepsOf(c) \subseteq C

-----------------------------------------------------------------------------
(* The operators                                                             *)

LEMMA BaseNames == \A n \in Targets : Base(n) \in Names
BY NamesAssumption DEF Base, Targets

LEMMA BaseOfName == \A n \in Names : Base(n) = n
BY NamesAssumption DEF Base

LEMMA DepsNames ==
  ASSUME TypeOK
  PROVE  \A n \in Names : DepsOf(n) \subseteq Names
<1>1. \A n \in Names : \A m \in declared[n] : Rewritten(n, m) \in Targets
  <2>1. \A n \in Names : \A m \in declared[n] : m \in Targets
    BY NamesAssumption DEF TypeOK
  <2>2. \A n \in Names : \A m \in declared[n] : OwnLibtool(n, m) \in Targets
    BY <2>1, NamesAssumption DEF OwnLibtool, Targets
  <2>3. QED
    BY <2>2, NamesAssumption DEF Rewritten, Targets
<1>2. \A n \in Names : Own(n) \cup added[n] \subseteq Targets
  BY <1>1, NamesAssumption DEF TypeOK, Targets, Own
<1>3. QED
  BY <1>2, BaseNames DEF DepsOf

LEMMA CrossNames ==
  ASSUME NEW S \in SUBSET Names
  PROVE  /\ Needed(S) \subseteq Names
         /\ \A n \in S : Implied(n, S) \subseteq Names
<1>1. Active(S) \subseteq KindNames
  BY DEF Active
<1>2. \A n \in S : CrossDeps[Platform[n]] \subseteq Names
  BY NamesAssumption
<1>3. \A k \in Active(S) : Helpers[k] \subseteq Names /\ Extras[k] \subseteq Names
  BY <1>1, NamesAssumption
<1>4. Needed(S) \subseteq Names
  BY <1>2, <1>3, NamesAssumption DEF Needed
<1>5. ASSUME NEW n \in S PROVE Implied(n, S) \subseteq Names
  <2>1. \A c : Alike(n, S, c) \subseteq Names
    BY DEF Alike
  <2>2. \A k \in Kinds[n] \cap Active(S) : Helpers[k] \subseteq Names
    BY <1>3
  <2>3. ASSUME NEW d \in Implied(n, S) PROVE d \in Names
    BY <2>1, <2>2, NamesAssumption DEF Implied
  <2>4. QED
    BY <2>3
<1>6. QED
  BY <1>4, <1>5

\* Nothing is needed for no builds.
LEMMA NeededOfNone == Needed({}) = {}
<1>1. Active({}) = {}
  BY DEF Active, Rsync
<1>2. QED
  BY <1>1 DEF Needed

LEMMA FiniteSpecs ==
  ASSUME NEW S \in SUBSET Targets
  PROVE  IsFiniteSet(S) /\ Cardinality(S) \in Nat
<1>1. IsFiniteSet(Names \cup Parts)
  BY NamesAssumption, FS_Union
<1>2. IsFiniteSet(S)
  BY <1>1, FS_Subset DEF Targets
<1>3. QED
  BY <1>2, FS_CardinalityType

-----------------------------------------------------------------------------
(* The stack                                                                 *)

\* What taking n out of the innermost loop does to the loops in progress.
LEMMA Taken ==
  ASSUME stack \in Seq(Frame), roots \subseteq Targets, NEW n, Take(n)
  PROVE  /\ stack' \in Seq(Frame) /\ Len(stack') = Len(stack)
         /\ \A i \in 1..Len(stack) : /\ stack'[i].name = stack[i].name
                                     /\ stack'[i].left \subseteq stack[i].left
                                     /\ stack[i].left \ {n} \subseteq stack'[i].left
         /\ roots' \subseteq roots /\ roots \ {n} \subseteq roots'
<1>1. CASE stack = <<>>
  BY <1>1 DEF Take
<1>2. CASE stack # <<>>
  <2> DEFINE h == [Head(stack) EXCEPT !.left = @ \ {n}]
  <2>1. stack' = <<h>> \o Tail(stack) /\ roots' = roots
    BY <1>2 DEF Take
  <2>2. Head(stack) = stack[1] /\ stack[1] \in Frame
    BY <1>2
  <2>3. /\ h \in Frame /\ h.name = stack[1].name
        /\ h.left = stack[1].left \ {n}
    BY <2>2 DEF Frame
  <2> HIDE DEF h
  <2>4. /\ stack' \in Seq(Frame) /\ Len(stack') = Len(stack) /\ stack'[1] = h
        /\ \A i \in 2..Len(stack) : stack'[i] = stack[i]
    BY <1>2, <2>1, <2>3
  <2>5. QED
    BY <2>1, <2>3, <2>4
<1>3. QED
  BY <1>1, <1>2

\* What calling the function for n does to them.
LEMMA Called ==
  ASSUME stack \in Seq(Frame), roots \subseteq Targets, NEW n \in Targets,
         DepsOf(Base(n)) \subseteq Names, Call(n)
  PROVE  /\ stack' \in Seq(Frame) /\ Len(stack') = Len(stack) + 1
         /\ stack'[1].name = n /\ stack'[1].left = DepsOf(Base(n))
         /\ \A i \in 1..Len(stack) :
              /\ stack'[i + 1].name = stack[i].name
              /\ stack'[i + 1].left \subseteq stack[i].left
              /\ stack[i].left \ {n} \subseteq stack'[i + 1].left
         /\ roots' \subseteq roots /\ roots \ {n} \subseteq roots'
<1> DEFINE f == [name |-> n, left |-> DepsOf(Base(n))]
           h == [Head(stack) EXCEPT !.left = @ \ {n}]
<1>1. f \in Frame /\ f.name = n /\ f.left = DepsOf(Base(n))
  BY DEF Frame
<1>2. CASE stack = <<>>
  <2>1. stack' = <<f>> /\ roots' = roots \ {n}
    BY <1>2 DEF Call
  <2> HIDE DEF f
  <2>2. stack' \in Seq(Frame) /\ Len(stack') = 1 /\ stack'[1] = f
    BY <1>1, <2>1
  <2>3. Len(stack) = 0
    BY <1>2
  <2>4. QED
    BY <1>1, <2>1, <2>2, <2>3
<1>3. CASE stack # <<>>
  <2>1. stack' = <<f, h>> \o Tail(stack) /\ roots' = roots
    BY <1>3 DEF Call
  <2>2. Head(stack) = stack[1] /\ stack[1] \in Frame
    BY <1>3
  <2>3. /\ h \in Frame /\ h.name = stack[1].name
        /\ h.left = stack[1].left \ {n}
    BY <2>2 DEF Frame
  <2> HIDE DEF f, h
  <2>4. /\ stack' \in Seq(Frame) /\ Len(stack') = Len(stack) + 1
        /\ stack'[1] = f /\ stack'[2] = h
        /\ \A i \in 3..Len(stack') : stack'[i] = stack[i - 1]
    BY <1>1, <1>3, <2>1, <2>3
  <2>5. \A i \in 2..Len(stack) : stack'[i + 1] = stack[i]
    BY <2>4
  <2>6. QED
    BY <1>1, <2>1, <2>3, <2>4, <2>5
<1>4. QED
  BY <1>2, <1>3

LEMMA Returned ==
  ASSUME stack \in Seq(Frame), stack # <<>>, stack' = Tail(stack)
  PROVE  /\ stack' \in Seq(Frame) /\ Len(stack') = Len(stack) - 1
         /\ \A i \in 1..Len(stack') : stack'[i] = stack[i + 1]
         /\ Head(stack) = stack[1] /\ stack[1] \in Frame
OBVIOUS

-----------------------------------------------------------------------------
(* The invariant                                                             *)

From    == IF pc = "load" THEN todo ELSE specs
Fresh   == pc = "loop" /\ specs = {} /\ count # 0
Results == {sorted[i] : i \in DOMAIN sorted}
Sorting == pc \in {"sort", "done"}

\* A search has visited what it has taken from a loop, and finished with a name
\* unless the call for it is on the stack.
SearchInv ==
  pc # "loop" =>
    /\ roots \subseteq From /\ From \subseteq roots \cup done
    /\ pc = "done" => Searched
    /\ Sorting => done \subseteq Names
    /\ \A n \in done : Base(n) \in specs
    /\ \A i \in 1..Len(stack) :
         /\ stack[i].name \in done
         /\ stack[i].left \subseteq DepsOf(Base(stack[i].name))
         /\ DepsOf(Base(stack[i].name)) \subseteq stack[i].left \cup done
    /\ \A n \in done : \/ \E i \in 1..Len(stack) : stack[i].name = n
                       \/ DepsOf(Base(n)) \subseteq done

\* What is loaded is needed: it is in every closed set that has todo in it.
ReachInv ==
  \A C \in SUBSET Names : Bases(todo) \subseteq C /\ Closed(C) => specs \subseteq C

\* Once a search is over, what is needed is loaded.
ClosedInv ==
  pc # "load" /\ ~Fresh => Bases(todo) \subseteq specs /\ Closed(specs)

\* set_cross_dependencies was last called with last_count builds, which are all
\* there are when the loop ends.
SettledInv ==
  Fresh \/ \E S \in SUBSET specs :
             /\ Cardinality(S) = count
             /\ Needed(S) \subseteq todo
             /\ \A n \in S : Implied(n, S) \subseteq added[n]
             /\ Sorting => S = specs

\* What the last search has visited is on the stack or in the result, once, and
\* the stack is a chain of dependencies.
SortInv ==
  IF Sorting
  THEN /\ \A i, j \in 1..Len(stack) : stack[i].name = stack[j].name => i = j
       /\ \A i \in 1..Len(stack) : stack[i].name \notin Results
       /\ \A n \in done : n \in Results \/ \E i \in 1..Len(stack) : stack[i].name = n
       /\ Results \subseteq done
       /\ Cardinality(Results) = Len(sorted)
       /\ \A i, j \in 1..Len(sorted) : sorted[i] = sorted[j] => i = j
       /\ \A i, j \in 1..Len(stack) : i < j => Reaches(stack[j].name, stack[i].name)
       /\ \A i \in 1..Len(sorted) : \A d \in DepsOf(sorted[i]) :
            (\E k \in 1..(i - 1) : sorted[k] = d) \/ Reaches(d, sorted[i])
  ELSE sorted = <<>>

IInv == TypeOK /\ SearchInv /\ ReachInv /\ ClosedInv /\ SettledInv /\ SortInv

LEMMA InitHolds == Init => IInv
<1> SUFFICES ASSUME Init PROVE IInv
  OBVIOUS
<1>1. todo \subseteq Targets /\ specs = {} /\ pc = "loop" /\ sorted = <<>>
  BY NamesAssumption DEF Init
<1>2. TypeOK
  BY <1>1, FiniteSpecs DEF Init, TypeOK
<1>3. SearchInv /\ SortInv
  BY <1>1 DEF SearchInv, SortInv, Sorting
<1>4. ReachInv
  BY <1>1 DEF ReachInv
<1>5. CASE Fresh
  BY <1>2, <1>3, <1>4, <1>5 DEF IInv, ClosedInv, SettledInv
<1>6. CASE ~Fresh
  <2>1. count = 0 /\ IsFiniteSet(todo)
    BY <1>1, <1>6, FiniteSpecs DEF Fresh
  <2>2. todo = {}
    BY <2>1, FS_EmptySet DEF Init
  <2>3. ClosedInv
    BY <1>1, <2>2 DEF ClosedInv, Bases, Closed
  <2>4. Cardinality({}) = count
    BY <2>1, FS_EmptySet
  <2>5. SettledInv
    BY <1>1, <2>4, NeededOfNone DEF SettledInv, Sorting
  <2>6. QED
    BY <1>2, <1>3, <1>4, <2>3, <2>5 DEF IInv
<1>7. QED
  BY <1>5, <1>6

LEMMA CrossHolds == IInv /\ SetCrossDependencies => IInv'
<1> SUFFICES ASSUME IInv, SetCrossDependencies PROVE IInv'
  OBVIOUS
<1>0. TypeOK /\ specs \subseteq Names
  BY DEF IInv, TypeOK
<1>1. /\ pc = "loop" /\ pc' = "load" /\ todo' = todo \cup Needed(specs)
      /\ count' = Cardinality(specs) /\ roots' = todo' /\ done' = {}
      /\ stack' = <<>> /\ UNCHANGED <<declared, specs, sorted>>
      /\ added' = [n \in Names |-> IF n \in specs THEN added[n] \cup Implied(n, specs)
                                                   ELSE added[n]]
  BY DEF SetCrossDependencies, Search
<1>2. Needed(specs) \subseteq Names /\ \A n \in specs : Implied(n, specs) \subseteq Names
  BY <1>0, CrossNames
<1>3. TypeOK'
  <2>1. added' \in [Names -> SUBSET Names]
    BY <1>0, <1>1, <1>2 DEF TypeOK
  <2>2. todo' \subseteq Targets
    BY <1>0, <1>1, <1>2 DEF TypeOK, Targets
  <2>3. count' \in Nat
    BY <1>0, <1>1, FiniteSpecs DEF Targets
  <2>4. stack' \in Seq([name : Targets, left : SUBSET Names])
    BY <1>1
  <2>5. QED
    BY <1>0, <1>1, <2>1, <2>2, <2>3, <2>4 DEF TypeOK
<1>4. SearchInv'
  BY <1>1 DEF SearchInv, From, Sorting
<1>5. ReachInv'
  <2>1. \A n \in Names : DepsOf(n) \subseteq DepsOf(n)'
    BY <1>0, <1>1 DEF DepsOf, Own, TypeOK
  <2>2. Bases(todo) \subseteq Bases(todo)'
    BY <1>1 DEF Bases
  <2>3. QED
    BY <1>1, <2>1, <2>2 DEF IInv, ReachInv, Closed
<1>6. ClosedInv' /\ SortInv'
  BY <1>1 DEF ClosedInv, SortInv, Sorting, IInv
<1>7. SettledInv'
  <2>1. \A n \in specs : Implied(n, specs) \subseteq added'[n]
    BY <1>0, <1>1
  <2>2. QED
    BY <1>1, <2>1 DEF SettledInv, Sorting
<1>8. QED
  BY <1>3, <1>4, <1>5, <1>6, <1>7 DEF IInv

\* Where the names in the innermost loop come from.
LEMMA LeftKnown ==
  ASSUME IInv, pc \in {"load", "sort"}, NEW n \in Left
  PROVE  /\ n \in Targets
         /\ pc = "load" => n \in todo \/ \E m \in specs : n \in DepsOf(m)
         /\ pc = "sort" => n \in specs
<1>1. TypeOK /\ stack \in Seq(Frame)
  BY DEF IInv, TypeOK, Frame
<1>2. n \in From \/ \E m \in specs : n \in DepsOf(m)
  <2>1. CASE stack = <<>>
    BY <2>1 DEF Left, IInv, SearchInv
  <2>2. CASE stack # <<>>
    <3>1. Head(stack) = stack[1] /\ 1 \in 1..Len(stack)
      BY <1>1, <2>2
    <3>2. stack[1].left \subseteq DepsOf(Base(stack[1].name)) /\ stack[1].name \in done
      BY <3>1 DEF IInv, SearchInv
    <3>3. Base(stack[1].name) \in specs
      BY <3>2 DEF IInv, SearchInv
    <3>4. QED
      BY <2>2, <3>1, <3>2, <3>3 DEF Left
  <2>3. QED
    BY <2>1, <2>2
<1>3. CASE pc = "load"
  BY <1>1, <1>2, <1>3, DepsNames DEF From, TypeOK, Targets
<1>4. CASE pc = "sort"
  <2>1. Closed(specs)
    BY <1>4 DEF IInv, ClosedInv, Fresh
  <2>2. QED
    BY <1>1, <1>2, <1>4, <2>1 DEF From, Closed, TypeOK, Targets
<1>5. QED
  BY <1>3, <1>4

\* What leaves these alone leaves alone what they say.
LEMMA Kept ==
  ASSUME IInv, UNCHANGED <<declared, specs, added, todo, count, pc>>
  PROVE  ReachInv' /\ ClosedInv' /\ SettledInv'
<1>1. \A n : DepsOf(n)' = DepsOf(n)
  BY DEF DepsOf, Own
<1>2. QED
  BY <1>1 DEF IInv, ReachInv, ClosedInv, SettledInv, Closed, Bases, Fresh, Sorting

LEMMA SameGraph ==
  ASSUME UNCHANGED <<declared, specs, added>>
  PROVE  \A m : DepsOf(m)' = DepsOf(m) /\ \A n : Reaches(m, n)' <=> Reaches(m, n)
<1>1. \A m : DepsOf(m)' = DepsOf(m)
  BY DEF DepsOf, Own
<1>2. QED
  BY <1>1 DEF Reaches

LEMMA SkipHolds == IInv /\ Skip => IInv'
<1> SUFFICES ASSUME IInv, Skip PROVE IInv'
  OBVIOUS
<1>0. /\ TypeOK /\ stack \in Seq(Frame) /\ roots \subseteq Targets
      /\ pc \in {"load", "sort"}
      /\ UNCHANGED <<declared, specs, added, todo, count, pc, done, sorted>>
  BY DEF IInv, TypeOK, Frame, Skip
<1>1. PICK n \in Left \cap done : Take(n)
  BY DEF Skip
<1>2. /\ stack' \in Seq(Frame) /\ Len(stack') = Len(stack)
      /\ \A i \in 1..Len(stack) : /\ stack'[i].name = stack[i].name
                                  /\ stack'[i].left \subseteq stack[i].left
                                  /\ stack[i].left \ {n} \subseteq stack'[i].left
      /\ roots' \subseteq roots /\ roots \ {n} \subseteq roots'
  BY <1>0, <1>1, Taken
<1>3. \A m : DepsOf(m)' = DepsOf(m) /\ \A k : Reaches(m, k)' <=> Reaches(m, k)
  BY <1>0, SameGraph
<1>4. TypeOK'
  BY <1>0, <1>2 DEF TypeOK, Frame
<1>5. SearchInv'
  <2>1. roots' \subseteq From' /\ From' \subseteq roots' \cup done'
    BY <1>0, <1>1, <1>2 DEF IInv, SearchInv, From
  <2>2. \A i \in 1..Len(stack') :
          /\ stack'[i].name \in done'
          /\ stack'[i].left \subseteq DepsOf(Base(stack'[i].name))
          /\ DepsOf(Base(stack'[i].name)) \subseteq stack'[i].left \cup done'
    BY <1>0, <1>1, <1>2 DEF IInv, SearchInv
  <2>3. \A m \in done' : \/ \E i \in 1..Len(stack') : stack'[i].name = m
                         \/ DepsOf(Base(m)) \subseteq done'
    BY <1>0, <1>2 DEF IInv, SearchInv
  <2>4. QED
    BY <1>0, <1>3, <2>1, <2>2, <2>3 DEF IInv, SearchInv, Sorting
<1>6. SortInv'
  <2>1. Results' = Results /\ Sorting' = Sorting
    BY <1>0 DEF Results, Sorting
  <2>2. CASE Sorting
    <3>1. /\ \A i, j \in 1..Len(stack') : stack'[i].name = stack'[j].name => i = j
          /\ \A i \in 1..Len(stack') : stack'[i].name \notin Results'
          /\ \A m \in done' : m \in Results' \/ \E i \in 1..Len(stack') : stack'[i].name = m
      BY <1>0, <1>2, <2>1, <2>2 DEF IInv, SortInv
    <3>2. \A i, j \in 1..Len(stack') : i < j => Reaches(stack'[j].name, stack'[i].name)
      BY <1>2, <2>2 DEF IInv, SortInv
    <3>3. QED
      BY <1>0, <1>3, <2>1, <2>2, <3>1, <3>2 DEF IInv, SortInv
  <2>3. QED
    BY <1>0, <2>1, <2>2 DEF IInv, SortInv
<1>7. QED
  BY <1>0, <1>4, <1>5, <1>6, Kept DEF IInv

LEMMA VisitHolds == IInv /\ Visit => IInv'
<1> SUFFICES ASSUME IInv, Visit PROVE IInv'
  OBVIOUS
<1>0. /\ TypeOK /\ stack \in Seq(Frame) /\ roots \subseteq Targets
      /\ pc \in {"load", "sort"} /\ specs \subseteq Names
      /\ UNCHANGED <<declared, added, todo, count, pc, sorted>>
  BY DEF IInv, TypeOK, Frame, Visit
<1>1. PICK n \in Left \ done :
        /\ Call(n) /\ done' = done \cup {n}
        /\ specs' = IF pc = "load" THEN specs \cup {Base(n)} ELSE specs
  BY DEF Visit
<1>2. /\ n \in Targets
      /\ pc = "load" => n \in todo \/ \E m \in specs : n \in DepsOf(m)
      /\ pc = "sort" => n \in specs
  BY <1>0, LeftKnown
<1>3. Base(n) \in Names /\ DepsOf(Base(n)) \subseteq Names
  BY <1>0, <1>2, BaseNames, DepsNames
<1>4. /\ stack' \in Seq(Frame) /\ Len(stack') = Len(stack) + 1
      /\ stack'[1].name = n /\ stack'[1].left = DepsOf(Base(n))
      /\ \A i \in 1..Len(stack) :
           /\ stack'[i + 1].name = stack[i].name
           /\ stack'[i + 1].left \subseteq stack[i].left
           /\ stack[i].left \ {n} \subseteq stack'[i + 1].left
      /\ roots' \subseteq roots /\ roots \ {n} \subseteq roots'
  BY <1>0, <1>1, <1>2, <1>3, Called
<1>5. \A i \in 1..Len(stack') :
        i = 1 \/ \E k \in 1..Len(stack) : i = k + 1
  <2>1. Len(stack) \in Nat
    BY <1>0
  <2>2. \A i \in 1..Len(stack') : i = 1 \/ (i - 1 \in 1..Len(stack) /\ i = (i - 1) + 1)
    BY <1>4, <2>1
  <2>3. QED
    BY <2>2
<1>6. \A m : DepsOf(m)' = DepsOf(m)
  BY <1>0 DEF DepsOf, Own
<1>7. TypeOK'
  BY <1>0, <1>1, <1>2, <1>3, <1>4 DEF TypeOK, Frame
<1>8. SearchInv'
  <2>1. roots' \subseteq From' /\ From' \subseteq roots' \cup done'
    BY <1>0, <1>1, <1>4 DEF IInv, SearchInv, From
  <2>2. \A m \in done' : Base(m) \in specs'
    <3>1. CASE pc = "load"
      BY <1>1, <3>1 DEF IInv, SearchInv
    <3>2. CASE pc = "sort"
      BY <1>0, <1>1, <1>2, <3>2, BaseOfName DEF IInv, SearchInv
    <3>3. QED
      BY <1>0, <3>1, <3>2
  <2>3. ASSUME NEW i \in 1..Len(stack')
        PROVE  /\ stack'[i].name \in done'
               /\ stack'[i].left \subseteq DepsOf(Base(stack'[i].name))
               /\ DepsOf(Base(stack'[i].name)) \subseteq stack'[i].left \cup done'
    <3>1. CASE i = 1
      BY <1>1, <1>4, <3>1
    <3>2. CASE \E k \in 1..Len(stack) : i = k + 1
      <4>1. PICK k \in 1..Len(stack) : i = k + 1
        BY <3>2
      <4>2. /\ stack[k].name \in done
            /\ stack[k].left \subseteq DepsOf(Base(stack[k].name))
            /\ DepsOf(Base(stack[k].name)) \subseteq stack[k].left \cup done
        BY <1>0 DEF IInv, SearchInv
      <4>3. QED
        BY <1>1, <1>4, <4>1, <4>2
    <3>3. QED
      BY <1>5, <3>1, <3>2
  <2>4. ASSUME NEW m \in done'
        PROVE  \/ \E i \in 1..Len(stack') : stack'[i].name = m
               \/ DepsOf(Base(m)) \subseteq done'
    <3>1. CASE m = n
      <4>1. 1 \in 1..Len(stack')
        BY <1>0, <1>4
      <4>2. QED
        BY <1>4, <3>1, <4>1
    <3>2. CASE m \in done /\ \E k \in 1..Len(stack) : stack[k].name = m
      <4>1. PICK k \in 1..Len(stack) : stack[k].name = m
        BY <3>2
      <4>2. k + 1 \in 1..Len(stack')
        BY <1>0, <1>4
      <4>3. QED
        BY <1>4, <4>1, <4>2
    <3>3. CASE m \in done /\ DepsOf(Base(m)) \subseteq done
      BY <1>1, <3>3
    <3>4. QED
      BY <1>0, <1>1, <3>1, <3>2, <3>3 DEF IInv, SearchInv
  <2>5. Sorting' => done' \subseteq Names
    BY <1>0, <1>1, <1>2 DEF IInv, SearchInv, Sorting
  <2>6. QED
    BY <1>0, <1>6, <2>1, <2>2, <2>3, <2>4, <2>5 DEF SearchInv
<1>9. ReachInv'
  <2>1. CASE pc = "sort"
    BY <1>0, <1>1, <1>6, <2>1 DEF IInv, ReachInv, Closed, Bases
  <2>2. CASE pc = "load"
    <3>1. ASSUME NEW C \in SUBSET Names, Bases(todo) \subseteq C, Closed(C)
          PROVE  specs' \subseteq C
      <4>1. specs \subseteq C
        BY <3>1 DEF IInv, ReachInv
      <4>2. n \in todo => Base(n) \in C
        BY <3>1 DEF Bases
      <4>3. (\E m \in specs : n \in DepsOf(m)) => Base(n) \in C
        <5>1. (\E m \in specs : n \in DepsOf(m)) => n \in C
          BY <3>1, <4>1 DEF Closed
        <5>2. QED
          BY <5>1, BaseOfName
      <4>4. QED
        BY <1>1, <1>2, <2>2, <4>1, <4>2, <4>3
    <3>2. QED
      BY <1>0, <1>6, <3>1 DEF ReachInv, Closed, Bases
  <2>3. QED
    BY <1>0, <2>1, <2>2
<1>10. ClosedInv' /\ SettledInv'
  <2>1. CASE pc = "sort"
    <3>1. UNCHANGED <<declared, specs, added, todo, count, pc>>
      BY <1>0, <1>1, <2>1
    <3>2. QED
      BY <3>1, Kept
  <2>2. CASE pc = "load"
    <3>1. ClosedInv'
      BY <1>0, <2>2 DEF ClosedInv
    <3>2. PICK S \in SUBSET specs :
            /\ Cardinality(S) = count /\ Needed(S) \subseteq todo
            /\ \A m \in S : Implied(m, S) \subseteq added[m]
      BY <2>2 DEF IInv, SettledInv, Fresh
    <3>3. S \in SUBSET specs'
      BY <1>1, <2>2
    <3>4. QED
      BY <1>0, <2>2, <3>1, <3>2, <3>3 DEF SettledInv, Sorting
  <2>3. QED
    BY <1>0, <2>1, <2>2
<1>11. SortInv'
  <2>1. CASE pc = "load"
    BY <1>0, <2>1 DEF IInv, SortInv, Sorting
  <2>2. CASE pc = "sort"
    <3>0. Sorting /\ Sorting' /\ Results' = Results /\ UNCHANGED <<declared, specs, added>>
      BY <1>0, <1>1, <2>2 DEF Sorting, Results
    <3>1. \A m, k : Reaches(m, k)' <=> Reaches(m, k)
      BY <3>0, SameGraph
    <3>2. \A i \in 1..Len(stack) : stack[i].name # n
      BY <1>0, <1>1 DEF IInv, SearchInv
    <3>3. ASSUME NEW i \in 1..Len(stack'), NEW j \in 1..Len(stack'),
                 stack'[i].name = stack'[j].name
          PROVE  i = j
      <4>1. \A k, l \in 1..Len(stack) : stack[k].name = stack[l].name => k = l
        BY <3>0 DEF IInv, SortInv
      <4>2. CASE i = 1 \/ j = 1
        <5>1. \A k \in 1..Len(stack) : stack'[k + 1].name # n
          BY <1>4, <3>2
        <5>2. stack'[i].name = n /\ stack'[j].name = n
          BY <1>4, <3>3, <4>2
        <5>3. QED
          BY <1>5, <5>1, <5>2
      <4>3. CASE i # 1 /\ j # 1
        <5>1. PICK k \in 1..Len(stack), l \in 1..Len(stack) : i = k + 1 /\ j = l + 1
          BY <1>5, <4>3
        <5>2. stack[k].name = stack[l].name
          BY <1>4, <3>3, <5>1
        <5>3. QED
          BY <4>1, <5>1, <5>2
      <4>4. QED
        BY <4>2, <4>3
    <3>4. ASSUME NEW i \in 1..Len(stack') PROVE stack'[i].name \notin Results'
      <4>1. n \notin Results /\ \A k \in 1..Len(stack) : stack[k].name \notin Results
        BY <1>1, <3>0 DEF IInv, SortInv
      <4>2. QED
        BY <1>4, <1>5, <3>0, <4>1
    <3>5. ASSUME NEW m \in done'
          PROVE  m \in Results' \/ \E i \in 1..Len(stack') : stack'[i].name = m
      <4>1. CASE m = n
        <5>1. 1 \in 1..Len(stack')
          BY <1>0, <1>4
        <5>2. QED
          BY <1>4, <4>1, <5>1
      <4>2. CASE \E k \in 1..Len(stack) : stack[k].name = m
        <5>1. PICK k \in 1..Len(stack) : stack[k].name = m
          BY <4>2
        <5>2. k + 1 \in 1..Len(stack')
          BY <1>0, <1>4
        <5>3. QED
          BY <1>4, <5>1, <5>2
      <4>3. QED
        BY <1>1, <3>0, <4>1, <4>2 DEF IInv, SortInv
    <3>6. \A k \in 1..Len(stack) : Reaches(stack[k].name, n)
      <4>1. CASE stack = <<>>
        BY <4>1
      <4>2. CASE stack # <<>>
        <5>1. 1 \in 1..Len(stack) /\ Head(stack) = stack[1]
          BY <1>0, <4>2
        <5>2. n \in DepsOf(Base(stack[1].name)) /\ stack[1].name \in done
          BY <1>0, <1>1, <4>2, <5>1 DEF IInv, SearchInv, Left
        <5>3. n \in DepsOf(stack[1].name) /\ n \in specs /\ stack[1].name \in specs
          BY <1>2, <2>2, <3>0, <5>2, BaseOfName DEF IInv, SearchInv
        <5>4. \A k \in 1..Len(stack) : k = 1 \/ 1 < k
          BY <1>0
        <5>5. \A k \in 1..Len(stack) : Reaches(stack[k].name, stack[1].name)
          BY <3>0, <5>1, <5>4 DEF IInv, SortInv, Reaches
        <5>6. QED
          BY <5>3, <5>5 DEF Reaches
      <4>3. QED
        BY <4>1, <4>2
    <3>7. ASSUME NEW i \in 1..Len(stack'), NEW j \in 1..Len(stack'), i < j
          PROVE  Reaches(stack'[j].name, stack'[i].name)
      <4>1. PICK l \in 1..Len(stack) : j = l + 1
        BY <1>5, <3>7
      <4>2. stack'[j].name = stack[l].name
        BY <1>4, <4>1
      <4>3. CASE i = 1
        BY <1>4, <3>6, <4>2, <4>3
      <4>4. CASE \E k \in 1..Len(stack) : i = k + 1
        <5>1. PICK k \in 1..Len(stack) : i = k + 1
          BY <4>4
        <5>2. k < l /\ stack'[i].name = stack[k].name
          BY <1>4, <3>7, <4>1, <5>1
        <5>3. QED
          BY <3>0, <4>2, <5>2 DEF IInv, SortInv
      <4>5. QED
        BY <1>5, <4>3, <4>4
    <3>8. Results' \subseteq done' /\ Cardinality(Results') = Len(sorted')
      BY <1>0, <1>1, <3>0 DEF IInv, SortInv
    <3>9. QED
      BY <1>0, <1>6, <3>0, <3>1, <3>3, <3>4, <3>5, <3>7, <3>8 DEF IInv, SortInv
  <2>3. QED
    BY <1>0, <2>1, <2>2
<1>12. QED
  BY <1>7, <1>8, <1>9, <1>10, <1>11 DEF IInv

LEMMA ReturnHolds == IInv /\ Return => IInv'
<1> SUFFICES ASSUME IInv, Return PROVE IInv'
  OBVIOUS
<1> DEFINE h == stack[1].name
<1>0. /\ TypeOK /\ stack \in Seq(Frame) /\ sorted \in Seq(Names)
      /\ pc \in {"load", "sort"}
      /\ UNCHANGED <<declared, specs, added, todo, count, pc, roots, done>>
  BY DEF IInv, TypeOK, Frame, Return
<1>1. /\ stack' \in Seq(Frame) /\ Len(stack') = Len(stack) - 1
      /\ \A i \in 1..Len(stack') : stack'[i] = stack[i + 1]
      /\ Head(stack) = stack[1] /\ stack[1] \in Frame
      /\ 1 \in 1..Len(stack)
  BY <1>0, Returned DEF Return
<1>2. /\ stack[1].left = {} /\ h \in done /\ DepsOf(Base(h)) \subseteq done
      /\ sorted' = IF pc = "sort" THEN Append(sorted, h) ELSE sorted
  BY <1>0, <1>1 DEF Return, IInv, SearchInv
<1>3. \A i \in 1..Len(stack') : i + 1 \in 1..Len(stack) /\ stack'[i] = stack[i + 1]
  BY <1>0, <1>1
<1>4. \A k \in 1..Len(stack) : k = 1 \/ \E i \in 1..Len(stack') : k = i + 1
  <2>1. \A k \in 1..Len(stack) : k = 1 \/ (k - 1 \in 1..Len(stack') /\ k = (k - 1) + 1)
    BY <1>0, <1>1
  <2>2. QED
    BY <2>1
<1>5. \A m : DepsOf(m)' = DepsOf(m) /\ \A k : Reaches(m, k)' <=> Reaches(m, k)
  BY <1>0, SameGraph
<1>6. Sorting' = Sorting /\ (Sorting => h \in Names)
  BY <1>0, <1>2 DEF Sorting, IInv, SearchInv
<1>7. TypeOK'
  <2>1. sorted' \in Seq(Names)
    BY <1>0, <1>2, <1>6 DEF Sorting
  <2>2. QED
    BY <1>0, <1>1, <2>1 DEF TypeOK, Frame
<1>8. SearchInv'
  <2>1. ASSUME NEW m \in done
        PROVE  \/ \E i \in 1..Len(stack') : stack'[i].name = m
               \/ DepsOf(Base(m)) \subseteq done
    <3>1. CASE \E k \in 1..Len(stack) : stack[k].name = m
      BY <1>2, <1>3, <1>4, <3>1
    <3>2. QED
      BY <1>0, <3>1 DEF IInv, SearchInv
  <2>2. \A i \in 1..Len(stack') :
          /\ stack'[i].name \in done
          /\ stack'[i].left \subseteq DepsOf(Base(stack'[i].name))
          /\ DepsOf(Base(stack'[i].name)) \subseteq stack'[i].left \cup done
    BY <1>0, <1>3 DEF IInv, SearchInv
  <2>3. QED
    BY <1>0, <1>5, <1>6, <2>1, <2>2 DEF IInv, SearchInv, From
<1>9. SortInv'
  <2>1. CASE pc = "load"
    BY <1>0, <1>2, <2>1 DEF IInv, SortInv, Sorting
  <2>2. CASE pc = "sort"
    <3>0. /\ Sorting /\ h \in Names /\ Base(h) = h /\ h \notin Results
          /\ sorted' = Append(sorted, h)
      BY <1>1, <1>2, <1>6, <2>2, BaseOfName DEF Sorting, IInv, SortInv
    <3>1. /\ Len(sorted') = Len(sorted) + 1 /\ sorted'[Len(sorted) + 1] = h
          /\ \A i \in 1..Len(sorted) : sorted'[i] = sorted[i]
          /\ \A i \in 1..Len(sorted') : i \in 1..Len(sorted) \/ i = Len(sorted) + 1
          /\ DOMAIN sorted = 1..Len(sorted) /\ DOMAIN sorted' = 1..Len(sorted')
          /\ Len(sorted) \in Nat
      BY <1>0, <3>0
    <3>2. Results' = Results \cup {h}
      <4>1. \A i \in 1..Len(sorted) : i \in 1..Len(sorted')
        BY <3>1
      <4>2. Len(sorted) + 1 \in 1..Len(sorted')
        BY <3>1
      <4>3. QED
        BY <3>1, <4>1, <4>2 DEF Results
    <3>3. ASSUME NEW i \in 1..Len(stack'), NEW j \in 1..Len(stack')
          PROVE  /\ stack'[i].name = stack'[j].name => i = j
                 /\ i < j => Reaches(stack'[j].name, stack'[i].name)
                 /\ stack'[i].name \notin Results'
      <4>1. /\ i + 1 \in 1..Len(stack) /\ stack'[i] = stack[i + 1]
            /\ j + 1 \in 1..Len(stack) /\ stack'[j] = stack[j + 1]
        BY <1>3
      <4>2. i + 1 # 1 /\ (i + 1 = j + 1 => i = j) /\ (i < j => i + 1 < j + 1)
        OBVIOUS
      <4>3. stack'[i].name # h
        BY <1>1, <3>0, <4>1, <4>2 DEF IInv, SortInv
      <4>4. QED
        BY <3>0, <3>2, <4>1, <4>2, <4>3 DEF IInv, SortInv
    <3>4. ASSUME NEW m \in done
          PROVE  m \in Results' \/ \E i \in 1..Len(stack') : stack'[i].name = m
      <4>1. m \in Results \/ \E k \in 1..Len(stack) : stack[k].name = m
        BY <3>0 DEF IInv, SortInv
      <4>2. CASE \E k \in 1..Len(stack) : stack[k].name = m
        BY <1>3, <1>4, <3>2, <4>2
      <4>3. QED
        BY <3>2, <4>1, <4>2
    <3>5. Results' \subseteq done /\ Cardinality(Results') = Len(sorted')
      <4>1. Results \subseteq Targets /\ Cardinality(Results) = Len(sorted)
        BY <1>0, <3>0 DEF Results, IInv, SortInv, TypeOK
      <4>2. IsFiniteSet(Results)
        BY <4>1, FiniteSpecs
      <4>3. Cardinality(Results \cup {h}) = Cardinality(Results) + 1
        <5> HIDE DEF h, Results
        <5>1. QED
          BY <3>0, <4>2, FS_AddElement
      <4>4. Results \subseteq done
        BY <3>0 DEF IInv, SortInv
      <4>5. QED
        BY <1>2, <3>1, <3>2, <4>1, <4>3, <4>4
    <3>6. ASSUME NEW i \in 1..Len(sorted'), NEW j \in 1..Len(sorted'),
                 sorted'[i] = sorted'[j]
          PROVE  i = j
      <4>1. \A k \in 1..Len(sorted) : sorted[k] # h
        BY <3>0, <3>1 DEF Results
      <4>2. \A k, l \in 1..Len(sorted) : sorted[k] = sorted[l] => k = l
        BY <3>0 DEF IInv, SortInv
      <4>3. QED
        BY <3>1, <3>6, <4>1, <4>2
    <3>7. ASSUME NEW i \in 1..Len(sorted'), NEW d \in DepsOf(sorted'[i])
          PROVE  (\E k \in 1..(i - 1) : sorted'[k] = d) \/ Reaches(d, sorted'[i])
      <4>1. CASE i \in 1..Len(sorted)
        <5>1. (\E k \in 1..(i - 1) : sorted[k] = d) \/ Reaches(d, sorted[i])
          BY <3>0, <3>1, <3>7, <4>1 DEF IInv, SortInv
        <5>2. \A k \in 1..(i - 1) : sorted'[k] = sorted[k]
          BY <3>1, <4>1
        <5>3. QED
          BY <3>1, <4>1, <5>1, <5>2
      <4>2. CASE i = Len(sorted) + 1
        <5>1. sorted'[i] = h /\ d \in done /\ i - 1 = Len(sorted)
          BY <1>2, <3>0, <3>1, <3>7, <4>2
        <5>2. CASE d \in Results
          BY <3>1, <5>1, <5>2 DEF Results
        <5>3. CASE \E k \in 1..Len(stack) : stack[k].name = d
          <6>1. PICK k \in 1..Len(stack) : stack[k].name = d
            BY <5>3
          <6>2. CASE k = 1
            BY <5>1, <6>1, <6>2 DEF Reaches
          <6>3. CASE 1 < k
            BY <1>1, <3>0, <5>1, <6>1, <6>3 DEF IInv, SortInv
          <6>4. QED
            BY <1>0, <6>2, <6>3
        <5>4. QED
          BY <3>0, <5>1, <5>2, <5>3 DEF IInv, SortInv
      <4>3. QED
        BY <3>1, <4>1, <4>2
    <3>8. QED
      BY <1>0, <1>5, <1>6, <3>0, <3>3, <3>4, <3>5, <3>6, <3>7 DEF SortInv
  <2>3. QED
    BY <1>0, <2>1, <2>2
<1>10. QED
  BY <1>0, <1>7, <1>8, <1>9, Kept DEF IInv

LEMMA LoadedHolds == IInv /\ Loaded => IInv'
<1> SUFFICES ASSUME IInv, Loaded PROVE IInv'
  OBVIOUS
<1>1. /\ TypeOK /\ pc = "load" /\ pc' = "loop" /\ roots = {} /\ stack = <<>>
      /\ UNCHANGED <<declared, specs, added, todo, count, search, sorted>>
  BY DEF IInv, Loaded, Searched
<1>2. UNCHANGED <<roots, done, stack>> /\ \A m : DepsOf(m)' = DepsOf(m)
  BY <1>1 DEF search, DepsOf, Own
<1>3. TypeOK' /\ SearchInv' /\ ReachInv' /\ SortInv'
  BY <1>1, <1>2 DEF TypeOK, SearchInv, IInv, ReachInv, SortInv, Sorting, Closed, Bases
<1>4. SettledInv'
  BY <1>1 DEF IInv, SettledInv, Fresh, Sorting
<1>5. ClosedInv'
  <2>1. /\ todo \subseteq done /\ Bases(done) \subseteq specs
        /\ \A m \in done : DepsOf(Base(m)) \subseteq done
    BY <1>1 DEF IInv, SearchInv, From, Bases
  <2>2. Bases(todo) \subseteq Bases(done) /\ Bases(done) \in SUBSET Names
    BY <1>1, <2>1 DEF Bases, TypeOK
  <2>3. Closed(Bases(done))
    <3>1. ASSUME NEW m \in done, NEW d \in DepsOf(Base(m)) PROVE d \in Bases(done)
      <4>1. d \in done /\ Base(m) \in Names
        BY <1>1, <2>1, BaseNames DEF TypeOK
      <4>2. d \in Names
        BY <1>1, <4>1, DepsNames
      <4>3. QED
        BY <4>1, <4>2, BaseOfName DEF Bases
    <3>2. QED
      BY <3>1 DEF Closed, Bases
  <2>4. specs = Bases(done)
    BY <2>1, <2>2, <2>3 DEF IInv, ReachInv
  <2>5. QED
    BY <1>1, <1>2, <2>2, <2>3, <2>4 DEF ClosedInv, Closed, Bases
<1>6. QED
  BY <1>3, <1>4, <1>5 DEF IInv

LEMMA SortHolds == IInv /\ Sort => IInv'
<1> SUFFICES ASSUME IInv, Sort PROVE IInv'
  OBVIOUS
<1>1. /\ TypeOK /\ pc = "loop" /\ count = Cardinality(specs) /\ pc' = "sort"
      /\ roots' = specs /\ done' = {} /\ stack' = <<>> /\ sorted = <<>>
      /\ UNCHANGED <<declared, specs, added, todo, count, sorted>>
  BY DEF IInv, Sort, Search, SortInv, Sorting
<1>2. \A m : DepsOf(m)' = DepsOf(m)
  BY <1>1 DEF DepsOf, Own
<1>3. TypeOK' /\ ReachInv'
  BY <1>1, <1>2 DEF TypeOK, Targets, IInv, ReachInv, Closed, Bases
<1>4. SearchInv'
  BY <1>1 DEF SearchInv, From, Sorting
<1>5. ~Fresh /\ IsFiniteSet(specs)
  BY <1>1, FiniteSpecs, FS_EmptySet DEF Fresh, TypeOK, Targets
<1>6. ClosedInv'
  BY <1>1, <1>2, <1>5 DEF IInv, ClosedInv, Closed, Bases
<1>7. SettledInv'
  <2>1. PICK S \in SUBSET specs :
          /\ Cardinality(S) = count /\ Needed(S) \subseteq todo
          /\ \A m \in S : Implied(m, S) \subseteq added[m]
    BY <1>5 DEF IInv, SettledInv
  <2>2. S = specs
    BY <1>1, <1>5, <2>1, FS_Subset
  <2>3. QED
    BY <1>1, <2>1, <2>2 DEF SettledInv
<1>8. SortInv'
  <2>1. Results' = {} /\ Len(sorted') = 0 /\ Len(stack') = 0
    BY <1>1 DEF Results
  <2>2. QED
    BY <1>1, <2>1, FS_EmptySet DEF SortInv
<1>9. QED
  BY <1>3, <1>4, <1>6, <1>7, <1>8 DEF IInv

LEMMA FinishHolds == IInv /\ Finish => IInv'
<1> SUFFICES ASSUME IInv, Finish PROVE IInv'
  OBVIOUS
<1>1. /\ pc = "sort" /\ pc' = "done" /\ Searched
      /\ UNCHANGED <<declared, specs, added, todo, count, roots, done, stack, sorted>>
  BY DEF Finish, search
<1>2. \A m : DepsOf(m)' = DepsOf(m) /\ \A k : Reaches(m, k)' <=> Reaches(m, k)
  BY <1>1, SameGraph
<1>3. Sorting /\ Sorting' /\ Results' = Results
  BY <1>1 DEF Sorting, Results
<1>4. TypeOK' /\ SearchInv' /\ ReachInv'
  BY <1>1, <1>2, <1>3 DEF IInv, TypeOK, SearchInv, From, Searched, ReachInv, Closed, Bases
<1>5. ClosedInv' /\ SettledInv'
  BY <1>1, <1>2, <1>3 DEF IInv, ClosedInv, SettledInv, Closed, Bases, Fresh
<1>6. SortInv'
  BY <1>1, <1>2, <1>3 DEF IInv, SortInv
<1>7. QED
  BY <1>4, <1>5, <1>6 DEF IInv

LEMMA StutterHolds == IInv /\ UNCHANGED vars => IInv'
<1> SUFFICES ASSUME IInv, UNCHANGED vars PROVE IInv'
  OBVIOUS
<1>1. /\ UNCHANGED <<declared, specs, added, todo, count, pc>>
      /\ UNCHANGED <<roots, done, stack, sorted>>
  BY DEF vars
<1>2. \A m : DepsOf(m)' = DepsOf(m) /\ \A k : Reaches(m, k)' <=> Reaches(m, k)
  BY <1>1, SameGraph
<1>3. Sorting' = Sorting /\ Results' = Results
  BY <1>1 DEF Sorting, Results
<1>4. TypeOK' /\ SearchInv'
  BY <1>1, <1>2, <1>3 DEF IInv, TypeOK, SearchInv, From, Searched
<1>5. SortInv'
  BY <1>1, <1>2, <1>3 DEF IInv, SortInv
<1>6. QED
  BY <1>1, <1>4, <1>5, Kept DEF IInv

LEMMA Inductive == Spec => []IInv
<1>1. IInv /\ [Next]_vars => IInv'
  BY CrossHolds, SkipHolds, VisitHolds, ReturnHolds, LoadedHolds, SortHolds,
     FinishHolds, StutterHolds DEF Next
<1>2. QED
  BY <1>1, InitHolds, PTL DEF Spec

-----------------------------------------------------------------------------
(* Theorems                                                                  *)

\* get_source_packages only handles builds and subpackages that there are, and
\* what it returns are builds.
THEOREM TypeCorrect == Spec => []TypeOK
<1>1. IInv => TypeOK
  BY DEF IInv
<1>2. QED
  BY <1>1, Inductive, PTL

\* Whatever is asked for, and whatever depends on what, the list that
\* get_source_packages returns has all that is needed, and each build once.
THEOREM AlwaysComplete == Spec => []Complete
<1>1. IInv => Complete
  <2> SUFFICES ASSUME IInv, pc = "done" PROVE Complete
    BY DEF Complete
  <2>1. /\ stack = <<>> /\ roots = {} /\ Sorting /\ TypeOK
        /\ specs \subseteq done /\ done \subseteq Names
    BY DEF IInv, SearchInv, Searched, Sorting, From
  <2>2. done \subseteq specs
    BY <2>1, BaseOfName DEF IInv, SearchInv
  <2>3. Results = done /\ Cardinality(Results) = Len(sorted)
    <3>1. Len(stack) = 0
      BY <2>1
    <3>2. /\ Results \subseteq done /\ Cardinality(Results) = Len(sorted)
          /\ \A n \in done : n \in Results \/ \E i \in 1..Len(stack) : stack[i].name = n
      BY <2>1 DEF IInv, SortInv
    <3>3. 1..Len(stack) = {}
      BY <3>1
    <3>4. done \subseteq Results
      BY <3>2, <3>3
    <3>5. QED
      BY <3>2, <3>4
  <2>4. Bases(todo) \subseteq specs /\ Closed(specs)
    BY DEF IInv, ClosedInv, Fresh
  <2>5. QED
    BY <2>1, <2>2, <2>3, <2>4 DEF Complete, Results, Bases, Closed
<1>2. QED
  BY <1>1, Inductive, PTL

\* The loop of get_source_packages, which compares numbers of builds only, ends
\* when set_cross_dependencies would add nothing.
THEOREM AlwaysSettled == Spec => []Settled
<1>1. IInv => Settled
  BY DEF IInv, SettledInv, Settled, Sorting, Fresh
<1>2. QED
  BY <1>1, Inductive, PTL

\* topologically_sorted puts a build before one that it depends on only if that
\* depends on it in turn.
THEOREM OrderedButForCycles == Spec => []OnlyCyclesAreUnordered
<1>1. IInv => OnlyCyclesAreUnordered
  <2> SUFFICES ASSUME IInv, pc = "done",
                      NEW i \in DOMAIN sorted, NEW j \in DOMAIN sorted,
                      i < j, sorted[j] \in DepsOf(sorted[i])
               PROVE  Reaches(sorted[j], sorted[i])
    BY DEF OnlyCyclesAreUnordered
  <2>1. Sorting /\ DOMAIN sorted = 1..Len(sorted) /\ Len(sorted) \in Nat
    BY DEF Sorting, IInv, TypeOK
  <2>2. ASSUME NEW k \in 1..(i - 1), sorted[k] = sorted[j] PROVE FALSE
    <3>1. k \in 1..Len(sorted) /\ k # j
      BY <2>1
    <3>2. QED
      BY <2>1, <2>2, <3>1 DEF IInv, SortInv
  <2>3. QED
    BY <2>1, <2>2 DEF IInv, SortInv
<1>2. QED
  BY <1>1, Inductive, PTL

\* The packages that the headers of built packages name are packages of builds
\* that are made, whatever gub/tools.py does to the dependencies.
THEOREM AlwaysInstallable == Spec => []Installable
<1>1. IInv /\ Complete => Installable
  <2> SUFFICES ASSUME IInv, Complete, pc = "done",
                      NEW n \in specs \ OwnDict, NEW m \in Header(n)
               PROVE  Base(m) \in specs
    BY DEF Installable
  <2>1. n \in Names /\ DepsOf(n) \subseteq specs /\ DepsOf(n) \subseteq Names
    BY DepsNames DEF IInv, TypeOK, Complete
  <2>2. \A d \in Linked(n) : Base(d) \in DepsOf(n)
    BY DEF Linked, DepsOf
  <2>3. CASE m \in Linked(n)
    BY <2>1, <2>2, <2>3
  <2>4. CASE m \in {Base(d) : d \in Linked(n) \ Runtimes}
    <3>1. m \in DepsOf(n)
      BY <2>2, <2>4
    <3>2. QED
      BY <2>1, <3>1, BaseOfName
  <2>5. CASE m = n
    BY <2>1, <2>5, BaseOfName
  <2>6. CASE m \in Runtimes /\ PartOf[m] = n
    BY <2>6, NamesAssumption DEF Base
  <2>7. QED
    BY <2>3, <2>4, <2>5, <2>6 DEF Header
<1>2. QED
  BY <1>1, Inductive, AlwaysComplete, PTL

\* What BuildRunner assumes of the list it is given: it has builds, all those
\* that are needed and each once, whose dependencies are among them; and a
\* dependency comes first unless it depends, by some chain, on what depends on it.
Buildable ==
  pc = "done" =>
    /\ sorted \in Seq(specs)
    /\ \A i, j \in 1..Len(sorted) : sorted[i] = sorted[j] => i = j
    /\ \A n \in specs : \E i \in 1..Len(sorted) : sorted[i] = n
    /\ [n \in specs |-> DepsOf(n)] \in [specs -> SUBSET specs]
    /\ \A i, j \in 1..Len(sorted) :
         sorted[j] \in DepsOf(sorted[i]) /\ ~Reaches(sorted[j], sorted[i]) => j < i

\* get_source_packages gives the list that the build loop of gub/buildrunner.py
\* relies on.
THEOREM ListsAreBuildable == Spec => []Buildable
<1>1. IInv /\ Complete /\ OnlyCyclesAreUnordered => Buildable
  <2> SUFFICES ASSUME IInv, Complete, OnlyCyclesAreUnordered, pc = "done" PROVE Buildable
    BY DEF Buildable
  <2>1. /\ sorted \in Seq(Names) /\ DOMAIN sorted = 1..Len(sorted) /\ Len(sorted) \in Nat
    BY DEF IInv, TypeOK
  <2>2. \A i \in 1..Len(sorted) : sorted[i] \in specs
    BY <2>1 DEF Complete
  <2>3. sorted \in Seq(specs)
    BY <2>1, <2>2
  <2>4. \A i, j \in 1..Len(sorted) : sorted[i] = sorted[j] => i = j
    BY DEF IInv, SortInv, Sorting
  <2>5. \A n \in specs : \E i \in 1..Len(sorted) : sorted[i] = n
    BY <2>1 DEF Complete
  <2>6. \A n \in specs : DepsOf(n) \subseteq specs
    BY DEF Complete
  <2>7. ASSUME NEW i \in 1..Len(sorted), NEW j \in 1..Len(sorted),
               sorted[j] \in DepsOf(sorted[i]), ~Reaches(sorted[j], sorted[i])
        PROVE  j < i
    <3>1. ~(i < j)
      BY <2>1, <2>7 DEF OnlyCyclesAreUnordered
    <3>2. i # j
      BY <2>7 DEF Reaches
    <3>3. QED
      BY <2>1, <3>1, <3>2
  <2>8. QED
    BY <2>3, <2>4, <2>5, <2>6, <2>7 DEF Buildable
<1>2. QED
  BY <1>1, Inductive, AlwaysComplete, OrderedButForCycles, PTL

=============================================================================
