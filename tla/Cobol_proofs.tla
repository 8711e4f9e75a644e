---------------------------- MODULE Cobol_proofs ----------------------------
(***************************************************************************)
(* Proofs about COBOL programs: about DeadCode, for every text and every   *)
(* number of active PERFORMs; about Workbench, for every text and every    *)
(* edit; and about CobolBridge, for every node, its calls and its callers, *)
(* however their steps interleave and whatever is killed.                  *)
(***************************************************************************)
EXTENDS Workbench, CobolBridge, SumTheorems, SequenceTheorems

-----------------------------------------------------------------------------
(* DeadCode.  When a search is over, the set it visited contains the entry *)
(* and is closed under the edges it follows.  Each transfer of the         *)
(* machine, except the two kinds counted in unseen, goes along an edge     *)
(* from the paragraph the machine is in; an altered GO TO goes along the   *)
(* edge of the ALTER, from a paragraph that was entered before.  So the    *)
(* machine never leaves a closed set.                                      *)

Text == Paras \in Seq({Paras[i] : i \in DOMAIN Paras})

(* The edges that are followed without, and with, the ALTER ones stay in   *)
(* the set, or lead to a name that is no paragraph.                        *)
ClosedUnder(S, T, withAlter) ==
    \A e \in Edges(Paras) :
        e[1] \in S /\ (e[2] # "ALTER" \/ withAlter) /\ e[3] \in Names => e[3] \in T

Searched ==
    /\ Paras # <<>>
    /\ phase \in {"plain", "alter"} =>
          /\ Paras[1].name \in visited \cup frontier
          /\ ClosedUnder(visited, visited \cup frontier, phase = "alter")
    /\ phase \in {"alter", "run", "end"} =>
          /\ Paras[1].name \in reachable
          /\ ClosedUnder(reachable, reachable, FALSE)
    /\ phase \in {"run", "end"} =>
          /\ Paras[1].name \in visited
          /\ ClosedUnder(visited, visited, TRUE)

MachineType ==
    /\ pc \in (DOMAIN Paras) \X Nat
    /\ Paras[pc[1]].name \in entered
    /\ stack \in Seq([back : (DOMAIN Paras) \X Nat, after : Names])
    /\ \A k \in DOMAIN stack : Paras[stack[k].back[1]].name \in entered

AlteredByEntered ==
    \A n \in DOMAIN altered :
        /\ altered[n] \in Names
        /\ \E c \in entered : <<c, "ALTER", altered[n]>> \in Edges(Paras)

Inside ==
    unseen = {} =>
        /\ entered \subseteq visited
        /\ altered = <<>> => entered \subseteq reachable

DeadCodeInv ==
    /\ Text
    /\ phase \in {"edit", "plain", "alter", "run", "end"}
    /\ phase = "edit" => visited = {} /\ frontier = {}
    /\ phase # "edit" => Searched
    /\ phase \in {"edit", "plain", "alter"} =>
          stack = <<>> /\ altered = <<>> /\ entered = {} /\ unseen = {}
    /\ phase \in {"run", "end"} => Compiles /\ MachineType /\ AlteredByEntered /\ Inside

-----------------------------------------------------------------------------
(* An edge of a line is an edge of the graph, from the line's paragraph.   *)
LEMMA LineEdge ==
    ASSUME NEW i \in DOMAIN Paras, NEW k \in DOMAIN Paras[i].lines,
           NEW kind, NEW name,
           <<kind, name>> \in EdgesOfLine(Paras, Paras[i].lines[k])
    PROVE  <<Paras[i].name, kind, name>> \in Edges(Paras)
<1>1. <<Paras[i].name, kind, name>> \in EdgesAt(Paras, i, k)
  BY DEF EdgesAt
<1>2. <<Paras[i].name, kind, name>> \in EdgesFrom(Paras, i)
  BY <1>1 DEF EdgesFrom
<1> QED
  BY <1>2 DEF Edges

(* A paragraph that falls through has an edge to the next one.             *)
LEMMA FallEdge ==
    ASSUME Compiles, NEW i \in 1..(Len(Paras) - 1), i \in DOMAIN Paras,
           FallsThrough(Paras[i].lines)
    PROVE  <<Paras[i].name, "FALL_THROUGH", Paras[i + 1].name>> \in Edges(Paras)
<1>1. \A m \in DOMAIN Paras : Paras[m].name = Paras[i].name => m = i
  BY DEF Compiles
<1>2. <<Paras[i].name, "FALL_THROUGH", Paras[i + 1].name>> \in FallThroughs(Paras)
  BY <1>1 DEF FallThroughs
<1> QED
  BY <1>2 DEF Edges

(* What the name of a paragraph indexes is that paragraph.                 *)
LEMMA IndexOf ==
    ASSUME NEW name \in Names
    PROVE  Index(name) \in DOMAIN Paras /\ Paras[Index(name)].name = name
  BY DEF Names, NamesOf, Index

(* Along an edge the machine stays in what was visited, and along one that *)
(* is not an ALTER's also in what is reachable.                            *)
LEMMA Stays ==
    ASSUME Searched, phase \in {"run", "end"},
           NEW here, NEW kind, NEW name \in Names,
           <<here, kind, name>> \in Edges(Paras)
    PROVE  /\ here \in visited => name \in visited
           /\ kind # "ALTER" /\ here \in reachable => name \in reachable
<1> DEFINE e == <<here, kind, name>>
<1>1. e \in Edges(Paras) /\ e[1] = here /\ e[2] = kind /\ e[3] = name
  OBVIOUS
<1>2. ClosedUnder(visited, visited, TRUE) /\ ClosedUnder(reachable, reachable, FALSE)
  BY DEF Searched
<1> QED
  BY <1>1, <1>2 DEF ClosedUnder

LEMMA InitInv == Text /\ DeadCodeInit => DeadCodeInv
  BY DEF Text, DeadCodeInit, DeadCodeInv

(***************************************************************************)
(* The steps of the analyzer.                                              *)
(***************************************************************************)
LEMMA AnalyzeInv == DeadCodeInv /\ Analyze => DeadCodeInv'
<1> SUFFICES ASSUME DeadCodeInv, Analyze PROVE DeadCodeInv'
  OBVIOUS
<1>1. Text' /\ Paras' = Paras /\ Paras # <<>>
  BY DEF Analyze, DeadCodeInv, Text, Paras
<1>2. visited' = {} /\ frontier' = {Paras[1].name} /\ phase' = "plain"
  BY DEF Analyze, DeadCodeInv
<1>3. Searched'
  BY <1>1, <1>2 DEF Searched, ClosedUnder
<1> QED
  BY <1>1, <1>2, <1>3 DEF DeadCodeInv, Analyze, machine

LEMMA VisitInv == DeadCodeInv /\ Visit => DeadCodeInv'
<1> SUFFICES ASSUME DeadCodeInv, Visit PROVE DeadCodeInv'
  OBVIOUS
<1> DEFINE current == CHOOSE n \in frontier : TRUE
<1>1. /\ Text' /\ Paras' = Paras /\ Paras # <<>> /\ Names' = Names
      /\ Edges(Paras)' = Edges(Paras)
      /\ phase' = phase /\ phase \in {"plain", "alter"} /\ reachable' = reachable
  BY DEF Visit, DeadCodeInv, Text, Paras, Searched, Names
<1>2. current \in frontier
  BY DEF Visit
<1>3. /\ Paras[1].name \in visited \cup frontier
      /\ ClosedUnder(visited, visited \cup frontier, phase = "alter")
  BY <1>1 DEF DeadCodeInv, Searched
<1>4. Paras[1].name \in Names
  BY <1>1 DEF DeadCodeInv, Text, Names, NamesOf
<1> HIDE DEF current
<1>5. CASE current \in Names
  <2>1. /\ visited' = visited \cup {current}
        /\ frontier' = (frontier \cup Successors(current)) \ visited'
    BY <1>5 DEF Visit, current
  <2>2. ASSUME NEW e \in Edges(Paras), e[1] \in visited',
               e[2] # "ALTER" \/ phase = "alter", e[3] \in Names
        PROVE  e[3] \in visited' \cup frontier'
    <3>1. CASE e[1] \in visited
      BY <1>3, <2>1, <2>2, <3>1 DEF ClosedUnder
    <3>2. CASE e[1] = current
      BY <2>1, <2>2, <3>2 DEF Successors
    <3> QED
      BY <2>1, <2>2, <3>1, <3>2
  <2>3. ClosedUnder(visited, visited \cup frontier, phase = "alter")'
    BY <1>1, <2>2 DEF ClosedUnder
  <2>4. (Paras[1].name \in visited \cup frontier)'
    BY <1>1, <1>3, <2>1
  <2> QED
    BY <1>1, <2>3, <2>4 DEF Searched, DeadCodeInv, Visit, machine, ClosedUnder
<1>6. CASE current \notin Names
  <2>1. visited' = visited /\ frontier' = frontier \ {current}
    BY <1>6 DEF Visit, current
  <2>2. ClosedUnder(visited, visited \cup frontier, phase = "alter")'
    BY <1>1, <1>3, <1>6, <2>1 DEF ClosedUnder
  <2>3. (Paras[1].name \in visited \cup frontier)'
    BY <1>1, <1>3, <1>4, <1>6, <2>1
  <2> QED
    BY <1>1, <2>2, <2>3 DEF Searched, DeadCodeInv, Visit, machine, ClosedUnder
<1> QED
  BY <1>5, <1>6

LEMMA SearchWithAlterInv == DeadCodeInv /\ SearchWithAlter => DeadCodeInv'
<1> SUFFICES ASSUME DeadCodeInv, SearchWithAlter PROVE DeadCodeInv'
  OBVIOUS
<1>1. /\ Text' /\ Paras' = Paras /\ Paras # <<>> /\ Names' = Names
      /\ phase' = "alter" /\ reachable' = visited /\ visited' = {}
      /\ frontier' = {Paras[1].name} /\ frontier = {} /\ phase = "plain"
  BY DEF SearchWithAlter, DeadCodeInv, Text, Paras, Searched, Names
<1>2. Paras[1].name \in visited /\ ClosedUnder(visited, visited, FALSE)
  BY <1>1 DEF DeadCodeInv, Searched, ClosedUnder
<1>3. Searched'
  BY <1>1, <1>2 DEF Searched, ClosedUnder
<1> QED
  BY <1>1, <1>3 DEF DeadCodeInv, SearchWithAlter, machine

(***************************************************************************)
(* The steps of the machine.  Each one that enters a paragraph does so     *)
(* along an edge, or is counted in unseen.                                 *)
(***************************************************************************)
LEMMA StartInv == DeadCodeInv /\ Start => DeadCodeInv'
<1> SUFFICES ASSUME DeadCodeInv, Start PROVE DeadCodeInv'
  OBVIOUS
<1>1. /\ Text' /\ Paras' = Paras /\ Paras # <<>> /\ Names' = Names
      /\ phase' = "run" /\ phase = "alter" /\ frontier = {}
      /\ visited' = visited /\ reachable' = reachable
      /\ stack' = <<>> /\ altered' = <<>> /\ unseen' = {}
      /\ pc' = <<1, 1>> /\ entered' = {Paras[1].name}
  BY DEF Start, Enter, DeadCodeInv, Text, Paras, Searched, Names, analysis
<1>2. /\ Paras[1].name \in visited /\ ClosedUnder(visited, visited, TRUE)
      /\ Paras[1].name \in reachable /\ ClosedUnder(reachable, reachable, FALSE)
  BY <1>1 DEF DeadCodeInv, Searched, ClosedUnder
<1>3. Searched'
  BY <1>1, <1>2 DEF Searched, ClosedUnder
<1>4. Compiles'
  BY <1>1 DEF Start, Compiles
<1>5. 1 \in DOMAIN Paras
  BY <1>1 DEF DeadCodeInv, Text
<1>6. MachineType'
  <2>1. pc' \in (DOMAIN Paras) \X Nat
    BY <1>1, <1>5
  <2>2. stack' \in Seq([back : (DOMAIN Paras) \X Nat, after : Names]) /\ DOMAIN stack' = {}
    BY <1>1
  <2> QED
    BY <1>1, <2>1, <2>2 DEF MachineType
<1>7. AlteredByEntered' /\ Inside'
  BY <1>1, <1>2 DEF AlteredByEntered, Inside
<1> QED
  BY <1>1, <1>3, <1>4, <1>6, <1>7 DEF DeadCodeInv

(* A step of the machine that leaves the text, the analysis and the phase  *)
(* of a run alone keeps what does not speak of the machine.                *)
LEMMA RunFrame ==
    ASSUME DeadCodeInv, phase = "run", phase' \in {"run", "end"},
           UNCHANGED <<source, analysis>>
    PROVE  /\ Text' /\ Searched' /\ Compiles'
           /\ Paras' = Paras /\ Names' = Names /\ Edges(Paras)' = Edges(Paras)
           /\ visited' = visited /\ reachable' = reachable
           /\ Searched /\ Compiles /\ MachineType /\ AlteredByEntered /\ Inside
  BY DEF DeadCodeInv, Text, Paras, Names, Searched, ClosedUnder, Compiles, analysis

(***************************************************************************)
(* Entering the i-th paragraph along an edge keeps the machine inside.     *)
(***************************************************************************)
LEMMA EnterInside ==
    ASSUME DeadCodeInv, phase = "run", phase' = "run",
           UNCHANGED <<source, analysis, altered>>,
           NEW i \in DOMAIN Paras, Enter(i),
           unseen' = {} => unseen = {},
           NEW here \in entered, NEW kind,
           unseen' = {} => <<here, kind, Paras[i].name>> \in Edges(Paras),
           kind = "ALTER" => altered # <<>>
    PROVE  Inside' /\ AlteredByEntered'
<1>1. /\ Paras' = Paras /\ Names' = Names /\ Edges(Paras)' = Edges(Paras)
      /\ visited' = visited /\ reachable' = reachable /\ altered' = altered
      /\ Searched /\ AlteredByEntered /\ Inside
  BY RunFrame
<1>2. entered' = entered \cup {Paras[i].name} /\ Paras[i].name \in Names
  BY DEF Enter, Names, NamesOf
<1>3. AlteredByEntered'
  BY <1>1, <1>2 DEF AlteredByEntered
<1>4. ASSUME unseen' = {}
      PROVE  /\ entered' \subseteq visited'
             /\ altered' = <<>> => entered' \subseteq reachable'
  <2>1. /\ here \in visited => Paras[i].name \in visited
        /\ kind # "ALTER" /\ here \in reachable => Paras[i].name \in reachable
    BY <1>1, <1>2, <1>4, Stays
  <2> QED
    BY <1>1, <1>2, <1>4, <2>1 DEF Inside
<1> QED
  BY <1>3, <1>4 DEF Inside

(* The line the machine is at, its paragraph and its operands.             *)
LEMMA AtLine ==
    ASSUME DeadCodeInv, Running
    PROVE  /\ pc[1] \in DOMAIN Paras /\ pc[2] \in DOMAIN Paras[pc[1]].lines
           /\ pc[2] \in Nat
           /\ Paras[pc[1]].name \in entered
           /\ Operands(Current) \subseteq DOMAIN Current.to
           /\ \A t \in DOMAIN Current.to : Current.to[t] \in Names
  BY DEF DeadCodeInv, MachineType, Running, Compiles, Current

(* Entering a paragraph and pushing nothing keeps the machine's type.      *)
LEMMA EnterType ==
    ASSUME DeadCodeInv, phase = "run", phase' = "run",
           UNCHANGED <<source, analysis, stack>>,
           NEW i \in DOMAIN Paras, Enter(i)
    PROVE  MachineType'
<1>1. Paras' = Paras /\ Names' = Names /\ MachineType
  BY RunFrame
<1> QED
  BY <1>1 DEF MachineType, Enter

LEMMA PassInv == DeadCodeInv /\ Pass => DeadCodeInv'
<1> SUFFICES ASSUME DeadCodeInv, Pass PROVE DeadCodeInv'
  OBVIOUS
<1>1. phase = "run" /\ phase' = "run" /\ UNCHANGED <<source, analysis>> /\ Running
  BY DEF Pass, Running
<1>2. /\ Text' /\ Searched' /\ Compiles'
      /\ Paras' = Paras /\ Names' = Names /\ Edges(Paras)' = Edges(Paras)
      /\ visited' = visited /\ reachable' = reachable
      /\ MachineType /\ AlteredByEntered /\ Inside
  BY <1>1, RunFrame
<1>3. MachineType'
  BY <1>1, <1>2, AtLine DEF MachineType, Pass, NextLine
<1>4. AlteredByEntered' /\ Inside'
  BY <1>2 DEF AlteredByEntered, Inside, Pass
<1> QED
  BY <1>1, <1>2, <1>3, <1>4 DEF DeadCodeInv

LEMMA PerformInv == DeadCodeInv /\ PerformParagraph => DeadCodeInv'
<1> SUFFICES ASSUME DeadCodeInv, PerformParagraph PROVE DeadCodeInv'
  OBVIOUS
<1> DEFINE name == Current.to[1]
           i == Index(name)
<1>1. /\ phase = "run" /\ phase' = "run" /\ UNCHANGED <<source, analysis, altered, unseen>>
      /\ Running /\ Enter(i)
  BY DEF PerformParagraph, Running
<1>2. /\ Text' /\ Searched' /\ Compiles'
      /\ Paras' = Paras /\ Names' = Names /\ MachineType
  BY <1>1, RunFrame
<1>3. /\ Current.to[1] \in Names
      /\ Current.op = "THRU" => Current.to[2] \in Names
  <2>1. CASE Current.op = "PERFORM"
    BY <1>1, <2>1, AtLine DEF Operands
  <2>2. CASE Current.op = "THRU"
    BY <1>1, <2>2, AtLine DEF Operands
  <2> QED
    BY <2>1, <2>2 DEF PerformParagraph
<1>4. i \in DOMAIN Paras /\ Paras[i].name = name
  BY <1>3, IndexOf
<1>5. \E kind \in {"PERFORM", "PERFORM_THRU"} : <<Paras[pc[1]].name, kind, name>> \in Edges(Paras)
  <2>1. CASE Current.op = "PERFORM"
    <3>1. <<"PERFORM", name>> \in EdgesOfLine(Paras, Current)
      BY <2>1 DEF EdgesOfLine
    <3> QED
      BY <1>1, <3>1, AtLine, LineEdge DEF Current
  <2>2. CASE Current.op = "THRU"
    <3>1. <<"PERFORM_THRU", name>> \in EdgesOfLine(Paras, Current)
      BY <2>2 DEF EdgesOfLine
    <3> QED
      BY <1>1, <3>1, AtLine, LineEdge DEF Current
  <2> QED
    BY <2>1, <2>2 DEF PerformParagraph
<1> HIDE DEF i, name
<1>6. Inside' /\ AlteredByEntered'
  <2>1. PICK kind \in {"PERFORM", "PERFORM_THRU"} :
            <<Paras[pc[1]].name, kind, Paras[i].name>> \in Edges(Paras)
    BY <1>4, <1>5
  <2>2. Paras[pc[1]].name \in entered /\ kind # "ALTER"
    BY <1>1, AtLine
  <2> QED
    BY <1>1, <1>4, <2>1, <2>2, EnterInside
<1>7. MachineType'
  <2> DEFINE frame == [back |-> NextLine,
                       after |-> IF Current.op = "THRU" THEN Current.to[2] ELSE Current.to[1]]
             frames == [back : (DOMAIN Paras) \X Nat, after : Names]
  <2>1. frame \in frames /\ Paras[frame.back[1]].name \in entered
    BY <1>1, <1>3, AtLine DEF NextLine
  <2>2. stack' = Append(stack, frame) /\ stack \in Seq(frames)
    BY <1>2 DEF PerformParagraph, MachineType
  <2> HIDE DEF frame, frames
  <2>3. /\ stack' \in Seq(frames)
        /\ \A k \in DOMAIN stack' : stack'[k] = frame \/ (k \in DOMAIN stack /\ stack'[k] = stack[k])
    BY <2>1, <2>2
  <2>4. pc' = <<i, 1>> /\ entered' = entered \cup {Paras[i].name}
    BY <1>1 DEF Enter
  <2>5. \A k \in DOMAIN stack' : Paras[stack'[k].back[1]].name \in entered'
    BY <1>2, <2>1, <2>3, <2>4 DEF MachineType
  <2> QED
    BY <1>2, <1>4, <2>3, <2>4, <2>5 DEF MachineType, frames
<1> QED
  BY <1>1, <1>2, <1>6, <1>7 DEF DeadCodeInv

LEMMA GoToInv == DeadCodeInv /\ GoTo => DeadCodeInv'
<1> SUFFICES ASSUME DeadCodeInv, GoTo PROVE DeadCodeInv'
  OBVIOUS
<1> DEFINE here == Paras[pc[1]].name
           name == IF here \in DOMAIN altered THEN altered[here] ELSE Current.to[1]
           i == Index(name)
<1>1. /\ phase = "run" /\ phase' = "run"
      /\ UNCHANGED <<source, analysis, stack, altered, unseen>>
      /\ Running /\ Enter(i) /\ Current.op \in {"GOTO", "IFGOTO"}
  BY DEF GoTo, Running
<1>2. Text' /\ Searched' /\ Compiles' /\ AlteredByEntered
  BY <1>1, RunFrame
<1>3. name \in Names
  <2>1. CASE here \in DOMAIN altered
    BY <1>2, <2>1 DEF AlteredByEntered
  <2>2. CASE here \notin DOMAIN altered
    BY <1>1, <2>2, AtLine DEF Operands
  <2> QED
    BY <2>1, <2>2
<1>4. i \in DOMAIN Paras /\ Paras[i].name = name
  BY <1>3, IndexOf
<1>5. \E from \in entered : \E kind \in {"GOTO", "ALTER"} :
         /\ <<from, kind, name>> \in Edges(Paras)
         /\ kind = "ALTER" => altered # <<>>
  <2>1. CASE here \in DOMAIN altered
    <3>1. PICK c \in entered : <<c, "ALTER", name>> \in Edges(Paras)
      BY <1>2, <2>1 DEF AlteredByEntered
    <3>2. altered # <<>>
      BY <2>1
    <3> QED
      BY <3>1, <3>2
  <2>2. CASE here \notin DOMAIN altered
    <3>1. <<"GOTO", name>> \in EdgesOfLine(Paras, Current)
      BY <1>1, <2>2 DEF EdgesOfLine
    <3>2. <<here, "GOTO", name>> \in Edges(Paras)
      BY <1>1, <3>1, AtLine, LineEdge DEF Current
    <3> QED
      BY <1>1, <3>2, AtLine
  <2> QED
    BY <2>1, <2>2
<1> HIDE DEF i, name
<1>6. Inside' /\ AlteredByEntered'
  <2>1. PICK from \in entered, kind \in {"GOTO", "ALTER"} :
            /\ <<from, kind, Paras[i].name>> \in Edges(Paras)
            /\ kind = "ALTER" => altered # <<>>
    BY <1>4, <1>5
  <2> QED
    BY <1>1, <1>4, <2>1, EnterInside
<1>7. MachineType'
  BY <1>1, <1>4, EnterType
<1> QED
  BY <1>1, <1>2, <1>6, <1>7 DEF DeadCodeInv

LEMMA GoToDependingInv == DeadCodeInv /\ GoToDepending => DeadCodeInv'
<1> SUFFICES ASSUME DeadCodeInv, GoToDepending PROVE DeadCodeInv'
  OBVIOUS
<1>1. /\ phase = "run" /\ phase' = "run"
      /\ UNCHANGED <<source, analysis, stack, altered>>
      /\ Running /\ Current.op = "DEPENDING"
  BY DEF GoToDepending, Running
<1>2. PICK t \in DOMAIN Current.to :
         /\ Enter(Index(Current.to[t]))
         /\ unseen' = unseen \cup (IF t = 1 THEN {} ELSE {"DEPENDING ON"})
  BY DEF GoToDepending
<1> DEFINE name == Current.to[t]
           i == Index(name)
<1>3. Text' /\ Searched' /\ Compiles'
  BY <1>1, RunFrame
<1>4. i \in DOMAIN Paras /\ Paras[i].name = name /\ Enter(i)
  BY <1>1, <1>2, AtLine, IndexOf
<1>5. unseen' = {} => t = 1 /\ unseen = {}
  BY <1>2
<1>6. unseen' = {} => <<Paras[pc[1]].name, "GOTO", name>> \in Edges(Paras)
  <2> SUFFICES ASSUME unseen' = {} PROVE <<Paras[pc[1]].name, "GOTO", name>> \in Edges(Paras)
    OBVIOUS
  <2>1. <<"GOTO", name>> \in EdgesOfLine(Paras, Current)
    BY <1>1, <1>5 DEF EdgesOfLine
  <2> QED
    BY <1>1, <2>1, AtLine, LineEdge DEF Current
<1> HIDE DEF i, name
<1>7. Inside' /\ AlteredByEntered'
  <2>1. Paras[pc[1]].name \in entered
    BY <1>1, AtLine
  <2> QED
    BY <1>1, <1>4, <1>5, <1>6, <2>1, EnterInside
<1>8. MachineType'
  BY <1>1, <1>4, EnterType
<1> QED
  BY <1>1, <1>3, <1>7, <1>8 DEF DeadCodeInv

LEMMA AlterInv == DeadCodeInv /\ Alter => DeadCodeInv'
<1> SUFFICES ASSUME DeadCodeInv, Alter PROVE DeadCodeInv'
  OBVIOUS
<1> DEFINE p == Current.to[1]
           q == Current.to[2]
<1>1. /\ phase = "run" /\ phase' = "run"
      /\ UNCHANGED <<source, analysis, stack, entered, unseen>>
      /\ Running /\ Current.op = "ALTER" /\ pc' = NextLine
      /\ altered' = [n \in DOMAIN altered \cup {p} |-> IF n = p THEN q ELSE altered[n]]
  BY DEF Alter, Running
<1>2. /\ Text' /\ Searched' /\ Compiles'
      /\ Paras' = Paras /\ Names' = Names /\ Edges(Paras)' = Edges(Paras)
      /\ visited' = visited /\ reachable' = reachable
      /\ MachineType /\ AlteredByEntered /\ Inside
  BY <1>1, RunFrame
<1>3. q \in Names /\ <<Paras[pc[1]].name, "ALTER", q>> \in Edges(Paras)
  <2>1. <<"ALTER", q>> \in EdgesOfLine(Paras, Current)
    BY <1>1 DEF EdgesOfLine
  <2>2. q \in Names
    BY <1>1, AtLine DEF Operands
  <2> QED
    BY <1>1, <2>1, <2>2, AtLine, LineEdge DEF Current
<1> HIDE DEF p, q
<1>4. MachineType'
  BY <1>1, <1>2, AtLine DEF MachineType, NextLine
<1>5. AlteredByEntered'
  BY <1>1, <1>2, <1>3, AtLine DEF AlteredByEntered
<1>6. altered' # <<>>
  <2>1. p \in DOMAIN altered'
    BY <1>1
  <2> QED
    BY <2>1
<1>7. Inside'
  BY <1>1, <1>2, <1>6 DEF Inside
<1> QED
  BY <1>1, <1>2, <1>4, <1>5, <1>7 DEF DeadCodeInv

LEMMA ReturnInv == DeadCodeInv /\ Return => DeadCodeInv'
<1> SUFFICES ASSUME DeadCodeInv, Return PROVE DeadCodeInv'
  OBVIOUS
<1> DEFINE frames == [back : (DOMAIN Paras) \X Nat, after : Names]
           top == stack[Len(stack)]
<1>1. /\ phase = "run" /\ phase' = "run" /\ stack # <<>>
      /\ UNCHANGED <<source, analysis, altered, entered, unseen>>
      /\ pc' = top.back /\ stack' = SubSeq(stack, 1, Len(stack) - 1)
  BY DEF Return, AtEnd, Returns
<1>2. /\ Text' /\ Searched' /\ Compiles'
      /\ Paras' = Paras /\ Names' = Names /\ Edges(Paras)' = Edges(Paras)
      /\ visited' = visited /\ reachable' = reachable
      /\ MachineType /\ AlteredByEntered /\ Inside
  BY <1>1, RunFrame
<1>3. stack \in Seq(frames)
  BY <1>2 DEF MachineType
<1> HIDE DEF frames
<1>4. /\ Len(stack) \in DOMAIN stack /\ top \in frames
      /\ stack' \in Seq(frames)
      /\ \A k \in DOMAIN stack' : k \in DOMAIN stack /\ stack'[k] = stack[k]
  BY <1>1, <1>3
<1>5. pc' \in (DOMAIN Paras) \X Nat /\ Paras[pc'[1]].name \in entered
  BY <1>1, <1>2, <1>4 DEF MachineType, frames
<1>6. \A k \in DOMAIN stack' : Paras[stack'[k].back[1]].name \in entered
  BY <1>2, <1>4 DEF MachineType
<1>7. MachineType'
  BY <1>1, <1>2, <1>4, <1>5, <1>6 DEF MachineType, frames
<1>8. AlteredByEntered' /\ Inside'
  BY <1>1, <1>2 DEF AlteredByEntered, Inside
<1> QED
  BY <1>1, <1>2, <1>7, <1>8 DEF DeadCodeInv

LEMMA FallThroughInv == DeadCodeInv /\ FallThrough => DeadCodeInv'
<1> SUFFICES ASSUME DeadCodeInv, FallThrough PROVE DeadCodeInv'
  OBVIOUS
<1> DEFINE i == pc[1] + 1
<1>1. /\ phase = "run" /\ phase' = "run"
      /\ UNCHANGED <<source, analysis, stack, altered>>
      /\ pc[1] < Len(Paras) /\ Enter(i)
      /\ unseen' = unseen \cup (IF EndsBlind(Paras[pc[1]].lines)
                                THEN {"PAST THE LAST LINE"} ELSE {})
  BY DEF FallThrough, AtEnd
<1>2. Text' /\ Searched' /\ Compiles' /\ MachineType
  BY <1>1, RunFrame
<1>3. pc[1] \in 1..(Len(Paras) - 1) /\ i \in DOMAIN Paras
  <2>1. DOMAIN Paras = 1..Len(Paras) /\ Len(Paras) \in Nat
    BY DEF DeadCodeInv, Text
  <2>2. pc[1] \in DOMAIN Paras
    BY <1>2 DEF MachineType
  <2>3. pc[1] < Len(Paras)
    BY <1>1
  <2> HIDE DEF i
  <2>4. pc[1] \in 1..(Len(Paras) - 1)
    BY <2>1, <2>2, <2>3
  <2> QED
    BY <2>1, <2>4 DEF i
<1>4. unseen' = {} => unseen = {} /\ ~EndsBlind(Paras[pc[1]].lines)
  BY <1>1
<1>5. unseen' = {} => <<Paras[pc[1]].name, "FALL_THROUGH", Paras[i].name>> \in Edges(Paras)
  <2>1. Compiles
    BY <1>1 DEF DeadCodeInv
  <2>2. PICK j : j = pc[1]
    OBVIOUS
  <2>3. j \in 1 .. (Len(Paras) - 1) /\ j \in DOMAIN Paras
    BY <1>2, <1>3, <2>2 DEF MachineType
  <2>4. unseen' = {} => FallsThrough(Paras[j].lines)
    BY <1>4, <2>2 DEF EndsBlind, FallsThrough
  <2>5. unseen' = {} => <<Paras[j].name, "FALL_THROUGH", Paras[j + 1].name>> \in Edges(Paras)
    BY <2>1, <2>3, <2>4, FallEdge
  <2> QED
    BY <2>2, <2>5
<1> DEFINE here == Paras[pc[1]].name
           kind == "FALL_THROUGH"
<1>6. /\ here \in entered /\ kind # "ALTER"
      /\ unseen' = {} => <<here, kind, Paras[i].name>> \in Edges(Paras)
  BY <1>2, <1>5 DEF MachineType
<1> HIDE DEF i, here, kind
<1>8. Inside' /\ AlteredByEntered'
  <2>1. /\ phase = "run" /\ phase' = "run" /\ UNCHANGED <<source, analysis, altered>>
        /\ i \in DOMAIN Paras /\ Enter(i) /\ (unseen' = {} => unseen = {})
    BY <1>1, <1>3, <1>4
  <2> QED
    BY <1>6, <2>1, EnterInside
<1>7. MachineType'
  BY <1>1, <1>3, EnterType
<1> QED
  BY <1>1, <1>2, <1>7, <1>8 DEF DeadCodeInv

(* STOP RUN and running off the last paragraph end the run.                *)
LEMMA EndInv == DeadCodeInv /\ (StopRun \/ RunOff) => DeadCodeInv'
<1> SUFFICES ASSUME DeadCodeInv, StopRun \/ RunOff PROVE DeadCodeInv'
  OBVIOUS
<1>1. /\ phase = "run" /\ phase' = "end" /\ UNCHANGED <<source, analysis>>
      /\ UNCHANGED <<pc, stack, altered, entered, unseen>>
  BY DEF StopRun, RunOff, Running, AtEnd, machine
<1>2. /\ Text' /\ Searched' /\ Compiles'
      /\ Paras' = Paras /\ Names' = Names /\ Edges(Paras)' = Edges(Paras)
      /\ visited' = visited /\ reachable' = reachable
      /\ MachineType /\ AlteredByEntered /\ Inside
  BY <1>1, RunFrame
<1>3. MachineType' /\ AlteredByEntered' /\ Inside'
  BY <1>1, <1>2 DEF MachineType, AlteredByEntered, Inside
<1> QED
  BY <1>1, <1>2, <1>3 DEF DeadCodeInv

LEMMA StutterInv ==
    DeadCodeInv /\ UNCHANGED <<source, phase, analysis, machine>> => DeadCodeInv'
<1> SUFFICES ASSUME DeadCodeInv, UNCHANGED <<source, phase, analysis, machine>>
             PROVE  DeadCodeInv'
  OBVIOUS
<1>1. /\ Paras' = Paras /\ Names' = Names /\ Edges(Paras)' = Edges(Paras)
      /\ UNCHANGED <<phase, visited, frontier, reachable>>
      /\ UNCHANGED <<pc, stack, altered, entered, unseen>>
  BY DEF Paras, Names, analysis, machine
<1>2. Text' = Text /\ Searched' = Searched /\ Compiles' = Compiles
  BY <1>1 DEF Text, Searched, ClosedUnder, Compiles
<1>3. /\ MachineType' = MachineType /\ AlteredByEntered' = AlteredByEntered
      /\ Inside' = Inside
  BY <1>1 DEF MachineType, AlteredByEntered, Inside
<1> QED
  BY <1>1, <1>2, <1>3 DEF DeadCodeInv

LEMMA NextInv ==
    DeadCodeInv /\ [DeadCodeNext]_<<source, phase, analysis, machine>> => DeadCodeInv'
  BY AnalyzeInv, VisitInv, SearchWithAlterInv, StartInv, PassInv, PerformInv,
     GoToInv, GoToDependingInv, AlterInv, EndInv, ReturnInv, FallThroughInv,
     StutterInv DEF DeadCodeNext

(***************************************************************************)
(* dead_code.py: whatever the text, what its run enters is not "dead", and *)
(* is "reachable" if the run executed no ALTER, unless the run has made a  *)
(* transfer the call graph has no edge for.                                *)
(***************************************************************************)
THEOREM ClassificationAlwaysHolds == DeadCodeSpec => []ClassificationHolds
<1>1. Text /\ DeadCodeInit => DeadCodeInv
  BY InitInv
<1>2. DeadCodeInv /\ [DeadCodeNext]_<<source, phase, analysis, machine>> => DeadCodeInv'
  BY NextInv
<1>3. DeadCodeInv => ClassificationHolds
  BY DEF DeadCodeInv, Inside, ClassificationHolds, dead
<1> QED
  BY <1>1, <1>2, <1>3, PTL DEF DeadCodeSpec, Text

-----------------------------------------------------------------------------
(***************************************************************************)
(* Workbench.  What an edit does to the paragraphs of any text: the names  *)
(* and what the lines refer to, followed through the parser, each of the   *)
(* edit operations and the generator.  A minimum, the earliest of several  *)
(* places and the concatenation of a sequence of sequences are reached by  *)
(* induction over the numbers: a set of numbers has a least one.           *)
(***************************************************************************)

(* The induction of this part: a set of numbers that is not empty has a    *)
(* least one.                                                              *)
LEMMA LeastOf ==
    ASSUME NEW T, T \subseteq Nat, T # {}
    PROVE  \E x \in T : \A y \in T : x <= y
<1>1. IsWellFoundedOn(OpToRel(<, Nat), Nat)
  BY NatLessThanWellFounded
<1>2. PICK x \in T : \A y \in T : ~ (<<y, x>> \in OpToRel(<, Nat))
  <2> HIDE DEF IsWellFoundedOn
  <2> QED
    BY <1>1, WFMin, Zenon
<1>3. \A y \in T : ~ (y < x)
  <2> SUFFICES ASSUME NEW y \in T, y < x PROVE FALSE
    OBVIOUS
  <2>1. <<y, x>> \in OpToRel(<, Nat)
    BY DEF OpToRel
  <2> QED
    BY <1>2, <2>1
<1> QED
  BY <1>3

LEMMA MinIsIn ==
    ASSUME NEW T, T \subseteq Nat, T # {}
    PROVE  Min(T) \in T
BY LeastOf DEF Min

LEMMA EarliestIsIn ==
    ASSUME NEW P, P \subseteq Nat \X Nat, P # {}
    PROVE  Earliest(P) \in P
<1> DEFINE firsts == {p[1] : p \in P}
<1>1. firsts \subseteq Nat /\ firsts # {}
  OBVIOUS
<1> HIDE DEF firsts
<1>2. PICK a \in firsts : \A y \in firsts : a <= y
  BY <1>1, LeastOf
<1> DEFINE seconds == {p[2] : p \in {q \in P : q[1] = a}}
<1>3. seconds \subseteq Nat /\ seconds # {}
  BY <1>2 DEF firsts
<1> HIDE DEF seconds
<1>4. PICK b \in seconds : \A y \in seconds : b <= y
  BY <1>3, LeastOf
<1>5. PICK p \in P : p[1] = a /\ p[2] = b
  BY <1>4 DEF seconds
<1>6. ASSUME NEW q \in P PROVE p[1] < q[1] \/ (p[1] = q[1] /\ p[2] <= q[2])
  <2>1. q[1] \in firsts /\ a \in Nat /\ q[1] \in Nat
    BY <1>1, <1>2 DEF firsts
  <2>2. q[1] = a => q[2] \in seconds
    BY DEF seconds
  <2> QED
    BY <1>2, <1>4, <1>5, <2>1, <2>2
<1> QED
  BY <1>5, <1>6 DEF Earliest

-----------------------------------------------------------------------------
(* Flattening                                                              *)

(* g[i] is the first i sequences of q, one after the other.                *)
FlatPrefixes(q, n, g) == g = [i \in 1 .. n |-> IF i = 1 THEN q[i] ELSE g[i - 1] \o q[i]]

LEMMA PrefixesExist ==
    ASSUME NEW q, NEW n \in Nat
    PROVE  \E g : FlatPrefixes(q, n, g)
<1> DEFINE T == {m \in Nat : ~ \E g : FlatPrefixes(q, m, g)}
<1>1. SUFFICES ASSUME T # {} PROVE FALSE
  OBVIOUS
<1>2. PICK m \in T : \A y \in T : m <= y
  <2>1. T \subseteq Nat
    OBVIOUS
  <2> HIDE DEF T
  <2> QED
    BY <1>1, <2>1, LeastOf
<1>3. m \in Nat /\ ~ \E g : FlatPrefixes(q, m, g)
  BY <1>2
<1>4. CASE m = 0
  <2>1. FlatPrefixes(q, 0, [i \in 1 .. 0 |-> {}])
    BY DEF FlatPrefixes
  <2> QED
    BY <1>3, <1>4, <2>1
<1>5. CASE m # 0
  <2>1. PICK g : FlatPrefixes(q, m - 1, g)
    BY <1>2, <1>3, <1>5
  <2> DEFINE h == [i \in 1 .. m |-> IF i < m THEN g[i] ELSE IF m = 1 THEN q[1] ELSE g[m - 1] \o q[m]]
  <2>2. ASSUME NEW i \in 1 .. m PROVE h[i] = IF i = 1 THEN q[i] ELSE h[i - 1] \o q[i]
    <3>1. CASE i < m
      <4>1. i \in 1 .. m - 1 /\ h[i] = g[i] /\ (i # 1 => h[i - 1] = g[i - 1])
        BY <1>3, <3>1
      <4>2. g[i] = IF i = 1 THEN q[i] ELSE g[i - 1] \o q[i]
        BY <2>1, <4>1 DEF FlatPrefixes
      <4> QED
        BY <4>1, <4>2
    <3>2. CASE i = m
      BY <1>3, <3>2
    <3> QED
      BY <1>3, <3>1, <3>2
  <2>3. h = [i \in 1 .. m |-> IF i = 1 THEN q[i] ELSE h[i - 1] \o q[i]]
    <3>1. \A i \in 1 .. m : h[i] = IF i = 1 THEN q[i] ELSE h[i - 1] \o q[i]
      BY <2>2
    <3>2. \E k : k = h /\ DOMAIN k = 1 .. m /\ k = [i \in 1 .. m |-> k[i]]
      OBVIOUS
    <3> HIDE DEF h
    <3> QED
      BY <3>1, <3>2
  <2> QED
    BY <1>3, <2>3 DEF FlatPrefixes
<1> QED
  BY <1>4, <1>5

(* What is in a flattened sequence is in one of its sequences.             *)
LEMMA FlattenElements ==
    ASSUME NEW S, NEW q \in Seq(Seq(S))
    PROVE  /\ FlattenSeq(q) \in Seq(S)
           /\ \A k \in DOMAIN FlattenSeq(q) :
                \E j \in DOMAIN q : \E m \in DOMAIN q[j] : FlattenSeq(q)[k] = q[j][m]
<1> DEFINE n == Len(q)
           Good(f, i) == /\ f[i] \in Seq(S)
                         /\ \A k \in DOMAIN f[i] :
                              \E j \in DOMAIN q : \E m \in DOMAIN q[j] : f[i][k] = q[j][m]
<1>1. n \in Nat /\ DOMAIN q = 1 .. n /\ \A i \in 1 .. n : q[i] \in Seq(S)
  OBVIOUS
<1>2. CASE n = 0
  <2>1. FlattenSeq(q) = q /\ q = <<>>
    BY <1>2 DEF FlattenSeq
  <2> QED
    BY <2>1
<1>3. CASE n # 0
  <2>1. \E g : FlatPrefixes(q, n, g)
    BY <1>1, PrefixesExist
  <2>2. PICK f : f = CHOOSE g : FlatPrefixes(q, n, g)
    OBVIOUS
  <2>3. FlatPrefixes(q, n, f)
    BY <2>1, <2>2
  <2>4. FlattenSeq(q) = f[n]
    BY <1>3, <2>2 DEF FlattenSeq, FlatPrefixes
  <2> DEFINE T == {i \in 1 .. n : ~ Good(f, i)}
  <2>5. T = {}
    <3>1. SUFFICES ASSUME T # {} PROVE FALSE
      OBVIOUS
    <3>2. PICK i \in T : \A y \in T : i <= y
      <4>1. T \subseteq Nat
        OBVIOUS
      <4> HIDE DEF T
      <4> QED
        BY <3>1, <4>1, LeastOf
    <3>3. i \in 1 .. n /\ ~ Good(f, i)
      BY <3>2
    <3>4. f[i] = IF i = 1 THEN q[i] ELSE f[i - 1] \o q[i]
      BY <2>3, <3>3 DEF FlatPrefixes
    <3>5. CASE i = 1
      BY <1>1, <3>3, <3>4, <3>5
    <3>6. CASE i # 1
      <4>1. i - 1 \in 1 .. n /\ Good(f, i - 1)
        <5>1. i - 1 \in 1 .. n /\ i - 1 \notin T
          BY <1>1, <3>2, <3>3, <3>6
        <5> QED
          BY <5>1
      <4>2. PICK s, t : s = f[i - 1] /\ t = q[i]
        OBVIOUS
      <4>3. s \in Seq(S) /\ t \in Seq(S) /\ f[i] = s \o t
        BY <1>1, <3>3, <3>4, <3>6, <4>1, <4>2
      <4>4. f[i] \in Seq(S)
        BY <4>3
      <4>5. ASSUME NEW k \in DOMAIN f[i]
            PROVE  \E j \in DOMAIN q : \E m \in DOMAIN q[j] : f[i][k] = q[j][m]
        <5>1. k \in 1 .. Len(s) + Len(t) /\ Len(s) \in Nat /\ Len(t) \in Nat
          BY <4>3
        <5>2. CASE k <= Len(s)
          <6>1. k \in DOMAIN s /\ f[i][k] = s[k]
            BY <4>3, <5>1, <5>2
          <6> QED
            BY <4>1, <4>2, <6>1
        <5>3. CASE ~ k <= Len(s)
          <6>1. k - Len(s) \in DOMAIN t /\ f[i][k] = t[k - Len(s)]
            BY <4>3, <5>1, <5>3
          <6> QED
            BY <1>1, <3>3, <4>2, <6>1
        <5> QED
          BY <5>2, <5>3
      <4> QED
        BY <3>3, <4>4, <4>5
    <3> QED
      BY <3>5, <3>6
  <2>6. Good(f, n)
    <3>1. n \in 1 .. n /\ n \notin T
      BY <1>1, <1>3, <2>5
    <3> QED
      BY <3>1
  <2> QED
    BY <2>4, <2>6
<1> QED
  BY <1>2, <1>3

(* Inserting an element.                                                   *)
LEMMA Inserted ==
    ASSUME NEW S, NEW s \in Seq(S), NEW i \in 1 .. Len(s) + 1, NEW e \in S
    PROVE  LET t == InsertAt(s, i, e)
           IN  /\ t \in Seq(S)
               /\ \A k \in DOMAIN t : t[k] = e \/ \E j \in DOMAIN s : t[k] = s[j]
               /\ \A j \in DOMAIN s : \E k \in DOMAIN t : t[k] = s[j]
               /\ \E k \in DOMAIN t : t[k] = e
<1> PICK a : a = SubSeq(s, 1, i - 1)
  OBVIOUS
<1> PICK b : b = SubSeq(s, i, Len(s))
  OBVIOUS
<1> PICK n : n = Len(s)
  OBVIOUS
<1>1. n \in Nat /\ i \in 1 .. n + 1 /\ DOMAIN s = 1 .. n /\ \A j \in 1 .. n : s[j] \in S
  OBVIOUS
<1>2. a \in Seq(S) /\ Len(a) = i - 1 /\ \A j \in 1 .. i - 1 : a[j] = s[j]
  <2>1. \A j \in 1 .. i - 1 : s[j] \in S
    BY <1>1
  <2>2. i - 1 \in Int /\ 1 \in Int
    BY <1>1
  <2>3. /\ a \in Seq(S) /\ Len(a) = IF 1 <= i - 1 THEN (i - 1) - 1 + 1 ELSE 0
        /\ \A j \in 1 .. (i - 1) - 1 + 1 : a[j] = s[1 + j - 1]
    BY <2>1, <2>2, SubSeqProperties
  <2> QED
    BY <1>1, <2>3
<1>3. b \in Seq(S) /\ Len(b) = n - i + 1 /\ \A j \in 1 .. n - i + 1 : b[j] = s[i + j - 1]
  <2>1. \A j \in i .. n : s[j] \in S
    BY <1>1
  <2>2. i \in Int /\ n \in Int
    BY <1>1
  <2>3. /\ b \in Seq(S) /\ Len(b) = IF i <= n THEN n - i + 1 ELSE 0
        /\ \A j \in 1 .. n - i + 1 : b[j] = s[i + j - 1]
    BY <2>1, <2>2, SubSeqProperties
  <2> QED
    BY <1>1, <2>3
<1>4. PICK c : c = a \o <<e>>
  OBVIOUS
<1>5. /\ c \in Seq(S) /\ Len(c) = i
      /\ \A j \in 1 .. i : c[j] = IF j < i THEN s[j] ELSE e
  BY <1>1, <1>2, <1>4
<1>6. PICK t : t = c \o b
  OBVIOUS
<1>7. t \in Seq(S) /\ Len(t) = n + 1 /\ DOMAIN t = 1 .. n + 1
  BY <1>1, <1>3, <1>5, <1>6
<1>8. \A j \in 1 .. n + 1 : t[j] = IF j < i THEN s[j] ELSE IF j = i THEN e ELSE s[j - 1]
  BY <1>1, <1>3, <1>5, <1>6
<1>9. InsertAt(s, i, e) = t
  BY <1>4, <1>6 DEF InsertAt
<1>10. \A k \in DOMAIN t : t[k] = e \/ \E j \in DOMAIN s : t[k] = s[j]
  <2> TAKE k \in DOMAIN t
  <2>1. CASE k < i
    <3>1. k \in DOMAIN s /\ t[k] = s[k]
      BY <1>1, <1>7, <1>8, <2>1
    <3> QED
      BY <3>1
  <2>2. CASE k = i
    BY <1>1, <1>7, <1>8, <2>2
  <2>3. CASE k > i
    <3>1. k - 1 \in DOMAIN s /\ t[k] = s[k - 1]
      BY <1>1, <1>7, <1>8, <2>3
    <3> QED
      BY <3>1
  <2> QED
    BY <1>1, <1>7, <2>1, <2>2, <2>3
<1>11. \A j \in DOMAIN s : \E k \in DOMAIN t : t[k] = s[j]
  <2> TAKE j \in DOMAIN s
  <2>1. CASE j < i
    BY <1>1, <1>7, <1>8, <2>1
  <2>2. CASE ~ j < i
    <3>1. j + 1 \in DOMAIN t /\ t[j + 1] = s[j]
      BY <1>1, <1>7, <1>8, <2>2
    <3> QED
      BY <3>1
  <2> QED
    BY <2>1, <2>2
<1>12. i \in DOMAIN t /\ t[i] = e
  BY <1>1, <1>7, <1>8
<1> QED
  BY <1>7, <1>9, <1>10, <1>11, <1>12

-----------------------------------------------------------------------------
(* Texts and trees                                                         *)

LEMMA IsSequence ==
    ASSUME NEW S, NEW n \in Nat, NEW f, DOMAIN f = 1 .. n, f = [i \in DOMAIN f |-> f[i]],
           \A i \in 1 .. n : f[i] \in S
    PROVE  f \in Seq(S)
<1>1. f \in [1 .. n -> S]
  OBVIOUS
<1> QED
  BY <1>1

TreeParagraphs == [name : Seq(STRING), comment : BOOLEAN, stmts : Seq(Seq(Lines))]

IsTree(t) ==
    /\ t = [header |-> t.header, files |-> t.files, ws |-> t.ws,
            copybooks |-> t.copybooks, paras |-> t.paras]
    /\ t.paras \in Seq(TreeParagraphs)

(* A name some line of a text, or of a tree, refers to.                    *)
Refers(paras, x) ==
    \E i \in DOMAIN paras : \E k \in DOMAIN paras[i].lines :
        \E m \in DOMAIN paras[i].lines[k].to : x = paras[i].lines[k].to[m]
Mentions(paras, x) ==
    \E i \in DOMAIN paras : \E k \in DOMAIN paras[i].stmts : \E l \in DOMAIN paras[i].stmts[k] :
        \E m \in DOMAIN paras[i].stmts[k][l].to : x = paras[i].stmts[k][l].to[m]

LEMMA ReferencedIs ==
    ASSUME NEW s, NEW x PROVE x \in Referenced(s) <=> Refers(s.paras, x)
BY DEF Referenced, Refers, ToSet

(* Parsing keeps the names and what lines refer to.                        *)
LEMMA ParsedParagraphs ==
    ASSUME NEW s, s.paras \in Seq(Paragraphs)
    PROVE  LET t == Parse(s)
           IN  /\ IsTree(t)
               /\ NamesOf(t.paras) = NamesOf(s.paras)
               /\ \A x : Mentions(t.paras, x) <=> Refers(s.paras, x)
<1>ps. PICK ps : ps = s.paras
  OBVIOUS
<1>us. PICK us : us = [i \in DOMAIN ps |-> [name |-> ps[i].name, comment |-> FALSE,
                      stmts |-> [k \in DOMAIN ps[i].lines |-> ParsedStatement(ps[i].lines[k])]]]
  OBVIOUS
<1>1. /\ ps \in Seq(Paragraphs) /\ DOMAIN ps = 1 .. Len(ps) /\ Len(ps) \in Nat
      /\ \A i \in DOMAIN ps : ps[i] \in Paragraphs
  BY <1>ps
<1>2. Parse(s).paras = us
  BY <1>ps, <1>us DEF Parse
<1>3. ASSUME NEW line \in Lines
      PROVE  LET st == ParsedStatement(line)
             IN  st \in Seq(Lines) /\ DOMAIN st = {1} /\ st[1].to = line.to
  <2>1. PICK a \in Statements, b \in Seq(Seq(STRING)), w \in Seq(Seq(STRING)), c \in BOOLEAN :
          line = [op |-> a, to |-> b, words |-> w, dot |-> c]
    BY DEF Lines
  <2>2. PICK other : other = [line EXCEPT !.dot = FALSE]
    OBVIOUS
  <2>3. other = [op |-> a, to |-> b, words |-> w, dot |-> FALSE]
    BY <2>1, <2>2
  <2>4. other \in Lines /\ other.to = line.to
    BY <2>1, <2>3 DEF Lines
  <2>5. ParsedStatement(line) = <<other>>
    BY <2>2 DEF ParsedStatement
  <2>6. <<other>> \in Seq(Lines) /\ DOMAIN <<other>> = {1} /\ <<other>>[1] = other
    BY <2>4
  <2> QED
    BY <2>4, <2>5, <2>6
<1>4. ASSUME NEW i \in DOMAIN ps
      PROVE  /\ us[i].name = ps[i].name /\ us[i] \in TreeParagraphs
             /\ DOMAIN us[i].stmts = DOMAIN ps[i].lines
             /\ \A k \in DOMAIN ps[i].lines :
                  /\ ps[i].lines[k] \in Lines
                  /\ us[i].stmts[k] = ParsedStatement(ps[i].lines[k])
  <2>1. ps[i].name \in Seq(STRING) /\ ps[i].lines \in Seq(Lines)
    BY <1>1 DEF Paragraphs
  <2>2. PICK ls, n : ls = ps[i].lines /\ n = Len(ls)
    OBVIOUS
  <2>3. n \in Nat /\ DOMAIN ls = 1 .. n /\ \A k \in 1 .. n : ls[k] \in Lines
    BY <2>1, <2>2
  <2>4. PICK sts : sts = [k \in 1 .. n |-> ParsedStatement(ls[k])]
    OBVIOUS
  <2>5. \A k \in 1 .. n : ParsedStatement(ls[k]) \in Seq(Lines)
    BY <1>3, <2>3
  <2>6. sts \in Seq(Seq(Lines)) /\ DOMAIN sts = 1 .. n
    BY <2>3, <2>4, <2>5
  <2>7. us[i] = [name |-> ps[i].name, comment |-> FALSE, stmts |-> sts]
    BY <1>us, <2>2, <2>3, <2>4
  <2> QED
    BY <2>1, <2>2, <2>3, <2>4, <2>6, <2>7 DEF TreeParagraphs
<1>5. us \in Seq(TreeParagraphs) /\ DOMAIN us = DOMAIN ps
  <2>1. DOMAIN us = DOMAIN ps /\ us = [i \in DOMAIN us |-> us[i]]
    BY <1>us
  <2>2. \A i \in 1 .. Len(ps) : us[i] \in TreeParagraphs
    BY <1>1, <1>4
  <2> QED
    BY <1>1, <2>1, <2>2, IsSequence
<1>6. IsTree(Parse(s))
  BY <1>2, <1>5 DEF IsTree, Parse
<1>7. NamesOf(us) = NamesOf(ps)
  BY <1>4, <1>5 DEF NamesOf
<1>8. ASSUME NEW x PROVE Mentions(us, x) <=> Refers(ps, x)
  <2>1. ASSUME NEW i \in DOMAIN ps, NEW k \in DOMAIN ps[i].lines
        PROVE  DOMAIN us[i].stmts[k] = {1} /\ us[i].stmts[k][1].to = ps[i].lines[k].to
    BY <1>3, <1>4
  <2>2. ASSUME Mentions(us, x) PROVE Refers(ps, x)
    <3>1. PICK i \in DOMAIN us : \E k \in DOMAIN us[i].stmts : \E l \in DOMAIN us[i].stmts[k] :
                \E m \in DOMAIN us[i].stmts[k][l].to : x = us[i].stmts[k][l].to[m]
      BY <2>2 DEF Mentions
    <3>2. PICK k \in DOMAIN us[i].stmts : \E l \in DOMAIN us[i].stmts[k] :
                \E m \in DOMAIN us[i].stmts[k][l].to : x = us[i].stmts[k][l].to[m]
      BY <3>1
    <3>3. i \in DOMAIN ps /\ k \in DOMAIN ps[i].lines
      BY <1>4, <1>5
    <3>4. PICK m \in DOMAIN ps[i].lines[k].to : x = ps[i].lines[k].to[m]
      BY <2>1, <3>2, <3>3
    <3> QED
      BY <3>3, <3>4 DEF Refers
  <2>3. ASSUME Refers(ps, x) PROVE Mentions(us, x)
    <3>1. PICK i \in DOMAIN ps : \E k \in DOMAIN ps[i].lines :
                \E m \in DOMAIN ps[i].lines[k].to : x = ps[i].lines[k].to[m]
      BY <2>3 DEF Refers
    <3>2. PICK k \in DOMAIN ps[i].lines : \E m \in DOMAIN ps[i].lines[k].to : x = ps[i].lines[k].to[m]
      BY <3>1
    <3>3. /\ i \in DOMAIN us /\ k \in DOMAIN us[i].stmts /\ 1 \in DOMAIN us[i].stmts[k]
          /\ us[i].stmts[k][1].to = ps[i].lines[k].to
      BY <1>4, <1>5, <2>1
    <3> QED
      BY <3>2, <3>3 DEF Mentions
  <2> QED
    BY <2>2, <2>3
<1> QED
  BY <1>ps, <1>2, <1>6, <1>7, <1>8

(* Generating a text, too.                                                 *)
LEMMA GeneratedText ==
    ASSUME NEW t, t.paras \in Seq(TreeParagraphs)
    PROVE  LET s == Generate(t)
           IN  /\ s.paras \in Seq(Paragraphs)
               /\ NamesOf(s.paras) = NamesOf(t.paras)
               /\ \A x : Refers(s.paras, x) => Mentions(t.paras, x)
<1>ps. PICK ps : ps = t.paras
  OBVIOUS
<1>us. PICK us : us = GeneratedParagraphs(t)
  OBVIOUS
<1>1. /\ ps \in Seq(TreeParagraphs) /\ DOMAIN ps = 1 .. Len(ps) /\ Len(ps) \in Nat
      /\ \A i \in DOMAIN ps : ps[i] \in TreeParagraphs
  BY <1>ps
<1>2. Generate(t).paras = us /\ us = [i \in DOMAIN ps |-> [name |-> ps[i].name, comment |-> ps[i].comment,
                                                               lines |-> FlattenSeq(ps[i].stmts)]]
  BY <1>ps, <1>us DEF Generate, GeneratedParagraphs
<1>3. ASSUME NEW i \in DOMAIN ps
      PROVE  /\ us[i] = [name |-> ps[i].name, comment |-> ps[i].comment, lines |-> FlattenSeq(ps[i].stmts)]
             /\ us[i] \in Paragraphs
             /\ \A k \in DOMAIN us[i].lines :
                  \E j \in DOMAIN ps[i].stmts : \E l \in DOMAIN ps[i].stmts[j] :
                    us[i].lines[k] = ps[i].stmts[j][l]
  <2>1. ps[i].name \in Seq(STRING) /\ ps[i].comment \in BOOLEAN /\ ps[i].stmts \in Seq(Seq(Lines))
    BY <1>1 DEF TreeParagraphs
  <2>2. us[i] = [name |-> ps[i].name, comment |-> ps[i].comment, lines |-> FlattenSeq(ps[i].stmts)]
    BY <1>2
  <2>3. FlattenSeq(ps[i].stmts) \in Seq(Lines)
    BY <2>1, FlattenElements
  <2>4. \A k \in DOMAIN FlattenSeq(ps[i].stmts) :
          \E j \in DOMAIN ps[i].stmts : \E l \in DOMAIN ps[i].stmts[j] :
            FlattenSeq(ps[i].stmts)[k] = ps[i].stmts[j][l]
    BY <2>1, FlattenElements
  <2> QED
    BY <2>1, <2>2, <2>3, <2>4 DEF Paragraphs
<1>4. us \in Seq(Paragraphs) /\ DOMAIN us = DOMAIN ps
  <2>1. DOMAIN us = DOMAIN ps /\ us = [i \in DOMAIN us |-> us[i]]
    BY <1>2
  <2>2. \A i \in 1 .. Len(ps) : us[i] \in Paragraphs
    BY <1>1, <1>3
  <2> QED
    BY <1>1, <2>1, <2>2, IsSequence
<1>5. NamesOf(us) = NamesOf(ps)
  <2>1. ASSUME NEW i \in DOMAIN ps PROVE us[i].name = ps[i].name
    <3>1. PICK flat : us[i] = [name |-> ps[i].name, comment |-> ps[i].comment, lines |-> flat]
      BY <1>3
    <3> QED
      BY <3>1
  <2> QED
    BY <1>4, <2>1 DEF NamesOf
<1>6. ASSUME NEW x, Refers(us, x) PROVE Mentions(ps, x)
  <2>1. PICK i \in DOMAIN us : \E k \in DOMAIN us[i].lines :
              \E m \in DOMAIN us[i].lines[k].to : x = us[i].lines[k].to[m]
    BY <1>6 DEF Refers
  <2>2. PICK k \in DOMAIN us[i].lines : \E m \in DOMAIN us[i].lines[k].to : x = us[i].lines[k].to[m]
    BY <2>1
  <2>3. i \in DOMAIN ps
    BY <1>4
  <2>4. PICK j \in DOMAIN ps[i].stmts : \E l \in DOMAIN ps[i].stmts[j] :
              us[i].lines[k] = ps[i].stmts[j][l]
    BY <1>3, <2>3
  <2> QED
    BY <2>2, <2>3, <2>4 DEF Mentions
<1> QED
  BY <1>ps, <1>2, <1>4, <1>5, <1>6

-----------------------------------------------------------------------------
(* Renaming                                                                *)

(* A prefix that has s as a piece is at least as long as s.                *)
LEMMA PieceFits ==
    ASSUME NEW S, NEW s \in Seq(S), NEW t \in Seq(S), NEW i \in 0 .. Len(t),
           s \in SubSeqs(SubSeq(t, 1, i))
    PROVE  Len(s) <= i
<1>1. PICK p : p = SubSeq(t, 1, i)
  OBVIOUS
<1>2. p \in Seq(S) /\ Len(p) = i
  BY <1>1
<1>3. s \in SubSeqs(p)
  BY <1>1
<1>4. \E a, b \in 0 .. Len(p) : s = SubSeq(p, a + 1, b)
  BY <1>3 DEF SubSeqs
<1>5. PICK a \in 0 .. Len(p), b \in 0 .. Len(p) : s = SubSeq(p, a + 1, b)
  BY <1>4
<1> QED
  BY <1>2, <1>5

(* A sequence is a piece of itself.                                        *)
LEMMA WholePiece ==
    ASSUME NEW S, NEW s \in Seq(S)
    PROVE  SubSeq(s, 1, Len(s)) = s /\ s \in SubSeqs(s)
<1>1. SubSeq(s, 1, Len(s)) = s
  OBVIOUS
<1>2. PICK a, b : a = 0 /\ b = Len(s)
  OBVIOUS
<1>3. a \in 0 .. Len(s) /\ b \in 0 .. Len(s) /\ SubSeq(s, a + 1, b) = s
  BY <1>1, <1>2
<1> QED
  BY <1>1, <1>3 DEF SubSeqs

(* Where the first occurrence ends.                                        *)
Ends(s, t, i) == /\ s \in SubSeqs(SubSeq(t, 1, i))
                 /\ \A j \in 0 .. i - 1 : s \notin SubSeqs(SubSeq(t, 1, j))

LEMMA FirstOccurrence ==
    ASSUME NEW S, NEW s \in Seq(S), NEW t \in Seq(S), s \in SubSeqs(t)
    PROVE  \E i \in 0 .. Len(t) : Ends(s, t, i) /\ IndexFirstSubSeq(s, t) = i - (Len(s) - 1)
<1> DEFINE T == {i \in 0 .. Len(t) : s \in SubSeqs(SubSeq(t, 1, i))}
<1>1. SubSeq(t, 1, Len(t)) = t /\ Len(t) \in 0 .. Len(t)
  BY WholePiece
<1>2. Len(t) \in T /\ T \subseteq Nat
  <2>1. s \in SubSeqs(SubSeq(t, 1, Len(t)))
    BY <1>1, Zenon
  <2> QED
    BY <1>1, <2>1
<1>3. PICK i \in T : \A y \in T : i <= y
  <2> HIDE DEF T
  <2> QED
    BY <1>2, LeastOf
<1>4. i \in 0 .. Len(t) /\ Ends(s, t, i)
  BY <1>3 DEF Ends
<1>5. PICK k : k = CHOOSE j \in 0 .. Len(t) : Ends(s, t, j)
  OBVIOUS
<1>6. k \in 0 .. Len(t) /\ Ends(s, t, k)
  BY <1>4, <1>5
<1>7. IndexFirstSubSeq(s, t) = k - (Len(s) - 1)
  BY <1>5 DEF IndexFirstSubSeq, Ends
<1> QED
  BY <1>6, <1>7

(* Renaming the whole name gives the new one, a name that the old one is   *)
(* no piece of stays, and a name becomes a name.                           *)
LEMMA Renamed ==
    ASSUME NEW r, r.old \in Seq(STRING), r.new \in Seq(STRING), NEW name \in Seq(STRING)
    PROVE  /\ RenameIn(name, r) \in Seq(STRING)
           /\ name = r.old => RenameIn(name, r) = r.new
           /\ ~ PieceOf(r.old, name) => RenameIn(name, r) = name
<1>1. PICK old, new : old = r.old /\ new = r.new
  OBVIOUS
<1>2. old \in Seq(STRING) /\ new \in Seq(STRING)
  BY <1>1
<1>3. CASE ~ PieceOf(old, name)
  <2>1. RenameIn(name, r) = name
    BY <1>1, <1>3 DEF RenameIn, ReplaceFirstSubSeq, PieceOf
  <2>2. name # old
    BY <1>2, <1>3, WholePiece DEF PieceOf
  <2> QED
    BY <1>1, <2>1, <2>2
<1>4. CASE PieceOf(old, name)
  <2>1. PICK i \in 0 .. Len(name) : Ends(old, name, i) /\ IndexFirstSubSeq(old, name) = i - (Len(old) - 1)
    BY <1>2, <1>4, FirstOccurrence DEF PieceOf
  <2>2. Len(old) <= i /\ Len(old) \in Nat /\ Len(name) \in Nat
    BY <1>2, <2>1, PieceFits DEF Ends
  <2>3. PICK at : at = i - (Len(old) - 1)
    OBVIOUS
  <2>4. PICK a, b : a = SubSeq(name, 1, at - 1) /\ b = SubSeq(name, at + Len(old), Len(name))
    OBVIOUS
  <2>5. RenameIn(name, r) = a \o new \o b
    BY <1>1, <1>4, <2>1, <2>3, <2>4 DEF RenameIn, ReplaceFirstSubSeq, ReplaceSubSeqAt, PieceOf
  <2>6. a \in Seq(STRING)
    <3>1. 1 \in Int /\ at - 1 \in Int
      BY <2>2, <2>3
    <3>2. \A k \in 1 .. at - 1 : name[k] \in STRING
      BY <2>2, <2>3
    <3> QED
      BY <2>4, <3>1, <3>2, SubSeqProperties
  <2>7. b \in Seq(STRING)
    <3>1. at + Len(old) \in Int /\ Len(name) \in Int
      BY <2>2, <2>3
    <3>2. \A k \in at + Len(old) .. Len(name) : name[k] \in STRING
      BY <2>2, <2>3
    <3> QED
      BY <2>4, <3>1, <3>2, SubSeqProperties
  <2>8. RenameIn(name, r) \in Seq(STRING)
    BY <1>2, <2>5, <2>6, <2>7
  <2>9. ASSUME name = old PROVE RenameIn(name, r) = new
    <3>1. i = Len(old)
      BY <2>1, <2>2, <2>9
    <3>2. at = 1
      BY <2>2, <2>3, <3>1
    <3>3. a = <<>> /\ b = <<>>
      BY <2>2, <2>4, <2>9, <3>2, SubSeqEmpty
    <3> QED
      BY <1>2, <2>5, <3>3
  <2> QED
    BY <1>1, <1>4, <2>8, <2>9
<1> QED
  BY <1>3, <1>4

-----------------------------------------------------------------------------
(* What each operation does to paragraphs                                  *)

Brought(r) ==
    CASE r.op = "add_paragraph" -> UNION {ToSet(r.lines[k].to) : k \in DOMAIN r.lines}
      [] r.op = "add_operation" -> {r.paragraph}
      [] OTHER -> {}

(* Names stay, and what is mentioned was or is brought.                    *)
Keeps(ps, us, brought) ==
    /\ us \in Seq(TreeParagraphs)
    /\ NamesOf(ps) \subseteq NamesOf(us)
    /\ \A x : Mentions(us, x) => Mentions(ps, x) \/ x \in brought

LEMMA KeepsItself ==
    ASSUME NEW ps \in Seq(TreeParagraphs), NEW brought PROVE Keeps(ps, ps, brought)
BY DEF Keeps

LEMMA WithItemsParagraphs ==
    ASSUME NEW t, IsTree(t), NEW w, NEW items
    PROVE  WithItems(t, w, items).paras = t.paras
<1>1. PICK a, b, c, d, e : t = [header |-> a, files |-> b, ws |-> c, copybooks |-> d, paras |-> e]
  BY DEF IsTree
<1> QED
  BY <1>1 DEF WithItems

LEMMA AddParagraphKeeps ==
    ASSUME NEW t, IsTree(t), NEW r \in Requests, r.op = "add_paragraph"
    PROVE  Keeps(t.paras, AddParagraph(t, r).tree.paras, Brought(r))
<1>ps. PICK ps : ps = t.paras
  OBVIOUS
<1>n. PICK n : n = Len(ps)
  OBVIOUS
<1>1. ps \in Seq(TreeParagraphs) /\ n \in Nat /\ DOMAIN ps = 1 .. n
  BY <1>ps, <1>n DEF IsTree
<1>2. r.name \in Seq(STRING) /\ r.lines \in Seq(Lines)
  BY WorkbenchAssumption
<1>c. r.comment \in BOOLEAN
  BY WorkbenchAssumption
<1>new. PICK new : new = [name |-> r.name, comment |-> r.comment,
                          stmts |-> [k \in DOMAIN r.lines |-> <<r.lines[k]>>]]
  OBVIOUS
<1>3. /\ new \in TreeParagraphs /\ new.name = r.name /\ DOMAIN new.stmts = DOMAIN r.lines
      /\ \A k \in DOMAIN r.lines : new.stmts[k] = <<r.lines[k]>>
  <2>1. PICK sts : sts = [k \in DOMAIN r.lines |-> <<r.lines[k]>>]
    OBVIOUS
  <2>2. DOMAIN r.lines = 1 .. Len(r.lines) /\ Len(r.lines) \in Nat
    BY <1>2
  <2>3. ASSUME NEW k \in 1 .. Len(r.lines) PROVE sts[k] \in Seq(Lines)
    BY <1>2, <2>1, <2>2
  <2>4. DOMAIN sts = 1 .. Len(r.lines) /\ sts = [k \in DOMAIN sts |-> sts[k]]
    BY <2>1, <2>2
  <2>5. sts \in Seq(Seq(Lines))
    BY <2>2, <2>3, <2>4, IsSequence
  <2>6. new = [name |-> r.name, comment |-> r.comment, stmts |-> sts]
    BY <1>new, <2>1
  <2> QED
    BY <1>c, <1>2, <2>1, <2>2, <2>4, <2>5, <2>6 DEF TreeParagraphs
<1>4. PICK here : here = SelectInSeq(t.paras, LAMBDA p : p.name = r.after)
  OBVIOUS
<1>5. here \in 0 .. n
  <2> DEFINE I == {i \in 1 .. n : ps[i].name = r.after}
  <2>1. here = IF I # {} THEN Min(I) ELSE 0
    BY <1>ps, <1>n, <1>4 DEF SelectInSeq
  <2>2. I \subseteq Nat /\ I \subseteq 1 .. n
    BY <1>1
  <2> HIDE DEF I
  <2>3. I # {} => Min(I) \in I
    BY <2>2, MinIsIn
  <2>4. CASE I = {}
    BY <1>1, <2>1, <2>4
  <2>5. CASE I # {}
    <3>1. here \in 1 .. n
      BY <2>1, <2>2, <2>3, <2>5
    <3> QED
      BY <1>1, <3>1
  <2> QED
    BY <2>4, <2>5
<1>6. PICK at : at = IF here # 0 THEN here + 1 ELSE IF n = 0 THEN 1 ELSE n
  OBVIOUS
<1>7. at \in 1 .. n + 1
  BY <1>1, <1>5, <1>6
<1>8. PICK us : us = InsertAt(ps, at, new)
  OBVIOUS
<1>9. /\ us \in Seq(TreeParagraphs)
      /\ \A k \in DOMAIN us : us[k] = new \/ \E j \in DOMAIN ps : us[k] = ps[j]
      /\ \A j \in DOMAIN ps : \E k \in DOMAIN us : us[k] = ps[j]
  <2>1. at \in 1 .. Len(ps) + 1 /\ ps \in Seq(TreeParagraphs) /\ new \in TreeParagraphs
    BY <1>n, <1>1, <1>3, <1>7
  <2> HIDE DEF TreeParagraphs
  <2>2. us \in Seq(TreeParagraphs)
    BY <1>8, <2>1, Inserted
  <2>3. \A k \in DOMAIN us : us[k] = new \/ \E j \in DOMAIN ps : us[k] = ps[j]
    BY <1>8, <2>1, Inserted
  <2>4. \A j \in DOMAIN ps : \E k \in DOMAIN us : us[k] = ps[j]
    BY <1>8, <2>1, Inserted
  <2> QED
    BY <2>2, <2>3, <2>4
<1>10. AddParagraph(t, r).tree.paras = us
  <2>1. PICK a, b, c, d : t = [header |-> a, files |-> b, ws |-> c, copybooks |-> d, paras |-> ps]
    BY <1>ps DEF IsTree
  <2>2. AddParagraph(t, r).tree = [t EXCEPT !.paras = InsertAt(@, at, new)]
    BY <1>ps, <1>n, <1>new, <1>4, <1>6 DEF AddParagraph, Applied
  <2>3. [t EXCEPT !.paras = InsertAt(@, at, new)] = [t EXCEPT !.paras = us]
    BY <1>ps, <1>8
  <2> QED
    BY <2>1, <2>2, <2>3
<1>11. NamesOf(ps) \subseteq NamesOf(us)
  <2>1. ASSUME NEW j \in DOMAIN ps PROVE ps[j].name \in NamesOf(us)
    <3>1. PICK k \in DOMAIN us : us[k] = ps[j]
      BY <1>9
    <3> QED
      BY <3>1 DEF NamesOf
  <2> QED
    BY <2>1 DEF NamesOf
<1>12. ASSUME NEW x, Mentions(us, x) PROVE Mentions(ps, x) \/ x \in Brought(r)
  <2>1. PICK i \in DOMAIN us : \E k \in DOMAIN us[i].stmts : \E l \in DOMAIN us[i].stmts[k] :
              \E m \in DOMAIN us[i].stmts[k][l].to : x = us[i].stmts[k][l].to[m]
    BY <1>12 DEF Mentions
  <2>2. CASE \E j \in DOMAIN ps : us[i] = ps[j]
    BY <2>1, <2>2 DEF Mentions
  <2>3. CASE us[i] = new
    <3>1. PICK k \in DOMAIN new.stmts : \E l \in DOMAIN new.stmts[k] :
              \E m \in DOMAIN new.stmts[k][l].to : x = new.stmts[k][l].to[m]
      BY <2>1, <2>3
    <3>2. k \in DOMAIN r.lines /\ new.stmts[k] = <<r.lines[k]>>
      BY <1>3
    <3>3. PICK m \in DOMAIN r.lines[k].to : x = r.lines[k].to[m]
      BY <3>1, <3>2
    <3>4. x \in ToSet(r.lines[k].to)
      BY <3>3 DEF ToSet
    <3> QED
      BY <3>2, <3>4 DEF Brought
  <2> QED
    BY <1>9, <2>2, <2>3
<1> QED
  BY <1>ps, <1>9, <1>10, <1>11, <1>12 DEF Keeps

LEMMA PlainLine ==
    ASSUME NEW op \in Statements, NEW to \in Seq(Seq(STRING)), NEW words \in Seq(Seq(STRING))
    PROVE  [op |-> op, to |-> to, words |-> words, dot |-> FALSE] \in Lines
BY DEF Lines

LEMMA AddOperationKeeps ==
    ASSUME NEW t, IsTree(t), NEW r \in Requests, r.op = "add_operation"
    PROVE  Keeps(t.paras, AddOperation(t, r).tree.paras, Brought(r))
<1>ps. PICK ps : ps = t.paras
  OBVIOUS
<1>1. ps \in Seq(TreeParagraphs) /\ DOMAIN ps = 1 .. Len(ps) /\ Len(ps) \in Nat
  BY <1>ps DEF IsTree
<1>2. r.paragraph \in Seq(STRING) /\ r.name \in Seq(STRING)
  BY WorkbenchAssumption
<1>st. PICK st : st = <<Saying("WHEN", <<r.name>>), Line("PERFORM", <<r.paragraph>>)>>
  OBVIOUS
<1>3. /\ st \in Seq(Lines) /\ DOMAIN st = {1, 2}
      /\ st[1].to = <<>> /\ st[2].to = <<r.paragraph>>
  <2>1. PICK a, b : a = Saying("WHEN", <<r.name>>) /\ b = Line("PERFORM", <<r.paragraph>>)
    OBVIOUS
  <2>2. <<>> \in Seq(Seq(STRING)) /\ <<r.paragraph>> \in Seq(Seq(STRING)) /\ <<r.name>> \in Seq(Seq(STRING))
    BY <1>2
  <2>3. a \in Lines /\ b \in Lines /\ a.to = <<>> /\ b.to = <<r.paragraph>>
    <3>1. PICK to : to = <<r.paragraph>>
      OBVIOUS
    <3>2. PICK none : none = <<>>
      OBVIOUS
    <3>w. PICK words : words = <<r.name>>
      OBVIOUS
    <3>3. /\ a = [op |-> "WHEN", to |-> none, words |-> words, dot |-> FALSE]
          /\ b = [op |-> "PERFORM", to |-> to, words |-> none, dot |-> FALSE]
      BY <2>1, <3>1, <3>2, <3>w DEF Line, Saying
    <3>4. none \in Seq(Seq(STRING)) /\ to \in Seq(Seq(STRING)) /\ words \in Seq(Seq(STRING))
      BY <2>2, <3>1, <3>2, <3>w
    <3>5. a \in Lines /\ b \in Lines
      <4>1. [op |-> "WHEN", to |-> none, words |-> words, dot |-> FALSE] \in Lines
        <5>1. "WHEN" \in Statements
          BY DEF Statements
        <5> QED
          BY <3>4, <5>1, PlainLine
      <4>2. [op |-> "PERFORM", to |-> to, words |-> none, dot |-> FALSE] \in Lines
        <5>1. "PERFORM" \in Statements
          BY DEF Statements
        <5> QED
          BY <3>4, <5>1, PlainLine
      <4> QED
        BY <3>3, <4>1, <4>2
    <3>6. a.to = none /\ b.to = to
      BY <3>3
    <3> QED
      BY <3>1, <3>2, <3>5, <3>6
  <2>4. st = <<a, b>>
    BY <1>st, <2>1
  <2> HIDE DEF Lines
  <2> QED
    BY <2>3, <2>4
<1>ends. PICK ends : ends = [i \in DOMAIN ps |->
           {k \in DOMAIN ps[i].stmts : /\ ps[i].stmts[k][1].op = "ENDEVALUATE"
                                       /\ \E m \in 1 .. (k - 1) : ps[i].stmts[m][1].op = "EVALUATE"}]
  OBVIOUS
<1>spots. PICK spots : spots = UNION {{<<i, k>> : k \in ends[i]} : i \in DOMAIN ps}
  OBVIOUS
<1>4. AddOperation(t, r) =
        IF spots = {} THEN Failed(t)
        ELSE Applied([t EXCEPT !.paras[Earliest(spots)[1]].stmts = InsertAt(@, Earliest(spots)[2], st)])
  <2>1. spots = UNION {{<<i, k>> : k \in {k \in DOMAIN ps[i].stmts :
                              /\ ps[i].stmts[k][1].op = "ENDEVALUATE"
                              /\ \E m \in 1 .. (k - 1) : ps[i].stmts[m][1].op = "EVALUATE"}} : i \in DOMAIN ps}
    BY <1>ends, <1>spots
  <2> QED
    BY <1>ps, <1>st, <2>1 DEF AddOperation
<1>5. CASE spots = {}
  BY <1>ps, <1>1, <1>4, <1>5, KeepsItself DEF Failed
<1>6. CASE spots # {}
  <2>1. \A p \in spots : p[1] \in DOMAIN ps /\ p[2] \in DOMAIN ps[p[1]].stmts /\ p = <<p[1], p[2]>>
    BY <1>ends, <1>spots
  <2>2. \A i \in DOMAIN ps : /\ ps[i] \in TreeParagraphs
                             /\ ps[i].stmts \in Seq(Seq(Lines))
                             /\ DOMAIN ps[i].stmts = 1 .. Len(ps[i].stmts) /\ Len(ps[i].stmts) \in Nat
    <3> TAKE i \in DOMAIN ps
    <3>1. ps[i] \in TreeParagraphs
      BY <1>1
    <3>2. PICK sts : sts = ps[i].stmts
      OBVIOUS
    <3>3. sts \in Seq(Seq(Lines))
      BY <3>1, <3>2 DEF TreeParagraphs
    <3>4. DOMAIN sts = 1 .. Len(sts) /\ Len(sts) \in Nat
      BY <3>3
    <3> QED
      BY <3>1, <3>2, <3>3, <3>4
  <2>3. spots \subseteq Nat \X Nat
    <3>1. \A p \in spots : p[1] \in Nat /\ p[2] \in Nat
      BY <1>1, <2>1, <2>2
    <3> QED
      BY <2>1, <3>1
  <2>4. PICK e : e = Earliest(spots)
    OBVIOUS
  <2>5. e \in spots
    BY <1>6, <2>3, <2>4, EarliestIsIn
  <2>6. PICK i, k : i \in DOMAIN ps /\ k \in DOMAIN ps[i].stmts /\ e[1] = i /\ e[2] = k
    BY <2>1, <2>5
  <2>7. PICK sts : sts = InsertAt(ps[i].stmts, k, st)
    OBVIOUS
  <2>8. /\ sts \in Seq(Seq(Lines))
        /\ \A j \in DOMAIN sts : sts[j] = st \/ \E m \in DOMAIN ps[i].stmts : sts[j] = ps[i].stmts[m]
    <3>1. k \in 1 .. Len(ps[i].stmts) + 1 /\ ps[i].stmts \in Seq(Seq(Lines)) /\ st \in Seq(Lines)
      BY <1>3, <2>2, <2>6
    <3> HIDE DEF Lines
    <3> QED
      BY <2>7, <3>1, Inserted
  <2>9. PICK us : us = [ps EXCEPT ![i].stmts = sts]
    OBVIOUS
  <2>10. AddOperation(t, r).tree.paras = us
    <3>1. PICK a, b, c, d : t = [header |-> a, files |-> b, ws |-> c, copybooks |-> d, paras |-> ps]
      BY <1>ps DEF IsTree
    <3>2. AddOperation(t, r).tree = [t EXCEPT !.paras[i].stmts = InsertAt(@, k, st)]
      BY <1>4, <1>6, <2>4, <2>6 DEF Applied
    <3>3. [t EXCEPT !.paras[i].stmts = InsertAt(@, k, st)] = [t EXCEPT !.paras[i].stmts = sts]
      BY <1>ps, <2>7
    <3> QED
      BY <2>9, <3>1, <3>2, <3>3
  <2>11. /\ DOMAIN us = DOMAIN ps /\ \A j \in DOMAIN ps : j # i => us[j] = ps[j]
         /\ us[i] = [name |-> ps[i].name, comment |-> ps[i].comment, stmts |-> sts]
         /\ us = [j \in DOMAIN us |-> us[j]]
    <3>1. PICK a, b, c : ps[i] = [name |-> a, comment |-> c, stmts |-> b]
      BY <2>2, <2>6 DEF TreeParagraphs
    <3>2. us = [j \in DOMAIN ps |-> IF j = i THEN [ps[i] EXCEPT !.stmts = sts] ELSE ps[j]]
      BY <1>1, <2>9
    <3>3. [ps[i] EXCEPT !.stmts = sts] = [name |-> ps[i].name, comment |-> ps[i].comment, stmts |-> sts]
      BY <3>1
    <3> QED
      BY <2>6, <3>2, <3>3
  <2>12. us[i] \in TreeParagraphs /\ us[i].name = ps[i].name /\ us[i].stmts = sts
    BY <2>2, <2>6, <2>8, <2>11 DEF TreeParagraphs
  <2>13. us \in Seq(TreeParagraphs)
    <3>1. \A j \in 1 .. Len(ps) : us[j] \in TreeParagraphs
      BY <1>1, <2>2, <2>11, <2>12
    <3>2. DOMAIN us = 1 .. Len(ps)
      BY <1>1, <2>11
    <3> QED
      BY <1>1, <2>11, <3>1, <3>2, IsSequence
  <2>14. NamesOf(us) = NamesOf(ps)
    <3>1. \A j \in DOMAIN ps : us[j].name = ps[j].name
      BY <2>11, <2>12
    <3> QED
      BY <2>11, <3>1 DEF NamesOf
  <2>15. ASSUME NEW x, Mentions(us, x) PROVE Mentions(ps, x) \/ x \in Brought(r)
    <3>1. PICK j \in DOMAIN us : \E l \in DOMAIN us[j].stmts : \E n \in DOMAIN us[j].stmts[l] :
                \E m \in DOMAIN us[j].stmts[l][n].to : x = us[j].stmts[l][n].to[m]
      BY <2>15 DEF Mentions
    <3>2. CASE j # i
      BY <2>11, <3>1, <3>2 DEF Mentions
    <3>3. CASE j = i
      <4>1. PICK l \in DOMAIN sts : \E n \in DOMAIN sts[l] : \E m \in DOMAIN sts[l][n].to : x = sts[l][n].to[m]
        BY <2>12, <3>1, <3>3
      <4>2. CASE sts[l] = st
        <5>1. PICK n \in {1, 2} : \E m \in DOMAIN st[n].to : x = st[n].to[m]
          BY <1>3, <4>1, <4>2
        <5>2. n = 2 /\ x = r.paragraph
          BY <1>3, <5>1
        <5> QED
          BY <5>2 DEF Brought
      <4>3. CASE \E m \in DOMAIN ps[i].stmts : sts[l] = ps[i].stmts[m]
        BY <2>6, <4>1, <4>3 DEF Mentions
      <4> QED
        BY <2>8, <4>2, <4>3
    <3> QED
      BY <3>2, <3>3
  <2> QED
    BY <1>ps, <2>10, <2>13, <2>14, <2>15 DEF Keeps
<1> QED
  BY <1>5, <1>6

(* Renaming renames every paragraph of that name, and in all lines.        *)
RenamesAll(ps, us, r) ==
    /\ us \in Seq(TreeParagraphs)
    /\ \A n \in NamesOf(ps) : (IF n = r.old THEN r.new ELSE n) \in NamesOf(us)
    /\ \A x : Mentions(us, x) => \E n \in Seq(STRING) : Mentions(ps, n) /\ x = RenameIn(n, r)

LEMMA RenameParagraphRenames ==
    ASSUME NEW t, IsTree(t), NEW r \in Requests, r.op = "rename_paragraph"
    PROVE  RenamesAll(t.paras, RenameParagraph(t, r).tree.paras, r)
<1>ps. PICK ps : ps = t.paras
  OBVIOUS
<1>1. ps \in Seq(TreeParagraphs) /\ DOMAIN ps = 1 .. Len(ps) /\ Len(ps) \in Nat
  BY <1>ps DEF IsTree
<1>2. r.old \in Seq(STRING) /\ r.new \in Seq(STRING)
  BY WorkbenchAssumption
<1> DEFINE NewLine(line) == RenamedLine(line, r)
           NewPara(p) == [name    |-> IF p.name = r.old THEN r.new ELSE p.name,
                          comment |-> p.comment,
                          stmts   |-> [k \in DOMAIN p.stmts |-> RenamedStatement(p.stmts[k], r)]]
<1>us. PICK us : us = [i \in DOMAIN ps |-> NewPara(ps[i])]
  OBVIOUS
<1>3. RenameParagraph(t, r).tree.paras = us
  <2>1. PICK a, b, c, d : t = [header |-> a, files |-> b, ws |-> c, copybooks |-> d, paras |-> ps]
    BY <1>ps DEF IsTree
  <2>2. RenameParagraph(t, r).tree = [t EXCEPT !.paras = [i \in DOMAIN t.paras |-> NewPara(t.paras[i])]]
    BY DEF RenameParagraph, Applied, Failed
  <2>3. RenameParagraph(t, r).tree = [t EXCEPT !.paras = us]
    BY <1>ps, <1>us, <2>2, Zenon
  <2> QED
    BY <2>1, <2>3
<1>rw. ASSUME NEW b \in Seq(Seq(STRING))
       PROVE  /\ RenamedWords(b, r) \in Seq(Seq(STRING)) /\ DOMAIN RenamedWords(b, r) = DOMAIN b
              /\ \A m \in DOMAIN b : b[m] \in Seq(STRING) /\ RenamedWords(b, r)[m] = RenameIn(b[m], r)
  <2>1. PICK to : to = RenamedWords(b, r)
    OBVIOUS
  <2>2. to = [m \in DOMAIN b |-> RenameIn(b[m], r)]
    BY <2>1 DEF RenamedWords
  <2>3. DOMAIN b = 1 .. Len(b) /\ Len(b) \in Nat /\ \A m \in DOMAIN b : b[m] \in Seq(STRING)
    OBVIOUS
  <2>4. \A m \in DOMAIN b : to[m] = RenameIn(b[m], r) /\ to[m] \in Seq(STRING)
    BY <1>2, <2>2, <2>3, Renamed
  <2>5. DOMAIN to = 1 .. Len(b) /\ to = [m \in DOMAIN to |-> to[m]]
    BY <2>2, <2>3
  <2>6. to \in Seq(Seq(STRING))
    BY <2>3, <2>4, <2>5, IsSequence
  <2> QED
    BY <2>1, <2>3, <2>4, <2>5, <2>6
<1>4. ASSUME NEW line \in Lines
      PROVE  /\ NewLine(line) \in Lines /\ DOMAIN NewLine(line).to = DOMAIN line.to
             /\ \A m \in DOMAIN line.to : line.to[m] \in Seq(STRING) /\ NewLine(line).to[m] = RenameIn(line.to[m], r)
  <2>1. PICK a \in Statements, b \in Seq(Seq(STRING)), w \in Seq(Seq(STRING)), c \in BOOLEAN :
          line = [op |-> a, to |-> b, words |-> w, dot |-> c]
    BY DEF Lines
  <2>2. PICK to, words : to = RenamedWords(b, r) /\ words = RenamedWords(w, r)
    OBVIOUS
  <2>3. NewLine(line) = [op |-> a, to |-> to, words |-> words, dot |-> c]
    <3>1. to = RenamedWords(line.to, r) /\ words = RenamedWords(line.words, r)
      BY <2>1, <2>2
    <3>2. NewLine(line) = [line EXCEPT !.to = to, !.words = words]
      BY <3>1, Zenon DEF RenamedLine
    <3> QED
      BY <2>1, <3>2
  <2>4. to \in Seq(Seq(STRING)) /\ words \in Seq(Seq(STRING))
    BY <1>rw, <2>1, <2>2
  <2>5. \A m \in DOMAIN b : b[m] \in Seq(STRING) /\ to[m] = RenameIn(b[m], r)
    BY <1>rw, <2>1, <2>2
  <2>6. DOMAIN to = DOMAIN b
    BY <1>rw, <2>1, <2>2
  <2>7. NewLine(line) \in Lines /\ NewLine(line).to = to /\ line.to = b
    BY <2>1, <2>3, <2>4 DEF Lines
  <2> HIDE DEF NewLine
  <2> QED
    BY <2>5, <2>6, <2>7
<1> HIDE DEF NewLine
<1>5. ASSUME NEW p \in TreeParagraphs
      PROVE  /\ NewPara(p) \in TreeParagraphs
             /\ NewPara(p).name = IF p.name = r.old THEN r.new ELSE p.name
             /\ DOMAIN NewPara(p).stmts = DOMAIN p.stmts
             /\ \A k \in DOMAIN p.stmts :
                  /\ DOMAIN NewPara(p).stmts[k] = DOMAIN p.stmts[k]
                  /\ \A l \in DOMAIN p.stmts[k] :
                       /\ p.stmts[k][l] \in Lines
                       /\ NewPara(p).stmts[k][l] = NewLine(p.stmts[k][l])
  <2>1. PICK name \in Seq(STRING), c \in BOOLEAN, sts \in Seq(Seq(Lines)) :
          p = [name |-> name, comment |-> c, stmts |-> sts]
    BY DEF TreeParagraphs
  <2>2. PICK new : new = [k \in DOMAIN sts |-> RenamedStatement(sts[k], r)]
    OBVIOUS
  <2>3. PICK other : other = IF name = r.old THEN r.new ELSE name
    OBVIOUS
  <2>4. NewPara(p) = [name |-> other, comment |-> c, stmts |-> new]
    BY <2>1, <2>2, <2>3
  <2>5. DOMAIN sts = 1 .. Len(sts) /\ Len(sts) \in Nat /\ \A k \in DOMAIN sts : sts[k] \in Seq(Lines)
    BY <2>1
  <2>6. ASSUME NEW k \in DOMAIN sts
        PROVE  /\ DOMAIN new[k] = DOMAIN sts[k] /\ new[k] \in Seq(Lines)
               /\ \A l \in DOMAIN sts[k] : sts[k][l] \in Lines /\ new[k][l] = NewLine(sts[k][l])
    <3>1. PICK s, n : s = sts[k] /\ n = new[k]
      OBVIOUS
    <3>2. s \in Seq(Lines) /\ n = [l \in DOMAIN s |-> NewLine(s[l])]
      BY <2>2, <2>5, <3>1 DEF RenamedStatement, NewLine
    <3>3. DOMAIN s = 1 .. Len(s) /\ Len(s) \in Nat /\ \A l \in DOMAIN s : s[l] \in Lines
      BY <3>2
    <3>4. \A l \in 1 .. Len(s) : n[l] \in Lines /\ n[l] = NewLine(s[l])
      BY <1>4, <3>2, <3>3
    <3>5. DOMAIN n = 1 .. Len(s) /\ n = [l \in DOMAIN n |-> n[l]]
      BY <3>2, <3>3
    <3>6. n \in Seq(Lines)
      BY <3>3, <3>4, <3>5, IsSequence
    <3> QED
      BY <3>1, <3>3, <3>4, <3>5, <3>6
  <2>7. new \in Seq(Seq(Lines)) /\ DOMAIN new = DOMAIN sts
    <3>1. DOMAIN new = 1 .. Len(sts) /\ new = [k \in DOMAIN new |-> new[k]]
      BY <2>2, <2>5
    <3>2. \A k \in 1 .. Len(sts) : new[k] \in Seq(Lines)
      BY <2>5, <2>6
    <3> QED
      BY <2>5, <3>1, <3>2, IsSequence
  <2>8. other \in Seq(STRING)
    BY <1>2, <2>1, <2>3
  <2>9. PICK np : np = NewPara(p)
    OBVIOUS
  <2>10. np \in TreeParagraphs /\ np.name = other /\ np.stmts = new /\ p.name = name /\ p.stmts = sts
    BY <2>1, <2>4, <2>7, <2>8, <2>9 DEF TreeParagraphs
  <2> HIDE DEF NewPara
  <2> QED
    BY <2>3, <2>6, <2>7, <2>9, <2>10
<1> HIDE DEF NewPara
<1>6. /\ DOMAIN us = DOMAIN ps /\ us = [i \in DOMAIN us |-> us[i]]
      /\ \A i \in DOMAIN ps : ps[i] \in TreeParagraphs /\ us[i] = NewPara(ps[i])
  BY <1>us, <1>1
<1>7. us \in Seq(TreeParagraphs)
  <2>1. \A i \in 1 .. Len(ps) : us[i] \in TreeParagraphs
    BY <1>1, <1>5, <1>6
  <2> QED
    BY <1>1, <1>6, <2>1, IsSequence
<1>8. ASSUME NEW n \in NamesOf(ps) PROVE (IF n = r.old THEN r.new ELSE n) \in NamesOf(us)
  <2>1. PICK i \in DOMAIN ps : n = ps[i].name
    BY DEF NamesOf
  <2>2. us[i].name = IF n = r.old THEN r.new ELSE n
    BY <1>5, <1>6, <2>1
  <2>3. us[i].name \in NamesOf(us)
    BY <1>6 DEF NamesOf
  <2> QED
    BY <2>2, <2>3
<1>9. ASSUME NEW x, Mentions(us, x)
      PROVE  \E n \in Seq(STRING) : Mentions(ps, n) /\ x = RenameIn(n, r)
  <2>1. PICK i \in DOMAIN us : \E k \in DOMAIN us[i].stmts : \E l \in DOMAIN us[i].stmts[k] :
              \E m \in DOMAIN us[i].stmts[k][l].to : x = us[i].stmts[k][l].to[m]
    BY <1>9 DEF Mentions
  <2>2. PICK k \in DOMAIN us[i].stmts : \E l \in DOMAIN us[i].stmts[k] :
              \E m \in DOMAIN us[i].stmts[k][l].to : x = us[i].stmts[k][l].to[m]
    BY <2>1
  <2>3. PICK l \in DOMAIN us[i].stmts[k] :
              \E m \in DOMAIN us[i].stmts[k][l].to : x = us[i].stmts[k][l].to[m]
    BY <2>2
  <2>4. i \in DOMAIN ps /\ ps[i] \in TreeParagraphs /\ us[i] = NewPara(ps[i])
    BY <1>6
  <2>5. k \in DOMAIN ps[i].stmts
    BY <1>5, <2>4
  <2>6. l \in DOMAIN ps[i].stmts[k]
    BY <1>5, <2>4, <2>5
  <2>7. PICK line : line = ps[i].stmts[k][l]
    OBVIOUS
  <2>8. line \in Lines /\ us[i].stmts[k][l] = NewLine(line)
    BY <1>5, <2>4, <2>5, <2>6, <2>7
  <2>9. PICK m \in DOMAIN line.to : x = RenameIn(line.to[m], r) /\ line.to[m] \in Seq(STRING)
    BY <1>4, <2>3, <2>8
  <2>10. Mentions(ps, line.to[m])
    BY <2>4, <2>5, <2>6, <2>7 DEF Mentions
  <2> QED
    BY <2>9, <2>10
<1> QED
  BY <1>ps, <1>3, <1>7, <1>8, <1>9 DEF RenamesAll

-----------------------------------------------------------------------------
(* The operations that leave paragraphs alone                              *)

LEMMA AddFieldKeeps ==
    ASSUME NEW t, IsTree(t), NEW r PROVE Keeps(t.paras, AddField(t, r).tree.paras, Brought(r))
<1>1. AddField(t, r).tree = t \/ \E w, items : AddField(t, r).tree = WithItems(t, w, items)
  BY DEF AddField, Applied, Failed
<1>2. AddField(t, r).tree.paras = t.paras
  BY <1>1, WithItemsParagraphs
<1> QED
  BY <1>2, KeepsItself DEF IsTree

LEMMA Add88ConditionKeeps ==
    ASSUME NEW t, IsTree(t), NEW r
    PROVE  Keeps(t.paras, Add88Condition(t, r).tree.paras, Brought(r))
<1>1. Add88Condition(t, r).tree = t \/ \E w, items : Add88Condition(t, r).tree = WithItems(t, w, items)
  BY DEF Add88Condition, Applied, Failed
<1>2. Add88Condition(t, r).tree.paras = t.paras
  BY <1>1, WithItemsParagraphs
<1> QED
  BY <1>2, KeepsItself DEF IsTree

LEMMA UpdatePicKeeps ==
    ASSUME NEW t, IsTree(t), NEW r PROVE Keeps(t.paras, UpdatePic(t, r).tree.paras, Brought(r))
<1>1. UpdatePic(t, r).tree = t \/ \E w, items : UpdatePic(t, r).tree = WithItems(t, w, items)
  BY DEF UpdatePic, Applied, Failed
<1>2. UpdatePic(t, r).tree.paras = t.paras
  BY <1>1, WithItemsParagraphs
<1> QED
  BY <1>2, KeepsItself DEF IsTree

LEMMA AddCopybookRefKeeps ==
    ASSUME NEW t, IsTree(t), NEW r
    PROVE  Keeps(t.paras, AddCopybookRef(t, r).tree.paras, Brought(r))
<1>1. PICK a, b, c, d, e : t = [header |-> a, files |-> b, ws |-> c, copybooks |-> d, paras |-> e]
  BY DEF IsTree
<1>2. PICK more : more = Append(t.copybooks, r.copybook)
  OBVIOUS
<1>3. AddCopybookRef(t, r).tree = t \/ AddCopybookRef(t, r).tree = [t EXCEPT !.copybooks = more]
  BY <1>2 DEF AddCopybookRef, Applied
<1>4. AddCopybookRef(t, r).tree.paras = t.paras
  BY <1>1, <1>3
<1> QED
  BY <1>4, KeepsItself DEF IsTree

(* Every edit but a rename keeps the names, and mentions only what was     *)
(* mentioned or is brought.                                                *)
LEMMA ApplyKeeps ==
    ASSUME NEW t, IsTree(t), NEW r \in Requests, r.op # "rename_paragraph"
    PROVE  Keeps(t.paras, Apply(t, r).tree.paras, Brought(r))
<1>1. r.op \in EditOperations
  BY WorkbenchAssumption
<1>2. CASE r.op = "add_field"
  BY <1>2, AddFieldKeeps DEF Apply
<1>3. CASE r.op = "remove_field"
  <2>1. Apply(t, r).tree = t
    BY <1>3 DEF Apply, RemoveField, Failed
  <2> QED
    BY <2>1, KeepsItself DEF IsTree
<1>4. CASE r.op = "add_paragraph"
  <2>1. Apply(t, r) = AddParagraph(t, r)
    BY <1>4 DEF Apply
  <2> QED
    BY <1>4, <2>1, AddParagraphKeeps
<1>5. CASE r.op = "add_operation"
  <2>1. Apply(t, r) = AddOperation(t, r)
    BY <1>5 DEF Apply
  <2> QED
    BY <1>5, <2>1, AddOperationKeeps
<1>6. CASE r.op = "add_88_condition"
  BY <1>6, Add88ConditionKeeps DEF Apply
<1>7. CASE r.op = "add_copybook_ref"
  BY <1>7, AddCopybookRefKeeps DEF Apply
<1>8. CASE r.op = "update_pic"
  BY <1>8, UpdatePicKeeps DEF Apply
<1> QED
  BY <1>1, <1>2, <1>3, <1>4, <1>5, <1>6, <1>7, <1>8 DEF EditOperations

-----------------------------------------------------------------------------
(* The workbench                                                           *)

TextType == source.paras \in Seq(Paragraphs)

(* An edit, from text to text.                                             *)
LEMMA EditKeeps ==
    ASSUME TextType, NEW r \in Requests, EditCobol(r), r.op # "rename_paragraph"
    PROVE  /\ TextType'
           /\ NamesOf(source.paras) \subseteq NamesOf(source'.paras)
           /\ \A x : Refers(source'.paras, x) => Refers(source.paras, x) \/ x \in Brought(r)
<1>1. PICK t : t = Parse(source)
  OBVIOUS
<1>2. /\ IsTree(t) /\ NamesOf(t.paras) = NamesOf(source.paras)
      /\ \A x : Mentions(t.paras, x) <=> Refers(source.paras, x)
  BY <1>1, ParsedParagraphs DEF TextType
<1>3. PICK u : u = Apply(t, r).tree
  OBVIOUS
<1>4. Keeps(t.paras, u.paras, Brought(r))
  BY <1>2, <1>3, ApplyKeeps
<1>5. PICK s : s = Generate(u)
  OBVIOUS
<1>6. /\ s.paras \in Seq(Paragraphs) /\ NamesOf(s.paras) = NamesOf(u.paras)
      /\ \A x : Refers(s.paras, x) => Mentions(u.paras, x)
  BY <1>4, <1>5, GeneratedText DEF Keeps
<1>7. source' = s
  BY <1>1, <1>3, <1>5 DEF EditCobol
<1> QED
  BY <1>2, <1>4, <1>6, <1>7 DEF Keeps, TextType

LEMMA EditRenames ==
    ASSUME TextType, NEW r \in Requests, EditCobol(r), r.op = "rename_paragraph"
    PROVE  /\ TextType'
           /\ \A n \in NamesOf(source.paras) :
                (IF n = r.old THEN r.new ELSE n) \in NamesOf(source'.paras)
           /\ \A x : Refers(source'.paras, x) =>
                \E n \in Seq(STRING) : Refers(source.paras, n) /\ x = RenameIn(n, r)
<1>1. PICK t : t = Parse(source)
  OBVIOUS
<1>2. /\ IsTree(t) /\ NamesOf(t.paras) = NamesOf(source.paras)
      /\ \A x : Mentions(t.paras, x) <=> Refers(source.paras, x)
  BY <1>1, ParsedParagraphs DEF TextType
<1>3. PICK u : u = Apply(t, r).tree
  OBVIOUS
<1>4. RenamesAll(t.paras, u.paras, r)
  <2>1. Apply(t, r) = RenameParagraph(t, r)
    BY DEF Apply
  <2> QED
    BY <1>2, <1>3, <2>1, RenameParagraphRenames
<1>5. PICK s : s = Generate(u)
  OBVIOUS
<1>6. /\ s.paras \in Seq(Paragraphs) /\ NamesOf(s.paras) = NamesOf(u.paras)
      /\ \A x : Refers(s.paras, x) => Mentions(u.paras, x)
  BY <1>4, <1>5, GeneratedText DEF RenamesAll
<1>7. source' = s
  BY <1>1, <1>3, <1>5 DEF EditCobol
<1>8. \A n \in NamesOf(source.paras) : (IF n = r.old THEN r.new ELSE n) \in NamesOf(source'.paras)
  BY <1>2, <1>4, <1>6, <1>7 DEF RenamesAll
<1>9. ASSUME NEW x, Refers(source'.paras, x)
      PROVE  \E n \in Seq(STRING) : Refers(source.paras, n) /\ x = RenameIn(n, r)
  <2>1. Mentions(u.paras, x)
    BY <1>6, <1>7, <1>9
  <2>2. PICK n \in Seq(STRING) : Mentions(t.paras, n) /\ x = RenameIn(n, r)
    BY <1>4, <2>1 DEF RenamesAll
  <2> QED
    BY <1>2, <2>2
<1> QED
  BY <1>6, <1>7, <1>8, <1>9 DEF TextType

(* What NoEditBreaksAReference says of one edit.                           *)
LEMMA EditBreaksNothing ==
    ASSUME TextType, NEW r \in Requests, EditCobol(r), ~ Overlaps(r, source)
    PROVE  Dangling(source') \subseteq
             (IF r.op = "rename_paragraph" THEN {RenameIn(n, r) : n \in Dangling(source)}
              ELSE Dangling(source)) \cup Brought(r)
<1>1. CASE r.op # "rename_paragraph"
  <2>1. ASSUME NEW x \in Dangling(source') PROVE x \in Dangling(source) \cup Brought(r)
    <3>1. Refers(source'.paras, x) /\ x \notin NamesOf(source'.paras)
      BY ReferencedIs DEF Dangling
    <3>2. /\ Refers(source.paras, x) \/ x \in Brought(r)
          /\ x \notin NamesOf(source.paras)
      BY <1>1, <3>1, EditKeeps
    <3> QED
      BY <3>2, ReferencedIs DEF Dangling
  <2> QED
    BY <1>1, <2>1
<1>2. CASE r.op = "rename_paragraph"
  <2>1. ASSUME NEW x \in Dangling(source') PROVE x \in {RenameIn(n, r) : n \in Dangling(source)}
    <3>1. Refers(source'.paras, x) /\ x \notin NamesOf(source'.paras)
      BY ReferencedIs DEF Dangling
    <3>2. PICK n \in Seq(STRING) : Refers(source.paras, n) /\ x = RenameIn(n, r)
      BY <1>2, <3>1, EditRenames
    <3>3. n \in Referenced(source)
      BY <3>2, ReferencedIs
    <3>4. {r.old, r.new} \subseteq Seq(STRING)
      BY <1>2, WorkbenchAssumption
    <3>5. x = IF n = r.old THEN r.new ELSE n
      <4>1. CASE n = r.old
        BY <3>2, <3>4, <4>1, Renamed
      <4>2. CASE n # r.old
        <5>1. ~ PieceOf(r.old, n)
          BY <1>2, <3>3, <4>2 DEF Overlaps
        <5> QED
          BY <3>2, <3>4, <4>2, <5>1, Renamed
      <4> QED
        BY <4>1, <4>2
    <3>6. n \notin NamesOf(source.paras)
      BY <1>2, <3>1, <3>5, EditRenames
    <3>7. n \in Dangling(source)
      BY <3>3, <3>6 DEF Dangling
    <3> QED
      BY <3>2, <3>7
  <2> QED
    BY <1>2, <2>1
<1> QED
  BY <1>1, <1>2

LEMMA EditType == TextType /\ [WorkbenchNext]_WorkbenchVars => TextType'
<1> SUFFICES ASSUME TextType, [WorkbenchNext]_WorkbenchVars PROVE TextType'
  OBVIOUS
<1>1. ASSUME NEW r \in Requests, EditCobol(r) PROVE TextType'
  BY <1>1, EditKeeps, EditRenames
<1>2. ASSUME DeadCodeNext PROVE TextType'
  <2>1. source' = source
    BY <1>2 DEF DeadCodeNext, Analyze, Visit, SearchWithAlter, Start, Pass, PerformParagraph,
                GoTo, GoToDepending, Alter, StopRun, Return, FallThrough, RunOff
  <2> QED
    BY <2>1 DEF TextType
<1>3. ASSUME UNCHANGED WorkbenchVars PROVE TextType'
  BY <1>3 DEF WorkbenchVars, TextType
<1> QED
  BY <1>1, <1>2, <1>3 DEF WorkbenchNext

(* No edit of any text leaves a PERFORM, GO TO or ALTER without its        *)
(* paragraph, unless a rename's old name lies inside another one.          *)
THEOREM EditsNeverBreakAReference == WorkbenchSpec => NoEditBreaksAReference
<1>1. WorkbenchInit => TextType
  BY WorkbenchAssumption DEF WorkbenchInit, TextType
<1>2. TextType /\ [WorkbenchNext]_WorkbenchVars =>
        [edits' # edits /\ ~Overlaps(latest'.request, source) =>
         LET r == latest'.request
             before == IF r.op = "rename_paragraph"
                       THEN {RenameIn(n, r) : n \in Dangling(source)}
                       ELSE Dangling(source)
             brought == CASE r.op = "add_paragraph" ->
                                UNION {ToSet(r.lines[k].to) : k \in DOMAIN r.lines}
                          [] r.op = "add_operation" -> {r.paragraph}
                          [] OTHER -> {}
         IN Dangling(source') \subseteq before \cup brought]_WorkbenchVars
  <2> SUFFICES ASSUME TextType, NEW r \in Requests, EditCobol(r), ~Overlaps(latest'.request, source)
               PROVE  LET q == latest'.request
                      IN  Dangling(source') \subseteq
                            (IF q.op = "rename_paragraph"
                             THEN {RenameIn(n, q) : n \in Dangling(source)}
                             ELSE Dangling(source)) \cup Brought(q)
    BY DEF WorkbenchNext, Brought
  <2>1. latest'.request = r
    BY DEF EditCobol
  <2> QED
    BY <2>1, EditBreaksNothing
<1> QED
  BY <1>1, <1>2, EditType, PTL DEF WorkbenchSpec, NoEditBreaksAReference

LEMMA EditInv ==
    TextType /\ DeadCodeInv /\ [WorkbenchNext]_WorkbenchVars => DeadCodeInv'
<1> SUFFICES ASSUME TextType, DeadCodeInv, [WorkbenchNext]_WorkbenchVars PROVE DeadCodeInv'
  OBVIOUS
<1>1. ASSUME NEW r \in Requests, EditCobol(r) PROVE DeadCodeInv'
  <2>1. TextType'
    BY <1>1, EditType DEF WorkbenchNext
  <2>2. Text'
    BY <2>1 DEF TextType, Text, Paras
  <2>3. phase = "edit" /\ UNCHANGED <<phase, analysis, machine>>
    BY <1>1 DEF EditCobol
  <2> QED
    BY <2>2, <2>3 DEF DeadCodeInv, analysis, machine
<1>2. ASSUME DeadCodeNext PROVE DeadCodeInv'
  BY <1>2, NextInv
<1>3. ASSUME UNCHANGED WorkbenchVars PROVE DeadCodeInv'
  BY <1>3, NextInv DEF WorkbenchVars
<1> QED
  BY <1>1, <1>2, <1>3 DEF WorkbenchNext

(* The classification of a text that was edited.                           *)
THEOREM EditedTextsClassified == WorkbenchSpec => []ClassificationHolds
<1>1. WorkbenchInit => TextType /\ DeadCodeInv
  <2> SUFFICES ASSUME WorkbenchInit PROVE TextType /\ DeadCodeInv
    OBVIOUS
  <2>1. TextType
    BY WorkbenchAssumption DEF WorkbenchInit, TextType
  <2>2. Text
    BY <2>1 DEF TextType, Text, Paras
  <2> QED
    BY <2>1, <2>2, InitInv DEF WorkbenchInit
<1>2. DeadCodeInv => ClassificationHolds
  BY DEF DeadCodeInv, Inside, ClassificationHolds, dead
<1> QED
  BY <1>1, <1>2, EditType, EditInv, PTL DEF WorkbenchSpec

-----------------------------------------------------------------------------
(* Amounts                                                                 *)

LEMMA MonthlyAmounts ==
    ASSUME NEW b \in Int
    PROVE  /\ FeeOn(b) \in Nat
           /\ b > 0 => InterestOn(b) \in Nat
<1>1. FeeOn(b) \in Nat
  BY DEF FeeOn
<1>2. ASSUME b > 0 PROVE InterestOn(b) \in Nat
  <2> DEFINE bp == IF b < 1000000 THEN 50 ELSE IF b < 10000000 THEN 150 ELSE 200
  <2>1. b * bp \in Nat
    BY <1>2
  <2>2. Rounded(b * bp, 120000) \in Nat
    <3> HIDE DEF bp
    <3>1. \A n \in Nat : (n + 60000) \div 120000 \in Nat
      OBVIOUS
    <3> QED BY <2>1, <3>1 DEF Rounded
  <2> QED BY <2>2 DEF InterestOn
<1> QED BY <1>1, <1>2

-----------------------------------------------------------------------------
(* Tables                                                                  *)

LEMMA ShiftedTable ==
    ASSUME NEW t, IsTable(t), NEW a \in DOMAIN t, NEW amt \in Int
    PROVE  /\ IsTable(Shifted(t, a, amt))
           /\ DOMAIN Shifted(t, a, amt) = DOMAIN t
           /\ \A b \in DOMAIN t : /\ Shifted(t, a, amt)[b].bal = IF b = a THEN t[b].bal + amt ELSE t[b].bal
                                  /\ Shifted(t, a, amt)[b].status = t[b].status
BY DEF IsTable, Shifted, Account

LEMMA TablesEqual ==
    ASSUME NEW t, NEW s, IsTable(t), IsTable(s), DOMAIN t = DOMAIN s,
           \A a \in DOMAIN t : t[a].bal = s[a].bal /\ t[a].status = s[a].status
    PROVE  t = s
<1>1. \A a \in DOMAIN t : t[a] = s[a]
  BY DEF IsTable, Account
<1> QED
  BY <1>1 DEF IsTable

(* TRANSACT's transfer leaves the table as it was.                         *)
LEMMA TransferredTable ==
    ASSUME NEW t, IsTable(t), NEW k, k.to \in DOMAIN t, k.amt \in Int
    PROVE  Transferred(t, k) = t
<1> DEFINE s == Shifted(t, k.to, - k.amt)
           u == Shifted(s, k.to, k.amt)
<1>1. - k.amt \in Int
  OBVIOUS
<1>2. IsTable(s) /\ DOMAIN s = DOMAIN t
      /\ \A b \in DOMAIN t : /\ s[b].bal = IF b = k.to THEN t[b].bal + (- k.amt) ELSE t[b].bal
                             /\ s[b].status = t[b].status
  BY <1>1, ShiftedTable
<1> HIDE DEF s
<1>3. IsTable(u) /\ DOMAIN u = DOMAIN t
      /\ \A b \in DOMAIN t : /\ u[b].bal = IF b = k.to THEN s[b].bal + k.amt ELSE s[b].bal
                             /\ u[b].status = s[b].status
  BY <1>2, ShiftedTable
<1> HIDE DEF u
<1>4. \A b \in DOMAIN t : t[b].bal \in Int
  BY DEF IsTable, Account
<1>5. \A b \in DOMAIN t : u[b].bal = t[b].bal /\ u[b].status = t[b].status
  BY <1>2, <1>3, <1>4
<1>6. u = t
  BY <1>3, <1>5, TablesEqual
<1> QED
  BY <1>6 DEF u, s, Transferred

(* A line of a batch keeps the table a table, and, unless it is a fee,     *)
(* nobody is overdrawn by it.                                              *)
LEMMA LineKeeps ==
    ASSUME NEW t, IsTable(t), NEW k, k.op \in {"D", "W", "T", "I", "F"}, k.amt \in Nat
    PROVE  /\ IsTable(BatchLine(t, k))
           /\ DOMAIN BatchLine(t, k) = DOMAIN t
           /\ k.op # "F" /\ Covered(t) => Covered(BatchLine(t, k))
<1> SUFFICES ASSUME BatchLine(t, k) # t, k.acct \in DOMAIN t, k.op = "T" => k.to \in DOMAIN t,
                    k.op = "W" => t[k.acct].bal >= k.amt, BatchLine(t, k) = LinePosted(t, k)
             PROVE  /\ IsTable(BatchLine(t, k))
                    /\ DOMAIN BatchLine(t, k) = DOMAIN t
                    /\ k.op # "F" /\ Covered(t) => Covered(BatchLine(t, k))
  <2>1. \A a \in DOMAIN t : t[a].bal \in Int
    BY DEF IsTable, Account
  <2> QED BY <2>1 DEF BatchLine
<1>0. \A a \in DOMAIN t : t[a].bal \in Int
  BY DEF IsTable, Account
<1>1. ASSUME NEW amt \in Int, LinePosted(t, k) = Shifted(t, k.acct, amt),
             k.op # "F" => amt >= 0 \/ t[k.acct].bal + amt >= 0
      PROVE  /\ IsTable(LinePosted(t, k))
             /\ DOMAIN LinePosted(t, k) = DOMAIN t
             /\ k.op # "F" /\ Covered(t) => Covered(LinePosted(t, k))
  <2> DEFINE u == Shifted(t, k.acct, amt)
  <2>1. /\ IsTable(u)
        /\ DOMAIN u = DOMAIN t
        /\ \A b \in DOMAIN t : /\ u[b].bal = IF b = k.acct THEN t[b].bal + amt ELSE t[b].bal
                               /\ u[b].status = t[b].status
    BY ShiftedTable
  <2> HIDE DEF u
  <2>2. k.op # "F" /\ Covered(t) => Covered(u)
    BY <1>0, <1>1, <2>1 DEF Covered
  <2> QED BY <1>1, <2>1, <2>2 DEF u
<1>2. CASE k.op \in {"D", "I"}
  BY <1>1, <1>2 DEF LinePosted
<1>4. CASE k.op \in {"W", "F"}
  <2>1. LinePosted(t, k) = Shifted(t, k.acct, - k.amt) /\ - k.amt \in Int
    BY <1>4 DEF LinePosted
  <2>2. k.op # "F" => t[k.acct].bal + (- k.amt) >= 0
    BY <1>0, <1>4
  <2> QED BY <1>1, <2>1, <2>2
<1>3. CASE k.op = "T"
  <2>1. LinePosted(t, k) = Transferred(t, k)
    BY <1>3 DEF LinePosted
  <2> QED BY <2>1, <1>3, TransferredTable
<1> QED BY <1>2, <1>3, <1>4

(* The largest of finitely many numbers is one of them.                    *)
LEMMA MaxPicks ==
    ASSUME NEW s, IsFiniteSet(s), s # {}, \A x \in s : x \in Int
    PROVE  Max(s) \in s /\ \A x \in s : Max(s) >= x
<1> DEFINE above(m) == {x \in s : x > m}
           F == {above(m) : m \in s}
<1>1. F \subseteq SUBSET s /\ F # {}
  OBVIOUS
<1>2. PICK a \in F : \A b \in F : b \subseteq a => b = a
  <2> HIDE DEF F
  <2> QED BY <1>1, SmallestSubset
<1>3. PICK m \in s : a = above(m)
  BY <1>2
<1>4. \A x \in s : m >= x
  <2> SUFFICES ASSUME NEW x \in s, x > m PROVE FALSE
    OBVIOUS
  <2>1. above(x) \subseteq above(m) /\ above(x) \in F /\ x \in above(m) /\ x \notin above(x)
    OBVIOUS
  <2> QED BY <1>2, <1>3, <2>1
<1> QED BY <1>4 DEF Max

LEMMA LastSeqType ==
    ASSUME NEW txs, DOMAIN txs = 1 .. Len(txs), Len(txs) \in Nat, \A i \in DOMAIN txs : txs[i].id \in Nat
    PROVE  LastSeq(txs) \in Nat
<1> DEFINE N == 1 .. Len(txs)
           ids == {txs[i].id : i \in N}
<1>1. IsFiniteSet(N)
  <2>1. 1 \in Int /\ Len(txs) \in Int
    OBVIOUS
  <2> QED BY <2>1, FS_Interval
<1>2. IsFiniteSet(ids)
  <2> DEFINE f == [i \in N |-> txs[i].id]
  <2>1. f \in Surjection(N, ids)
    BY DEF Surjection
  <2> HIDE DEF N, ids, f
  <2> QED BY <1>1, <2>1, FS_Surjection
<1>3. IsFiniteSet({0} \cup ids)
  <2> HIDE DEF ids
  <2> QED BY <1>2, FS_Singleton, FS_Union
<1>4. {0} \cup ids # {} /\ \A x \in {0} \cup ids : x \in Nat
  OBVIOUS
<1>5. LastSeq(txs) = Max({0} \cup ids)
  BY DEF LastSeq
<1> QED
  <2> HIDE DEF ids
  <2>1. PICK s : s = {0} \cup ids
    OBVIOUS
  <2>2. IsFiniteSet(s) /\ s # {} /\ \A x \in s : x \in Int
    BY <1>3, <1>4, <2>1
  <2>3. Max(s) \in s
    BY <2>2, MaxPicks
  <2> QED BY <1>4, <1>5, <2>1, <2>3

(* A batch of any lines keeps the table a table, and without fee lines     *)
(* nobody is overdrawn by it.                                              *)
LEMMA BatchKeeps ==
    ASSUME NEW t, IsTable(t)
    PROVE  LET u == FoldLeft(BatchLine, t, BatchLines)
           IN  IsTable(u) /\ DOMAIN u = DOMAIN t /\ (FeeLines = {} /\ Covered(t) => Covered(u))
<1> DEFINE S == DOMAIN BatchLines
           V == {u \in [DOMAIN t -> Account] : FeeLines = {} /\ Covered(t) => Covered(u)}
           pick == [s \in SUBSET S |-> Max(s)]
           f == [x \in S \X V |-> BatchLine(x[2], BatchLines[x[1]])]
           Eq(g) == g = [s \in SUBSET S |-> IF s = {} THEN t ELSE BatchLine(g[s \ {Max(s)}], BatchLines[Max(s)])]
           it == CHOOSE g : Eq(g)
           F == {s \in SUBSET S : it[s] \notin V}
<1>1. FoldLeft(BatchLine, t, BatchLines) = it[S]
  BY DEF FoldLeft, MapThenFoldSet
<1>2. PICK n \in Nat : S = 1 .. n
  BY LinesAssumption
<1>3. IsFiniteSet(S) /\ \A s \in SUBSET S : s # {} => Max(s) \in s
  <2> HIDE DEF S
  <2>1. 1 \in Int /\ n \in Int
    OBVIOUS
  <2>2. IsFiniteSet(S) /\ S \subseteq Int
    BY <1>2, <2>1, FS_Interval
  <2>3. \A s \in SUBSET S : IsFiniteSet(s) /\ \A x \in s : x \in Int
    BY <2>2, FS_Subset
  <2> QED BY <2>2, <2>3, MaxPicks
<1>4. t \in V
  BY DEF IsTable
<1>5. \A u \in V : IsTable(u) /\ DOMAIN u = DOMAIN t /\ (FeeLines = {} /\ Covered(t) => Covered(u))
  BY DEF IsTable
<1>6. ASSUME NEW i \in S, NEW u \in V PROVE BatchLine(u, BatchLines[i]) \in V
  <2> DEFINE k == BatchLines[i]
             w == BatchLine(u, k)
  <2>1. k.op \in {"D", "W", "T", "I", "F"} /\ k.amt \in Nat /\ (FeeLines = {} => k.op # "F")
    BY LinesAssumption DEF FeeLines
  <2>2. IsTable(u) /\ DOMAIN u = DOMAIN t /\ (FeeLines = {} /\ Covered(t) => Covered(u))
    BY <1>5
  <2> HIDE DEF k, V
  <2>3. /\ IsTable(w) /\ DOMAIN w = DOMAIN u
        /\ k.op # "F" /\ Covered(u) => Covered(w)
    BY <2>1, <2>2, LineKeeps
  <2> HIDE DEF w
  <2>4. w \in V
    BY <2>1, <2>2, <2>3 DEF V, IsTable
  <2> QED BY <2>4 DEF w, k
<1>7. \E g : Eq(g)
  <2>1. f \in [S \X V -> V]
    <3> HIDE DEF S, V
    <3> QED BY <1>6
  <2>2. Picks(pick, S)
    BY <1>3 DEF Picks
  <2>3. PICK g \in [SUBSET S -> V] : PartialFolds(f, pick, t, S, g)
    <3> HIDE DEF S, V, f, pick
    <3> QED BY <1>3, <1>4, <2>1, <2>2, FoldExists
  <2>4. ASSUME NEW s \in SUBSET S, s # {}
        PROVE  f[<<pick[s], g[s \ {pick[s]}]>>] = BatchLine(g[s \ {Max(s)}], BatchLines[Max(s)])
    <3>1. pick[s] = Max(s) /\ Max(s) \in S /\ g[s \ {Max(s)}] \in V
      <4> HIDE DEF V, S
      <4> QED BY <1>3, <2>3, <2>4
    <3> HIDE DEF V, S, pick
    <3> QED BY <3>1
  <2>5. \A s \in SUBSET S : g[s] = IF s = {} THEN t ELSE BatchLine(g[s \ {Max(s)}], BatchLines[Max(s)])
    <3> HIDE DEF V, S, pick, f
    <3> QED BY <2>3, <2>4 DEF PartialFolds
  <2>6. g = [s \in SUBSET S |-> g[s]]
    <3> HIDE DEF V, S, pick, f
    <3> QED BY <2>3
  <2> HIDE DEF V, S, pick, f
  <2> QED BY <2>5, <2>6, Zenon
<1>8. Eq(it)
  <2> HIDE DEF Eq
  <2> QED BY <1>7
<1> HIDE DEF it
<1>9. ASSUME F # {} PROVE FALSE
  <2>1. PICK s \in F : \A r \in F : r \subseteq s => r = s
    <3>1. F \subseteq SUBSET S
      OBVIOUS
    <3> HIDE DEF F
    <3> QED BY <1>3, <1>9, <3>1, SmallestSubset
  <2>2. s \in SUBSET S /\ it[s] \notin V
    BY <2>1
  <2> DEFINE r == s \ {Max(s)}
  <2>3. it[s] = IF s = {} THEN t ELSE BatchLine(it[r], BatchLines[Max(s)])
    <3> HIDE DEF S
    <3> QED BY <1>8, <2>2
  <2>4. s # {}
    <3> HIDE DEF V, S
    <3> QED BY <1>4, <2>2, <2>3
  <2>5. Max(s) \in s
    BY <1>3, <2>2, <2>4
  <2>6. it[r] \in V
    <3>1. r \in SUBSET S /\ r \subseteq s /\ r # s
      BY <2>2, <2>5
    <3> HIDE DEF V, S, r
    <3> QED BY <2>1, <3>1
  <2> HIDE DEF r
  <2>7. BatchLine(it[r], BatchLines[Max(s)]) \in V
    <3> HIDE DEF V, S
    <3> QED BY <1>6, <2>2, <2>5, <2>6
  <2> QED BY <2>2, <2>3, <2>4, <2>7
<1>10. it[S] \in V
  <2> HIDE DEF V, S
  <2> QED BY <1>9
<1> QED
  <2> HIDE DEF V, S
  <2> QED BY <1>1, <1>5, <1>10

-----------------------------------------------------------------------------
(* What a program has to do once it has loaded the accounts                *)

LEMMA OneRecord ==
    ASSUME NEW S, NEW r \in S
    PROVE  /\ <<r>> \in Seq(S) /\ <<r>> # <<>> /\ Len(<<r>>) = 1
           /\ DOMAIN <<r>> = {1} /\ <<r>>[1] = r
OBVIOUS

LEMMA NoRecord == ASSUME NEW S PROVE <<>> \in Seq(S) /\ DOMAIN <<>> = {}
OBVIOUS

LEMMA WorkFields ==
    ASSUME NEW b, NEW s, NEW a, NEW code
    PROVE  LET w == Work(b, s, a, code)
           IN  w.before = b /\ w.save = s /\ w.after = a /\ w.code = code
BY DEF Work

LEMMA WorkIs ==
    ASSUME NEW b \in Seq(Record), NEW s, NEW a \in Seq(Record),
           NEW code \in {"", "00", "01", "02", "03", "04", "99", "killed"},
           \A t \in s : IsTable(t)
    PROVE  IsWork(Work(b, s, a, code))
BY DEF Work, IsWork

LEMMA CallFields ==
    ASSUME NEW k \in Calls
    PROVE  /\ k = [op |-> k.op, acct |-> k.acct, amt |-> k.amt, to |-> k.to]
           /\ k.op \in Operations /\ k.acct \in Words /\ k.amt \in Nat /\ k.to \in Words
           /\ k.op = "UPDATE" => k.acct \in Accounts /\ k.to \in {"A", "F", "C"}
<1>1. k \in [op : Operations, acct : Words, amt : Nat, to : Words]
  BY CallsAssumption
<1>2. k.op = "UPDATE" => k.acct \in Accounts /\ k.to \in {"A", "F", "C"}
  BY CallsAssumption
<1> HIDE DEF Operations, Words
<1> QED BY <1>1, <1>2

LEMMA ArgumentFields ==
    ASSUME NEW k \in Calls
    PROVE  /\ Arguments(k).op = k.op /\ Arguments(k).acct = k.acct /\ Arguments(k).amt = k.amt
           /\ k.op # "UPDATE" => Arguments(k) = k
           /\ k.op = "UPDATE" => Arguments(k).to = "S"
BY CallFields DEF Arguments

(* Deposits, withdrawals and transfers.                                    *)
LEMMA TransactedTable ==
    ASSUME NEW t, IsTable(t), NEW k \in Calls, k.op \in {"D", "W", "T"}, TransactCode(t, k) = "00"
    PROVE  /\ k.acct \in DOMAIN t /\ IsTable(Transacted(t, k)) /\ DOMAIN Transacted(t, k) = DOMAIN t
           /\ \A b \in DOMAIN t :
                 /\ Transacted(t, k)[b].bal =
                       t[b].bal + (IF b # k.acct \/ k.op = "T" THEN 0 ELSE IF k.op = "D" THEN k.amt ELSE - k.amt)
                 /\ Transacted(t, k)[b].status = t[b].status
           /\ k.op = "T" => k.to \in DOMAIN t /\ Transacted(t, k) = t
           /\ k.op \in {"W", "T"} => t[k.acct].bal >= k.amt
           /\ Covered(t) => Covered(Transacted(t, k))
<1>1. /\ k.acct \in DOMAIN t /\ k.amt \in Nat /\ - k.amt \in Int /\ \A a \in DOMAIN t : t[a].bal \in Int
      /\ k.op = "T" => k.to \in DOMAIN t
      /\ k.op \in {"W", "T"} => ~ (t[k.acct].bal < k.amt)
  BY CallFields DEF TransactCode, IsTable, Account
<1>2. k.op \in {"W", "T"} => t[k.acct].bal >= k.amt
  BY <1>1
<1>3. ASSUME NEW amt \in Int, Transacted(t, k) = Shifted(t, k.acct, amt), amt >= 0 \/ t[k.acct].bal + amt >= 0,
             amt = IF k.op = "D" THEN k.amt ELSE - k.amt, k.op # "T"
      PROVE  /\ IsTable(Transacted(t, k)) /\ DOMAIN Transacted(t, k) = DOMAIN t
             /\ \A b \in DOMAIN t :
                   /\ Transacted(t, k)[b].bal =
                         t[b].bal + (IF b # k.acct \/ k.op = "T" THEN 0 ELSE IF k.op = "D" THEN k.amt ELSE - k.amt)
                   /\ Transacted(t, k)[b].status = t[b].status
             /\ Covered(t) => Covered(Transacted(t, k))
  <2> DEFINE u == Shifted(t, k.acct, amt)
  <2>1. /\ IsTable(u)
        /\ DOMAIN u = DOMAIN t
        /\ \A b \in DOMAIN t : /\ u[b].bal = IF b = k.acct THEN t[b].bal + amt ELSE t[b].bal
                               /\ u[b].status = t[b].status
    BY <1>1, ShiftedTable
  <2> HIDE DEF u
  <2>2. Covered(t) => Covered(u)
    BY <1>1, <1>3, <2>1 DEF Covered
  <2>3. \A b \in DOMAIN t : u[b].bal =
            t[b].bal + (IF b # k.acct \/ k.op = "T" THEN 0 ELSE IF k.op = "D" THEN k.amt ELSE - k.amt)
    BY <1>1, <1>3, <2>1
  <2>4. Transacted(t, k) = u
    BY <1>3 DEF u
  <2> HIDE DEF Transacted
  <2> QED BY <2>1, <2>2, <2>3, <2>4
<1>4. CASE k.op = "D"
  <2>1. Transacted(t, k) = Shifted(t, k.acct, k.amt)
    BY <1>4 DEF Transacted
  <2> QED BY <1>1, <1>2, <1>3, <1>4, <2>1
<1>5. CASE k.op = "W"
  <2>1. Transacted(t, k) = Shifted(t, k.acct, - k.amt)
    BY <1>5 DEF Transacted
  <2>2. t[k.acct].bal + (- k.amt) >= 0
    BY <1>1, <1>2, <1>5
  <2> QED BY <1>1, <1>2, <1>3, <1>5, <2>1, <2>2
<1>6. CASE k.op = "T"
  <2>1. Transacted(t, k) = t
    BY <1>1, <1>6, TransferredTable DEF Transacted
  <2> QED BY <1>1, <1>2, <1>6, <2>1
<1> QED BY <1>4, <1>5, <1>6

LEMMA TransactWork ==
    ASSUME NEW t, IsTable(t), NEW k \in Calls, k.op \in {"D", "W", "T"}
    PROVE  LET w == Transact(t, k)
           IN  /\ IsWork(w) /\ ToRecord(w) /\ w.code = TransactCode(t, k)
               /\ w.code = "00" => w.before = <<>> /\ w.after # <<>> /\ w.save = {Transacted(t, k)}
               /\ w.code # "00" => w.save = {} /\ w.after = <<>> /\ w.code \in {"01", "02", "03", "04"}
               /\ Covered(t) => \A u \in w.save : Covered(u)
<1> DEFINE code == TransactCode(t, k)
           w == Transact(t, k)
           record == IF k.op = "T" THEN TxRecord(k.to, "T", k.amt, code) ELSE TxRecord(k.acct, "-", k.amt, code)
           refusal == TxRecord(k.acct, "-", k.amt, code)
<1>1. code \in {"00", "01", "02", "03", "04"} /\ k.acct \in Words /\ k.to \in Words /\ k.amt \in Nat
  BY CallFields DEF TransactCode
<1>2. refusal \in Record /\ refusal.id = 0 /\ refusal.code = code
  BY <1>1 DEF TxRecord, Record
<1>3. record \in Record /\ record.id = 0 /\ record.code = code
  BY <1>1 DEF TxRecord, Record
<1>4. code = "00" => IsTable(Transacted(t, k)) /\ (Covered(t) => Covered(Transacted(t, k)))
  BY TransactedTable
<1>5. \/ w = Work(<<>>, {}, <<>>, code) /\ code # "00"
      \/ w = Work(<<refusal>>, {}, <<>>, code) /\ code # "00"
      \/ w = Work(<<>>, {Transacted(t, k)}, <<record>>, code) /\ code = "00"
  BY DEF Transact
<1> HIDE DEF code, w, refusal, record
<1>6. CASE w = Work(<<>>, {}, <<>>, code) /\ code # "00"
  <2>1. IsWork(w)
    BY <1>1, <1>6, NoRecord, WorkIs
  <2>2. w.before = <<>> /\ w.save = {} /\ w.after = <<>> /\ w.code = code
    BY <1>6, WorkFields
  <2> QED BY <1>1, <1>6, <2>1, <2>2 DEF ToRecord, w, code
<1>7. CASE w = Work(<<refusal>>, {}, <<>>, code) /\ code # "00"
  <2>1. IsWork(w)
    BY <1>1, <1>2, <1>7, NoRecord, OneRecord, WorkIs
  <2>2. w.before = <<refusal>> /\ w.save = {} /\ w.after = <<>> /\ w.code = code
    BY <1>7, WorkFields
  <2> QED BY <1>1, <1>2, <1>7, <2>1, <2>2, OneRecord DEF ToRecord, w, code
<1>8. CASE w = Work(<<>>, {Transacted(t, k)}, <<record>>, code) /\ code = "00"
  <2>1. IsWork(w)
    BY <1>1, <1>3, <1>4, <1>8, NoRecord, OneRecord, WorkIs
  <2>2. w.before = <<>> /\ w.save = {Transacted(t, k)} /\ w.after = <<record>> /\ w.code = code
    BY <1>8, WorkFields
  <2>3. ToRecord(w) /\ w.after # <<>>
    BY <1>3, <2>2, OneRecord, NoRecord DEF ToRecord
  <2> QED BY <1>1, <1>4, <1>8, <2>1, <2>2, <2>3 DEF w, code
<1> QED BY <1>5, <1>6, <1>7, <1>8

(* SetToSeq lists every element once.                                      *)
LEMMA Listed ==
    ASSUME NEW S, IsFiniteSet(S)
    PROVE  /\ SetToSeq(S) \in Seq(S)
           /\ \A i, j \in DOMAIN SetToSeq(S) : SetToSeq(S)[i] = SetToSeq(S)[j] => i = j
           /\ \A x \in S : \E i \in DOMAIN SetToSeq(S) : SetToSeq(S)[i] = x
<1> DEFINE n == Cardinality(S)
           f == SetToSeq(S)
<1>1. n \in Nat /\ ExistsBijection(1 .. n, S)
  BY FS_CardinalityType
<1>2. \E g \in [1 .. n -> S] : IsInjective(g)
  BY <1>1 DEF ExistsBijection, Bijection, Injection
<1>3. f \in [1 .. n -> S] /\ IsInjective(f)
  <2> HIDE DEF n
  <2>1. (CHOOSE g \in [1 .. n -> S] : IsInjective(g)) \in [1 .. n -> S]
        /\ IsInjective(CHOOSE g \in [1 .. n -> S] : IsInjective(g))
    BY <1>2
  <2> QED BY <2>1 DEF n, SetToSeq
<1> HIDE DEF f
<1>4. f \in Seq(S) /\ DOMAIN f = 1 .. n
  BY <1>1, <1>3
<1>5. \A i, j \in DOMAIN f : f[i] = f[j] => i = j
  BY <1>3 DEF IsInjective
<1> DEFINE T == {f[i] : i \in 1 .. n}
<1>6. T \subseteq S /\ f \in Bijection(1 .. n, T)
  <2>1. T \subseteq S
    BY <1>3
  <2>2. f \in [1 .. n -> T]
    BY <1>3
  <2>3. \A x \in T : \E i \in 1 .. n : f[i] = x
    OBVIOUS
  <2> HIDE DEF T
  <2> QED BY <1>3, <2>1, <2>2, <2>3 DEF Bijection, Injection, Surjection
<1>7. Cardinality(T) = n
  <2> HIDE DEF T, n
  <2>1. ExistsBijection(1 .. n, T)
    BY <1>6 DEF ExistsBijection
  <2> QED BY <1>1, <2>1, FS_CountingElements
<1>8. T = S
  <2> HIDE DEF T
  <2> QED BY <1>6, <1>7, FS_Subset
<1>9. \A x \in S : \E i \in DOMAIN f : f[i] = x
  BY <1>4, <1>8
<1> QED
  <2> HIDE DEF T
  <2> QED BY <1>4, <1>5, <1>9 DEF f

(* What a monthly program records and saves.                               *)
LEMMA MonthlyWork ==
    ASSUME NEW t, IsTable(t), NEW type \in {"I", "F"}, NEW sign \in {1, -1},
           NEW amount, amount \in [DOMAIN amount -> Nat], DOMAIN amount \subseteq DOMAIN t,
           Covered(t) => \A a \in DOMAIN amount : t[a].bal + sign * amount[a] >= 0
    PROVE  LET w == Monthly(t, type, amount, sign)
               due == DOMAIN amount
               paid == Paid(t, amount, sign)
           IN  /\ IsWork(w) /\ ToRecord(w) /\ w.after = <<>> /\ w.save = {paid} /\ w.code = "00"
               /\ IsTable(paid) /\ (Covered(t) => Covered(paid))
               /\ \A a \in DOMAIN t : paid[a].bal = t[a].bal + IF a \in due THEN sign * amount[a] ELSE 0
               /\ \A i \in DOMAIN w.before :
                     /\ w.before[i].acct \in due /\ w.before[i].type = type
                     /\ w.before[i].amt = amount[w.before[i].acct]
               /\ \A i, j \in DOMAIN w.before : w.before[i].acct = w.before[j].acct => i = j
               /\ \A a \in due : \E i \in DOMAIN w.before : w.before[i].acct = a
<1> DEFINE due == DOMAIN amount
           w == Monthly(t, type, amount, sign)
           paid == Paid(t, amount, sign)
           order == SetToSeq(due)
           records == [i \in DOMAIN order |-> TxRecord(order[i], type, amount[order[i]], "00")]
<1>1. /\ DOMAIN amount = due /\ due \subseteq DOMAIN t /\ DOMAIN t \subseteq Accounts
      /\ \A a \in due : amount[a] \in Nat
      /\ Covered(t) => \A a \in due : t[a].bal + sign * amount[a] >= 0
  BY DEF IsTable
<1>2. w = Work(records, {paid}, <<>>, "00")
  BY DEF Monthly
<1> HIDE DEF due
<1>3. IsFiniteSet(due)
  BY <1>1, AccountsAssumption, FS_Subset
<1>4. /\ order \in Seq(due)
      /\ \A i, j \in DOMAIN order : order[i] = order[j] => i = j
      /\ \A x \in due : \E i \in DOMAIN order : order[i] = x
  BY <1>3, Listed
<1> HIDE DEF order
<1>5. \A i \in DOMAIN order : /\ order[i] \in due
                              /\ TxRecord(order[i], type, amount[order[i]], "00") \in Record
  <2> SUFFICES ASSUME NEW i \in DOMAIN order
               PROVE  order[i] \in due /\ TxRecord(order[i], type, amount[order[i]], "00") \in Record
    OBVIOUS
  <2>1. order[i] \in due
    BY <1>4
  <2>2. order[i] \in Accounts /\ amount[order[i]] \in Nat
    BY <1>1, <2>1
  <2> QED BY <2>1, <2>2 DEF TxRecord, Record
<1>6. records \in Seq(Record) /\ DOMAIN records = DOMAIN order
  <2>1. PICK n \in Nat : DOMAIN order = 1 .. n
    BY <1>4
  <2> QED BY <1>5, <2>1
<1>7. \A i \in DOMAIN order : /\ records[i].id = 0 /\ records[i].code = "00" /\ records[i].acct = order[i]
                              /\ records[i].type = type /\ records[i].amt = amount[order[i]]
  BY DEF TxRecord
<1> HIDE DEF records
<1>8. \A a \in DOMAIN t : /\ t[a] = [bal |-> t[a].bal, status |-> t[a].status] /\ t[a].bal \in Int
                          /\ t[a].status \in {"A", "F", "C", "S"}
  BY DEF IsTable, Account
<1>9. \A a \in due : sign * amount[a] \in Int
  BY <1>1
<1>10. \A a \in DOMAIN t : /\ paid[a] \in Account
                           /\ paid[a].bal = t[a].bal + IF a \in due THEN sign * amount[a] ELSE 0
  BY <1>8, <1>9 DEF Account, Paid, due
<1>11. DOMAIN paid = DOMAIN t /\ IsTable(paid)
  BY <1>1, <1>10 DEF IsTable, Paid
<1>12. \A a \in DOMAIN t : paid[a].bal = t[a].bal + IF a \in due THEN sign * amount[a] ELSE 0
  BY <1>10
<1> HIDE DEF paid
<1>13. Covered(t) => Covered(paid)
  BY <1>1, <1>8, <1>11, <1>12 DEF Covered
<1>14. w.before = records /\ w.save = {paid} /\ w.after = <<>> /\ w.code = "00"
  BY <1>2, WorkFields
<1>15. IsWork(w)
  BY <1>2, <1>6, <1>11, NoRecord, WorkIs
<1> HIDE DEF w
<1>16. ToRecord(w)
  BY <1>6, <1>7, <1>14, NoRecord DEF ToRecord
<1>17. \A i \in DOMAIN w.before :
          w.before[i].acct \in due /\ w.before[i].type = type /\ w.before[i].amt = amount[w.before[i].acct]
  BY <1>5, <1>6, <1>7, <1>14
<1>18. \A i, j \in DOMAIN w.before : w.before[i].acct = w.before[j].acct => i = j
  BY <1>4, <1>6, <1>7, <1>14
<1>19. \A a \in due : \E i \in DOMAIN w.before : w.before[i].acct = a
  BY <1>4, <1>6, <1>7, <1>14
<1> QED
  <2>1. /\ IsWork(w) /\ ToRecord(w) /\ w.after = <<>> /\ w.save = {paid} /\ w.code = "00"
        /\ IsTable(paid) /\ (Covered(t) => Covered(paid))
        /\ \A a \in DOMAIN t : paid[a].bal = t[a].bal + IF a \in due THEN sign * amount[a] ELSE 0
    BY <1>11, <1>12, <1>13, <1>14, <1>15, <1>16
  <2> QED BY <1>17, <1>18, <1>19, <2>1, Zenon DEF w, paid, due

LEMMA UpdateWork ==
    ASSUME NEW t, IsTable(t), NEW k \in Calls, k.op = "UPDATE"
    PROVE  LET w == Update(t, Arguments(k))
           IN  /\ IsWork(w) /\ ToRecord(w) /\ w.before = <<>> /\ w.after = <<>> /\ w.code \in {"00", "03"}
               /\ Covered(t) => \A u \in w.save : Covered(u)
               /\ w.save = {} \/ \E u : w.save = {u} /\ DOMAIN u = DOMAIN t /\ \A a \in DOMAIN t : u[a].bal = t[a].bal
<1> DEFINE j == Arguments(k)
           w == Update(t, j)
           u == [t EXCEPT ![j.acct].status = j.to]
<1>1. j.acct = k.acct /\ j.to = "S"
  BY ArgumentFields
<1>2. \/ w = Work(<<>>, {u}, <<>>, "00") /\ j.acct \in DOMAIN t
      \/ w = Work(<<>>, {}, <<>>, "03")
  BY DEF Update
<1> HIDE DEF j
<1>3. IsTable(u) /\ DOMAIN u = DOMAIN t /\ \A a \in DOMAIN t : u[a].bal = t[a].bal
  BY <1>1 DEF IsTable, Account
<1> HIDE DEF u
<1>4. Covered(t) => Covered(u)
  BY <1>3 DEF Covered
<1>5. CASE w = Work(<<>>, {u}, <<>>, "00")
  <2>1. IsWork(w)
    BY <1>3, <1>5, NoRecord, WorkIs
  <2>2. w.before = <<>> /\ w.save = {u} /\ w.after = <<>> /\ w.code = "00"
    BY <1>5, WorkFields
  <2> HIDE DEF w
  <2> QED BY <1>3, <1>4, <2>1, <2>2 DEF ToRecord, w, j
<1>6. CASE w = Work(<<>>, {}, <<>>, "03")
  <2>1. IsWork(w)
    BY <1>6, NoRecord, WorkIs
  <2>2. w.before = <<>> /\ w.save = {} /\ w.after = <<>> /\ w.code = "03"
    BY <1>6, WorkFields
  <2> HIDE DEF w
  <2> QED BY <2>1, <2>2 DEF ToRecord, w, j
<1> QED BY <1>2, <1>5, <1>6

LEMMA BatchWork ==
    ASSUME NEW t, IsTable(t)
    PROVE  LET w == TransactBatch(t)
           IN  /\ IsWork(w) /\ ToRecord(w) /\ w.before = <<>> /\ w.after = <<>> /\ w.code = "00"
               /\ FeeLines = {} /\ Covered(t) => \A u \in w.save : Covered(u)
<1> DEFINE u == FoldLeft(BatchLine, t, BatchLines)
           w == TransactBatch(t)
<1>1. IsTable(u) /\ DOMAIN u = DOMAIN t /\ (FeeLines = {} /\ Covered(t) => Covered(u))
  BY BatchKeeps
<1>2. w = Work(<<>>, {u}, <<>>, "00")
  BY DEF TransactBatch
<1> HIDE DEF u
<1>3. IsWork(w)
  BY <1>1, <1>2, NoRecord, WorkIs
<1>4. w.before = <<>> /\ w.save = {u} /\ w.after = <<>> /\ w.code = "00"
  BY <1>2, WorkFields
<1> HIDE DEF w
<1> QED BY <1>1, <1>3, <1>4 DEF ToRecord, w

(* All of it, by what Load and the bridge ask of it.                       *)
LEMMA LoadedWork ==
    ASSUME NEW t, IsTable(t), NEW k \in Calls
    PROVE  LET w == Loaded(t, Arguments(k))
           IN  /\ IsWork(w) /\ ToRecord(w) /\ w.code \in {"00", "01", "02", "03", "04"}
               /\ FeeLines = {} /\ Covered(t) => \A u \in w.save : Covered(u)
               /\ k.op \in {"D", "W", "T"} =>
                     /\ w.code = TransactCode(t, k)
                     /\ w.code = "00" => w.before = <<>> /\ w.after # <<>> /\ w.save = {Transacted(t, k)}
                     /\ w.code # "00" => w.save = {} /\ w.after = <<>>
               /\ k.op \in {"INTEREST", "FEES"} => Postings(w.before) /\ Postings(w.after)
<1> DEFINE j == Arguments(k)
           w == Loaded(t, j)
<1>1. k.op \in Operations /\ j.op = k.op /\ (k.op # "UPDATE" => j = k)
  BY CallFields, ArgumentFields
<1>2. \A a \in DOMAIN t : t[a].bal \in Int
  BY DEF IsTable, Account
<1>3. CASE k.op \in {"D", "W", "T"}
  <2>1. w = Transact(t, k)
    BY <1>1, <1>3 DEF Loaded
  <2>2. /\ IsWork(w) /\ ToRecord(w) /\ w.code = TransactCode(t, k)
        /\ w.code = "00" => w.before = <<>> /\ w.after # <<>> /\ w.save = {Transacted(t, k)}
        /\ w.code # "00" => w.save = {} /\ w.after = <<>> /\ w.code \in {"01", "02", "03", "04"}
        /\ Covered(t) => \A u \in w.save : Covered(u)
    BY <2>1, <1>3, TransactWork
  <2> HIDE DEF w
  <2> QED BY <1>3, <2>2 DEF w
<1>4. CASE k.op = "UPDATE"
  <2>1. w = Update(t, j)
    BY <1>1, <1>4 DEF Loaded
  <2>2. /\ IsWork(w) /\ ToRecord(w) /\ w.code \in {"00", "03"}
        /\ Covered(t) => \A u \in w.save : Covered(u)
    BY <2>1, <1>4, UpdateWork
  <2> HIDE DEF w
  <2> QED BY <1>4, <2>2 DEF w
<1>5. CASE k.op = "BATCH"
  <2>1. w = TransactBatch(t)
    BY <1>1, <1>5 DEF Loaded
  <2>2. /\ IsWork(w) /\ ToRecord(w) /\ w.code = "00"
        /\ FeeLines = {} /\ Covered(t) => \A u \in w.save : Covered(u)
    BY <2>1, BatchWork
  <2> HIDE DEF w
  <2> QED BY <1>5, <2>2 DEF w
<1>6. CASE k.op = "INTEREST"
  <2> DEFINE due == {b \in DOMAIN t : BearsInterest(t, b)}
             amount == [a \in due |-> InterestOn(t[a].bal)]
  <2>1. w = Monthly(t, "I", amount, 1)
    BY <1>1, <1>6 DEF Loaded, Interest
  <2>2. \A a \in due : t[a].bal > 0 /\ InterestOn(t[a].bal) \in Nat
    BY <1>2, MonthlyAmounts DEF BearsInterest
  <2>3. DOMAIN amount = due /\ due \subseteq DOMAIN t /\ amount \in [DOMAIN amount -> Nat]
    BY <2>2
  <2>4. \A a \in due : t[a].bal + 1 * amount[a] >= 0
    BY <1>2, <2>2
  <2>5. /\ IsWork(w) /\ ToRecord(w) /\ w.code = "00" /\ (Covered(t) => \A u \in w.save : Covered(u))
        /\ Postings(w.before) /\ Postings(w.after)
    <3> HIDE DEF due, amount, w
    <3>1. \A a \in DOMAIN amount : t[a].bal + 1 * amount[a] >= 0
      BY <2>3, <2>4
    <3>2. /\ IsWork(w) /\ ToRecord(w) /\ w.after = <<>> /\ w.code = "00" /\ w.save = {Paid(t, amount, 1)}
          /\ Covered(t) => Covered(Paid(t, amount, 1))
          /\ \A i \in DOMAIN w.before : w.before[i].acct \in DOMAIN amount /\ w.before[i].type = "I"
      BY <2>1, <2>3, <3>1, MonthlyWork
    <3> QED BY <2>3, <3>2, NoRecord DEF Postings, IsTable
  <2> HIDE DEF w
  <2> QED BY <1>6, <2>5 DEF w
<1>7. CASE k.op = "FEES"
  <2> DEFINE due == {b \in DOMAIN t : OwesFee(t, b)}
             amount == [a \in due |-> FeeOn(t[a].bal)]
  <2>1. w = Monthly(t, "F", amount, -1)
    BY <1>1, <1>7 DEF Loaded, Fees
  <2>2. \A a \in due : FeeOn(t[a].bal) \in Nat /\ FeeOn(t[a].bal) <= t[a].bal
    BY <1>2, MonthlyAmounts DEF OwesFee
  <2>3. DOMAIN amount = due /\ due \subseteq DOMAIN t /\ amount \in [DOMAIN amount -> Nat]
    BY <2>2
  <2>4. \A a \in due : t[a].bal + (-1) * amount[a] >= 0
    BY <1>2, <2>2
  <2>5. /\ IsWork(w) /\ ToRecord(w) /\ w.code = "00" /\ (Covered(t) => \A u \in w.save : Covered(u))
        /\ Postings(w.before) /\ Postings(w.after)
    <3> HIDE DEF due, amount, w
    <3>1. \A a \in DOMAIN amount : t[a].bal + (-1) * amount[a] >= 0
      BY <2>3, <2>4
    <3>2. /\ IsWork(w) /\ ToRecord(w) /\ w.after = <<>> /\ w.code = "00" /\ w.save = {Paid(t, amount, -1)}
          /\ Covered(t) => Covered(Paid(t, amount, -1))
          /\ \A i \in DOMAIN w.before : w.before[i].acct \in DOMAIN amount /\ w.before[i].type = "F"
      BY <2>1, <2>3, <3>1, MonthlyWork
    <3> QED BY <2>3, <3>2, NoRecord DEF Postings, IsTable
  <2> HIDE DEF w
  <2> QED BY <1>7, <2>5 DEF w
<1> HIDE DEF w
<1> QED BY <1>1, <1>3, <1>4, <1>5, <1>6, <1>7 DEF Operations, w

-----------------------------------------------------------------------------
(* One caller moves                                                        *)

(* The caller c goes on as r, the others stay.                             *)
Moves(c, r) ==
    /\ run' = [d \in Callers |-> run'[d]]
    /\ run'[c] = r
    /\ \A d \in Callers : d # c => run'[d] = run[d]

LEMMA CallerMoves ==
    ASSUME TypeOK, NEW c \in Callers, NEW r, run' = [run EXCEPT ![c] = r]
    PROVE  Moves(c, r)
BY DEF TypeOK, Moves

JobOf(place, call, work, num, seen, said) ==
    [pc |-> place, call |-> call, work |-> work, num |-> num, seen |-> seen, said |-> said]

LEMMA JobFields ==
    ASSUME NEW place, NEW call, NEW work, NEW num, NEW seen, NEW said
    PROVE  LET r == JobOf(place, call, work, num, seen, said)
           IN  /\ r.pc = place /\ r.call = call /\ r.work = work /\ r.num = num /\ r.seen = seen /\ r.said = said
               /\ r = [pc |-> r.pc, call |-> r.call, work |-> r.work, num |-> r.num, seen |-> r.seen, said |-> r.said]
BY DEF JobOf

LEMMA JobIs ==
    ASSUME TypeOK, NEW c \in Callers
    PROVE  /\ IsJob(run[c])
           /\ run[c] = JobOf(run[c].pc, run[c].call, run[c].work, run[c].num, run[c].seen, run[c].said)
BY DEF TypeOK, IsJob, JobOf

LEMMA IdleJob == IsJob(Idle) /\ IsTable(NoAccounts) /\ IsWork(NoWork)
<1>1. IsTable(NoAccounts)
  BY DEF IsTable, NoAccounts
<1>2. IsWork(NoWork)
  BY NoRecord, WorkIs DEF NoWork
<1>3. Postings(<<>>)
  BY NoRecord DEF Postings
<1> QED BY <1>1, <1>2, <1>3, NoRecord DEF IsJob, Idle, NoCall

(* The types are kept by a step that keeps those of what it changes.       *)
LEMMA TypeKept ==
    ASSUME TypeOK, NEW c \in Callers, NEW r, Moves(c, r), IsJob(r),
           IsTable(file'), trx' \in Seq(Record),
           db' \in [acct : [Accounts -> Account], txs : Seq(Entry), chain : Seq(Entry)],
           calls' \in Nat, kills' \in Nat, overlapped' \in BOOLEAN, batched' \in BOOLEAN
    PROVE  TypeOK'
<1>1. \A d \in Callers : IsJob(run'[d])
  BY DEF TypeOK, Moves
<1>2. run' = [d \in Callers |-> run'[d]]
  BY DEF Moves
<1> HIDE DEF IsJob, IsTable, Record, Entry, Account
<1> QED BY <1>1, <1>2 DEF TypeOK

(* What each step does, for a caller that is r, with the accounts file f,  *)
(* the records s and the database d.                                       *)
Leaves(f, s, d) == file' = f /\ trx' = s /\ db' = d
Goes(r, place, work, num, seen, said) == JobOf(place, r.call, work, num, seen, said)
On(r, place) == Goes(r, place, r.work, r.num, r.seen, r.said)

LEMMA RunIs ==
    ASSUME TypeOK, NEW c \in Callers
    PROVE  /\ run = [e \in Callers |-> run[e]]
           /\ run[c] = [pc |-> run[c].pc, call |-> run[c].call, work |-> run[c].work, num |-> run[c].num,
                        seen |-> run[c].seen, said |-> run[c].said]
BY DEF TypeOK, IsJob

LEMMA Called ==
    ASSUME TypeOK, NEW c \in Callers, NEW r, r = run[c], NEW f, f = file, NEW s, s = trx, NEW d, d = db,
           NEW k \in Calls, Call(c, k)
    PROVE  /\ r.pc = "idle" /\ Leaves(f, s, d) /\ kills' = kills /\ calls' = calls + 1
           /\ Moves(c, JobOf("load", k, NoWork, 0, NoAccounts, <<>>))
           /\ overlapped' = (overlapped \/ \E e \in Callers : ~At(e, "idle"))
           /\ batched' = (batched \/ k.op = "BATCH")
<1>1. PICK j : j = [Idle EXCEPT !.pc = "load", !.call = k]
  OBVIOUS
<1>2. j = JobOf("load", k, NoWork, 0, NoAccounts, <<>>)
  BY <1>1 DEF Idle, JobOf
<1>3. Moves(c, JobOf("load", k, NoWork, 0, NoAccounts, <<>>))
  BY <1>1, <1>2, CallerMoves DEF Call
<1> QED BY <1>3 DEF Call, Leaves, At

LEMMA Ran ==
    ASSUME TypeOK, NEW c \in Callers, NEW r, r = run[c], NEW f, f = file, NEW s, s = trx, NEW d, d = db,
           NEW w, w = Loaded(f, Arguments(r.call))
    PROVE  /\ Load(c) =>
                 /\ r.pc = "load" /\ Leaves(f, s, d) /\ Quiet
                 /\ \E place \in {"count", Onward(w)} :
                       /\ Moves(c, Goes(r, place, w, r.num, f, r.said))
                       /\ place # "count" => \A q \in {w.before, w.after} : \A i \in DOMAIN q : q[i].code # "00"
           /\ Count(c) =>
                 /\ r.pc = "count" /\ Leaves(f, s, d) /\ Quiet
                 /\ Moves(c, Goes(r, Onward(r.work), r.work, Len(s), r.seen, r.said))
           /\ Open(c) =>
                 /\ r.pc = "open" /\ Leaves(NoAccounts, s, d) /\ Quiet
                 /\ Moves(c, On(r, "write"))
           /\ List(c) =>
                 /\ r.pc = "list" /\ Leaves(f, s, d) /\ Quiet
                 /\ Moves(c, Goes(r, "sync", r.work, r.num, f, r.said))
<1>1. /\ run = [e \in Callers |-> run[e]]
      /\ run[c] = [pc |-> run[c].pc, call |-> run[c].call, work |-> run[c].work, num |-> run[c].num,
                   seen |-> run[c].seen, said |-> run[c].said]
  BY RunIs
<1>2. ASSUME Load(c)
      PROVE  /\ r.pc = "load" /\ Leaves(f, s, d) /\ Quiet
             /\ \E place \in {"count", Onward(w)} :
                   /\ Moves(c, Goes(r, place, w, r.num, f, r.said))
                   /\ place # "count" => \A q \in {w.before, w.after} : \A i \in DOMAIN q : q[i].code # "00"
  <2> DEFINE numbered == \E q \in {w.before, w.after} : \E i \in DOMAIN q : q[i].code = "00"
  <2>1. PICK place : place = IF numbered THEN "count" ELSE Onward(w)
    OBVIOUS
  <2>2. run' = [run EXCEPT ![c].work = w, ![c].seen = file, ![c].pc = place]
    BY <1>2, <2>1 DEF Load
  <2>3. run'[c] = [pc |-> place, call |-> run[c].call, work |-> w, num |-> run[c].num,
                   seen |-> file, said |-> run[c].said]
    BY <1>1, <2>2
  <2>4. Moves(c, Goes(r, place, w, r.num, f, r.said))
    BY <1>1, <2>2, <2>3 DEF Moves, Goes, JobOf
  <2>5. place \in {"count", Onward(w)}
        /\ (place # "count" => \A q \in {w.before, w.after} : \A i \in DOMAIN q : q[i].code # "00")
    BY <2>1
  <2>6. r.pc = "load" /\ Leaves(f, s, d) /\ Quiet
    BY <1>2 DEF Load, Leaves, At
  <2> QED BY <2>4, <2>5, <2>6
<1>3. ASSUME Count(c)
      PROVE  /\ r.pc = "count" /\ Leaves(f, s, d) /\ Quiet
             /\ Moves(c, Goes(r, Onward(r.work), r.work, Len(s), r.seen, r.said))
  <2>1. run'[c] = [pc |-> Onward(run[c].work), call |-> run[c].call, work |-> run[c].work, num |-> Len(trx),
                   seen |-> run[c].seen, said |-> run[c].said]
    BY <1>1, <1>3 DEF Count
  <2>2. Moves(c, Goes(r, Onward(r.work), r.work, Len(s), r.seen, r.said))
    BY <1>1, <1>3, <2>1 DEF Count, Moves, Goes, JobOf
  <2> QED BY <1>3, <2>2 DEF Count, Leaves, At
<1>4. ASSUME Open(c)
      PROVE  r.pc = "open" /\ Leaves(NoAccounts, s, d) /\ Quiet /\ Moves(c, On(r, "write"))
  <2>1. run'[c] = [pc |-> "write", call |-> run[c].call, work |-> run[c].work, num |-> run[c].num,
                   seen |-> run[c].seen, said |-> run[c].said]
    BY <1>1, <1>4 DEF Open, Goto
  <2>2. Moves(c, On(r, "write"))
    BY <1>1, <1>4, <2>1 DEF Open, Goto, Moves, On, Goes, JobOf
  <2> QED BY <1>4, <2>2 DEF Open, Leaves, At
<1>5. ASSUME List(c)
      PROVE  r.pc = "list" /\ Leaves(f, s, d) /\ Quiet /\ Moves(c, Goes(r, "sync", r.work, r.num, f, r.said))
  <2>1. run'[c] = [pc |-> "sync", call |-> run[c].call, work |-> run[c].work, num |-> run[c].num,
                   seen |-> file, said |-> run[c].said]
    BY <1>1, <1>5 DEF List
  <2>2. Moves(c, Goes(r, "sync", r.work, r.num, f, r.said))
    BY <1>1, <1>5, <2>1 DEF List, Moves, Goes, JobOf
  <2> QED BY <1>5, <2>2 DEF List, Leaves, At
<1> QED BY <1>2, <1>3, <1>4, <1>5

(* A record a program appends, and what it leaves to do.                   *)
AppendsRecord(r, head, num, record, left) ==
    /\ head = Head(r.work.before)
    /\ num = IF head.code = "00" THEN r.num + 1 ELSE r.num
    /\ record = IF head.code = "00" THEN [head EXCEPT !.id = num] ELSE head
    /\ left = Work(Tail(r.work.before), r.work.save, r.work.after, r.work.code)

LEMMA Appended ==
    ASSUME TypeOK, NEW c \in Callers, NEW r, r = run[c], NEW f, f = file, NEW s, s = trx, NEW d, d = db,
           NEW head, NEW num, NEW record, NEW left, AppendsRecord(r, head, num, record, left),
           NEW p, p = Append(s, record), NEW said, said = Append(r.said, record), AppendRecord(c)
    PROVE  /\ r.pc = "append" /\ Leaves(f, p, d) /\ Quiet
           /\ Moves(c, Goes(r, Onward(left), left, num, r.seen, said))
<1>1. /\ run = [e \in Callers |-> run[e]]
      /\ run[c] = [pc |-> run[c].pc, call |-> run[c].call, work |-> run[c].work, num |-> run[c].num,
                   seen |-> run[c].seen, said |-> run[c].said]
  BY RunIs
<1>2. PICK w : w = r.work
  OBVIOUS
<1>3. w = [before |-> w.before, save |-> w.save, after |-> w.after, code |-> w.code]
  BY <1>2, JobIs DEF IsJob, IsWork, Work
<1>4. PICK j : j = [w EXCEPT !.before = Tail(@)]
  OBVIOUS
<1>5. j = left
  <2>1. PICK b : b = Tail(w.before)
    OBVIOUS
  <2>2. j = [w EXCEPT !.before = b]
    BY <1>4, <2>1
  <2>3. j = [before |-> b, save |-> w.save, after |-> w.after, code |-> w.code]
    BY <1>3, <2>2
  <2> QED BY <1>2, <2>1, <2>3 DEF Work, AppendsRecord
<1>6. trx' = p
      /\ run' = [run EXCEPT ![c].num = num, ![c].work = left,
                            ![c].said = Append(@, record), ![c].pc = Onward(left)]
  BY <1>2, <1>4, <1>5 DEF AppendRecord, AppendsRecord
<1>7. run'[c] = [pc |-> Onward(left), call |-> run[c].call, work |-> left, num |-> num,
                 seen |-> run[c].seen, said |-> said]
  BY <1>1, <1>6
<1>8. Moves(c, Goes(r, Onward(left), left, num, r.seen, said))
  BY <1>1, <1>6, <1>7 DEF Moves, Goes, JobOf
<1> QED BY <1>6, <1>8 DEF AppendRecord, Leaves, At

LEMMA Saved ==
    ASSUME TypeOK, NEW c \in Callers, NEW r, r = run[c], NEW f, f = file, NEW s, s = trx, NEW d, d = db,
           NEW last, last = Work(r.work.after, {}, <<>>, r.work.code), Save(c)
    PROVE  /\ r.pc = "write" /\ trx' = s /\ db' = d /\ Quiet
           /\ \E t \in r.work.save :
                 file' = [a \in DOMAIN t \cup DOMAIN f |-> IF a \in DOMAIN t THEN t[a] ELSE f[a]]
           /\ Moves(c, Goes(r, Onward(last), last, r.num, r.seen, r.said))
<1>1. /\ run = [e \in Callers |-> run[e]]
      /\ run[c] = [pc |-> run[c].pc, call |-> run[c].call, work |-> run[c].work, num |-> run[c].num,
                   seen |-> run[c].seen, said |-> run[c].said]
  BY RunIs
<1>2. run' = [run EXCEPT ![c].work = last, ![c].pc = Onward(last)]
  BY DEF Save
<1>3. run'[c] = [pc |-> Onward(last), call |-> run[c].call, work |-> last, num |-> run[c].num,
                 seen |-> run[c].seen, said |-> run[c].said]
  BY <1>1, <1>2
<1>4. Moves(c, Goes(r, Onward(last), last, r.num, r.seen, r.said))
  BY <1>1, <1>2, <1>3 DEF Moves, Goes, JobOf
<1>5. r.pc = "write" /\ trx' = s /\ db' = d /\ Quiet
  BY DEF Save, At
<1>6. \E t \in r.work.save :
         file' = [a \in DOMAIN t \cup DOMAIN f |-> IF a \in DOMAIN t THEN t[a] ELSE f[a]]
  BY Zenon DEF Save
<1> QED BY <1>4, <1>5, <1>6

(* A program that fails or is killed: the caller goes on as Stopped says.  *)
Stopped(r, code) ==
    IF r.pc = "list" THEN Goes(r, "sync", r.work, r.num, NoAccounts, r.said)
    ELSE Goes(r, "end", Work(<<>>, {}, <<>>, code), r.num, r.seen, r.said)

LEMMA EndsStopped ==
    ASSUME NEW r, r = [pc |-> r.pc, call |-> r.call, work |-> r.work, num |-> r.num, seen |-> r.seen, said |-> r.said],
           NEW code
    PROVE  EndsWith(r, code) = Stopped(r, code)
<1>1. CASE r.pc = "list"
  <2>1. PICK j : j = [r EXCEPT !.pc = "sync", !.seen = NoAccounts]
    OBVIOUS
  <2>2. j = Goes(r, "sync", r.work, r.num, NoAccounts, r.said)
    BY <2>1 DEF Goes, JobOf
  <2> QED BY <1>1, <2>1, <2>2 DEF EndsWith, Stopped
<1>2. CASE r.pc # "list"
  <2>1. PICK w : w = Work(<<>>, {}, <<>>, code)
    OBVIOUS
  <2>2. PICK j : j = [r EXCEPT !.pc = "end", !.work = w]
    OBVIOUS
  <2>3. j = Goes(r, "end", w, r.num, r.seen, r.said)
    BY <2>2 DEF Goes, JobOf
  <2> QED BY <1>2, <2>1, <2>2, <2>3 DEF EndsWith, Stopped
<1> QED BY <1>1, <1>2

LEMMA Broke ==
    ASSUME TypeOK, NEW c \in Callers, NEW r, r = run[c], NEW f, f = file, NEW s, s = trx, NEW d, d = db
    PROVE  /\ OpenFails(c) =>
                 /\ r.pc \in {"load", "open", "list"} /\ Leaves(f, s, d) /\ Quiet
                 /\ \E e \in Callers : e # c /\ At(e, "write")
                 /\ Moves(c, Stopped(r, "99"))
           /\ Kill(c) =>
                 /\ r.pc \in {"load", "count", "append", "open", "write", "list"} /\ Leaves(f, s, d)
                 /\ kills' = kills + 1 /\ UNCHANGED <<calls, overlapped, batched>>
                 /\ Moves(c, Stopped(r, "killed"))
<1>1. \A code : EndsWith(run[c], code) = Stopped(r, code)
  <2>1. r = [pc |-> r.pc, call |-> r.call, work |-> r.work, num |-> r.num, seen |-> r.seen, said |-> r.said]
    BY RunIs
  <2> QED BY <2>1, EndsStopped
<1>2. ASSUME NEW code, run' = [run EXCEPT ![c] = EndsWith(@, code)]
      PROVE  Moves(c, Stopped(r, code))
  <2>1. run' = [run EXCEPT ![c] = EndsWith(run[c], code)]
    BY <1>2
  <2>2. run' = [run EXCEPT ![c] = Stopped(r, code)]
    BY <1>1, <2>1
  <2> QED BY <2>2, CallerMoves
<1>3. ASSUME OpenFails(c)
      PROVE  /\ r.pc \in {"load", "open", "list"} /\ Leaves(f, s, d) /\ Quiet
             /\ \E e \in Callers : e # c /\ At(e, "write")
             /\ Moves(c, Stopped(r, "99"))
  <2>1. Moves(c, Stopped(r, "99"))
    BY <1>2, <1>3 DEF OpenFails
  <2> QED BY <1>3, <2>1 DEF OpenFails, Leaves
<1>4. ASSUME Kill(c)
      PROVE  /\ r.pc \in {"load", "count", "append", "open", "write", "list"} /\ Leaves(f, s, d)
             /\ kills' = kills + 1 /\ UNCHANGED <<calls, overlapped, batched>>
             /\ Moves(c, Stopped(r, "killed"))
  <2>1. Moves(c, Stopped(r, "killed"))
    BY <1>2, <1>4 DEF Kill
  <2> QED BY <1>4, <2>1 DEF Kill, InProgram, Leaves
<1> QED BY <1>3, <1>4

LEMMA Moving ==
    ASSUME TypeOK, NEW c \in Callers, NEW r, r = run[c]
    PROVE  /\ Answered(c) => Moves(c, Idle)
           /\ \A place : Goto(c, place) => Moves(c, On(r, place))
           /\ ThenList(c) => Moves(c, Goes(r, "list", NoWork, 0, NoAccounts, <<>>))
<1>1. /\ run = [e \in Callers |-> run[e]]
      /\ run[c] = [pc |-> run[c].pc, call |-> run[c].call, work |-> run[c].work, num |-> run[c].num,
                   seen |-> run[c].seen, said |-> run[c].said]
  BY RunIs
<1>2. Answered(c) => Moves(c, Idle)
  BY CallerMoves DEF Answered
<1>3. ASSUME NEW place, Goto(c, place) PROVE Moves(c, On(r, place))
  <2>1. run'[c] = [pc |-> place, call |-> run[c].call, work |-> run[c].work, num |-> run[c].num,
                   seen |-> run[c].seen, said |-> run[c].said]
    BY <1>1, <1>3 DEF Goto
  <2> QED BY <1>1, <1>3, <2>1 DEF Goto, Moves, On, Goes, JobOf
<1>4. ASSUME ThenList(c) PROVE Moves(c, Goes(r, "list", NoWork, 0, NoAccounts, <<>>))
  <2>1. run'[c] = [pc |-> "list", call |-> run[c].call, work |-> NoWork, num |-> 0,
                   seen |-> NoAccounts, said |-> <<>>]
    BY <1>1, <1>4 DEF ThenList
  <2> QED BY <1>1, <1>4, <2>1 DEF ThenList, Moves, Goes, JobOf
<1> QED BY <1>2, <1>3, <1>4

Base(acct, txs, chain) == [acct |-> acct, txs |-> txs, chain |-> chain]
EntryFor(r) == [id |-> r.num, acct |-> r.call.acct, type |-> r.call.op, amt |-> r.call.amt]
EntriesFor(said) ==
    [i \in DOMAIN said |-> [id |-> 0, acct |-> said[i].acct, type |-> said[i].type, amt |-> said[i].amt]]
CopiedTo(acct, seen) == [a \in Accounts |-> IF a \in DOMAIN seen THEN seen[a] ELSE acct[a]]

LEMMA Posted ==
    ASSUME TypeOK, NEW c \in Callers, NEW r, r = run[c], NEW f, f = file, NEW s, s = trx, NEW d, d = db,
           NEW balance, balance = Transacted(r.seen, r.call)[r.call.acct].bal
    PROVE  /\ PassOn(c) =>
                 /\ r.pc = "end" /\ r.call.op \in {"D", "W", "T"} /\ Leaves(f, s, d) /\ Quiet
                 /\ r.work.code \notin {"00", "99", "killed"} \/ (r.work.code = "00" /\ r.call.op = "T")
                 /\ Moves(c, Idle)
           /\ ChainEntry(c) =>
                 /\ r.pc = "end" /\ r.call.op \in {"D", "W"} /\ r.work.code = "00" /\ Quiet
                 /\ Leaves(f, s, Base(d.acct, d.txs, Append(d.chain, EntryFor(r))))
                 /\ Moves(c, On(r, "insert"))
           /\ InsertRow(c) =>
                 /\ r.pc = "insert" /\ Quiet
                 /\ Leaves(f, s, Base([d.acct EXCEPT ![r.call.acct].bal = balance],
                                      Append(d.txs, EntryFor(r)), d.chain))
                 /\ Moves(c, Idle)
           /\ RowRefused(c) =>
                 /\ r.pc = "insert" /\ Leaves(f, s, d) /\ Quiet
                 /\ \E i \in DOMAIN d.txs : d.txs[i].id = r.num
                 /\ Moves(c, Idle)
           /\ FallBack(c) =>
                 /\ r.pc = "end" /\ r.call.op \in {"D", "W", "T"} /\ r.work.code \in {"99", "killed"}
                 /\ file' = f /\ trx' = s /\ db' = InModeB(c) /\ Quiet
                 /\ Moves(c, Idle)
           /\ BatchDone(c) =>
                 /\ r.pc = "end" /\ r.call.op = "BATCH" /\ Leaves(f, s, d) /\ Quiet
                 /\ Moves(c, Idle)
<1>1. Answered(c) => Moves(c, Idle)
  BY Moving
<1>2. Goto(c, "insert") => Moves(c, On(r, "insert"))
  BY Moving
<1>3. d = Base(d.acct, d.txs, d.chain)
  BY DEF TypeOK, Base
<1>4. EntryOf(c) = EntryFor(r)
  BY DEF EntryOf, EntryFor
<1>5. ASSUME PassOn(c)
      PROVE  /\ r.pc = "end" /\ r.call.op \in {"D", "W", "T"} /\ Leaves(f, s, d) /\ Quiet
             /\ r.work.code \notin {"00", "99", "killed"} \/ (r.work.code = "00" /\ r.call.op = "T")
             /\ Moves(c, Idle)
  BY <1>1, <1>5 DEF PassOn, Leaves, At, Posting, Op, Code
<1>6. ASSUME ChainEntry(c)
      PROVE  /\ r.pc = "end" /\ r.call.op \in {"D", "W"} /\ r.work.code = "00" /\ Quiet
             /\ Leaves(f, s, Base(d.acct, d.txs, Append(d.chain, EntryFor(r))))
             /\ Moves(c, On(r, "insert"))
  <2>1. PICK h : h = Append(d.chain, EntryFor(r))
    OBVIOUS
  <2>2. db' = [d EXCEPT !.chain = h]
    BY <1>4, <1>6, <2>1 DEF ChainEntry
  <2>3. db' = Base(d.acct, d.txs, h)
    BY <1>3, <2>2 DEF Base
  <2> QED BY <1>2, <1>6, <2>1, <2>3 DEF ChainEntry, Leaves, At, Op, Code
<1>7. ASSUME InsertRow(c)
      PROVE  /\ r.pc = "insert" /\ Quiet
             /\ Leaves(f, s, Base([d.acct EXCEPT ![r.call.acct].bal = balance],
                                  Append(d.txs, EntryFor(r)), d.chain))
             /\ Moves(c, Idle)
  <2>1. PICK q : q = Append(d.txs, EntryFor(r))
    OBVIOUS
  <2>2. PICK acct : acct = [d.acct EXCEPT ![r.call.acct].bal = balance]
    OBVIOUS
  <2>3. PICK b : b = SetBal(d, r.call.acct, balance)
    OBVIOUS
  <2>4. b = Base(acct, d.txs, d.chain)
    BY <2>2, <2>3 DEF SetBal, Base
  <2>5. SetBal(db, run[c].call.acct, Transacted(run[c].seen, run[c].call)[run[c].call.acct].bal) = b
    BY <2>3
  <2>6. db' = [b EXCEPT !.txs = Append(@, EntryFor(r))]
    BY <1>4, <1>7, <2>5 DEF InsertRow
  <2>7. Append(b.txs, EntryFor(r)) = q
    BY <2>1, <2>4 DEF Base
  <2>8. db' = [b EXCEPT !.txs = q]
    BY <2>6, <2>7
  <2>9. db' = Base(acct, q, d.chain)
    BY <2>4, <2>8 DEF Base
  <2> QED BY <1>1, <1>7, <2>1, <2>2, <2>9 DEF InsertRow, Leaves, At
<1>8. ASSUME RowRefused(c)
      PROVE  /\ r.pc = "insert" /\ Leaves(f, s, d) /\ Quiet
             /\ \E i \in DOMAIN d.txs : d.txs[i].id = r.num
             /\ Moves(c, Idle)
  BY <1>1, <1>8 DEF RowRefused, NumberTaken, Leaves, At
<1>9. ASSUME FallBack(c)
      PROVE  /\ r.pc = "end" /\ r.call.op \in {"D", "W", "T"} /\ r.work.code \in {"99", "killed"}
             /\ file' = f /\ trx' = s /\ db' = InModeB(c) /\ Quiet
             /\ Moves(c, Idle)
  BY <1>1, <1>9 DEF FallBack, At, Posting, Op, Code
<1>10. ASSUME BatchDone(c)
       PROVE  /\ r.pc = "end" /\ r.call.op = "BATCH" /\ Leaves(f, s, d) /\ Quiet
              /\ Moves(c, Idle)
  BY <1>1, <1>10 DEF BatchDone, Leaves, At, Op
<1> QED BY <1>5, <1>6, <1>7, <1>8, <1>9, <1>10

LEMMA Followed ==
    ASSUME TypeOK, NEW c \in Callers, NEW r, r = run[c], NEW f, f = file, NEW s, s = trx, NEW d, d = db,
           NEW acct, acct = [d.acct EXCEPT ![r.call.acct].status = r.call.to]
    PROVE  /\ ChainMonthly(c) =>
                 /\ r.pc = "end" /\ r.call.op \in {"INTEREST", "FEES"} /\ r.work.code # "killed" /\ Quiet
                 /\ Leaves(f, s, Base(d.acct, d.txs, d.chain \o EntriesFor(r.said)))
                 /\ Moves(c, Goes(r, "list", NoWork, 0, NoAccounts, <<>>))
           /\ MonthlyKilled(c) =>
                 /\ r.pc = "end" /\ r.work.code = "killed" /\ Leaves(f, s, d) /\ Quiet
                 /\ r.call.op \in {"INTEREST", "FEES"}
                 /\ Moves(c, Idle)
           /\ Sync(c) =>
                 /\ r.pc = "sync" /\ Quiet
                 /\ Leaves(f, s, Base(CopiedTo(d.acct, r.seen), d.txs, d.chain))
                 /\ Moves(c, IF r.call.op = "UPDATE" THEN On(r, "status") ELSE Idle)
           /\ UpdateDone(c) =>
                 /\ r.pc = "end" /\ r.call.op = "UPDATE" /\ Leaves(f, s, d) /\ Quiet
                 /\ Moves(c, IF r.work.code = "killed" THEN On(r, "status")
                             ELSE Goes(r, "list", NoWork, 0, NoAccounts, <<>>))
           /\ SetStatus(c) =>
                 /\ r.pc = "status" /\ Leaves(f, s, Base(acct, d.txs, d.chain)) /\ Quiet
                 /\ Moves(c, Goes(r, "truncate", r.work, r.num, acct, r.said))
           /\ TruncateDat(c) =>
                 /\ r.pc = "truncate" /\ Leaves(NoAccounts, s, d) /\ Quiet
                 /\ Moves(c, On(r, "rewrite"))
           /\ WriteDat(c) =>
                 /\ r.pc = "rewrite" /\ Leaves(r.seen, s, d) /\ Quiet
                 /\ Moves(c, On(r, "log"))
           /\ LogStatus(c) =>
                 /\ r.pc = "log" /\ Quiet
                 /\ Leaves(f, s, Base(d.acct, d.txs,
                                      Append(d.chain, [id |-> 0, acct |-> r.call.acct, type |-> "S", amt |-> 0])))
                 /\ Moves(c, Idle)
<1>1. Answered(c) => Moves(c, Idle)
  BY Moving
<1>2. \A place : Goto(c, place) => Moves(c, On(r, place))
  BY Moving
<1>3. ThenList(c) => Moves(c, Goes(r, "list", NoWork, 0, NoAccounts, <<>>))
  BY Moving
<1>4. d = [acct |-> d.acct, txs |-> d.txs, chain |-> d.chain]
  BY DEF TypeOK
<1>5. ASSUME ChainMonthly(c)
      PROVE  /\ r.pc = "end" /\ r.call.op \in {"INTEREST", "FEES"} /\ r.work.code # "killed" /\ Quiet
             /\ Leaves(f, s, Base(d.acct, d.txs, d.chain \o EntriesFor(r.said)))
             /\ Moves(c, Goes(r, "list", NoWork, 0, NoAccounts, <<>>))
  <2>1. PICK h : h = d.chain \o EntriesFor(r.said)
    OBVIOUS
  <2>2. db' = [d EXCEPT !.chain = d.chain \o EntriesFor(r.said)]
    BY <1>5 DEF ChainMonthly, EntriesFor
  <2>3. db' = [d EXCEPT !.chain = h]
    BY <2>1, <2>2
  <2>4. db' = Base(d.acct, d.txs, h)
    BY <1>4, <2>3 DEF Base
  <2> QED BY <1>3, <1>5, <2>1, <2>4 DEF ChainMonthly, Leaves, At, Op, Code
<1>6. ASSUME MonthlyKilled(c)
      PROVE  /\ r.pc = "end" /\ r.work.code = "killed" /\ Leaves(f, s, d) /\ Quiet
             /\ r.call.op \in {"INTEREST", "FEES"}
             /\ Moves(c, Idle)
  BY <1>1, <1>6 DEF MonthlyKilled, Leaves, At, Op, Code
<1>7. ASSUME Sync(c)
      PROVE  /\ r.pc = "sync" /\ Quiet
             /\ Leaves(f, s, Base(CopiedTo(d.acct, r.seen), d.txs, d.chain))
             /\ Moves(c, IF r.call.op = "UPDATE" THEN On(r, "status") ELSE Idle)
  <2>1. PICK q : q = CopiedTo(d.acct, r.seen)
    OBVIOUS
  <2>2. db' = [d EXCEPT !.acct = CopiedTo(d.acct, r.seen)]
    BY <1>7 DEF Sync, CopiedTo
  <2>3. db' = [d EXCEPT !.acct = q]
    BY <2>1, <2>2
  <2>4. db' = Base(q, d.txs, d.chain)
    BY <1>4, <2>3 DEF Base
  <2> QED BY <1>1, <1>2, <1>7, <2>1, <2>4 DEF Sync, Leaves, At, Op
<1>8. ASSUME UpdateDone(c)
      PROVE  /\ r.pc = "end" /\ r.call.op = "UPDATE" /\ Leaves(f, s, d) /\ Quiet
             /\ Moves(c, IF r.work.code = "killed" THEN On(r, "status")
                         ELSE Goes(r, "list", NoWork, 0, NoAccounts, <<>>))
  BY <1>2, <1>3, <1>8 DEF UpdateDone, Leaves, At, Op, Code
<1>9. ASSUME SetStatus(c)
      PROVE  /\ r.pc = "status" /\ Leaves(f, s, Base(acct, d.txs, d.chain)) /\ Quiet
             /\ Moves(c, Goes(r, "truncate", r.work, r.num, acct, r.said))
  <2>1. db' = [d EXCEPT !.acct = acct]
    BY <1>9 DEF SetStatus
  <2>2. db' = Base(acct, d.txs, d.chain)
    BY <1>4, <2>1 DEF Base
  <2>3. run' = [run EXCEPT ![c].pc = "truncate", ![c].seen = acct]
    BY <1>9, <2>2 DEF SetStatus, Base
  <2>4. /\ run = [e \in Callers |-> run[e]]
        /\ run[c] = [pc |-> run[c].pc, call |-> run[c].call, work |-> run[c].work, num |-> run[c].num,
                     seen |-> run[c].seen, said |-> run[c].said]
    BY RunIs
  <2>5. run'[c] = [pc |-> "truncate", call |-> run[c].call, work |-> run[c].work, num |-> run[c].num,
                   seen |-> acct, said |-> run[c].said]
    BY <2>3, <2>4
  <2>6. Moves(c, Goes(r, "truncate", r.work, r.num, acct, r.said))
    BY <2>3, <2>4, <2>5 DEF Moves, Goes, JobOf
  <2> QED BY <1>9, <2>2, <2>6 DEF SetStatus, Leaves, At
<1>10. ASSUME TruncateDat(c)
       PROVE  r.pc = "truncate" /\ Leaves(NoAccounts, s, d) /\ Quiet /\ Moves(c, On(r, "rewrite"))
  BY <1>2, <1>10 DEF TruncateDat, Leaves, At
<1>11. ASSUME WriteDat(c)
       PROVE  r.pc = "rewrite" /\ Leaves(r.seen, s, d) /\ Quiet /\ Moves(c, On(r, "log"))
  BY <1>2, <1>11 DEF WriteDat, Leaves, At
<1>12. ASSUME LogStatus(c)
       PROVE  /\ r.pc = "log" /\ Quiet
              /\ Leaves(f, s, Base(d.acct, d.txs,
                                   Append(d.chain, [id |-> 0, acct |-> r.call.acct, type |-> "S", amt |-> 0])))
              /\ Moves(c, Idle)
  <2>1. PICK h : h = Append(d.chain, [id |-> 0, acct |-> r.call.acct, type |-> "S", amt |-> 0])
    OBVIOUS
  <2>2. db' = [d EXCEPT !.chain = h]
    BY <1>12, <2>1 DEF LogStatus
  <2>3. db' = Base(d.acct, d.txs, h)
    BY <1>4, <2>2 DEF Base
  <2> QED BY <1>1, <1>12, <2>1, <2>3 DEF LogStatus, Leaves, At
<1> QED BY <1>5, <1>6, <1>7, <1>8, <1>9, <1>10, <1>11, <1>12

-----------------------------------------------------------------------------
(* Types                                                                   *)

LEMMA OnwardJob ==
    ASSUME NEW r, IsJob(r), r.pc # "idle", NEW w, IsWork(w), NEW num \in Nat, NEW seen, IsTable(seen),
           NEW said \in Seq(Record), r.call.op \in {"INTEREST", "FEES"} => Postings(w.before) /\ Postings(w.after) /\ Postings(said),
           NEW place \in {"count", Onward(w)}
    PROVE  IsJob(Goes(r, place, w, num, seen, said))
<1> DEFINE j == Goes(r, place, w, num, seen, said)
<1>1. /\ j.pc = place /\ j.call = r.call /\ j.work = w /\ j.num = num /\ j.seen = seen /\ j.said = said
      /\ j = [pc |-> j.pc, call |-> j.call, work |-> j.work, num |-> j.num, seen |-> j.seen, said |-> j.said]
  BY DEF Goes, JobOf
<1>2. r.call \in Calls
  BY DEF IsJob
<1>3. place \in {"count", "append", "open", "end"}
      /\ (place = "append" => w.before # <<>>) /\ (place = "open" => w.save # {})
  BY DEF Onward
<1> HIDE DEF j, IsWork, IsTable
<1>4. IsJob(j)
  BY <1>1, <1>2, <1>3 DEF IsJob
<1> QED BY <1>4 DEF j

LEMMA StoppedJob ==
    ASSUME NEW r, IsJob(r), r.pc # "idle", NEW code \in {"99", "killed"}
    PROVE  IsJob(Stopped(r, code))
<1>1. r.call \in Calls /\ IsWork(r.work) /\ r.num \in Nat /\ r.said \in Seq(Record) /\ IsTable(r.seen)
  BY DEF IsJob
<1>2. CASE r.pc = "list"
  <2> DEFINE j == Goes(r, "sync", r.work, r.num, NoAccounts, r.said)
  <2>1. /\ j.pc = "sync" /\ j.call = r.call /\ j.work = r.work /\ j.num = r.num /\ j.seen = NoAccounts
        /\ j.said = r.said
        /\ j = [pc |-> j.pc, call |-> j.call, work |-> j.work, num |-> j.num, seen |-> j.seen, said |-> j.said]
    BY DEF Goes, JobOf
  <2>2. r.call.op \in {"INTEREST", "FEES", "UPDATE"}
        /\ (r.call.op \in {"INTEREST", "FEES"} => Postings(r.work.before) /\ Postings(r.work.after) /\ Postings(r.said))
    BY <1>2 DEF IsJob
  <2> HIDE DEF j
  <2>3. IsJob(j)
    BY <1>1, <2>1, <2>2, IdleJob DEF IsJob
  <2> QED BY <1>2, <2>3 DEF Stopped, j
<1>3. CASE r.pc # "list"
  <2> DEFINE w == Work(<<>>, {}, <<>>, code)
             j == Goes(r, "end", w, r.num, r.seen, r.said)
  <2>1. /\ j.pc = "end" /\ j.call = r.call /\ j.work = w /\ j.num = r.num /\ j.seen = r.seen
        /\ j.said = r.said
        /\ j = [pc |-> j.pc, call |-> j.call, work |-> j.work, num |-> j.num, seen |-> j.seen, said |-> j.said]
    BY DEF Goes, JobOf
  <2>2. IsWork(w)
    BY NoRecord, WorkIs
  <2>3. Postings(w.before) /\ Postings(w.after)
    BY NoRecord, WorkFields DEF Postings
  <2>4. r.call.op \in {"INTEREST", "FEES"} => Postings(r.said)
    BY DEF IsJob
  <2> HIDE DEF j, w
  <2>5. IsJob(j)
    BY <1>1, <2>1, <2>2, <2>3, <2>4 DEF IsJob
  <2> QED BY <1>3, <2>5 DEF Stopped, j, w
<1> QED BY <1>2, <1>3

(* A caller in another place of the bridge.                                *)
LEMMA OnJob ==
    ASSUME NEW r, IsJob(r), r.call \in Calls, NEW place, NEW seen, IsTable(seen),
           \/ place = "write" /\ r.pc = "open"
           \/ place = "sync" /\ r.pc = "list"
           \/ place = "insert" /\ r.call.op \in {"D", "W"} /\ r.work.code = "00"
           \/ place \in {"status", "log"} /\ r.call.op = "UPDATE"
           \/ place \in {"truncate", "rewrite"} /\ r.call.op = "UPDATE" /\ DOMAIN seen = Accounts
    PROVE  IsJob(Goes(r, place, r.work, r.num, seen, r.said))
<1> DEFINE j == Goes(r, place, r.work, r.num, seen, r.said)
<1>1. /\ j.pc = place /\ j.call = r.call /\ j.work = r.work /\ j.num = r.num /\ j.seen = seen /\ j.said = r.said
      /\ j = [pc |-> j.pc, call |-> j.call, work |-> j.work, num |-> j.num, seen |-> j.seen, said |-> j.said]
  BY DEF Goes, JobOf
<1> HIDE DEF j, IsWork, IsTable
<1>2. IsJob(j)
  BY <1>1 DEF IsJob
<1> QED BY <1>2 DEF j

LEMMA ListJob ==
    ASSUME NEW r, r.call \in Calls, r.call.op \in {"INTEREST", "FEES", "UPDATE"}
    PROVE  IsJob(Goes(r, "list", NoWork, 0, NoAccounts, <<>>))
<1> DEFINE j == Goes(r, "list", NoWork, 0, NoAccounts, <<>>)
<1>1. /\ j.pc = "list" /\ j.call = r.call /\ j.work = NoWork /\ j.num = 0 /\ j.seen = NoAccounts /\ j.said = <<>>
      /\ j = [pc |-> j.pc, call |-> j.call, work |-> j.work, num |-> j.num, seen |-> j.seen, said |-> j.said]
  BY DEF Goes, JobOf
<1>2. Postings(<<>>) /\ NoWork.before = <<>> /\ NoWork.after = <<>> /\ <<>> \in Seq(Record)
  BY NoRecord DEF Postings, NoWork, Work
<1> HIDE DEF j
<1>3. IsJob(j)
  BY <1>1, <1>2, IdleJob DEF IsJob
<1> QED BY <1>3 DEF j

LEMMA StartedJob ==
    ASSUME NEW k \in Calls
    PROVE  IsJob(JobOf("load", k, NoWork, 0, NoAccounts, <<>>))
<1> DEFINE j == JobOf("load", k, NoWork, 0, NoAccounts, <<>>)
<1>1. /\ j.pc = "load" /\ j.call = k /\ j.work = NoWork /\ j.num = 0 /\ j.seen = NoAccounts /\ j.said = <<>>
      /\ j = [pc |-> j.pc, call |-> j.call, work |-> j.work, num |-> j.num, seen |-> j.seen, said |-> j.said]
  BY DEF JobOf
<1>2. Postings(<<>>) /\ NoWork.before = <<>> /\ NoWork.after = <<>> /\ <<>> \in Seq(Record)
  BY NoRecord DEF Postings, NoWork, Work
<1> HIDE DEF j
<1>3. IsJob(j)
  BY <1>1, <1>2, IdleJob DEF IsJob
<1> QED BY <1>3 DEF j

(* Databases.                                                              *)
IsBase(d) ==
    /\ d = Base(d.acct, d.txs, d.chain)
    /\ d.acct \in [Accounts -> Account] /\ d.txs \in Seq(Entry) /\ d.chain \in Seq(Entry)

LEMMA BaseIs ==
    ASSUME NEW acct \in [Accounts -> Account], NEW txs \in Seq(Entry), NEW chain \in Seq(Entry)
    PROVE  /\ IsBase(Base(acct, txs, chain))
           /\ Base(acct, txs, chain).acct = acct /\ Base(acct, txs, chain).txs = txs
           /\ Base(acct, txs, chain).chain = chain
BY DEF IsBase, Base

LEMMA BaseType == \A d : IsBase(d) <=> d \in [acct : [Accounts -> Account], txs : Seq(Entry), chain : Seq(Entry)]
<1> HIDE DEF Account, Entry
<1> QED BY DEF IsBase, Base

LEMMA StandKept ==
    ASSUME TypeOK, NEW c \in Callers, NEW r, Moves(c, r), IsJob(r), IsTable(file'), trx' \in Seq(Record),
           IsBase(db'), UNCHANGED <<calls, overlapped, batched>>, kills' \in {kills, kills + 1}
    PROVE  TypeOK'
<1>1. db' \in [acct : [Accounts -> Account], txs : Seq(Entry), chain : Seq(Entry)]
  BY BaseType
<1>2. calls' \in Nat /\ kills' \in Nat /\ overlapped' \in BOOLEAN /\ batched' \in BOOLEAN
  BY DEF TypeOK
<1> QED BY <1>1, <1>2, TypeKept

LEMMA AppendNumbers ==
    ASSUME NEW q, q \in Seq(Entry), NEW e \in Entry
    PROVE  /\ Append(q, e) \in Seq(Entry)
           /\ NumbersIn(Append(q, e)) = NumbersIn(q) \cup ({e.id} \ {0})
<1>1. PICK p : p = Append(q, e)
  OBVIOUS
<1> HIDE DEF Entry
<1>2. /\ p \in Seq(Entry) /\ Len(q) \in Nat /\ DOMAIN q = 1 .. Len(q) /\ DOMAIN p = 1 .. (Len(q) + 1)
      /\ p[Len(q) + 1] = e /\ \A i \in 1 .. Len(q) : p[i] = q[i]
  BY <1>1
<1>3. \A x \in NumbersIn(p) : x \in NumbersIn(q) \cup ({e.id} \ {0})
  <2> SUFFICES ASSUME NEW x \in NumbersIn(p)
               PROVE  x \in NumbersIn(q) \cup ({e.id} \ {0})
    OBVIOUS
  <2>1. PICK i \in DOMAIN p : x = p[i].id /\ x # 0
    BY DEF NumbersIn
  <2>2. i = Len(q) + 1 \/ i \in DOMAIN q
    BY <1>2
  <2> QED BY <1>2, <2>1, <2>2 DEF NumbersIn
<1>4. \A x \in NumbersIn(q) : x \in NumbersIn(p)
  <2> SUFFICES ASSUME NEW x \in NumbersIn(q)
               PROVE  x \in NumbersIn(p)
    OBVIOUS
  <2>1. PICK i \in DOMAIN q : x = q[i].id /\ x # 0
    BY DEF NumbersIn
  <2>2. i \in DOMAIN p /\ p[i] = q[i]
    BY <1>2
  <2> QED BY <2>1, <2>2 DEF NumbersIn
<1>5. \A x \in {e.id} \ {0} : x \in NumbersIn(p)
  <2>1. Len(q) + 1 \in DOMAIN p
    BY <1>2
  <2> QED BY <1>2, <2>1 DEF NumbersIn
<1> QED BY <1>1, <1>2, <1>3, <1>4, <1>5

LEMMA LoggedKeeps ==
    ASSUME NEW d, IsBase(d), NEW row, row \in Entry, NEW e, e = Logged(d, row)
    PROVE  /\ IsBase(e) /\ e.acct = d.acct
           /\ NumbersIn(e.txs) = NumbersIn(d.txs) \cup ({row.id} \ {0})
           /\ NumbersIn(e.chain) = NumbersIn(d.chain) \cup ({row.id} \ {0})
<1>1. d.acct \in [Accounts -> Account] /\ d.txs \in Seq(Entry) /\ d.chain \in Seq(Entry)
  BY DEF IsBase
<1>2. PICK txs : txs = Append(d.txs, row)
  OBVIOUS
<1>3. PICK chain : chain = Append(d.chain, row)
  OBVIOUS
<1>4. /\ txs \in Seq(Entry) /\ NumbersIn(txs) = NumbersIn(d.txs) \cup ({row.id} \ {0})
      /\ chain \in Seq(Entry) /\ NumbersIn(chain) = NumbersIn(d.chain) \cup ({row.id} \ {0})
  BY <1>1, <1>2, <1>3, AppendNumbers
<1>5. e = Base(d.acct, txs, chain)
  BY <1>2, <1>3 DEF Logged, Base
<1>6. e.acct = d.acct /\ e.txs = txs /\ e.chain = chain /\ IsBase(e)
  BY <1>1, <1>4, <1>5, BaseIs
<1> QED BY <1>4, <1>6

LEMMA SetBalKeeps ==
    ASSUME NEW d, IsBase(d), NEW a \in Accounts, NEW b \in Int, NEW e, e = SetBal(d, a, b)
    PROVE  /\ IsBase(e) /\ e.txs = d.txs /\ e.chain = d.chain
           /\ \A x \in Accounts : e.acct[x].bal = IF x = a THEN b ELSE d.acct[x].bal
           /\ Covered(d.acct) /\ b >= 0 => Covered(e.acct)
<1>1. d.acct \in [Accounts -> Account] /\ d.txs \in Seq(Entry) /\ d.chain \in Seq(Entry)
  BY DEF IsBase
<1>2. PICK acct : acct = [d.acct EXCEPT ![a].bal = b]
  OBVIOUS
<1>3. acct \in [Accounts -> Account]
      /\ \A x \in Accounts : acct[x].bal = IF x = a THEN b ELSE d.acct[x].bal
  BY <1>1, <1>2 DEF Account
<1>4. e = Base(acct, d.txs, d.chain)
  BY <1>2 DEF SetBal, Base
<1>5. e.acct = acct /\ e.txs = d.txs /\ e.chain = d.chain /\ IsBase(e)
  BY <1>1, <1>3, <1>4, BaseIs
<1>6. Covered(d.acct) /\ b >= 0 => Covered(acct)
  BY <1>1, <1>3 DEF Covered
<1> QED BY <1>3, <1>5, <1>6

LEMMA NewRowIs ==
    ASSUME NEW d, IsBase(d), NEW a \in Accounts, NEW type \in {"D", "W", "T"}, NEW amt \in Nat,
           NEW row, row = NewRow(d, a, type, amt)
    PROVE  row \in Entry
<1>1. d.txs \in Seq(Entry)
  BY DEF IsBase
<1>2. /\ Len(d.txs) \in Nat /\ DOMAIN d.txs = 1 .. Len(d.txs)
      /\ \A i \in DOMAIN d.txs : d.txs[i] \in Entry
  BY <1>1
<1>3. \A i \in DOMAIN d.txs : d.txs[i].id \in Nat
  BY <1>2 DEF Entry
<1>4. LastSeq(d.txs) \in Nat
  BY <1>2, <1>3, LastSeqType
<1> QED BY <1>4 DEF NewRow, Entry

(* The posting in Mode B: it gives the chain and the transactions table    *)
(* the same numbers and overdraws nobody.                                  *)
LEMMA ModeB ==
    ASSUME NEW c \in Callers, NEW r, r = run[c], r.call \in Calls, r.call.op \in {"D", "W", "T"},
           NEW d, d = db, IsBase(d), NEW e, e = InModeB(c)
    PROVE  /\ IsBase(e) /\ (Covered(d.acct) => Covered(e.acct))
           /\ \E X : NumbersIn(e.txs) = NumbersIn(d.txs) \cup X /\ NumbersIn(e.chain) = NumbersIn(d.chain) \cup X
<1>1. PICK k : k = r.call
  OBVIOUS
<1>2. k.op \in {"D", "W", "T"} /\ k.amt \in Nat
  BY <1>1, CallFields
<1>3. PICK q : q = [acct |-> k.acct, type |-> k.op, amt |-> k.amt]
  OBVIOUS
<1>4. CASE k.acct \notin Accounts \/ Decision(d, q) # "00"
  <2>1. e = d
    BY <1>1, <1>3, <1>4 DEF InModeB
  <2>2. NumbersIn(e.txs) = NumbersIn(d.txs) \cup {} /\ NumbersIn(e.chain) = NumbersIn(d.chain) \cup {}
    BY <2>1
  <2> QED BY <2>1, <2>2
<1>5. CASE k.acct \in Accounts /\ Decision(d, q) = "00"
  <2>1. q.acct = k.acct /\ q.type = k.op /\ q.amt = k.amt
    BY <1>3
  <2>2. d.acct[k.acct].bal \in Int
    BY <1>5 DEF IsBase, Account
  <2>3. k.op \in {"W", "T"} => d.acct[k.acct].bal >= k.amt
    BY <1>2, <1>5, <2>1, <2>2 DEF Decision
  <2>4. BalanceAfter(d, q) = d.acct[k.acct].bal + IF k.op = "D" THEN k.amt ELSE - k.amt
    BY <1>2, <2>1 DEF BalanceAfter
  <2>5. PICK b : b = BalanceAfter(d, q)
    OBVIOUS
  <2>6. b \in Int /\ (d.acct[k.acct].bal >= 0 => b >= 0)
    BY <1>2, <2>2, <2>3, <2>4, <2>5
  <2>7. PICK row : row = NewRow(d, k.acct, k.op, k.amt)
    OBVIOUS
  <2>8. row \in Entry
    BY <1>2, <1>5, <2>7, NewRowIs
  <2>9. PICK logged : logged = Logged(d, row)
    OBVIOUS
  <2>10. /\ IsBase(logged) /\ logged.acct = d.acct
         /\ NumbersIn(logged.txs) = NumbersIn(d.txs) \cup ({row.id} \ {0})
         /\ NumbersIn(logged.chain) = NumbersIn(d.chain) \cup ({row.id} \ {0})
    BY <2>8, <2>9, LoggedKeeps
  <2>11. PICK debited : debited = SetBal(logged, k.acct, b)
    OBVIOUS
  <2>12. /\ IsBase(debited) /\ debited.txs = logged.txs /\ debited.chain = logged.chain
         /\ Covered(logged.acct) /\ b >= 0 => Covered(debited.acct)
    BY <1>5, <2>6, <2>10, <2>11, SetBalKeeps
  <2>13. Covered(d.acct) => Covered(debited.acct)
    <3>1. Covered(d.acct) => d.acct[k.acct].bal >= 0
      BY <1>5 DEF Covered, IsBase
    <3> QED BY <2>6, <2>10, <2>12, <3>1
  <2>14. CASE k.op = "T" /\ k.to \in Accounts
    <3>1. debited.acct[k.to].bal \in Int
      BY <2>12, <2>14 DEF IsBase, Account
    <3>2. PICK n : n = debited.acct[k.to].bal + k.amt
      OBVIOUS
    <3>3. n \in Int /\ (Covered(debited.acct) => n >= 0)
      <4>1. Covered(debited.acct) => debited.acct[k.to].bal >= 0
        BY <2>12, <2>14 DEF Covered, IsBase
      <4> QED BY <1>2, <3>1, <3>2, <4>1
    <3>4. PICK credited : credited = SetBal(debited, k.to, n)
      OBVIOUS
    <3>5. /\ IsBase(credited) /\ credited.txs = debited.txs /\ credited.chain = debited.chain
          /\ Covered(debited.acct) /\ n >= 0 => Covered(credited.acct)
      BY <2>12, <2>14, <3>3, <3>4, SetBalKeeps
    <3>6. PICK second : second = NewRow(debited, k.to, "D", k.amt)
      OBVIOUS
    <3>7. second \in Entry
      BY <1>2, <2>12, <2>14, <3>6, NewRowIs
    <3>8. e = Logged(credited, second)
      BY <1>1, <1>3, <1>5, <2>5, <2>7, <2>9, <2>11, <2>14, <3>2, <3>4, <3>6 DEF InModeB
    <3>9. /\ IsBase(e) /\ e.acct = credited.acct
          /\ NumbersIn(e.txs) = NumbersIn(credited.txs) \cup ({second.id} \ {0})
          /\ NumbersIn(e.chain) = NumbersIn(credited.chain) \cup ({second.id} \ {0})
      BY <3>5, <3>7, <3>8, LoggedKeeps
    <3>10. PICK X : X = ({row.id} \ {0}) \cup ({second.id} \ {0})
      OBVIOUS
    <3>11. NumbersIn(e.txs) = NumbersIn(d.txs) \cup X /\ NumbersIn(e.chain) = NumbersIn(d.chain) \cup X
      BY <2>10, <2>12, <3>5, <3>9, <3>10
    <3> QED BY <2>13, <3>3, <3>5, <3>9, <3>11
  <2>15. CASE ~ (k.op = "T" /\ k.to \in Accounts)
    <3>1. e = debited
      BY <1>1, <1>3, <1>5, <2>5, <2>7, <2>9, <2>11, <2>15 DEF InModeB
    <3> QED BY <2>10, <2>12, <2>13, <3>1
  <2> QED BY <2>14, <2>15
<1> QED BY <1>4, <1>5

-----------------------------------------------------------------------------
(* Funds                                                                   *)

FundsOf(r) == FeeLines = {} => Covered(r.seen) /\ \A t \in r.work.save : Covered(t)

LEMMA FundsSays ==
    ASSUME FundsInv, NEW c \in Callers, NEW r, r = run[c], NEW f, f = file, NEW s, s = trx, NEW d, d = db
    PROVE  /\ TypeOK /\ IsJob(r) /\ Decided(r) /\ FundsOf(r)
           /\ IsTable(f) /\ s \in Seq(Record) /\ IsBase(d)
           /\ FeeLines = {} => Covered(f) /\ Covered(d.acct)
<1>1. TypeOK /\ NeverOverdrawn /\ Decided(run[c])
  BY DEF FundsInv
<1>2. IsJob(run[c]) /\ IsTable(file) /\ trx \in Seq(Record)
      /\ db \in [acct : [Accounts -> Account], txs : Seq(Entry), chain : Seq(Entry)]
  BY <1>1 DEF TypeOK
<1>3. IsBase(d)
  BY <1>2, BaseType
<1> QED BY <1>1, <1>2, <1>3 DEF NeverOverdrawn, FundsOf

LEMMA FundsKept ==
    ASSUME FundsInv, NEW c \in Callers, NEW r, Moves(c, r), IsJob(r), IsTable(file'), trx' \in Seq(Record),
           IsBase(db'), UNCHANGED <<calls, overlapped, batched>>, kills' \in {kills, kills + 1},
           Decided(r), FundsOf(r), FeeLines = {} => Covered(file') /\ Covered(db'.acct)
    PROVE  FundsInv'
<1>1. TypeOK'
  BY StandKept DEF FundsInv
<1>2. \A e \in Callers : run'[e] = IF e = c THEN r ELSE run[e]
  BY DEF Moves
<1>3. \A e \in Callers : Decided(run'[e])
  BY <1>2 DEF FundsInv
<1>4. \A e \in Callers : FundsOf(run'[e])
  BY <1>2 DEF FundsInv, NeverOverdrawn, FundsOf
<1>5. NeverOverdrawn'
  BY <1>4 DEF NeverOverdrawn, FundsOf
<1> QED BY <1>1, <1>3, <1>5 DEF FundsInv

LEMMA CallFunds == ASSUME FundsInv, NEW c \in Callers, NEW k \in Calls, Call(c, k) PROVE FundsInv'
<1>1. PICK r : r = run[c]
  OBVIOUS
<1>2. PICK f : f = file
  OBVIOUS
<1>3. PICK s : s = trx
  OBVIOUS
<1>4. PICK d : d = db
  OBVIOUS
<1>5. /\ TypeOK /\ IsTable(f) /\ s \in Seq(Record) /\ IsBase(d)
      /\ FeeLines = {} => Covered(f) /\ Covered(d.acct)
  BY <1>1, <1>2, <1>3, <1>4, FundsSays
<1>6. PICK q : q = JobOf("load", k, NoWork, 0, NoAccounts, <<>>)
  OBVIOUS
<1>7. /\ Leaves(f, s, d) /\ kills' = kills /\ calls' = calls + 1 /\ Moves(c, q)
      /\ overlapped' = (overlapped \/ \E e \in Callers : ~At(e, "idle"))
      /\ batched' = (batched \/ k.op = "BATCH")
  BY <1>1, <1>2, <1>3, <1>4, <1>5, <1>6, Called
<1>8. IsJob(q) /\ q.work.code = "" /\ q.seen = NoAccounts /\ q.work.save = {}
  BY <1>6, StartedJob DEF JobOf, NoWork, Work
<1>9. calls' \in Nat /\ kills' \in Nat /\ overlapped' \in BOOLEAN /\ batched' \in BOOLEAN
  BY <1>5, <1>7 DEF TypeOK
<1>10. db' \in [acct : [Accounts -> Account], txs : Seq(Entry), chain : Seq(Entry)]
  BY <1>5, <1>7, BaseType DEF Leaves
<1>11. TypeOK'
  BY <1>5, <1>7, <1>8, <1>9, <1>10, TypeKept DEF Leaves
<1>12. \A e \in Callers : run'[e] = IF e = c THEN q ELSE run[e]
  BY <1>7 DEF Moves
<1>13. Decided(q) /\ FundsOf(q)
  BY <1>8 DEF Decided, FundsOf, Covered, NoAccounts
<1>14. \A e \in Callers : Decided(run'[e])
  BY <1>12, <1>13 DEF FundsInv
<1>15. \A e \in Callers : FundsOf(run'[e])
  BY <1>12, <1>13 DEF FundsInv, NeverOverdrawn, FundsOf
<1>16. NeverOverdrawn'
  BY <1>5, <1>7, <1>15 DEF NeverOverdrawn, FundsOf, Leaves
<1> QED BY <1>11, <1>14, <1>16 DEF FundsInv

LEMMA NoPostings == Postings(<<>>)
BY NoRecord DEF Postings

LEMMA GoesFields ==
    ASSUME NEW r, NEW place, NEW work, NEW num, NEW seen, NEW said
    PROVE  LET q == Goes(r, place, work, num, seen, said)
           IN  /\ q.pc = place /\ q.call = r.call /\ q.work = work /\ q.num = num /\ q.seen = seen /\ q.said = said
BY DEF Goes, JobOf

LEMMA WorkParts ==
    ASSUME NEW r, IsJob(r)
    PROVE  /\ IsWork(r.work) /\ r.work.before \in Seq(Record) /\ r.work.after \in Seq(Record)
           /\ r.num \in Nat /\ IsTable(r.seen) /\ r.said \in Seq(Record) /\ (r.pc # "idle" => r.call \in Calls)
           /\ \A t \in r.work.save : IsTable(t)
           /\ r.work.code \in {"", "00", "01", "02", "03", "04", "99", "killed"}
           /\ r.call.op \in {"INTEREST", "FEES"} => Postings(r.work.before) /\ Postings(r.work.after) /\ Postings(r.said)
BY DEF IsJob, IsWork

LEMMA TailOf ==
    ASSUME NEW S, NEW b \in Seq(S), b # <<>>, NEW u, u = Tail(b)
    PROVE  /\ u \in Seq(S) /\ Len(b) \in Nat /\ Len(b) > 0 /\ Len(u) = Len(b) - 1
           /\ DOMAIN b = 1 .. Len(b) /\ DOMAIN u = 1 .. Len(u)
           /\ Head(b) = b[1] /\ b[1] \in S /\ 1 \in DOMAIN b
           /\ \A i \in DOMAIN u : u[i] = b[i + 1] /\ i + 1 \in DOMAIN b
<1>1. Len(b) \in Nat /\ DOMAIN b = 1 .. Len(b) /\ Len(b) > 0
  BY EmptySeq
<1>2. u \in Seq(S) /\ Len(u) = Len(b) - 1
  BY <1>1
<1>3. \A i \in 1 .. Len(u) : u[i] = b[i + 1]
  BY <1>1
<1> QED BY <1>1, <1>2, <1>3

LEMMA AppendOf ==
    ASSUME NEW S, NEW q \in Seq(S), NEW x \in S, NEW p, p = Append(q, x)
    PROVE  /\ p \in Seq(S) /\ Len(q) \in Nat /\ Len(p) = Len(q) + 1
           /\ DOMAIN q = 1 .. Len(q) /\ DOMAIN p = 1 .. (Len(q) + 1)
           /\ p[Len(q) + 1] = x /\ p # <<>>
           /\ \A i \in DOMAIN q : p[i] = q[i] /\ i \in DOMAIN p
OBVIOUS

LEMMA Stamped ==
    ASSUME NEW head \in Record, NEW n \in Nat, NEW num, num = IF head.code = "00" THEN n + 1 ELSE n,
           NEW record, record = IF head.code = "00" THEN [head EXCEPT !.id = num] ELSE head
    PROVE  /\ num \in Nat /\ record \in Record
           /\ record.acct = head.acct /\ record.type = head.type /\ record.amt = head.amt
           /\ record.code = head.code /\ record.id = IF head.code = "00" THEN num ELSE head.id
<1>1. /\ head = [id |-> head.id, acct |-> head.acct, type |-> head.type, amt |-> head.amt, code |-> head.code]
      /\ head.acct \in Accounts \cup Words /\ head.type \in {"-", "T", "I", "F"} /\ head.amt \in Int
      /\ head.code \in {"00", "01", "02", "03", "04"} /\ head.id \in Nat
  <2> HIDE DEF Words
  <2> QED BY DEF Record
<1>2. CASE head.code = "00"
  <2>1. num \in Nat /\ record = [head EXCEPT !.id = num]
    BY <1>2
  <2>2. record = [id |-> num, acct |-> head.acct, type |-> head.type, amt |-> head.amt, code |-> head.code]
    BY <1>1, <2>1
  <2> HIDE DEF Words
  <2> QED BY <1>1, <1>2, <2>1, <2>2 DEF Record
<1>3. CASE head.code # "00"
  BY <1>3
<1> QED BY <1>2, <1>3

LEMMA AppendPostings ==
    ASSUME NEW q \in Seq(Record), Postings(q), NEW x \in Record, x.acct \in Accounts, x.type \in {"I", "F"},
           NEW p, p = Append(q, x)
    PROVE  Postings(p)
<1>1. /\ DOMAIN p = 1 .. (Len(q) + 1) /\ Len(q) \in Nat /\ DOMAIN q = 1 .. Len(q)
      /\ p[Len(q) + 1] = x /\ \A i \in DOMAIN q : p[i] = q[i]
  <2> HIDE DEF Record
  <2> QED BY AppendOf
<1> QED BY <1>1 DEF Postings

LEMMA Appending ==
    ASSUME NEW r, IsJob(r), r.pc = "append", NEW head, NEW num, NEW record, NEW left,
           AppendsRecord(r, head, num, record, left)
    PROVE  /\ IsWork(left) /\ num \in Nat /\ record \in Record
           /\ num = IF head.code = "00" THEN r.num + 1 ELSE r.num
           /\ record.acct = head.acct /\ record.type = head.type /\ record.amt = head.amt /\ record.code = head.code
           /\ record.id = IF head.code = "00" THEN num ELSE head.id
           /\ head \in Record /\ head = r.work.before[1] /\ 1 \in DOMAIN r.work.before
           /\ left.before = Tail(r.work.before) /\ left.save = r.work.save /\ left.after = r.work.after
           /\ left.code = r.work.code
           /\ r.call.op \in {"INTEREST", "FEES"} =>
                 Postings(left.before) /\ Postings(left.after) /\ Postings(Append(r.said, record))
<1>1. /\ r.work.before \in Seq(Record) /\ r.work.after \in Seq(Record) /\ r.num \in Nat /\ r.work.before # <<>>
      /\ \A t \in r.work.save : IsTable(t)
      /\ r.work.code \in {"", "00", "01", "02", "03", "04", "99", "killed"} /\ r.said \in Seq(Record)
      /\ r.call.op \in {"INTEREST", "FEES"} => Postings(r.work.before) /\ Postings(r.work.after) /\ Postings(r.said)
  BY WorkParts DEF IsJob
<1>2. PICK b : b = r.work.before
  OBVIOUS
<1>3. PICK u : u = Tail(b)
  OBVIOUS
<1>4. /\ u \in Seq(Record) /\ b[1] \in Record /\ Head(b) = b[1] /\ 1 \in DOMAIN b
      /\ \A i \in DOMAIN u : u[i] = b[i + 1] /\ i + 1 \in DOMAIN b
  <2> HIDE DEF Record
  <2>1. b \in Seq(Record) /\ b # <<>>
    BY <1>1, <1>2
  <2>2. /\ u \in Seq(Record) /\ Len(b) \in Nat /\ Len(b) > 0 /\ Len(u) = Len(b) - 1
        /\ DOMAIN b = 1 .. Len(b) /\ DOMAIN u = 1 .. Len(u)
        /\ Head(b) = b[1] /\ b[1] \in Record /\ 1 \in DOMAIN b
        /\ \A i \in DOMAIN u : u[i] = b[i + 1] /\ i + 1 \in DOMAIN b
    BY <1>3, <2>1, TailOf
  <2> QED BY <2>2
<1>5. /\ left = Work(u, r.work.save, r.work.after, r.work.code) /\ head = b[1]
      /\ num = IF head.code = "00" THEN r.num + 1 ELSE r.num
      /\ record = IF head.code = "00" THEN [head EXCEPT !.id = num] ELSE head
  BY <1>2, <1>3, <1>4 DEF AppendsRecord
<1>6. IsWork(left)
  BY <1>1, <1>4, <1>5, WorkIs
<1>7. left.before = u /\ left.save = r.work.save /\ left.after = r.work.after /\ left.code = r.work.code
  BY <1>5, WorkFields
<1>8. head \in Record
  BY <1>4, <1>5
<1>9. /\ num \in Nat /\ record \in Record
      /\ record.acct = head.acct /\ record.type = head.type /\ record.amt = head.amt /\ record.code = head.code
      /\ record.id = IF head.code = "00" THEN num ELSE head.id
  <2>1. PICK n \in Nat : n = r.num
    BY <1>1
  <2>2. num = (IF head.code = "00" THEN n + 1 ELSE n)
        /\ record = (IF head.code = "00" THEN [head EXCEPT !.id = num] ELSE head)
    BY <1>5, <2>1
  <2> HIDE DEF Record
  <2> QED BY <1>8, <2>1, <2>2, Stamped
<1>10. ASSUME r.call.op \in {"INTEREST", "FEES"}
       PROVE  Postings(u) /\ Postings(r.work.after) /\ Postings(Append(r.said, record))
  <2>1. Postings(b) /\ Postings(r.work.after) /\ Postings(r.said)
    BY <1>1, <1>2, <1>10
  <2>2. Postings(u)
    BY <1>4, <2>1 DEF Postings
  <2>3. record.acct \in Accounts /\ record.type \in {"I", "F"}
    BY <1>4, <1>5, <1>9, <2>1 DEF Postings
  <2>4. PICK p : p = Append(r.said, record)
    OBVIOUS
  <2>5. Postings(p)
    BY <1>1, <1>9, <2>1, <2>3, <2>4, AppendPostings
  <2> QED BY <2>1, <2>2, <2>4, <2>5
<1> QED BY <1>2, <1>3, <1>4, <1>5, <1>6, <1>7, <1>8, <1>9, <1>10

(* What a program saves lies over what another wrote since it emptied the  *)
(* file.                                                                   *)
LEMMA MergedTable ==
    ASSUME NEW t, IsTable(t), NEW f, IsTable(f),
           NEW u, u = [a \in DOMAIN t \cup DOMAIN f |-> IF a \in DOMAIN t THEN t[a] ELSE f[a]]
    PROVE  IsTable(u) /\ (Covered(t) /\ Covered(f) => Covered(u))
BY DEF IsTable, Covered

LEMMA LoadFunds == ASSUME FundsInv, NEW c \in Callers, Load(c) PROVE FundsInv'
<1>1. PICK r : r = run[c]
  OBVIOUS
<1>2. PICK f : f = file
  OBVIOUS
<1>3. PICK s : s = trx
  OBVIOUS
<1>4. PICK d : d = db
  OBVIOUS
<1>5. /\ TypeOK /\ IsJob(r) /\ IsTable(f) /\ s \in Seq(Record) /\ IsBase(d)
      /\ FeeLines = {} => Covered(f) /\ Covered(d.acct)
  BY <1>1, <1>2, <1>3, <1>4, FundsSays
<1>6. PICK w : w = Loaded(f, Arguments(r.call))
  OBVIOUS
<1>7. r.pc = "load" /\ Leaves(f, s, d) /\ Quiet
      /\ \E place \in {"count", Onward(w)} : Moves(c, Goes(r, place, w, r.num, f, r.said))
  BY <1>1, <1>2, <1>3, <1>4, <1>5, <1>6, Ran
<1>8. PICK place \in {"count", Onward(w)} : Moves(c, Goes(r, place, w, r.num, f, r.said))
  BY <1>7
<1>9. r.call \in Calls /\ r.num \in Nat /\ r.said \in Seq(Record)
      /\ (r.call.op \in {"INTEREST", "FEES"} => Postings(r.said))
  BY <1>5, <1>7, WorkParts
<1>10. /\ IsWork(w) /\ (FeeLines = {} /\ Covered(f) => \A u \in w.save : Covered(u))
       /\ r.call.op \in {"D", "W", "T"} => w.code = TransactCode(f, r.call)
       /\ r.call.op \in {"INTEREST", "FEES"} => Postings(w.before) /\ Postings(w.after)
  BY <1>5, <1>6, <1>9, LoadedWork
<1>11. PICK q : q = Goes(r, place, w, r.num, f, r.said)
  OBVIOUS
<1>12. q.call = r.call /\ q.work = w /\ q.seen = f
  BY <1>11, GoesFields
<1>13. IsJob(q)
  <2>1. r.call.op \in {"INTEREST", "FEES"} => Postings(w.before) /\ Postings(w.after) /\ Postings(r.said)
    BY <1>9, <1>10
  <2>2. IsJob(Goes(r, place, w, r.num, f, r.said))
    BY <1>5, <1>7, <1>8, <1>9, <1>10, <2>1, OnwardJob
  <2> QED BY <1>11, <2>2
<1>14. Decided(q) /\ FundsOf(q)
  BY <1>5, <1>10, <1>12 DEF Decided, FundsOf
<1> QED BY <1>5, <1>7, <1>8, <1>11, <1>13, <1>14, FundsKept DEF Leaves, Quiet

LEMMA CountFunds == ASSUME FundsInv, NEW c \in Callers, Count(c) PROVE FundsInv'
<1>1. PICK r : r = run[c]
  OBVIOUS
<1>2. PICK f : f = file
  OBVIOUS
<1>3. PICK s : s = trx
  OBVIOUS
<1>4. PICK d : d = db
  OBVIOUS
<1>5. /\ TypeOK /\ IsJob(r) /\ Decided(r) /\ FundsOf(r) /\ IsTable(f) /\ s \in Seq(Record) /\ IsBase(d)
      /\ FeeLines = {} => Covered(f) /\ Covered(d.acct)
  BY <1>1, <1>2, <1>3, <1>4, FundsSays
<1>6. PICK q : q = Goes(r, Onward(r.work), r.work, Len(s), r.seen, r.said)
  OBVIOUS
<1>7. r.pc = "count" /\ Leaves(f, s, d) /\ Quiet /\ Moves(c, q)
  BY <1>1, <1>2, <1>3, <1>4, <1>5, <1>6, Ran
<1>8. q.call = r.call /\ q.work = r.work /\ q.seen = r.seen
  BY <1>6, GoesFields
<1>9. PICK n \in Nat : n = Len(s)
  <2> HIDE DEF Record
  <2> QED BY <1>5
<1>10. IsJob(q)
  BY <1>5, <1>6, <1>7, <1>9, WorkParts, OnwardJob
<1>11. Decided(q) /\ FundsOf(q)
  BY <1>5, <1>8 DEF Decided, FundsOf
<1> QED BY <1>5, <1>7, <1>10, <1>11, FundsKept DEF Leaves, Quiet

LEMMA AppendFunds == ASSUME FundsInv, NEW c \in Callers, AppendRecord(c) PROVE FundsInv'
<1>1. PICK r : r = run[c]
  OBVIOUS
<1>2. PICK f : f = file
  OBVIOUS
<1>3. PICK s : s = trx
  OBVIOUS
<1>4. PICK d : d = db
  OBVIOUS
<1>5. /\ TypeOK /\ IsJob(r) /\ Decided(r) /\ FundsOf(r) /\ IsTable(f) /\ s \in Seq(Record) /\ IsBase(d)
      /\ FeeLines = {} => Covered(f) /\ Covered(d.acct)
  BY <1>1, <1>2, <1>3, <1>4, FundsSays
<1>6. PICK head, num, record, left : AppendsRecord(r, head, num, record, left)
  BY DEF AppendsRecord
<1>7. PICK p : p = Append(s, record)
  OBVIOUS
<1>8. PICK said : said = Append(r.said, record)
  OBVIOUS
<1>9. PICK q : q = Goes(r, Onward(left), left, num, r.seen, said)
  OBVIOUS
<1>10. r.pc = "append" /\ Leaves(f, p, d) /\ Quiet /\ Moves(c, q)
  BY <1>1, <1>2, <1>3, <1>4, <1>5, <1>6, <1>7, <1>8, <1>9, Appended
<1>11. /\ IsWork(left) /\ num \in Nat /\ record \in Record /\ left.save = r.work.save /\ left.code = r.work.code
       /\ r.call.op \in {"INTEREST", "FEES"} => Postings(left.before) /\ Postings(left.after) /\ Postings(said)
  BY <1>5, <1>6, <1>8, <1>10, Appending
<1>12. p \in Seq(Record) /\ said \in Seq(Record)
  <2>1. r.said \in Seq(Record)
    BY <1>5, WorkParts
  <2> HIDE DEF Record
  <2> QED BY <1>5, <1>7, <1>8, <1>11, <2>1, AppendOf
<1>13. q.call = r.call /\ q.work = left /\ q.seen = r.seen
  BY <1>9, GoesFields
<1>14. IsJob(q)
  BY <1>5, <1>9, <1>10, <1>11, <1>12, WorkParts, OnwardJob
<1>15. Decided(q) /\ FundsOf(q)
  BY <1>5, <1>11, <1>13 DEF Decided, FundsOf
<1> QED BY <1>5, <1>10, <1>12, <1>14, <1>15, FundsKept DEF Leaves, Quiet

LEMMA OpenFunds == ASSUME FundsInv, NEW c \in Callers, Open(c) PROVE FundsInv'
<1>1. PICK r : r = run[c]
  OBVIOUS
<1>2. PICK f : f = file
  OBVIOUS
<1>3. PICK s : s = trx
  OBVIOUS
<1>4. PICK d : d = db
  OBVIOUS
<1>5. /\ TypeOK /\ IsJob(r) /\ Decided(r) /\ FundsOf(r) /\ IsTable(f) /\ s \in Seq(Record) /\ IsBase(d)
      /\ FeeLines = {} => Covered(f) /\ Covered(d.acct)
  BY <1>1, <1>2, <1>3, <1>4, FundsSays
<1>6. PICK q : q = Goes(r, "write", r.work, r.num, r.seen, r.said)
  OBVIOUS
<1>7. r.pc = "open" /\ Leaves(NoAccounts, s, d) /\ Quiet /\ Moves(c, q)
  BY <1>1, <1>2, <1>3, <1>4, <1>5, <1>6, Ran DEF On
<1>8. q.call = r.call /\ q.work = r.work /\ q.seen = r.seen
  BY <1>6, GoesFields
<1>9. IsJob(q)
  BY <1>5, <1>6, <1>7, WorkParts, OnJob
<1>10. Decided(q) /\ FundsOf(q)
  BY <1>5, <1>8 DEF Decided, FundsOf
<1>11. IsTable(NoAccounts) /\ Covered(NoAccounts)
  BY IdleJob DEF Covered, NoAccounts
<1> QED BY <1>5, <1>7, <1>9, <1>10, <1>11, FundsKept DEF Leaves, Quiet

LEMMA SaveFunds == ASSUME FundsInv, NEW c \in Callers, Save(c) PROVE FundsInv'
<1>1. PICK r : r = run[c]
  OBVIOUS
<1>2. PICK f : f = file
  OBVIOUS
<1>3. PICK s : s = trx
  OBVIOUS
<1>4. PICK d : d = db
  OBVIOUS
<1>5. /\ TypeOK /\ IsJob(r) /\ Decided(r) /\ FundsOf(r) /\ IsTable(f) /\ s \in Seq(Record) /\ IsBase(d)
      /\ FeeLines = {} => Covered(f) /\ Covered(d.acct)
  BY <1>1, <1>2, <1>3, <1>4, FundsSays
<1>6. PICK last : last = Work(r.work.after, {}, <<>>, r.work.code)
  OBVIOUS
<1>7. PICK q : q = Goes(r, Onward(last), last, r.num, r.seen, r.said)
  OBVIOUS
<1>8. /\ r.pc = "write" /\ trx' = s /\ db' = d /\ Quiet /\ Moves(c, q)
      /\ \E t \in r.work.save :
            file' = [a \in DOMAIN t \cup DOMAIN f |-> IF a \in DOMAIN t THEN t[a] ELSE f[a]]
  <2>1. /\ r.pc = "write" /\ trx' = s /\ db' = d /\ Quiet
        /\ \E t \in r.work.save :
              file' = [a \in DOMAIN t \cup DOMAIN f |-> IF a \in DOMAIN t THEN t[a] ELSE f[a]]
        /\ Moves(c, Goes(r, Onward(last), last, r.num, r.seen, r.said))
    BY <1>1, <1>2, <1>3, <1>4, <1>5, <1>6, Saved
  <2>2. r.pc = "write" /\ trx' = s /\ db' = d /\ Quiet /\ Moves(c, q)
    BY <1>7, <2>1
  <2> QED BY <2>1, <2>2, Zenon
<1>9. /\ r.work.after \in Seq(Record) /\ \A t \in r.work.save : IsTable(t)
      /\ r.call \in Calls /\ r.num \in Nat /\ r.said \in Seq(Record) /\ IsTable(r.seen)
      /\ r.work.code \in {"", "00", "01", "02", "03", "04", "99", "killed"}
      /\ r.call.op \in {"INTEREST", "FEES"} => Postings(r.work.after) /\ Postings(r.said)
  BY <1>5, <1>8, WorkParts
<1>10. IsTable(file') /\ (FeeLines = {} => Covered(file'))
  <2>1. PICK t \in r.work.save :
           file' = [a \in DOMAIN t \cup DOMAIN f |-> IF a \in DOMAIN t THEN t[a] ELSE f[a]]
    BY <1>8
  <2>2. PICK u : u = [a \in DOMAIN t \cup DOMAIN f |-> IF a \in DOMAIN t THEN t[a] ELSE f[a]]
    OBVIOUS
  <2>3. IsTable(u) /\ (Covered(t) /\ Covered(f) => Covered(u))
    BY <1>5, <1>9, <2>2, MergedTable
  <2> QED BY <1>5, <2>1, <2>2, <2>3 DEF FundsOf
<1>11. IsWork(last) /\ last.before = r.work.after /\ last.after = <<>> /\ last.save = {} /\ last.code = r.work.code
  <2>1. IsWork(last)
    BY <1>6, <1>9, NoRecord, WorkIs
  <2> QED BY <1>6, <2>1, WorkFields
<1>12. q.call = r.call /\ q.work = last /\ q.seen = r.seen
  BY <1>7, GoesFields
<1>13. r.call.op \in {"INTEREST", "FEES"} => Postings(last.before) /\ Postings(last.after)
  <2>1. DOMAIN last.after = {}
    BY <1>11
  <2>2. Postings(last.after)
    BY <2>1 DEF Postings
  <2>3. r.call.op \in {"INTEREST", "FEES"} => Postings(last.before)
    BY <1>9, <1>11
  <2> QED BY <2>2, <2>3
<1>14. IsJob(q)
  BY <1>5, <1>7, <1>8, <1>9, <1>11, <1>13, OnwardJob
<1>15. Decided(q) /\ FundsOf(q)
  BY <1>5, <1>11, <1>12 DEF Decided, FundsOf
<1> QED BY <1>5, <1>8, <1>10, <1>14, <1>15, FundsKept DEF Leaves, Quiet

LEMMA StopFunds ==
    ASSUME FundsInv, NEW c \in Callers, OpenFails(c) \/ Kill(c)
    PROVE  FundsInv'
<1>1. PICK r, f, s, d : r = run[c] /\ f = file /\ s = trx /\ d = db
  OBVIOUS
<1>2. /\ TypeOK /\ IsJob(r) /\ Decided(r) /\ FundsOf(r) /\ IsTable(f) /\ s \in Seq(Record) /\ IsBase(d)
      /\ FeeLines = {} => Covered(f) /\ Covered(d.acct)
  BY <1>1, FundsSays
<1>3. /\ r.pc \in {"load", "count", "append", "open", "write", "list"} /\ Leaves(f, s, d)
      /\ UNCHANGED <<calls, overlapped, batched>> /\ kills' \in {kills, kills + 1}
      /\ \E code \in {"99", "killed"} : Moves(c, Stopped(r, code))
  <2>1. OpenFails(c) => /\ r.pc \in {"load", "open", "list"} /\ Leaves(f, s, d) /\ Quiet
                        /\ Moves(c, Stopped(r, "99"))
    BY <1>1, <1>2, Broke
  <2>2. Kill(c) => /\ r.pc \in {"load", "count", "append", "open", "write", "list"} /\ Leaves(f, s, d)
                   /\ kills' = kills + 1 /\ UNCHANGED <<calls, overlapped, batched>>
                   /\ Moves(c, Stopped(r, "killed"))
    BY <1>1, <1>2, Broke
  <2> QED BY <2>1, <2>2 DEF Quiet
<1>4. PICK code \in {"99", "killed"} : Moves(c, Stopped(r, code))
  BY <1>3
<1>5. IsJob(Stopped(r, code))
  BY <1>2, <1>3, StoppedJob
<1>6. Decided(Stopped(r, code)) /\ FundsOf(Stopped(r, code))
  <2>1. CASE r.pc = "list"
    <3>1. PICK q : q = Goes(r, "sync", r.work, r.num, NoAccounts, r.said)
      OBVIOUS
    <3>2. Stopped(r, code) = q /\ q.call = r.call /\ q.work = r.work /\ q.seen = NoAccounts
      BY <2>1, <3>1, GoesFields DEF Stopped
    <3>3. r.call.op \notin {"D", "W", "T"}
      BY <1>2, <2>1 DEF IsJob
    <3> QED BY <1>2, <3>2, <3>3 DEF Decided, FundsOf, Covered, NoAccounts
  <2>2. CASE r.pc # "list"
    <3>1. PICK w : w = Work(<<>>, {}, <<>>, code)
      OBVIOUS
    <3>2. PICK q : q = Goes(r, "end", w, r.num, r.seen, r.said)
      OBVIOUS
    <3>3. Stopped(r, code) = q /\ q.call = r.call /\ q.work = w /\ q.seen = r.seen
      BY <2>2, <3>1, <3>2, GoesFields DEF Stopped
    <3>4. w.code # "00" /\ w.save = {}
      BY <3>1, WorkFields
    <3> QED BY <1>2, <3>3, <3>4 DEF Decided, FundsOf
  <2> QED BY <2>1, <2>2
<1> QED BY <1>2, <1>3, <1>4, <1>5, <1>6, FundsKept DEF Leaves

LEMMA ListFunds == ASSUME FundsInv, NEW c \in Callers, List(c) PROVE FundsInv'
<1>1. PICK r, f, s, d : r = run[c] /\ f = file /\ s = trx /\ d = db
  OBVIOUS
<1>2. /\ TypeOK /\ IsJob(r) /\ Decided(r) /\ FundsOf(r) /\ IsTable(f) /\ s \in Seq(Record) /\ IsBase(d)
      /\ FeeLines = {} => Covered(f) /\ Covered(d.acct)
  BY <1>1, FundsSays
<1>3. PICK q : q = Goes(r, "sync", r.work, r.num, f, r.said)
  OBVIOUS
<1>4. r.pc = "list" /\ Leaves(f, s, d) /\ Quiet /\ Moves(c, q)
  BY <1>1, <1>2, <1>3, Ran
<1>5. q.call = r.call /\ q.work = r.work /\ q.seen = f
  BY <1>3, GoesFields
<1>6. IsJob(q)
  BY <1>2, <1>3, <1>4, WorkParts, OnJob
<1>7. Decided(q) /\ FundsOf(q)
  <2>1. r.call.op \notin {"D", "W", "T"}
    BY <1>2, <1>4 DEF IsJob
  <2> QED BY <1>2, <1>5, <2>1 DEF Decided, FundsOf
<1> QED BY <1>2, <1>4, <1>6, <1>7, FundsKept DEF Leaves, Quiet

(* A caller that is done with its call.                                    *)
LEMMA IdleFunds ==
    ASSUME FundsInv, NEW c \in Callers, Moves(c, Idle), IsTable(file'), trx' \in Seq(Record), IsBase(db'), Quiet,
           FeeLines = {} => Covered(file') /\ Covered(db'.acct)
    PROVE  FundsInv'
<1>1. Decided(Idle) /\ FundsOf(Idle) /\ IsJob(Idle)
  BY IdleJob DEF Decided, FundsOf, Idle, NoWork, Work, NoCall, Covered, NoAccounts
<1> QED BY <1>1, FundsKept DEF Quiet

LEMMA InsertFunds == ASSUME FundsInv, NEW c \in Callers, InsertRow(c) PROVE FundsInv'
<1>1. PICK r, f, s, d : r = run[c] /\ f = file /\ s = trx /\ d = db
  OBVIOUS
<1>2. /\ TypeOK /\ IsJob(r) /\ Decided(r) /\ FundsOf(r) /\ IsTable(f) /\ s \in Seq(Record) /\ IsBase(d)
      /\ FeeLines = {} => Covered(f) /\ Covered(d.acct)
  BY <1>1, FundsSays
<1>3. PICK b : b = Transacted(r.seen, r.call)[r.call.acct].bal
  OBVIOUS
<1>4. PICK acct, txs : acct = [d.acct EXCEPT ![r.call.acct].bal = b] /\ txs = Append(d.txs, EntryFor(r))
  OBVIOUS
<1>5. r.pc = "insert" /\ Quiet /\ Leaves(f, s, Base(acct, txs, d.chain)) /\ Moves(c, Idle)
  BY <1>1, <1>2, <1>3, <1>4, Posted
<1>6. /\ r.call \in Calls /\ r.call.op \in {"D", "W"} /\ IsTable(r.seen) /\ r.num \in Nat
      /\ TransactCode(r.seen, r.call) = "00"
  BY <1>2, <1>5, WorkParts DEF IsJob, Decided
<1>7. PICK k : k = r.call
  OBVIOUS
<1>8. PICK u : u = Transacted(r.seen, k)
  OBVIOUS
<1>9. k.acct \in DOMAIN r.seen /\ IsTable(u) /\ DOMAIN u = DOMAIN r.seen
      /\ (Covered(r.seen) => Covered(u))
  BY <1>6, <1>7, <1>8, TransactedTable
<1>10. k.acct \in Accounts /\ b \in Int /\ (FeeLines = {} => b >= 0)
  <2>1. b = u[k.acct].bal
    BY <1>3, <1>7, <1>8
  <2>2. k.acct \in Accounts /\ u[k.acct].bal \in Int
    BY <1>9 DEF IsTable, Account
  <2>3. FeeLines = {} => u[k.acct].bal >= 0
    BY <1>2, <1>9 DEF FundsOf, Covered
  <2> QED BY <2>1, <2>2, <2>3
<1>11. d.acct \in [Accounts -> Account] /\ d.txs \in Seq(Entry) /\ d.chain \in Seq(Entry)
  BY <1>2 DEF IsBase
<1>12. acct \in [Accounts -> Account] /\ (FeeLines = {} => Covered(acct))
  <2>1. acct \in [Accounts -> Account]
        /\ \A x \in Accounts : acct[x].bal = IF x = k.acct THEN b ELSE d.acct[x].bal
    BY <1>4, <1>7, <1>10, <1>11 DEF Account
  <2> QED BY <1>2, <1>10, <1>11, <2>1 DEF Covered
<1>13. EntryFor(r) \in Entry
  <2>1. k.amt \in Nat
    BY <1>6, <1>7, CallFields
  <2> QED BY <1>6, <1>7, <1>10, <2>1 DEF EntryFor, Entry
<1>14. txs \in Seq(Entry)
  BY <1>4, <1>11, <1>13, AppendNumbers
<1>15. PICK e : e = Base(acct, txs, d.chain)
  OBVIOUS
<1>16. IsBase(e) /\ e.acct = acct
  BY <1>11, <1>12, <1>14, <1>15, BaseIs
<1> QED BY <1>2, <1>5, <1>12, <1>15, <1>16, IdleFunds DEF Leaves

LEMMA PostFunds ==
    ASSUME FundsInv, NEW c \in Callers, PassOn(c) \/ RowRefused(c) \/ BatchDone(c) \/ MonthlyKilled(c) \/ FallBack(c)
    PROVE  FundsInv'
<1>1. PICK r, f, s, d : r = run[c] /\ f = file /\ s = trx /\ d = db
  OBVIOUS
<1>2. /\ TypeOK /\ IsJob(r) /\ IsTable(f) /\ s \in Seq(Record) /\ IsBase(d)
      /\ FeeLines = {} => Covered(f) /\ Covered(d.acct)
  BY <1>1, FundsSays
<1>3. CASE PassOn(c) \/ RowRefused(c) \/ BatchDone(c) \/ MonthlyKilled(c)
  <2>1. PassOn(c) \/ RowRefused(c) \/ BatchDone(c) => Leaves(f, s, d) /\ Quiet /\ Moves(c, Idle)
    BY <1>1, <1>2, Posted
  <2>2. MonthlyKilled(c) => Leaves(f, s, d) /\ Quiet /\ Moves(c, Idle)
    BY <1>1, <1>2, Followed
  <2> QED BY <1>2, <1>3, <2>1, <2>2, IdleFunds DEF Leaves
<1>4. CASE FallBack(c)
  <2>1. PICK e : e = InModeB(c)
    OBVIOUS
  <2>2. /\ r.pc = "end" /\ r.call.op \in {"D", "W", "T"} /\ file' = f /\ trx' = s /\ db' = e /\ Quiet
        /\ Moves(c, Idle)
    BY <1>1, <1>2, <1>4, <2>1, Posted
  <2>3. r.call \in Calls
    BY <1>2, <2>2, WorkParts
  <2>4. IsBase(e) /\ (Covered(d.acct) => Covered(e.acct))
    BY <1>1, <1>2, <2>1, <2>2, <2>3, ModeB
  <2> QED BY <1>2, <2>2, <2>4, IdleFunds
<1> QED BY <1>3, <1>4

LEMMA ChainFunds == ASSUME FundsInv, NEW c \in Callers, ChainEntry(c) PROVE FundsInv'
<1>1. PICK r, f, s, d : r = run[c] /\ f = file /\ s = trx /\ d = db
  OBVIOUS
<1>2. /\ TypeOK /\ IsJob(r) /\ Decided(r) /\ FundsOf(r) /\ IsTable(f) /\ s \in Seq(Record) /\ IsBase(d)
      /\ FeeLines = {} => Covered(f) /\ Covered(d.acct)
  BY <1>1, FundsSays
<1>3. PICK chain, q : chain = Append(d.chain, EntryFor(r)) /\ q = Goes(r, "insert", r.work, r.num, r.seen, r.said)
  OBVIOUS
<1>4. /\ r.pc = "end" /\ r.call.op \in {"D", "W"} /\ r.work.code = "00" /\ Quiet
      /\ Leaves(f, s, Base(d.acct, d.txs, chain)) /\ Moves(c, q)
  BY <1>1, <1>2, <1>3, Posted DEF On
<1>5. /\ r.call \in Calls /\ r.num \in Nat /\ IsTable(r.seen) /\ TransactCode(r.seen, r.call) = "00"
  BY <1>2, <1>4, WorkParts DEF Decided
<1>6. r.call.acct \in Accounts /\ r.call.amt \in Nat
  BY <1>4, <1>5, TransactedTable, CallFields DEF IsTable
<1>7. EntryFor(r) \in Entry
  BY <1>4, <1>5, <1>6 DEF EntryFor, Entry
<1>8. d.acct \in [Accounts -> Account] /\ d.txs \in Seq(Entry) /\ d.chain \in Seq(Entry)
  BY <1>2 DEF IsBase
<1>9. chain \in Seq(Entry)
  BY <1>3, <1>7, <1>8, AppendNumbers
<1>10. PICK e : e = Base(d.acct, d.txs, chain)
  OBVIOUS
<1>11. IsBase(e) /\ e.acct = d.acct
  BY <1>8, <1>9, <1>10, BaseIs
<1>12. q.call = r.call /\ q.work = r.work /\ q.seen = r.seen
  BY <1>3, GoesFields
<1>13. IsJob(q)
  BY <1>2, <1>3, <1>4, <1>5, OnJob
<1>14. Decided(q) /\ FundsOf(q)
  BY <1>2, <1>12 DEF Decided, FundsOf
<1> QED BY <1>2, <1>4, <1>10, <1>11, <1>13, <1>14, FundsKept DEF Leaves, Quiet

(* The entries of a monthly program have no number.                        *)
Joins(q, said, p) ==
    /\ Len(q) \in Nat /\ Len(said) \in Nat /\ DOMAIN q = 1 .. Len(q) /\ DOMAIN said = 1 .. Len(said)
    /\ DOMAIN p = 1 .. (Len(q) + Len(said)) /\ \A i \in DOMAIN q : p[i] = q[i]
    /\ \A i \in DOMAIN said :
          p[Len(q) + i] = [id |-> 0, acct |-> said[i].acct, type |-> said[i].type, amt |-> said[i].amt]

LEMMA ConcatEntries ==
    ASSUME NEW q \in Seq(Entry), NEW said \in Seq(Record), NEW p, p = q \o EntriesFor(said), Postings(said)
    PROVE  p \in Seq(Entry) /\ NumbersIn(p) = NumbersIn(q) /\ Joins(q, said, p)
<1>1. PICK m : m = EntriesFor(said)
  OBVIOUS
<1>2. Len(said) \in Nat /\ DOMAIN said = 1 .. Len(said) /\ \A i \in DOMAIN said : said[i] \in Record
  <2> HIDE DEF Record
  <2> QED OBVIOUS
<1>3. /\ DOMAIN m = 1 .. Len(said) /\ m = [i \in 1 .. Len(said) |-> m[i]]
      /\ \A i \in 1 .. Len(said) :
            m[i] = [id |-> 0, acct |-> said[i].acct, type |-> said[i].type, amt |-> said[i].amt]
  BY <1>1, <1>2 DEF EntriesFor
<1>4. \A i \in 1 .. Len(said) : m[i] \in Entry /\ m[i].id = 0
  <2> SUFFICES ASSUME NEW i \in 1 .. Len(said)
               PROVE  m[i] \in Entry /\ m[i].id = 0
    OBVIOUS
  <2>1. said[i].acct \in Accounts /\ said[i].type \in {"I", "F"} /\ said[i].amt \in Int
    BY <1>2 DEF Postings, Record
  <2> QED BY <1>3, <2>1 DEF Entry
<1>5. m \in Seq(Entry) /\ Len(m) = Len(said)
  <2> HIDE DEF Entry
  <2> QED BY <1>2, <1>3, <1>4
<1>6. /\ p \in Seq(Entry) /\ Len(q) \in Nat /\ DOMAIN q = 1 .. Len(q) /\ DOMAIN p = 1 .. (Len(q) + Len(said))
      /\ \A i \in 1 .. Len(q) : p[i] = q[i]
      /\ \A i \in 1 .. Len(said) : p[Len(q) + i] = m[i]
  <2>1. p = q \o m
    BY <1>1
  <2> HIDE DEF Entry
  <2>2. /\ p \in Seq(Entry) /\ Len(p) = Len(q) + Len(m)
        /\ \A i \in 1 .. Len(q) + Len(m) : p[i] = IF i <= Len(q) THEN q[i] ELSE m[i - Len(q)]
    <3>1. /\ q \o m \in Seq(Entry) /\ Len(q \o m) = Len(q) + Len(m)
          /\ \A i \in 1 .. Len(q) + Len(m) : (q \o m)[i] = IF i <= Len(q) THEN q[i] ELSE m[i - Len(q)]
      BY <1>5, ConcatProperties
    <3> QED BY <2>1, <3>1
  <2>3. Len(q) \in Nat /\ DOMAIN q = 1 .. Len(q) /\ DOMAIN p = 1 .. Len(p)
    BY <2>2
  <2>4. DOMAIN p = 1 .. (Len(q) + Len(said))
    BY <1>5, <2>2, <2>3
  <2>5. \A i \in 1 .. Len(q) : p[i] = q[i]
    BY <1>2, <1>5, <2>2, <2>3
  <2>6. \A i \in 1 .. Len(said) : p[Len(q) + i] = m[i]
    <3> SUFFICES ASSUME NEW i \in 1 .. Len(said)
                 PROVE  p[Len(q) + i] = m[i]
      OBVIOUS
    <3>1. Len(q) + i \in 1 .. Len(q) + Len(m) /\ ~ (Len(q) + i <= Len(q)) /\ Len(q) + i - Len(q) = i
      BY <1>2, <1>5, <2>3
    <3> QED BY <2>2, <3>1
  <2> QED BY <2>2, <2>3, <2>4, <2>5, <2>6
<1>7. NumbersIn(p) = NumbersIn(q)
  <2>1. ASSUME NEW x \in NumbersIn(p) PROVE x \in NumbersIn(q)
    <3>1. PICK i \in DOMAIN p : x = p[i].id /\ x # 0
      BY <2>1 DEF NumbersIn
    <3>2. CASE i \in 1 .. Len(q)
      BY <1>6, <3>1, <3>2 DEF NumbersIn
    <3>3. CASE i \notin 1 .. Len(q)
      <4>1. PICK j \in 1 .. Len(said) : i = Len(q) + j
        <5>1. PICK n, l \in Nat : n = Len(q) /\ l = Len(said)
          BY <1>2, <1>6
        <5>2. i \in 1 .. (n + l) /\ i \notin 1 .. n
          BY <1>6, <3>1, <3>3, <5>1
        <5>3. i - n \in 1 .. l /\ i = n + (i - n)
          BY <5>1, <5>2
        <5> QED BY <5>1, <5>3
      <4> QED BY <1>4, <1>6, <3>1, <4>1
    <3> QED BY <3>2, <3>3
  <2>2. ASSUME NEW x \in NumbersIn(q) PROVE x \in NumbersIn(p)
    <3>1. PICK i \in DOMAIN q : x = q[i].id /\ x # 0
      BY <2>2 DEF NumbersIn
    <3>2. i \in DOMAIN p /\ p[i] = q[i]
      BY <1>2, <1>6, <3>1
    <3> QED BY <3>1, <3>2 DEF NumbersIn
  <2> QED BY <2>1, <2>2
<1>8. Joins(q, said, p)
  BY <1>2, <1>3, <1>6 DEF Joins
<1> QED BY <1>6, <1>7, <1>8

LEMMA MonthlyFunds == ASSUME FundsInv, NEW c \in Callers, ChainMonthly(c) PROVE FundsInv'
<1>1. PICK r, f, s, d : r = run[c] /\ f = file /\ s = trx /\ d = db
  OBVIOUS
<1>2. /\ TypeOK /\ IsJob(r) /\ Decided(r) /\ FundsOf(r) /\ IsTable(f) /\ s \in Seq(Record) /\ IsBase(d)
      /\ FeeLines = {} => Covered(f) /\ Covered(d.acct)
  BY <1>1, FundsSays
<1>3. PICK chain, q : /\ chain = d.chain \o EntriesFor(r.said)
                      /\ q = Goes(r, "list", NoWork, 0, NoAccounts, <<>>)
  OBVIOUS
<1>4. PICK acct : acct = [d.acct EXCEPT ![r.call.acct].status = r.call.to]
  OBVIOUS
<1>5. /\ r.pc = "end" /\ r.call.op \in {"INTEREST", "FEES"} /\ Quiet
      /\ Leaves(f, s, Base(d.acct, d.txs, chain)) /\ Moves(c, q)
  BY <1>1, <1>2, <1>3, <1>4, Followed
<1>6. r.call \in Calls /\ r.said \in Seq(Record) /\ Postings(r.said)
  BY <1>2, <1>5, WorkParts
<1>7. d.acct \in [Accounts -> Account] /\ d.txs \in Seq(Entry) /\ d.chain \in Seq(Entry)
  BY <1>2 DEF IsBase
<1>8. chain \in Seq(Entry)
  BY <1>3, <1>6, <1>7, ConcatEntries
<1>9. PICK e : e = Base(d.acct, d.txs, chain)
  OBVIOUS
<1>10. IsBase(e) /\ e.acct = d.acct
  BY <1>7, <1>8, <1>9, BaseIs
<1>11. q.call = r.call /\ q.work = NoWork /\ q.seen = NoAccounts
  BY <1>3, GoesFields
<1>12. IsJob(q)
  BY <1>3, <1>5, <1>6, ListJob
<1>13. Decided(q) /\ FundsOf(q)
  <2>1. NoWork.code # "00" /\ NoWork.save = {} /\ DOMAIN NoAccounts = {}
    BY DEF NoWork, Work, NoAccounts
  <2> QED BY <1>11, <2>1 DEF Decided, FundsOf, Covered
<1> QED BY <1>2, <1>5, <1>9, <1>10, <1>12, <1>13, FundsKept DEF Leaves, Quiet

LEMMA UpdateFunds ==
    ASSUME FundsInv, NEW c \in Callers, UpdateDone(c) \/ TruncateDat(c) \/ WriteDat(c)
    PROVE  FundsInv'
<1>1. PICK r, f, s, d : r = run[c] /\ f = file /\ s = trx /\ d = db
  OBVIOUS
<1>2. PICK acct : acct = [d.acct EXCEPT ![r.call.acct].status = r.call.to]
  OBVIOUS
<1>3. /\ TypeOK /\ IsJob(r) /\ Decided(r) /\ FundsOf(r) /\ IsTable(f) /\ s \in Seq(Record) /\ IsBase(d)
      /\ FeeLines = {} => Covered(f) /\ Covered(d.acct)
  BY <1>1, FundsSays
<1>4. IsTable(NoAccounts) /\ Covered(NoAccounts)
  BY IdleJob DEF Covered, NoAccounts
<1>5. /\ NoWork.code # "00" /\ NoWork.save = {}
  BY DEF NoWork, Work
<1>6. IsTable(r.seen) /\ (r.pc # "idle" => r.call \in Calls) /\ On(r, "status") = Goes(r, "status", r.work, r.num, r.seen, r.said)
      /\ On(r, "rewrite") = Goes(r, "rewrite", r.work, r.num, r.seen, r.said)
      /\ On(r, "log") = Goes(r, "log", r.work, r.num, r.seen, r.said)
  BY <1>3, WorkParts DEF On
<1>7. \A place : LET q == Goes(r, place, r.work, r.num, r.seen, r.said) IN Decided(q) /\ FundsOf(q)
  <2> SUFFICES ASSUME NEW place, NEW q, q = Goes(r, place, r.work, r.num, r.seen, r.said)
               PROVE  Decided(q) /\ FundsOf(q)
    OBVIOUS
  <2>1. q.call = r.call /\ q.work = r.work /\ q.seen = r.seen
    BY GoesFields
  <2> QED BY <1>3, <2>1 DEF Decided, FundsOf
<1>8. CASE UpdateDone(c)
  <2>1. /\ r.pc = "end" /\ r.call.op = "UPDATE" /\ Leaves(f, s, d) /\ Quiet
        /\ Moves(c, IF r.work.code = "killed" THEN On(r, "status")
                    ELSE Goes(r, "list", NoWork, 0, NoAccounts, <<>>))
    BY <1>1, <1>2, <1>3, <1>8, Followed
  <2>2. CASE r.work.code = "killed"
    <3>1. PICK q : q = Goes(r, "status", r.work, r.num, r.seen, r.said)
      OBVIOUS
    <3>2. Moves(c, q) /\ Decided(q) /\ FundsOf(q)
      BY <1>6, <1>7, <2>1, <2>2, <3>1
    <3>3. IsJob(q)
      BY <1>3, <1>6, <2>1, <3>1, OnJob
    <3> QED BY <1>3, <2>1, <3>2, <3>3, FundsKept DEF Leaves, Quiet
  <2>3. CASE r.work.code # "killed"
    <3>1. PICK q : q = Goes(r, "list", NoWork, 0, NoAccounts, <<>>)
      OBVIOUS
    <3>2. Moves(c, q) /\ q.work = NoWork /\ q.seen = NoAccounts
      BY <2>1, <2>3, <3>1, GoesFields
    <3>3. Decided(q) /\ FundsOf(q)
      BY <1>4, <1>5, <3>2 DEF Decided, FundsOf
    <3>4. IsJob(q)
      BY <1>6, <2>1, <3>1, ListJob
    <3> QED BY <1>3, <2>1, <3>2, <3>3, <3>4, FundsKept DEF Leaves, Quiet
  <2> QED BY <2>2, <2>3
<1>9. CASE TruncateDat(c)
  <2>1. r.pc = "truncate" /\ Leaves(NoAccounts, s, d) /\ Quiet /\ Moves(c, On(r, "rewrite"))
    BY <1>1, <1>2, <1>3, <1>9, Followed
  <2>2. PICK q : q = Goes(r, "rewrite", r.work, r.num, r.seen, r.said)
    OBVIOUS
  <2>3. Moves(c, q) /\ Decided(q) /\ FundsOf(q)
    BY <1>6, <1>7, <2>1, <2>2
  <2>4. r.call.op = "UPDATE" /\ DOMAIN r.seen = Accounts
    BY <1>3, <2>1 DEF IsJob
  <2>5. IsJob(q)
    BY <1>3, <1>6, <2>1, <2>2, <2>4, OnJob
  <2> QED BY <1>3, <1>4, <2>1, <2>3, <2>5, FundsKept DEF Leaves, Quiet
<1>10. CASE WriteDat(c)
  <2>1. r.pc = "rewrite" /\ Leaves(r.seen, s, d) /\ Quiet /\ Moves(c, On(r, "log"))
    BY <1>1, <1>2, <1>3, <1>10, Followed
  <2>2. PICK q : q = Goes(r, "log", r.work, r.num, r.seen, r.said)
    OBVIOUS
  <2>3. Moves(c, q) /\ Decided(q) /\ FundsOf(q)
    BY <1>6, <1>7, <2>1, <2>2
  <2>4. r.call.op = "UPDATE"
    BY <1>3, <2>1 DEF IsJob
  <2>5. IsJob(q)
    BY <1>3, <1>6, <2>1, <2>2, <2>4, OnJob
  <2>6. IsTable(file') /\ (FeeLines = {} => Covered(file'))
    BY <1>3, <1>6, <2>1 DEF Leaves, FundsOf
  <2> QED BY <1>3, <2>1, <2>3, <2>5, <2>6, FundsKept DEF Leaves, Quiet
<1> QED BY <1>8, <1>9, <1>10

LEMMA SetStatusFunds == ASSUME FundsInv, NEW c \in Callers, SetStatus(c) PROVE FundsInv'
<1>1. PICK r, f, s, d : r = run[c] /\ f = file /\ s = trx /\ d = db
  OBVIOUS
<1>2. PICK acct : acct = [d.acct EXCEPT ![r.call.acct].status = r.call.to]
  OBVIOUS
<1>3. /\ TypeOK /\ IsJob(r) /\ Decided(r) /\ FundsOf(r) /\ IsTable(f) /\ s \in Seq(Record) /\ IsBase(d)
      /\ FeeLines = {} => Covered(f) /\ Covered(d.acct)
  BY <1>1, FundsSays
<1>4. PICK q : q = Goes(r, "truncate", r.work, r.num, acct, r.said)
  OBVIOUS
<1>5. r.pc = "status" /\ Leaves(f, s, Base(acct, d.txs, d.chain)) /\ Quiet /\ Moves(c, q)
  BY <1>1, <1>2, <1>3, <1>4, Followed
<1>6. r.call \in Calls /\ r.call.op = "UPDATE"
  BY <1>3, <1>5 DEF IsJob
<1>7. PICK k : k = r.call
  OBVIOUS
<1>8. k.acct \in Accounts /\ k.to \in {"A", "F", "C"}
  BY <1>6, <1>7, CallFields
<1>9. d.acct \in [Accounts -> Account] /\ d.txs \in Seq(Entry) /\ d.chain \in Seq(Entry)
  BY <1>3 DEF IsBase
<1>10. acct \in [Accounts -> Account] /\ \A x \in Accounts : acct[x].bal = d.acct[x].bal
  BY <1>2, <1>7, <1>8, <1>9 DEF Account
<1>11. IsTable(acct) /\ DOMAIN acct = Accounts /\ (FeeLines = {} => Covered(acct))
  BY <1>3, <1>9, <1>10 DEF IsTable, Covered
<1>12. PICK e : e = Base(acct, d.txs, d.chain)
  OBVIOUS
<1>13. IsBase(e) /\ e.acct = acct
  BY <1>9, <1>10, <1>12, BaseIs
<1>14. q.call = r.call /\ q.work = r.work /\ q.seen = acct
  BY <1>4, GoesFields
<1>15. IsJob(q)
  BY <1>3, <1>4, <1>6, <1>11, OnJob
<1>16. Decided(q) /\ FundsOf(q)
  BY <1>3, <1>6, <1>11, <1>14 DEF Decided, FundsOf
<1> QED BY <1>3, <1>5, <1>11, <1>12, <1>13, <1>15, <1>16, FundsKept DEF Leaves, Quiet

LEMMA SyncFunds == ASSUME FundsInv, NEW c \in Callers, Sync(c) PROVE FundsInv'
<1>1. PICK r, f, s, d : r = run[c] /\ f = file /\ s = trx /\ d = db
  OBVIOUS
<1>2. PICK acct : acct = [d.acct EXCEPT ![r.call.acct].status = r.call.to]
  OBVIOUS
<1>3. /\ TypeOK /\ IsJob(r) /\ Decided(r) /\ FundsOf(r) /\ IsTable(f) /\ s \in Seq(Record) /\ IsBase(d)
      /\ FeeLines = {} => Covered(f) /\ Covered(d.acct)
  BY <1>1, FundsSays
<1>4. PICK copied, e : copied = CopiedTo(d.acct, r.seen) /\ e = Base(copied, d.txs, d.chain)
  OBVIOUS
<1>5. r.pc = "sync" /\ Quiet /\ Leaves(f, s, e)
      /\ Moves(c, IF r.call.op = "UPDATE" THEN On(r, "status") ELSE Idle)
  BY <1>1, <1>2, <1>3, <1>4, Followed
<1>6. r.call \in Calls /\ IsTable(r.seen)
  BY <1>3, <1>5, WorkParts
<1>7. d.acct \in [Accounts -> Account] /\ d.txs \in Seq(Entry) /\ d.chain \in Seq(Entry)
  BY <1>3 DEF IsBase
<1>8. copied \in [Accounts -> Account]
  BY <1>4, <1>6, <1>7 DEF CopiedTo, IsTable
<1>9. FeeLines = {} => Covered(copied)
  BY <1>3, <1>4, <1>7 DEF CopiedTo, Covered, FundsOf
<1>10. IsBase(e) /\ e.acct = copied
  BY <1>4, <1>7, <1>8, BaseIs
<1>11. CASE r.call.op = "UPDATE"
  <2>1. PICK q : q = Goes(r, "status", r.work, r.num, r.seen, r.said)
    OBVIOUS
  <2>2. Moves(c, q) /\ q.call = r.call /\ q.work = r.work /\ q.seen = r.seen
    BY <1>5, <1>11, <2>1, GoesFields DEF On
  <2>3. IsJob(q)
    BY <1>3, <1>6, <1>11, <2>1, OnJob
  <2>4. Decided(q) /\ FundsOf(q)
    BY <1>3, <2>2 DEF Decided, FundsOf
  <2> QED BY <1>3, <1>5, <1>9, <1>10, <2>2, <2>3, <2>4, FundsKept DEF Leaves, Quiet
<1>12. CASE r.call.op # "UPDATE"
  <2>1. Moves(c, Idle)
    BY <1>5, <1>12
  <2> QED BY <1>3, <1>5, <1>9, <1>10, <2>1, IdleFunds DEF Leaves
<1> QED BY <1>11, <1>12

LEMMA LogStatusFunds == ASSUME FundsInv, NEW c \in Callers, LogStatus(c) PROVE FundsInv'
<1>1. PICK r, f, s, d : r = run[c] /\ f = file /\ s = trx /\ d = db
  OBVIOUS
<1>2. PICK acct : acct = [d.acct EXCEPT ![r.call.acct].status = r.call.to]
  OBVIOUS
<1>3. /\ TypeOK /\ IsJob(r) /\ IsTable(f) /\ s \in Seq(Record) /\ IsBase(d)
      /\ FeeLines = {} => Covered(f) /\ Covered(d.acct)
  BY <1>1, FundsSays
<1>4. PICK entry, chain, e : /\ entry = [id |-> 0, acct |-> r.call.acct, type |-> "S", amt |-> 0]
                             /\ chain = Append(d.chain, entry) /\ e = Base(d.acct, d.txs, chain)
  OBVIOUS
<1>5. r.pc = "log" /\ Quiet /\ Leaves(f, s, e) /\ Moves(c, Idle)
  BY <1>1, <1>2, <1>3, <1>4, Followed
<1>6. r.call \in Calls /\ r.call.op = "UPDATE"
  BY <1>3, <1>5 DEF IsJob
<1>7. r.call.acct \in Accounts
  BY <1>6, CallFields
<1>8. entry \in Entry
  BY <1>4, <1>7 DEF Entry
<1>9. d.acct \in [Accounts -> Account] /\ d.txs \in Seq(Entry) /\ d.chain \in Seq(Entry)
  BY <1>3 DEF IsBase
<1>10. chain \in Seq(Entry)
  BY <1>4, <1>8, <1>9, AppendNumbers
<1>11. IsBase(e) /\ e.acct = d.acct
  <2>1. e = Base(d.acct, d.txs, chain)
    BY <1>4
  <2> QED BY <1>9, <1>10, <2>1, BaseIs
<1> QED BY <1>3, <1>5, <1>11, IdleFunds DEF Leaves

LEMMA InitFunds == Init => FundsInv
<1> SUFFICES ASSUME Init PROVE FundsInv
  OBVIOUS
<1>1. /\ SeedFile \in [Accounts -> Account] /\ IsTable(SeedFile) /\ Covered(SeedFile)
  BY SeedAssumption DEF SeedFile, IsTable, Covered, Account
<1>2. Base(SeedFile, <<>>, <<>>) = db /\ db.acct = SeedFile
  BY DEF Init, Base
<1>3. IsBase(db)
  <2>1. <<>> \in Seq(Entry)
    OBVIOUS
  <2>2. IsBase(Base(SeedFile, <<>>, <<>>))
    BY <1>1, <2>1, BaseIs
  <2> QED BY <1>2, <2>2
<1>4. db \in [acct : [Accounts -> Account], txs : Seq(Entry), chain : Seq(Entry)]
  BY <1>3, BaseType
<1>5. \A c \in Callers : run[c] = Idle
  BY DEF Init
<1>6. /\ run = [c \in Callers |-> run[c]] /\ \A c \in Callers : IsJob(run[c])
  BY <1>5, IdleJob DEF Init
<1>7. TypeOK
  <2>1. trx \in Seq(Record) /\ IsTable(file)
    BY <1>1 DEF Init
  <2> HIDE DEF Record, Account, Entry, IsTable, IsJob
  <2> QED BY <1>4, <1>6, <2>1 DEF TypeOK, Init
<1>8. Decided(Idle) /\ FundsOf(Idle)
  <2>1. NoWork.code # "00" /\ NoWork.save = {} /\ DOMAIN NoAccounts = {} /\ Idle.work = NoWork
        /\ Idle.seen = NoAccounts
    BY DEF NoWork, Work, NoAccounts, Idle
  <2> QED BY <2>1 DEF Decided, FundsOf, Covered
<1>9. NeverOverdrawn
  <2>1. file = SeedFile
    BY DEF Init
  <2> QED BY <1>1, <1>2, <1>5, <1>8, <2>1 DEF NeverOverdrawn, FundsOf
<1> QED BY <1>5, <1>7, <1>8, <1>9 DEF FundsInv

LEMMA NextFunds == FundsInv /\ [Next]_vars => FundsInv'
<1> SUFFICES ASSUME FundsInv, [Next]_vars PROVE FundsInv'
  OBVIOUS
<1>1. ASSUME NEW c \in Callers, NEW k \in Calls, Call(c, k) PROVE FundsInv'
  BY <1>1, CallFunds
<1>2. ASSUME NEW c \in Callers, Program(c) PROVE FundsInv'
  BY <1>2, LoadFunds, CountFunds, AppendFunds, OpenFunds, SaveFunds, ListFunds, StopFunds DEF Program
<1>3. ASSUME NEW c \in Callers, Bridge(c) PROVE FundsInv'
  BY <1>3, PostFunds, ChainFunds, InsertFunds, MonthlyFunds, SyncFunds, UpdateFunds, SetStatusFunds,
     LogStatusFunds DEF Bridge
<1>4. CASE UNCHANGED vars
  <2>1. TypeOK'
    BY <1>4 DEF FundsInv, TypeOK, vars
  <2>2. NeverOverdrawn'
    BY <1>4 DEF FundsInv, NeverOverdrawn, vars
  <2> QED BY <1>4, <2>1, <2>2 DEF FundsInv, vars
<1> QED BY <1>1, <1>2, <1>3, <1>4 DEF Next, Done

(* The inductive invariant of the funds.                                   *)
THEOREM FundsInvariance == Spec => []FundsInv
<1> QED BY InitFunds, NextFunds, PTL DEF Spec

(* The files, the database and the callers are always of their kinds.      *)
THEOREM BridgeTypes == Spec => []TypeOK
<1>1. FundsInv => TypeOK
  BY DEF FundsInv
<1> QED BY <1>1, FundsInvariance, PTL

(* Without fee lines in a batch nobody is overdrawn.                       *)
THEOREM NobodyOverdrawn == Spec => []NeverOverdrawn
<1>1. FundsInv => NeverOverdrawn
  BY DEF FundsInv
<1> QED BY <1>1, FundsInvariance, PTL

-----------------------------------------------------------------------------
(* Numbers                                                                 *)

Waiting == {run[c].num : c \in {d \in Callers : At(d, "insert")}}
InOrder(s) == \A i \in DOMAIN s : s[i].id = IF s[i].code = "00" THEN i ELSE 0

LEMMA NumbersSay ==
    ASSUME NumbersInv, NEW c \in Callers, NEW r, r = run[c], NEW s, s = trx, NEW d, d = db
    PROVE  /\ TypeOK /\ IsJob(r) /\ WorkOK(r) /\ s \in Seq(Record) /\ IsBase(d)
           /\ ~overlapped => InOrder(s) /\ (Numbered(r) => r.num = Len(s))
           /\ ~overlapped /\ r.pc # "idle" => \A e \in Callers : e # c => At(e, "idle")
           /\ NumbersIn(d.chain) = NumbersIn(d.txs) \cup Waiting
<1>1. TypeOK /\ WorkOK(run[c])
  BY DEF NumbersInv
<1>2. IsJob(run[c]) /\ trx \in Seq(Record)
      /\ db \in [acct : [Accounts -> Account], txs : Seq(Entry), chain : Seq(Entry)]
  BY <1>1 DEF TypeOK
<1>3. IsBase(d)
  BY <1>2, BaseType
<1>4. ~overlapped => InOrder(s) /\ (Numbered(r) => r.num = Len(s))
  BY DEF NumbersInv, InOrder
<1>5. ~overlapped /\ r.pc # "idle" => \A e \in Callers : e # c => At(e, "idle")
  BY DEF NumbersInv, At
<1>6. NumbersIn(d.chain) = NumbersIn(d.txs) \cup Waiting
  BY DEF NumbersInv, NumbersIdentifyPostings, Waiting
<1> QED BY <1>1, <1>2, <1>3, <1>4, <1>5, <1>6

LEMMA InOrderUnique ==
    ASSUME NEW s \in Seq(Record), InOrder(s)
    PROVE  \A i, j \in DOMAIN s : i # j /\ s[i].code = "00" => s[i].id # s[j].id
<1>1. \A i \in DOMAIN s : i \in Nat /\ i > 0
  <2> HIDE DEF Record
  <2> QED OBVIOUS
<1> QED BY <1>1 DEF InOrder

(* A caller in the bridge moves on.                                        *)
LEMMA NumbersKept ==
    ASSUME NumbersInv, TypeOK', NEW c \in Callers, NEW r, r = run[c], r.pc # "idle",
           NEW q, Moves(c, q), WorkOK(q), overlapped' = overlapped, NEW s, s = trx', NEW d, d = db',
           ~overlapped => InOrder(s) /\ (Numbered(q) => q.num = Len(s)),
           NumbersIn(d.chain) = NumbersIn(d.txs) \cup Waiting'
    PROVE  NumbersInv'
<1>1. \A e \in Callers : run'[e] = IF e = c THEN q ELSE run[e]
  BY DEF Moves
<1>2. \A e \in Callers : WorkOK(run'[e])
  BY <1>1 DEF NumbersInv
<1>3. ASSUME ~overlapped
      PROVE  /\ \A e \in Callers : e # c => run'[e].pc = "idle"
             /\ \A e \in Callers : Numbered(run'[e]) => run'[e].num = Len(s)
  <2>1. \A e \in Callers : e # c => run'[e].pc = "idle"
    BY <1>1, <1>3 DEF NumbersInv, At
  <2>2. \A e \in Callers : e # c => ~ Numbered(run'[e])
    BY <2>1 DEF Numbered
  <2> QED BY <1>1, <1>3, <2>1, <2>2
<1>4. s \in Seq(Record)
  BY DEF TypeOK
<1>5. ~overlapped => \A i, j \in DOMAIN s : i # j /\ s[i].code = "00" => s[i].id # s[j].id
  BY <1>4, InOrderUnique
<1>6. NumbersIdentifyPostings'
  BY <1>5 DEF NumbersIdentifyPostings, Waiting
<1>7. ~overlapped => \A e, g \in Callers : run'[e].pc # "idle" /\ run'[g].pc # "idle" => e = g
  BY <1>3
<1> QED BY <1>2, <1>3, <1>6, <1>7 DEF NumbersInv, InOrder, At

LEMMA WaitingMoves ==
    ASSUME NEW c \in Callers, NEW r, r = run[c], NEW q, Moves(c, q), NEW W, W = Waiting, NEW V, V = Waiting'
    PROVE  /\ r.pc # "insert" /\ q.pc # "insert" => V = W
           /\ r.pc # "insert" /\ q.pc = "insert" => V = W \cup {q.num}
           /\ r.pc = "insert" /\ q.pc # "insert" => W = V \cup {r.num}
<1>1. \A e \in Callers : run'[e] = IF e = c THEN q ELSE run[e]
  BY DEF Moves
<1>2. \A x : x \in W <=> \E e \in Callers : run[e].pc = "insert" /\ x = run[e].num
  BY DEF Waiting, At
<1>3. \A x : x \in V <=> \E e \in Callers : run'[e].pc = "insert" /\ x = run'[e].num
  BY DEF Waiting, At
<1>4. ASSUME r.pc # "insert", q.pc # "insert" PROVE V = W
  <2>1. \A x : x \in V <=> x \in W
    BY <1>1, <1>2, <1>3, <1>4
  <2> QED BY <2>1
<1>5. ASSUME r.pc # "insert", q.pc = "insert" PROVE V = W \cup {q.num}
  <2>1. \A x : x \in V <=> x \in W \/ x = q.num
    BY <1>1, <1>2, <1>3, <1>5
  <2> QED BY <2>1
<1>6. ASSUME r.pc = "insert", q.pc # "insert" PROVE W = V \cup {r.num}
  <2>1. \A x : x \in W <=> x \in V \/ x = r.num
    BY <1>1, <1>2, <1>3, <1>6
  <2> QED BY <2>1
<1> QED BY <1>4, <1>5, <1>6

(* A step that leaves records and database alone, and the numbers too.     *)
LEMMA NumbersAside ==
    ASSUME NumbersInv, TypeOK', NEW c \in Callers, NEW r, r = run[c], r.pc \notin {"idle", "insert"},
           NEW q, Moves(c, q), WorkOK(q), q.pc # "insert", overlapped' = overlapped, trx' = trx,
           ~overlapped /\ Numbered(q) => q.num = Len(trx),
           NEW d, d = db, NEW e, e = db', NEW X, NumbersIn(e.chain) = NumbersIn(d.chain) \cup X,
           NumbersIn(e.txs) = NumbersIn(d.txs) \cup X
    PROVE  NumbersInv'
<1>1. PICK s, W, V : s = trx /\ W = Waiting /\ V = Waiting'
  OBVIOUS
<1>2. (~overlapped => InOrder(s)) /\ NumbersIn(d.chain) = NumbersIn(d.txs) \cup W
  BY <1>1, NumbersSay
<1>3. V = W
  BY <1>1, WaitingMoves
<1>4. NumbersIn(e.chain) = NumbersIn(e.txs) \cup V
  BY <1>2, <1>3
<1> QED BY <1>1, <1>2, <1>4, NumbersKept

LEMMA ToRecordParts ==
    ASSUME NEW w
    PROVE  /\ ToRecord(w) <=> /\ \A i \in DOMAIN w.before : w.before[i].id = 0 /\ w.before[i].code = w.code
                              /\ \A i \in DOMAIN w.after : w.after[i].id = 0 /\ w.after[i].code = w.code
BY DEF ToRecord

LEMMA NothingToRecord ==
    ASSUME NEW code
    PROVE  ToRecord(Work(<<>>, {}, <<>>, code)) /\ ToRecord(NoWork)
<1>1. DOMAIN <<>> = {}
  OBVIOUS
<1> QED BY <1>1 DEF ToRecord, Work, NoWork

LEMMA HasRecords ==
    ASSUME NEW w, IsWork(w)
    PROVE  Recording(w) => \E q \in {w.before, w.after} : DOMAIN q # {}
<1>1. \A q \in Seq(Record) : q # <<>> => DOMAIN q # {}
  <2> SUFFICES ASSUME NEW q \in Seq(Record), q # <<>> PROVE DOMAIN q # {}
    OBVIOUS
  <2> HIDE DEF Record
  <2>1. 1 \in DOMAIN q
    BY TailOf
  <2> QED BY <2>1
<1> QED BY <1>1 DEF IsWork, Recording

LEMMA NumbersStill ==
    ASSUME NumbersInv, TypeOK', NEW c \in Callers, NEW r, r = run[c], r.pc \notin {"idle", "insert"},
           NEW q, Moves(c, q), WorkOK(q), q.pc # "insert", overlapped' = overlapped, trx' = trx, db' = db,
           ~overlapped /\ Numbered(q) => q.num = Len(trx)
    PROVE  NumbersInv'
<1>1. PICK d, X : d = db /\ X = {}
  OBVIOUS
<1>2. NumbersIn(d.chain) = NumbersIn(d.chain) \cup X /\ NumbersIn(d.txs) = NumbersIn(d.txs) \cup X
  BY <1>1
<1> QED BY <1>1, <1>2, NumbersAside

LEMMA LoadNumbers == ASSUME NumbersInv, TypeOK', NEW c \in Callers, Load(c) PROVE NumbersInv'
<1>1. PICK r, f, s, d : r = run[c] /\ f = file /\ s = trx /\ d = db
  OBVIOUS
<1>2. TypeOK /\ IsJob(r) /\ IsTable(f)
  <2>1. TypeOK /\ IsJob(r)
    BY <1>1, NumbersSay
  <2> QED BY <1>1, <2>1 DEF TypeOK
<1>3. PICK w : w = Loaded(f, Arguments(r.call))
  OBVIOUS
<1>4. /\ r.pc = "load" /\ Leaves(f, s, d) /\ Quiet
      /\ \E place \in {"count", Onward(w)} :
            /\ Moves(c, Goes(r, place, w, r.num, f, r.said))
            /\ place # "count" => \A z \in {w.before, w.after} : \A i \in DOMAIN z : z[i].code # "00"
  BY <1>1, <1>2, <1>3, Ran
<1>5. PICK place \in {"count", Onward(w)} :
            /\ Moves(c, Goes(r, place, w, r.num, f, r.said))
            /\ place # "count" => \A z \in {w.before, w.after} : \A i \in DOMAIN z : z[i].code # "00"
  BY <1>4
<1>6. r.call \in Calls
  BY <1>2, <1>4, WorkParts
<1>7. /\ IsWork(w) /\ ToRecord(w)
      /\ r.call.op \in {"D", "W", "T"} /\ w.code = "00" =>
            w.before = <<>> /\ w.after # <<>> /\ w.save = {Transacted(f, r.call)}
  BY <1>2, <1>3, <1>6, LoadedWork
<1>8. PICK q : q = Goes(r, place, w, r.num, f, r.said)
  OBVIOUS
<1>9. q.pc = place /\ q.call = r.call /\ q.work = w /\ Moves(c, q)
  BY <1>5, <1>8, GoesFields
<1>10. WorkOK(q)
  <2>1. r.call.op \in {"D", "W", "T"} /\ w.code = "00" =>
           w.before = <<>> /\ w.after # <<>> /\ w.save # {} /\ place \in {"count", "open"}
    BY <1>7 DEF Onward
  <2> QED BY <1>7, <1>9, <2>1 DEF WorkOK
<1>11. ~ Numbered(q)
  <2> SUFFICES ASSUME Numbered(q) PROVE FALSE
    OBVIOUS
  <2>1. place # "count" /\ w.code = "00" /\ Recording(w)
    BY <1>9 DEF Numbered
  <2>2. PICK z \in {w.before, w.after} : DOMAIN z # {}
    BY <1>7, <2>1, HasRecords
  <2> QED BY <1>5, <1>7, <2>1, <2>2 DEF ToRecord
<1>12. q.pc # "insert"
  BY <1>9 DEF Onward
<1> QED BY <1>1, <1>4, <1>9, <1>10, <1>11, <1>12, NumbersStill DEF Leaves, Quiet

LEMMA CountNumbers == ASSUME NumbersInv, TypeOK', NEW c \in Callers, Count(c) PROVE NumbersInv'
<1>1. PICK r, f, s, d : r = run[c] /\ f = file /\ s = trx /\ d = db
  OBVIOUS
<1>2. TypeOK /\ IsJob(r) /\ WorkOK(r)
  BY <1>1, NumbersSay
<1>3. PICK q : q = Goes(r, Onward(r.work), r.work, Len(s), r.seen, r.said)
  OBVIOUS
<1>4. r.pc = "count" /\ Leaves(f, s, d) /\ Quiet /\ Moves(c, q)
  BY <1>1, <1>2, <1>3, Ran
<1>5. q.pc = Onward(r.work) /\ q.call = r.call /\ q.work = r.work /\ q.num = Len(s)
  BY <1>3, GoesFields
<1>6. WorkOK(q)
  BY <1>2, <1>4, <1>5 DEF WorkOK, Onward
<1>7. q.pc # "insert"
  BY <1>5 DEF Onward
<1> QED BY <1>1, <1>4, <1>5, <1>6, <1>7, NumbersStill DEF Leaves, Quiet

LEMMA OpenNumbers == ASSUME NumbersInv, TypeOK', NEW c \in Callers, Open(c) PROVE NumbersInv'
<1>1. PICK r, f, s, d : r = run[c] /\ f = file /\ s = trx /\ d = db
  OBVIOUS
<1>2. TypeOK /\ IsJob(r) /\ WorkOK(r) /\ (~overlapped => (Numbered(r) => r.num = Len(s)))
  BY <1>1, NumbersSay
<1>3. PICK q : q = Goes(r, "write", r.work, r.num, r.seen, r.said)
  OBVIOUS
<1>4. r.pc = "open" /\ Leaves(NoAccounts, s, d) /\ Quiet /\ Moves(c, q)
  BY <1>1, <1>2, <1>3, Ran DEF On
<1>5. q.pc = "write" /\ q.call = r.call /\ q.work = r.work /\ q.num = r.num
  BY <1>3, GoesFields
<1>6. WorkOK(q)
  BY <1>2, <1>4, <1>5 DEF WorkOK
<1>7. ~overlapped /\ Numbered(q) => q.num = Len(trx)
  BY <1>1, <1>2, <1>4, <1>5 DEF Numbered
<1> QED BY <1>1, <1>4, <1>5, <1>6, <1>7, NumbersStill DEF Leaves, Quiet

LEMMA SaveNumbers == ASSUME NumbersInv, TypeOK', NEW c \in Callers, Save(c) PROVE NumbersInv'
<1>1. PICK r, f, s, d : r = run[c] /\ f = file /\ s = trx /\ d = db
  OBVIOUS
<1>2. TypeOK /\ IsJob(r) /\ WorkOK(r) /\ (~overlapped => (Numbered(r) => r.num = Len(s)))
  BY <1>1, NumbersSay
<1>3. PICK last, q : /\ last = Work(r.work.after, {}, <<>>, r.work.code)
                     /\ q = Goes(r, Onward(last), last, r.num, r.seen, r.said)
  OBVIOUS
<1>4. r.pc = "write" /\ trx' = s /\ db' = d /\ Quiet /\ Moves(c, q)
  BY <1>1, <1>2, <1>3, Saved
<1>5. q.pc = Onward(last) /\ q.call = r.call /\ q.work = last /\ q.num = r.num
  BY <1>3, GoesFields
<1>6. last.before = r.work.after /\ last.save = {} /\ last.after = <<>> /\ last.code = r.work.code
  BY <1>3, WorkFields
<1>7. ToRecord(last)
  <2>1. \A i \in DOMAIN r.work.after : r.work.after[i].id = 0 /\ r.work.after[i].code = r.work.code
    BY <1>2, ToRecordParts DEF WorkOK
  <2>2. DOMAIN last.after = {}
    <3>1. DOMAIN <<>> = {}
      OBVIOUS
    <3> QED BY <1>6, <3>1
  <2> QED BY <1>6, <2>1, <2>2, ToRecordParts
<1>8. q.pc \in {"append", "end"}
  BY <1>5, <1>6 DEF Onward
<1>9. WorkOK(q)
  <2>1. r.call.op \in {"D", "W", "T"} /\ r.work.code = "00" => last.before # <<>>
    BY <1>2, <1>4, <1>6 DEF WorkOK
  <2>2. r.call.op \in {"D", "W", "T"} /\ r.work.code = "00" => q.pc = "append"
    BY <1>5, <2>1 DEF Onward
  <2> QED BY <1>5, <1>6, <1>7, <2>2 DEF WorkOK
<1>10. ~overlapped /\ Numbered(q) => q.num = Len(trx)
  <2>1. Numbered(q) => Numbered(r)
    BY <1>4, <1>5, <1>6 DEF Numbered, Recording
  <2> QED BY <1>1, <1>2, <1>5, <2>1
<1> QED BY <1>1, <1>4, <1>8, <1>9, <1>10, NumbersStill DEF Quiet

(* The next record comes in order if the count was right.                  *)
LEMMA NextInOrder ==
    ASSUME NEW s \in Seq(Record), InOrder(s), NEW record \in Record, NEW p, p = Append(s, record),
           record.id = IF record.code = "00" THEN Len(s) + 1 ELSE 0
    PROVE  InOrder(p) /\ Len(p) = Len(s) + 1
<1>1. /\ Len(s) \in Nat /\ Len(p) = Len(s) + 1 /\ DOMAIN s = 1 .. Len(s) /\ DOMAIN p = 1 .. (Len(s) + 1)
      /\ p[Len(s) + 1] = record /\ \A i \in DOMAIN s : p[i] = s[i]
  <2> HIDE DEF Record
  <2> QED BY AppendOf
<1>2. ASSUME NEW i \in DOMAIN p PROVE p[i].id = IF p[i].code = "00" THEN i ELSE 0
  <2>1. CASE i \in DOMAIN s
    BY <1>1, <2>1 DEF InOrder
  <2>2. CASE i \notin DOMAIN s
    <3>1. i = Len(s) + 1
      BY <1>1, <1>2, <2>2
    <3> QED BY <1>1, <3>1
  <2> QED BY <2>1, <2>2
<1> QED BY <1>1, <1>2 DEF InOrder

LEMMA AppendNumbered ==
    ASSUME NumbersInv, TypeOK', NEW c \in Callers, AppendRecord(c)
    PROVE  NumbersInv'
<1>1. PICK r, f, s, d, p, e : r = run[c] /\ f = file /\ s = trx /\ d = db /\ e = db'
  OBVIOUS
<1>2. /\ TypeOK /\ IsJob(r) /\ WorkOK(r) /\ s \in Seq(Record)
      /\ ~overlapped => InOrder(s) /\ (Numbered(r) => r.num = Len(s))
      /\ NumbersIn(d.chain) = NumbersIn(d.txs) \cup Waiting
  BY <1>1, NumbersSay
<1>3. PICK head, num, record, left : AppendsRecord(r, head, num, record, left)
  BY DEF AppendsRecord
<1>4. PICK z, said, q : /\ z = Append(s, record) /\ said = Append(r.said, record)
                        /\ q = Goes(r, Onward(left), left, num, r.seen, said)
  OBVIOUS
<1>5. r.pc = "append" /\ Leaves(f, z, d) /\ Quiet /\ Moves(c, q)
  BY <1>1, <1>2, <1>3, <1>4, Appended
<1>6. /\ IsWork(left) /\ num \in Nat /\ record \in Record /\ record.code = head.code
      /\ num = IF head.code = "00" THEN r.num + 1 ELSE r.num
      /\ record.id = IF head.code = "00" THEN num ELSE head.id
      /\ head = r.work.before[1] /\ 1 \in DOMAIN r.work.before
      /\ left.before = Tail(r.work.before) /\ left.save = r.work.save /\ left.after = r.work.after
      /\ left.code = r.work.code
  BY <1>2, <1>3, <1>4, <1>5, Appending
<1>7. q.pc = Onward(left) /\ q.call = r.call /\ q.work = left /\ q.num = num
  BY <1>4, GoesFields
<1>8. /\ \A i \in DOMAIN r.work.before : r.work.before[i].id = 0 /\ r.work.before[i].code = r.work.code
      /\ \A i \in DOMAIN r.work.after : r.work.after[i].id = 0 /\ r.work.after[i].code = r.work.code
  BY <1>2, ToRecordParts DEF WorkOK
<1>9. head.id = 0 /\ head.code = r.work.code
  BY <1>6, <1>8
<1>10. r.num \in Nat /\ r.work.before \in Seq(Record) /\ r.work.before # <<>>
  BY <1>2, <1>5, WorkParts DEF IsJob
<1>11. ToRecord(left)
  <2>1. \A i \in DOMAIN left.before : left.before[i] = r.work.before[i + 1] /\ i + 1 \in DOMAIN r.work.before
    <3> HIDE DEF Record
    <3> QED BY <1>6, <1>10, TailOf
  <2> QED BY <1>6, <1>8, <2>1, ToRecordParts
<1>12. WorkOK(q)
  <2>1. r.call.op \in {"D", "W", "T"} /\ r.work.code = "00" =>
           left.save = {} /\ left.after = <<>> /\ num > 0 /\ q.pc \in {"append", "end"}
    <3> SUFFICES ASSUME r.call.op \in {"D", "W", "T"}, r.work.code = "00"
                 PROVE  left.save = {} /\ left.after = <<>> /\ num > 0 /\ q.pc \in {"append", "end"}
      OBVIOUS
    <3>1. left.save = {} /\ left.after = <<>>
      BY <1>2, <1>5, <1>6 DEF WorkOK
    <3>2. num = r.num + 1
      BY <1>6, <1>9
    <3>3. q.pc \in {"append", "end"}
      BY <1>7, <3>1 DEF Onward
    <3> QED BY <1>10, <3>1, <3>2, <3>3
  <2> QED BY <1>6, <1>7, <1>11, <2>1 DEF WorkOK
<1>13. Numbered(r) <=> r.work.code = "00"
  BY <1>5, <1>10 DEF Numbered, Recording
<1>14. ~overlapped => InOrder(z) /\ (Numbered(q) => q.num = Len(z))
  <2> SUFFICES ASSUME ~overlapped PROVE InOrder(z) /\ (Numbered(q) => q.num = Len(z))
    OBVIOUS
  <2>1. record.id = IF record.code = "00" THEN Len(s) + 1 ELSE 0
    BY <1>2, <1>6, <1>9, <1>13
  <2>2. InOrder(z) /\ Len(z) = Len(s) + 1
    BY <1>2, <1>4, <1>6, <2>1, NextInOrder
  <2>3. Numbered(q) => r.work.code = "00"
    BY <1>6, <1>7 DEF Numbered
  <2> QED BY <1>2, <1>6, <1>7, <1>9, <1>13, <2>2, <2>3
<1>15. q.pc # "insert"
  BY <1>7 DEF Onward
<1>16. Waiting' = Waiting
  BY <1>1, <1>5, <1>15, WaitingMoves
<1>17. z = trx' /\ e = d /\ overlapped' = overlapped /\ r.pc # "idle"
  BY <1>1, <1>5 DEF Leaves, Quiet
<1>18. NumbersIn(e.chain) = NumbersIn(e.txs) \cup Waiting'
  BY <1>2, <1>16, <1>17
<1> QED BY <1>1, <1>5, <1>12, <1>14, <1>17, <1>18, NumbersKept

(* From here a caller has no record to number any more.                    *)
LEMMA PastRecords ==
    ASSUME NumbersInv, TypeOK', NEW c \in Callers, NEW r, r = run[c], r.pc \notin {"idle", "insert"},
           NEW q, Moves(c, q), ToRecord(q.work),
           q.pc \in {"idle", "list", "sync", "status", "truncate", "rewrite", "log"},
           overlapped' = overlapped, trx' = trx, NEW d, d = db, NEW e, e = db',
           NumbersIn(e.chain) = NumbersIn(d.chain), NumbersIn(e.txs) = NumbersIn(d.txs)
    PROVE  NumbersInv'
<1>1. WorkOK(q) /\ ~ Numbered(q)
  BY DEF WorkOK, Numbered
<1>2. PICK X : X = {}
  OBVIOUS
<1>3. NumbersIn(e.chain) = NumbersIn(d.chain) \cup X /\ NumbersIn(e.txs) = NumbersIn(d.txs) \cup X
  BY <1>2
<1> QED BY <1>1, <1>3, NumbersAside

LEMMA StopNumbers ==
    ASSUME NumbersInv, TypeOK', NEW c \in Callers, OpenFails(c) \/ Kill(c)
    PROVE  NumbersInv'
<1>1. PICK r, f, s, d : r = run[c] /\ f = file /\ s = trx /\ d = db
  OBVIOUS
<1>2. TypeOK /\ IsJob(r) /\ WorkOK(r)
  BY <1>1, NumbersSay
<1>3. PICK code \in {"99", "killed"} :
         /\ r.pc \in {"load", "count", "append", "open", "write", "list"} /\ Leaves(f, s, d)
         /\ overlapped' = overlapped /\ Moves(c, Stopped(r, code))
  BY <1>1, <1>2, Broke DEF Quiet
<1>4. PICK q : q = Stopped(r, code)
  OBVIOUS
<1>5. q.pc \in {"sync", "end"} /\ q.call = r.call /\ ToRecord(q.work) /\ (q.pc = "end" => q.work.code = code)
  <2>1. CASE r.pc = "list"
    BY <1>2, <1>4, <2>1, GoesFields DEF Stopped, WorkOK
  <2>2. CASE r.pc # "list"
    BY <1>4, <2>2, GoesFields, NothingToRecord, WorkFields DEF Stopped
  <2> QED BY <2>1, <2>2
<1>6. WorkOK(q) /\ ~ Numbered(q) /\ q.pc # "insert" /\ Moves(c, q)
  BY <1>3, <1>4, <1>5 DEF WorkOK, Numbered
<1> QED BY <1>1, <1>3, <1>6, NumbersStill DEF Leaves

LEMMA IdleSays == Idle.pc = "idle" /\ ToRecord(Idle.work) /\ WorkOK(Idle) /\ ~ Numbered(Idle)
<1>1. Idle.pc = "idle" /\ Idle.work = NoWork /\ Idle.call.op = "none"
  BY DEF Idle, NoCall
<1>2. ToRecord(NoWork)
  BY NothingToRecord
<1> QED BY <1>1, <1>2 DEF WorkOK, Numbered

LEMMA PostNumbers ==
    ASSUME NumbersInv, TypeOK', NEW c \in Callers, PassOn(c) \/ BatchDone(c) \/ MonthlyKilled(c)
    PROVE  NumbersInv'
<1>1. PICK r, f, s, d : r = run[c] /\ f = file /\ s = trx /\ d = db
  OBVIOUS
<1>2. TypeOK
  BY <1>1, NumbersSay
<1>3. PICK balance, acct : /\ balance = Transacted(r.seen, r.call)[r.call.acct].bal
                           /\ acct = [d.acct EXCEPT ![r.call.acct].status = r.call.to]
  OBVIOUS
<1>4. PassOn(c) \/ BatchDone(c) => r.pc = "end" /\ Leaves(f, s, d) /\ Quiet /\ Moves(c, Idle)
  BY <1>1, <1>2, <1>3, Posted
<1>5. MonthlyKilled(c) => r.pc = "end" /\ Leaves(f, s, d) /\ Quiet /\ Moves(c, Idle)
  BY <1>1, <1>2, <1>3, Followed
<1>6. r.pc = "end" /\ Leaves(f, s, d) /\ Quiet /\ Moves(c, Idle)
  BY <1>4, <1>5
<1> QED BY <1>1, <1>6, IdleSays, PastRecords DEF Leaves, Quiet

LEMMA FallBackNumbers ==
    ASSUME NumbersInv, TypeOK', NEW c \in Callers, FallBack(c)
    PROVE  NumbersInv'
<1>1. PICK r, f, s, d, e : r = run[c] /\ f = file /\ s = trx /\ d = db /\ e = InModeB(c)
  OBVIOUS
<1>2. TypeOK /\ IsJob(r) /\ IsBase(d)
  BY <1>1, NumbersSay
<1>3. PICK balance : balance = Transacted(r.seen, r.call)[r.call.acct].bal
  OBVIOUS
<1>4. /\ r.pc = "end" /\ r.call.op \in {"D", "W", "T"} /\ file' = f /\ trx' = s /\ db' = e /\ Quiet
      /\ Moves(c, Idle)
  BY <1>1, <1>2, <1>3, Posted
<1>5. r.call \in Calls
  BY <1>2, <1>4, WorkParts
<1>6. PICK X : NumbersIn(e.txs) = NumbersIn(d.txs) \cup X /\ NumbersIn(e.chain) = NumbersIn(d.chain) \cup X
  BY <1>1, <1>2, <1>4, <1>5, ModeB
<1>7. overlapped' = overlapped /\ trx' = trx /\ e = db' /\ r.pc \notin {"idle", "insert"}
  BY <1>1, <1>4 DEF Quiet
<1> QED BY <1>1, <1>4, <1>6, <1>7, IdleSays, NumbersAside

LEMMA RefusedNumbers ==
    ASSUME NumbersInv, TypeOK', NEW c \in Callers, RowRefused(c)
    PROVE  NumbersInv'
<1>1. PICK r, f, s, d, W, V : r = run[c] /\ f = file /\ s = trx /\ d = db /\ W = Waiting /\ V = Waiting'
  OBVIOUS
<1>2. /\ TypeOK /\ IsJob(r) /\ WorkOK(r) /\ IsBase(d) /\ (~overlapped => InOrder(s))
      /\ NumbersIn(d.chain) = NumbersIn(d.txs) \cup W
  BY <1>1, NumbersSay
<1>3. PICK balance : balance = Transacted(r.seen, r.call)[r.call.acct].bal
  OBVIOUS
<1>4. /\ r.pc = "insert" /\ Leaves(f, s, d) /\ Quiet /\ Moves(c, Idle)
      /\ \E i \in DOMAIN d.txs : d.txs[i].id = r.num
  BY <1>1, <1>2, <1>3, Posted
<1>5. r.num > 0
  BY <1>2, <1>4 DEF WorkOK, IsJob
<1>6. r.num \in NumbersIn(d.txs)
  BY <1>4, <1>5 DEF NumbersIn
<1>7. W = V \cup {r.num}
  BY <1>1, <1>4, IdleSays, WaitingMoves
<1>8. NumbersIn(d.chain) = NumbersIn(d.txs) \cup V
  BY <1>2, <1>6, <1>7
<1> QED BY <1>1, <1>2, <1>4, <1>8, IdleSays, NumbersKept DEF Leaves, Quiet

LEMMA EntryInserted ==
    ASSUME NEW r, IsJob(r), r.pc \in {"end", "insert"}, r.call.op \in {"D", "W"}, r.work.code = "00", Decided(r), WorkOK(r)
    PROVE  EntryFor(r) \in Entry /\ EntryFor(r).id = r.num /\ r.num > 0 /\ r.call \in Calls /\ r.call.acct \in Accounts
<1>1. /\ r.call \in Calls /\ r.num \in Nat /\ IsTable(r.seen) /\ TransactCode(r.seen, r.call) = "00"
  BY WorkParts DEF Decided
<1>2. r.call.acct \in Accounts /\ r.call.amt \in Nat
  BY <1>1, TransactedTable, CallFields DEF IsTable
<1>3. EntryFor(r) \in Entry /\ EntryFor(r).id = r.num
  BY <1>1, <1>2 DEF EntryFor, Entry
<1>4. r.num > 0
  BY DEF WorkOK
<1> QED BY <1>1, <1>2, <1>3, <1>4

LEMMA ChainNumbers ==
    ASSUME NumbersInv, FundsInv, TypeOK', NEW c \in Callers, ChainEntry(c)
    PROVE  NumbersInv'
<1>1. PICK r, f, s, d, W, V : r = run[c] /\ f = file /\ s = trx /\ d = db /\ W = Waiting /\ V = Waiting'
  OBVIOUS
<1>2. /\ TypeOK /\ IsJob(r) /\ WorkOK(r) /\ IsBase(d) /\ (~overlapped => InOrder(s))
      /\ NumbersIn(d.chain) = NumbersIn(d.txs) \cup W
  BY <1>1, NumbersSay
<1>3. PICK balance : balance = Transacted(r.seen, r.call)[r.call.acct].bal
  OBVIOUS
<1>4. PICK chain, q, e : /\ chain = Append(d.chain, EntryFor(r)) /\ e = Base(d.acct, d.txs, chain)
                         /\ q = Goes(r, "insert", r.work, r.num, r.seen, r.said)
  OBVIOUS
<1>5. /\ r.pc = "end" /\ r.call.op \in {"D", "W"} /\ r.work.code = "00" /\ Quiet
      /\ Leaves(f, s, e) /\ Moves(c, q)
  BY <1>1, <1>2, <1>3, <1>4, Posted DEF On
<1>6. Decided(r)
  BY <1>1 DEF FundsInv
<1>7. EntryFor(r) \in Entry /\ EntryFor(r).id = r.num /\ r.num > 0
  BY <1>2, <1>5, <1>6, EntryInserted
<1>8. d.acct \in [Accounts -> Account] /\ d.txs \in Seq(Entry) /\ d.chain \in Seq(Entry)
  BY <1>2 DEF IsBase
<1>9. chain \in Seq(Entry) /\ NumbersIn(chain) = NumbersIn(d.chain) \cup {r.num}
  <2>1. chain \in Seq(Entry) /\ NumbersIn(chain) = NumbersIn(d.chain) \cup ({EntryFor(r).id} \ {0})
    BY <1>4, <1>7, <1>8, AppendNumbers
  <2> QED BY <1>7, <2>1
<1>10. e.txs = d.txs /\ e.chain = chain
  BY <1>4 DEF Base
<1>11. q.pc = "insert" /\ q.call = r.call /\ q.work = r.work /\ q.num = r.num
  BY <1>4, GoesFields
<1>12. WorkOK(q) /\ ~ Numbered(q)
  BY <1>2, <1>5, <1>7, <1>11 DEF WorkOK, Numbered
<1>13. V = W \cup {r.num}
  BY <1>1, <1>5, <1>11, WaitingMoves
<1>14. NumbersIn(e.chain) = NumbersIn(e.txs) \cup V
  BY <1>2, <1>9, <1>10, <1>13
<1>15. e = db' /\ s = trx' /\ overlapped' = overlapped /\ r.pc # "idle"
  BY <1>1, <1>5 DEF Leaves, Quiet
<1> QED BY <1>1, <1>2, <1>5, <1>12, <1>14, <1>15, NumbersKept

LEMMA InsertNumbers ==
    ASSUME NumbersInv, FundsInv, TypeOK', NEW c \in Callers, InsertRow(c)
    PROVE  NumbersInv'
<1>1. PICK r, f, s, d, W, V : r = run[c] /\ f = file /\ s = trx /\ d = db /\ W = Waiting /\ V = Waiting'
  OBVIOUS
<1>2. /\ TypeOK /\ IsJob(r) /\ WorkOK(r) /\ IsBase(d) /\ (~overlapped => InOrder(s))
      /\ NumbersIn(d.chain) = NumbersIn(d.txs) \cup W
  BY <1>1, NumbersSay
<1>3. PICK balance : balance = Transacted(r.seen, r.call)[r.call.acct].bal
  OBVIOUS
<1>4. PICK acct, txs, e : /\ acct = [d.acct EXCEPT ![r.call.acct].bal = balance]
                          /\ txs = Append(d.txs, EntryFor(r)) /\ e = Base(acct, txs, d.chain)
  OBVIOUS
<1>5. r.pc = "insert" /\ Quiet /\ Leaves(f, s, e) /\ Moves(c, Idle)
  BY <1>1, <1>2, <1>3, <1>4, Posted
<1>6. Decided(r) /\ r.call.op \in {"D", "W"} /\ r.work.code = "00"
  BY <1>1, <1>2, <1>5 DEF FundsInv, IsJob
<1>7. EntryFor(r) \in Entry /\ EntryFor(r).id = r.num /\ r.num > 0
  BY <1>2, <1>5, <1>6, EntryInserted
<1>8. d.acct \in [Accounts -> Account] /\ d.txs \in Seq(Entry) /\ d.chain \in Seq(Entry)
  BY <1>2 DEF IsBase
<1>9. txs \in Seq(Entry) /\ NumbersIn(txs) = NumbersIn(d.txs) \cup {r.num}
  <2>1. txs \in Seq(Entry) /\ NumbersIn(txs) = NumbersIn(d.txs) \cup ({EntryFor(r).id} \ {0})
    BY <1>4, <1>7, <1>8, AppendNumbers
  <2> QED BY <1>7, <2>1
<1>10. e.txs = txs /\ e.chain = d.chain
  BY <1>4 DEF Base
<1>11. W = V \cup {r.num}
  BY <1>1, <1>5, IdleSays, WaitingMoves
<1>12. NumbersIn(e.chain) = NumbersIn(e.txs) \cup V
  BY <1>2, <1>9, <1>10, <1>11
<1>13. e = db' /\ s = trx' /\ overlapped' = overlapped /\ r.pc # "idle"
  BY <1>1, <1>5 DEF Leaves, Quiet
<1> QED BY <1>1, <1>2, <1>5, <1>12, <1>13, IdleSays, NumbersKept

LEMMA MonthlyNumbers ==
    ASSUME NumbersInv, TypeOK', NEW c \in Callers, ChainMonthly(c)
    PROVE  NumbersInv'
<1>1. PICK r, f, s, d : r = run[c] /\ f = file /\ s = trx /\ d = db
  OBVIOUS
<1>2. TypeOK /\ IsJob(r) /\ IsBase(d)
  BY <1>1, NumbersSay
<1>3. PICK chain, q, e : /\ chain = d.chain \o EntriesFor(r.said) /\ e = Base(d.acct, d.txs, chain)
                         /\ q = Goes(r, "list", NoWork, 0, NoAccounts, <<>>)
  OBVIOUS
<1>4. PICK acct : acct = [d.acct EXCEPT ![r.call.acct].status = r.call.to]
  OBVIOUS
<1>5. /\ r.pc = "end" /\ r.call.op \in {"INTEREST", "FEES"} /\ Quiet /\ Leaves(f, s, e) /\ Moves(c, q)
  BY <1>1, <1>2, <1>3, <1>4, Followed
<1>6. r.said \in Seq(Record) /\ Postings(r.said)
  BY <1>2, <1>5, WorkParts
<1>7. d.chain \in Seq(Entry)
  BY <1>2 DEF IsBase
<1>8. NumbersIn(chain) = NumbersIn(d.chain)
  <2>1. PICK said, l : said = r.said /\ l = d.chain
    OBVIOUS
  <2>2. chain = l \o EntriesFor(said) /\ l \in Seq(Entry) /\ said \in Seq(Record) /\ Postings(said)
    BY <1>3, <1>6, <1>7, <2>1
  <2>3. chain \in Seq(Entry) /\ NumbersIn(chain) = NumbersIn(l)
    BY <2>2, ConcatEntries, Zenon
  <2> QED BY <2>1, <2>3
<1>9. e.txs = d.txs /\ e.chain = chain
  BY <1>3 DEF Base
<1>10. NumbersIn(e.chain) = NumbersIn(d.chain) /\ NumbersIn(e.txs) = NumbersIn(d.txs)
  BY <1>8, <1>9
<1>11. q.pc = "list" /\ q.work = NoWork
  BY <1>3, GoesFields
<1>12. ToRecord(q.work)
  BY <1>11, NothingToRecord
<1>13. e = db' /\ trx' = trx /\ overlapped' = overlapped
  BY <1>1, <1>5 DEF Leaves, Quiet
<1> QED BY <1>1, <1>5, <1>10, <1>11, <1>12, <1>13, PastRecords

LEMMA ListNumbers == ASSUME NumbersInv, TypeOK', NEW c \in Callers, List(c) PROVE NumbersInv'
<1>1. PICK r, f, s, d : r = run[c] /\ f = file /\ s = trx /\ d = db
  OBVIOUS
<1>2. TypeOK /\ WorkOK(r)
  BY <1>1, NumbersSay
<1>3. PICK w, q : w = Loaded(f, Arguments(r.call)) /\ q = Goes(r, "sync", r.work, r.num, f, r.said)
  OBVIOUS
<1>4. r.pc = "list" /\ Leaves(f, s, d) /\ Quiet /\ Moves(c, q)
  BY <1>1, <1>2, <1>3, Ran
<1>5. q.pc = "sync" /\ q.work = r.work
  BY <1>3, GoesFields
<1>6. ToRecord(q.work)
  BY <1>2, <1>5 DEF WorkOK
<1> QED BY <1>1, <1>4, <1>5, <1>6, PastRecords DEF Leaves, Quiet

LEMMA UpdateNumbers ==
    ASSUME NumbersInv, TypeOK', NEW c \in Callers, UpdateDone(c) \/ TruncateDat(c) \/ WriteDat(c)
    PROVE  NumbersInv'
<1>1. PICK r, f, s, d : r = run[c] /\ f = file /\ s = trx /\ d = db
  OBVIOUS
<1>2. TypeOK /\ WorkOK(r)
  BY <1>1, NumbersSay
<1>3. PICK acct : acct = [d.acct EXCEPT ![r.call.acct].status = r.call.to]
  OBVIOUS
<1>4. PICK q : /\ r.pc \in {"end", "truncate", "rewrite"} /\ trx' = s /\ db' = d /\ Quiet /\ Moves(c, q)
               /\ \/ \E place \in {"status", "rewrite", "log"} : q = Goes(r, place, r.work, r.num, r.seen, r.said)
                  \/ q = Goes(r, "list", NoWork, 0, NoAccounts, <<>>)
  <2>1. ASSUME UpdateDone(c)
        PROVE  /\ r.pc = "end" /\ Leaves(f, s, d) /\ Quiet
               /\ Moves(c, IF r.work.code = "killed" THEN On(r, "status")
                           ELSE Goes(r, "list", NoWork, 0, NoAccounts, <<>>))
    BY <1>1, <1>2, <1>3, <2>1, Followed
  <2>2. ASSUME TruncateDat(c)
        PROVE  r.pc = "truncate" /\ Leaves(NoAccounts, s, d) /\ Quiet /\ Moves(c, On(r, "rewrite"))
    BY <1>1, <1>2, <1>3, <2>2, Followed
  <2>3. ASSUME WriteDat(c)
        PROVE  r.pc = "rewrite" /\ Leaves(r.seen, s, d) /\ Quiet /\ Moves(c, On(r, "log"))
    BY <1>1, <1>2, <1>3, <2>3, Followed
  <2> QED BY <2>1, <2>2, <2>3 DEF On, Leaves
<1>5. q.pc \in {"list", "status", "rewrite", "log"} /\ ToRecord(q.work)
  <2>1. ToRecord(r.work) /\ ToRecord(NoWork)
    BY <1>2, NothingToRecord DEF WorkOK
  <2> QED BY <1>4, <2>1, GoesFields
<1> QED BY <1>1, <1>4, <1>5, PastRecords DEF Quiet

LEMMA SetStatusNumbers ==
    ASSUME NumbersInv, TypeOK', NEW c \in Callers, SetStatus(c)
    PROVE  NumbersInv'
<1>1. PICK r, f, s, d : r = run[c] /\ f = file /\ s = trx /\ d = db
  OBVIOUS
<1>2. TypeOK /\ WorkOK(r)
  BY <1>1, NumbersSay
<1>3. PICK acct : acct = [d.acct EXCEPT ![r.call.acct].status = r.call.to]
  OBVIOUS
<1>4. PICK e, q : e = Base(acct, d.txs, d.chain) /\ q = Goes(r, "truncate", r.work, r.num, acct, r.said)
  OBVIOUS
<1>5. r.pc = "status" /\ Leaves(f, s, e) /\ Quiet /\ Moves(c, q)
  BY <1>1, <1>2, <1>3, <1>4, Followed
<1>6. q.pc = "truncate" /\ ToRecord(q.work)
  BY <1>2, <1>4, GoesFields DEF WorkOK
<1>7. e.txs = d.txs /\ e.chain = d.chain
  BY <1>4 DEF Base
<1>8. e = db' /\ trx' = trx /\ overlapped' = overlapped
  BY <1>1, <1>5 DEF Leaves, Quiet
<1> QED BY <1>1, <1>5, <1>6, <1>7, <1>8, PastRecords

LEMMA SyncNumbers == ASSUME NumbersInv, TypeOK', NEW c \in Callers, Sync(c) PROVE NumbersInv'
<1>1. PICK r, f, s, d : r = run[c] /\ f = file /\ s = trx /\ d = db
  OBVIOUS
<1>2. TypeOK /\ WorkOK(r)
  BY <1>1, NumbersSay
<1>3. PICK acct : acct = [d.acct EXCEPT ![r.call.acct].status = r.call.to]
  OBVIOUS
<1>4. PICK e, q : /\ e = Base(CopiedTo(d.acct, r.seen), d.txs, d.chain)
                  /\ q = IF r.call.op = "UPDATE" THEN On(r, "status") ELSE Idle
  OBVIOUS
<1>5. r.pc = "sync" /\ Leaves(f, s, e) /\ Quiet /\ Moves(c, q)
  BY <1>1, <1>2, <1>3, <1>4, Followed
<1>6. q.pc \in {"status", "idle"} /\ ToRecord(q.work)
  <2>1. On(r, "status").pc = "status" /\ On(r, "status").work = r.work
    BY GoesFields DEF On
  <2>2. ToRecord(r.work)
    BY <1>2 DEF WorkOK
  <2> QED BY <1>4, <2>1, <2>2, IdleSays
<1>7. e.txs = d.txs /\ e.chain = d.chain
  BY <1>4 DEF Base
<1>8. e = db' /\ trx' = trx /\ overlapped' = overlapped
  BY <1>1, <1>5 DEF Leaves, Quiet
<1> QED BY <1>1, <1>5, <1>6, <1>7, <1>8, PastRecords

LEMMA LogStatusNumbers ==
    ASSUME NumbersInv, TypeOK', NEW c \in Callers, LogStatus(c)
    PROVE  NumbersInv'
<1>1. PICK r, f, s, d : r = run[c] /\ f = file /\ s = trx /\ d = db
  OBVIOUS
<1>2. TypeOK /\ IsJob(r) /\ IsBase(d)
  BY <1>1, NumbersSay
<1>3. PICK acct : acct = [d.acct EXCEPT ![r.call.acct].status = r.call.to]
  OBVIOUS
<1>4. PICK entry, chain, e : /\ entry = [id |-> 0, acct |-> r.call.acct, type |-> "S", amt |-> 0]
                             /\ chain = Append(d.chain, entry) /\ e = Base(d.acct, d.txs, chain)
  OBVIOUS
<1>5. r.pc = "log" /\ Quiet /\ Leaves(f, s, e) /\ Moves(c, Idle)
  BY <1>1, <1>2, <1>3, <1>4, Followed
<1>6. r.call.acct \in Accounts
  <2>1. r.call \in Calls /\ r.call.op = "UPDATE"
    BY <1>2, <1>5 DEF IsJob
  <2> QED BY <2>1, CallFields
<1>7. entry \in Entry /\ entry.id = 0
  BY <1>4, <1>6 DEF Entry
<1>8. d.chain \in Seq(Entry)
  BY <1>2 DEF IsBase
<1>9. NumbersIn(chain) = NumbersIn(d.chain)
  <2>1. NumbersIn(chain) = NumbersIn(d.chain) \cup ({entry.id} \ {0})
    BY <1>4, <1>7, <1>8, AppendNumbers
  <2> QED BY <1>7, <2>1
<1>10. e.txs = d.txs /\ e.chain = chain
  BY <1>4 DEF Base
<1>11. e = db' /\ trx' = trx /\ overlapped' = overlapped
  BY <1>1, <1>5 DEF Leaves, Quiet
<1>12. NumbersIn(e.chain) = NumbersIn(d.chain) /\ NumbersIn(e.txs) = NumbersIn(d.txs)
  BY <1>9, <1>10
<1> QED BY <1>1, <1>5, <1>11, <1>12, IdleSays, PastRecords

LEMMA CallNumbers ==
    ASSUME NumbersInv, TypeOK', NEW c \in Callers, NEW k \in Calls, Call(c, k)
    PROVE  NumbersInv'
<1>1. PICK r, f, s, d, W, V : r = run[c] /\ f = file /\ s = trx /\ d = db /\ W = Waiting /\ V = Waiting'
  OBVIOUS
<1>2. /\ TypeOK /\ (~overlapped => InOrder(s)) /\ NumbersIn(d.chain) = NumbersIn(d.txs) \cup W
  BY <1>1, NumbersSay
<1>3. PICK q : q = JobOf("load", k, NoWork, 0, NoAccounts, <<>>)
  OBVIOUS
<1>4. /\ r.pc = "idle" /\ Leaves(f, s, d) /\ Moves(c, q)
      /\ overlapped' = (overlapped \/ \E e \in Callers : ~At(e, "idle"))
  BY <1>1, <1>2, <1>3, Called
<1>5. q.pc = "load" /\ q.work = NoWork
  BY <1>3, JobFields
<1>6. WorkOK(q) /\ ~ Numbered(q)
  BY <1>5, NothingToRecord DEF WorkOK, Numbered
<1>7. \A e \in Callers : run'[e] = IF e = c THEN q ELSE run[e]
  BY <1>4 DEF Moves
<1>8. \A e \in Callers : WorkOK(run'[e])
  BY <1>6, <1>7 DEF NumbersInv
<1>9. V = W
  BY <1>1, <1>4, <1>5, WaitingMoves
<1>10. trx' = s /\ db' = d
  BY <1>4 DEF Leaves
<1>11. ASSUME ~overlapped'
       PROVE  /\ ~overlapped /\ \A e \in Callers : e # c => run'[e].pc = "idle"
              /\ \A e \in Callers : ~ Numbered(run'[e])
  <2>1. ~overlapped /\ \A e \in Callers : run[e].pc = "idle"
    BY <1>4, <1>11 DEF At
  <2> QED BY <1>6, <1>7, <2>1 DEF Numbered
<1>12. ~overlapped' => \A i, j \in DOMAIN s : i # j /\ s[i].code = "00" => s[i].id # s[j].id
  <2>1. s \in Seq(Record)
    BY <1>1, <1>2 DEF TypeOK
  <2> QED BY <1>2, <1>11, <2>1, InOrderUnique
<1>13. NumbersIdentifyPostings'
  BY <1>1, <1>2, <1>9, <1>10, <1>12 DEF NumbersIdentifyPostings, Waiting
<1>14. ~overlapped' => \A e, g \in Callers : run'[e].pc # "idle" /\ run'[g].pc # "idle" => e = g
  BY <1>11
<1>15. ~overlapped' => \A i \in DOMAIN s : s[i].id = IF s[i].code = "00" THEN i ELSE 0
  BY <1>2, <1>11 DEF InOrder
<1> QED BY <1>8, <1>10, <1>11, <1>13, <1>14, <1>15 DEF NumbersInv, At

LEMMA InitNumbers == Init => NumbersInv
<1> SUFFICES ASSUME Init PROVE NumbersInv
  OBVIOUS
<1>1. TypeOK
  BY InitFunds DEF FundsInv
<1>2. \A c \in Callers : run[c] = Idle
  BY DEF Init
<1>3. \A c \in Callers : run[c].pc = "idle" /\ WorkOK(run[c]) /\ ~ Numbered(run[c])
  BY <1>2, IdleSays
<1>4. trx = <<>> /\ db.txs = <<>> /\ db.chain = <<>>
  BY DEF Init
<1>5. DOMAIN <<>> = {}
  OBVIOUS
<1>6. DOMAIN trx = {} /\ NumbersIn(db.chain) = {} /\ NumbersIn(db.txs) = {}
  BY <1>4, <1>5 DEF NumbersIn
<1>7. NumbersIdentifyPostings
  BY <1>3, <1>6 DEF NumbersIdentifyPostings, At
<1> QED BY <1>1, <1>3, <1>6, <1>7 DEF NumbersInv, At

LEMMA NextNumbers == FundsInv /\ NumbersInv /\ [Next]_vars => NumbersInv'
<1> SUFFICES ASSUME FundsInv, NumbersInv, [Next]_vars PROVE NumbersInv'
  OBVIOUS
<1>1. TypeOK'
  BY NextFunds DEF FundsInv
<1>2. ASSUME NEW c \in Callers, NEW k \in Calls, Call(c, k) PROVE NumbersInv'
  BY <1>1, <1>2, CallNumbers
<1>3. ASSUME NEW c \in Callers, Program(c) PROVE NumbersInv'
  BY <1>1, <1>3, LoadNumbers, CountNumbers, AppendNumbered, OpenNumbers, SaveNumbers, ListNumbers, StopNumbers
     DEF Program
<1>4. ASSUME NEW c \in Callers, Bridge(c) PROVE NumbersInv'
  BY <1>1, <1>4, PostNumbers, ChainNumbers, InsertNumbers, RefusedNumbers, FallBackNumbers, MonthlyNumbers,
     SyncNumbers, UpdateNumbers, SetStatusNumbers, LogStatusNumbers DEF Bridge
<1>5. CASE UNCHANGED vars
  <2>1. NumbersIdentifyPostings'
    BY <1>5 DEF NumbersInv, NumbersIdentifyPostings, At, vars
  <2>2. \A c \in Callers : WorkOK(run'[c])
    BY <1>5 DEF NumbersInv, vars
  <2>3. (~overlapped =>
          /\ \A c, d \in Callers : ~At(c, "idle") /\ ~At(d, "idle") => c = d
          /\ \A i \in DOMAIN trx : trx[i].id = IF trx[i].code = "00" THEN i ELSE 0
          /\ \A c \in Callers : Numbered(run[c]) => run[c].num = Len(trx))'
    BY <1>5 DEF NumbersInv, At, vars
  <2> QED BY <1>1, <2>1, <2>2, <2>3 DEF NumbersInv
<1> QED BY <1>2, <1>3, <1>4, <1>5 DEF Next, Done

(* While calls come one at a time, the record a program appends has the    *)
(* number of its place, in spite of refusals, kills and fallbacks; and a   *)
(* number is in the chain exactly if its row is in the table or still to   *)
(* be inserted.                                                            *)
THEOREM NumbersIdentify == Spec => []NumbersIdentifyPostings
<1>1. Spec => [](FundsInv /\ NumbersInv)
  <2>1. Init => FundsInv /\ NumbersInv
    BY InitFunds, InitNumbers
  <2>2. FundsInv /\ NumbersInv /\ [Next]_vars => FundsInv' /\ NumbersInv'
    BY NextFunds, NextNumbers
  <2> QED BY <2>1, <2>2, PTL DEF Spec
<1>2. NumbersInv => NumbersIdentifyPostings
  BY DEF NumbersInv
<1> QED BY <1>1, <1>2, PTL

-----------------------------------------------------------------------------
(* File, database and chain.  The records of a monthly program account for *)
(* what it changes: an account has one of them, or none and keeps its      *)
(* balance.                                                                *)
Pays(records, t, u) ==
    /\ IsTable(u) /\ DOMAIN u = DOMAIN t
    /\ \A a \in DOMAIN t :
          \/ u[a].bal = t[a].bal /\ \A i \in DOMAIN records : records[i].acct # a
          \/ \E i \in DOMAIN records :
                /\ records[i].acct = a /\ u[a].bal = t[a].bal + Effect(records[i], a)
                /\ \A j \in DOMAIN records : j # i => records[j].acct # a

LEMMA MonthlyPays ==
    ASSUME NEW t, IsTable(t), NEW type \in {"I", "F"}, NEW sign \in {1, -1}, type = "I" <=> sign = 1,
           NEW amount, amount \in [DOMAIN amount -> Nat], DOMAIN amount \subseteq DOMAIN t,
           \A a \in DOMAIN amount : t[a].bal + sign * amount[a] >= 0,
           NEW w, w = Monthly(t, type, amount, sign)
    PROVE  w.after = <<>> /\ \E u : w.save = {u} /\ Pays(w.before, t, u)
<1>1. PICK due, paid : due = DOMAIN amount /\ paid = Paid(t, amount, sign)
  OBVIOUS
<1>2. /\ w.after = <<>> /\ w.save = {paid} /\ IsTable(paid)
      /\ \A a \in DOMAIN t : paid[a].bal = t[a].bal + IF a \in due THEN sign * amount[a] ELSE 0
      /\ \A i \in DOMAIN w.before :
            /\ w.before[i].acct \in due /\ w.before[i].type = type
            /\ w.before[i].amt = amount[w.before[i].acct]
      /\ \A i, j \in DOMAIN w.before : w.before[i].acct = w.before[j].acct => i = j
      /\ \A a \in due : \E i \in DOMAIN w.before : w.before[i].acct = a
  <2>1. w.after = <<>> /\ w.save = {paid} /\ IsTable(paid)
    BY <1>1, MonthlyWork
  <2>2. \A a \in DOMAIN t : paid[a].bal = t[a].bal + IF a \in due THEN sign * amount[a] ELSE 0
    BY <1>1, MonthlyWork
  <2>3. \A i \in DOMAIN w.before :
            /\ w.before[i].acct \in due /\ w.before[i].type = type
            /\ w.before[i].amt = amount[w.before[i].acct]
    BY <1>1, MonthlyWork
  <2>4. \A i, j \in DOMAIN w.before : w.before[i].acct = w.before[j].acct => i = j
    BY <1>1, MonthlyWork
  <2>5. \A a \in due : \E i \in DOMAIN w.before : w.before[i].acct = a
    <3>1. IsFiniteSet(due) /\ due \subseteq Accounts
      BY <1>1, AccountsAssumption, FS_Subset DEF IsTable
    <3>2. PICK order : order = SetToSeq(due)
      OBVIOUS
    <3>3. \A a \in due : \E i \in DOMAIN order : order[i] = a
      BY <3>1, <3>2, Listed
    <3>4. w.before = [i \in DOMAIN order |-> TxRecord(order[i], type, amount[order[i]], "00")]
      BY <1>1, <3>2, WorkFields DEF Monthly
    <3> QED BY <3>3, <3>4 DEF TxRecord
  <2> QED BY <2>1, <2>2, <2>3, <2>4, <2>5
<1>3. DOMAIN paid = DOMAIN t
  BY <1>1 DEF Paid
<1>4. ASSUME NEW a \in DOMAIN t
      PROVE  \/ paid[a].bal = t[a].bal /\ \A i \in DOMAIN w.before : w.before[i].acct # a
             \/ \E i \in DOMAIN w.before :
                   /\ w.before[i].acct = a /\ paid[a].bal = t[a].bal + Effect(w.before[i], a)
                   /\ \A j \in DOMAIN w.before : j # i => w.before[j].acct # a
  <2>1. t[a].bal \in Int
    BY DEF IsTable, Account
  <2>2. CASE a \notin due
    BY <1>2, <2>1, <2>2
  <2>3. CASE a \in due
    <3>1. PICK i \in DOMAIN w.before : w.before[i].acct = a
      BY <1>2, <2>3
    <3>2. PICK e, n, x : e = w.before[i] /\ n = amount[a] /\ x = Effect(e, a)
      OBVIOUS
    <3>3. e.acct = a /\ e.type = type /\ e.amt = n /\ n \in Nat
      BY <1>1, <1>2, <2>3, <3>1, <3>2
    <3>4. x = IF type = "I" THEN n ELSE - n
      BY <3>2, <3>3 DEF Effect
    <3>5. paid[a].bal = t[a].bal + x
      BY <1>2, <2>1, <2>3, <3>2, <3>3, <3>4
    <3> QED BY <1>2, <3>1, <3>2, <3>5
  <2> QED BY <2>2, <2>3
<1> QED BY <1>2, <1>3, <1>4 DEF Pays

LEMMA MonthlyLoaded ==
    ASSUME NEW t, IsTable(t), NEW k \in Calls, k.op \in {"INTEREST", "FEES"},
           NEW w, w = Loaded(t, Arguments(k))
    PROVE  w.after = <<>> /\ \E u : w.save = {u} /\ Pays(w.before, t, u)
<1> DEFINE j == Arguments(k)
<1>1. k.op \in Operations /\ j.op = k.op
  BY CallFields, ArgumentFields
<1>2. \A a \in DOMAIN t : t[a].bal \in Int
  BY DEF IsTable, Account
<1>3. CASE k.op = "INTEREST"
  <2> DEFINE due == {b \in DOMAIN t : BearsInterest(t, b)}
             amount == [a \in due |-> InterestOn(t[a].bal)]
  <2>1. w = Monthly(t, "I", amount, 1)
    BY <1>1, <1>3 DEF Loaded, Interest
  <2>2. \A a \in due : t[a].bal > 0 /\ InterestOn(t[a].bal) \in Nat
    BY <1>2, MonthlyAmounts DEF BearsInterest
  <2>3. DOMAIN amount = due /\ due \subseteq DOMAIN t /\ amount \in [DOMAIN amount -> Nat]
    BY <2>2
  <2>4. \A a \in due : t[a].bal + 1 * amount[a] >= 0
    BY <1>2, <2>2
  <2> HIDE DEF due, amount
  <2>5. \A a \in DOMAIN amount : t[a].bal + 1 * amount[a] >= 0
    BY <2>3, <2>4
  <2> QED BY <2>1, <2>3, <2>5, MonthlyPays
<1>4. CASE k.op = "FEES"
  <2> DEFINE due == {b \in DOMAIN t : OwesFee(t, b)}
             amount == [a \in due |-> FeeOn(t[a].bal)]
  <2>1. w = Monthly(t, "F", amount, -1)
    BY <1>1, <1>4 DEF Loaded, Fees
  <2>2. \A a \in due : FeeOn(t[a].bal) \in Nat /\ FeeOn(t[a].bal) <= t[a].bal
    BY <1>2, MonthlyAmounts DEF OwesFee
  <2>3. DOMAIN amount = due /\ due \subseteq DOMAIN t /\ amount \in [DOMAIN amount -> Nat]
    BY <2>2
  <2>4. \A a \in due : t[a].bal + (-1) * amount[a] >= 0
    BY <1>2, <2>2
  <2> HIDE DEF due, amount
  <2>5. \A a \in DOMAIN amount : t[a].bal + (-1) * amount[a] >= 0
    BY <2>3, <2>4
  <2> QED BY <2>1, <2>3, <2>5, MonthlyPays
<1> QED BY <1>3, <1>4

(* What a program that ran to its end leaves in the file.                  *)
LEMMA Results ==
    ASSUME NEW r, IsTable(r.seen), r.call \in Calls, r.call.op # "BATCH"
    PROVE  /\ Undone(r).code \in {"00", "01", "02", "03", "04"}
           /\ IsWork(Undone(r)) /\ ToRecord(Undone(r))
           /\ Undone(r).save = {} => Result(r) = r.seen
           /\ Undone(r).save # {} => Undone(r).save = {Result(r)} /\ IsTable(Result(r))
           /\ r.call.op \in {"D", "W", "T"} =>
                 /\ Undone(r).code = TransactCode(r.seen, r.call)
                 /\ Undone(r).code = "00" => Result(r) = Transacted(r.seen, r.call) /\ Undone(r).before = <<>>
                                             /\ Undone(r).save # {}
                 /\ Undone(r).code # "00" => Result(r) = r.seen
           /\ r.call.op = "UPDATE" =>
                 DOMAIN Result(r) = DOMAIN r.seen /\ \A a \in DOMAIN r.seen : Result(r)[a].bal = r.seen[a].bal
           /\ r.call.op \in {"INTEREST", "FEES"} =>
                 Undone(r).after = <<>> /\ Pays(Undone(r).before, r.seen, Result(r))
<1>1. PICK t, k, w, u : t = r.seen /\ k = r.call /\ w = Undone(r) /\ u = Result(r)
  OBVIOUS
<1>2. w = Loaded(t, Arguments(k)) /\ u = IF w.save = {} THEN t ELSE CHOOSE z \in w.save : TRUE
  BY <1>1 DEF Undone, Result
<1>3. k \in Calls /\ IsTable(t) /\ k.op \in Operations /\ k.op # "BATCH"
  BY <1>1, CallFields
<1>4. /\ IsWork(w) /\ ToRecord(w) /\ w.code \in {"00", "01", "02", "03", "04"}
      /\ k.op \in {"D", "W", "T"} =>
            /\ w.code = TransactCode(t, k)
            /\ w.code = "00" => w.before = <<>> /\ w.after # <<>> /\ w.save = {Transacted(t, k)}
            /\ w.code # "00" => w.save = {} /\ w.after = <<>>
  BY <1>2, <1>3, LoadedWork
<1>5. k.op = "UPDATE" => w.save = {} \/ \E z : w.save = {z} /\ DOMAIN z = DOMAIN t /\ \A a \in DOMAIN t : z[a].bal = t[a].bal
  <2>1. k.op = "UPDATE" => Arguments(k).op = "UPDATE"
    BY <1>3, ArgumentFields
  <2> QED BY <1>2, <1>3, <2>1, UpdateWork DEF Loaded
<1>6. k.op \in {"INTEREST", "FEES"} => w.after = <<>> /\ \E z : w.save = {z} /\ Pays(w.before, t, z)
  BY <1>2, <1>3, MonthlyLoaded
<1>7. w.save = {} \/ \E z : w.save = {z}
  BY <1>3, <1>4, <1>5, <1>6 DEF Operations
<1>8. w.save # {} => w.save = {u}
  BY <1>2, <1>7
<1>9. w.save = {} => u = t
  BY <1>2
<1>10. w.save # {} => IsTable(u)
  BY <1>4, <1>8 DEF IsWork
<1>11. k.op \in {"D", "W", "T"} => /\ w.code = "00" => u = Transacted(t, k) /\ w.save # {}
                                   /\ w.code # "00" => u = t
  BY <1>4, <1>8, <1>9
<1>12. k.op = "UPDATE" => DOMAIN u = DOMAIN t /\ \A a \in DOMAIN t : u[a].bal = t[a].bal
  BY <1>5, <1>8, <1>9
<1>13. k.op \in {"INTEREST", "FEES"} => w.after = <<>> /\ Pays(w.before, t, u)
  BY <1>6, <1>8
<1>14. k.op \in {"D", "W", "T"} => w.code = TransactCode(t, k) /\ (w.code = "00" => w.before = <<>>)
  BY <1>4
<1> QED BY <1>1, <1>4, <1>8, <1>9, <1>10, <1>11, <1>12, <1>13, <1>14

LEMMA AgreeSays ==
    ASSUME AgreeInv, NEW c \in Callers, NEW r, r = run[c], NEW f, f = file, NEW s, s = trx, NEW d, d = db
    PROVE  /\ TypeOK /\ IsJob(r) /\ WorkOK(r) /\ IsTable(f) /\ s \in Seq(Record) /\ IsBase(d) /\ IsTable(r.seen)
           /\ r.pc # "idle" => r.call \in Calls
           /\ Undisturbed =>
                 /\ NumbersBelow(d.txs, Len(s) + 1) /\ r.call.op # "BATCH"
                 /\ Numbered(r) => r.num = Len(s)
                 /\ r.pc # "idle" => Following(r, f, s, d) /\ \A e \in Callers : e # c => At(e, "idle")
<1>1. /\ TypeOK /\ IsJob(r) /\ WorkOK(r) /\ s \in Seq(Record) /\ IsBase(d)
      /\ ~overlapped => (Numbered(r) => r.num = Len(s))
      /\ ~overlapped /\ r.pc # "idle" => \A e \in Callers : e # c => At(e, "idle")
  BY NumbersSay DEF AgreeInv
<1>2. IsTable(f)
  BY <1>1 DEF TypeOK
<1>3. IsTable(r.seen) /\ (r.pc # "idle" => r.call \in Calls)
  BY <1>1, WorkParts
<1>4. Undisturbed => /\ NumbersBelow(d.txs, Len(s) + 1) /\ r.call.op # "BATCH" /\ ~overlapped
                     /\ r.pc # "idle" => Following(r, f, s, d)
  BY DEF AgreeInv, Undisturbed, At, Op
<1> QED BY <1>1, <1>2, <1>3, <1>4

(* A caller moves on and stays in step.                                    *)
KeepsStep(q, f, s, d) ==
    /\ q.call.op # "BATCH" /\ NumbersBelow(d.txs, Len(s) + 1)
    /\ IF q.pc = "idle" THEN InStep(f, d) ELSE Following(q, f, s, d)

LEMMA AgreeKept ==
    ASSUME AgreeInv, FundsInv', NumbersInv', NEW c \in Callers, NEW r, r = run[c], r.pc # "idle",
           NEW q, Moves(c, q), UNCHANGED <<kills, overlapped, batched>>,
           NEW f, f = file', NEW s, s = trx', NEW d, d = db', Undisturbed => KeepsStep(q, f, s, d)
    PROVE  AgreeInv'
<1>1. \A e \in Callers : run'[e] = IF e = c THEN q ELSE run[e]
  BY DEF Moves
<1>2. Undisturbed' = Undisturbed
  BY DEF Undisturbed
<1>3. ASSUME Undisturbed
      PROVE  /\ \A e \in Callers : run'[e].call.op # "BATCH" /\ (run'[e].pc # "idle" => Following(run'[e], f, s, d))
             /\ (\A e \in Callers : run'[e].pc = "idle") => InStep(f, d)
             /\ NumbersBelow(d.txs, Len(s) + 1)
  <2>1. \A e \in Callers : e # c => run[e].pc = "idle"
    BY <1>3, AgreeSays DEF At
  <2>2. \A e \in Callers : run[e].call.op # "BATCH"
    BY <1>3 DEF AgreeInv, Op
  <2>3. q.call.op # "BATCH" /\ (q.pc # "idle" => Following(q, f, s, d)) /\ (q.pc = "idle" => InStep(f, d))
        /\ NumbersBelow(d.txs, Len(s) + 1)
    BY <1>3 DEF KeepsStep
  <2> HIDE DEF Following, InStep, NumbersBelow
  <2> QED BY <1>1, <2>1, <2>2, <2>3
<1> QED BY <1>2, <1>3 DEF AgreeInv, Resting, At, Op

LEMMA LoadAgrees ==
    ASSUME AgreeInv, FundsInv', NumbersInv', NEW c \in Callers, Load(c)
    PROVE  AgreeInv'
<1>1. PICK r, f, s, d : r = run[c] /\ f = file /\ s = trx /\ d = db
  OBVIOUS
<1>2. /\ TypeOK /\ IsJob(r) /\ IsTable(f) /\ (r.pc # "idle" => r.call \in Calls)
      /\ Undisturbed =>
            /\ NumbersBelow(d.txs, Len(s) + 1) /\ r.call.op # "BATCH"
            /\ r.pc # "idle" => Following(r, f, s, d)
  BY <1>1, AgreeSays
<1>3. PICK w : w = Loaded(f, Arguments(r.call))
  OBVIOUS
<1>4. /\ r.pc = "load" /\ Leaves(f, s, d) /\ Quiet
      /\ \E place \in {"count", Onward(w)} : Moves(c, Goes(r, place, w, r.num, f, r.said))
  BY <1>1, <1>2, <1>3, Ran
<1>5. PICK place \in {"count", Onward(w)} : Moves(c, Goes(r, place, w, r.num, f, r.said))
  BY <1>4
<1>6. PICK q : q = Goes(r, place, w, r.num, f, r.said)
  OBVIOUS
<1>7. q.pc = place /\ q.call = r.call /\ q.work = w /\ q.seen = f /\ q.said = r.said /\ Moves(c, q)
  BY <1>5, <1>6, GoesFields
<1>8. Undone(q) = w
  BY <1>3, <1>7 DEF Undone
<1>9. ASSUME Undisturbed PROVE KeepsStep(q, f, s, d)
  <2>1. /\ r.call \in Calls /\ r.call.op # "BATCH" /\ NumbersBelow(d.txs, Len(s) + 1)
        /\ InStep(f, d) /\ r.said = <<>>
    BY <1>2, <1>4, <1>9 DEF Following
  <2>2. /\ IsWork(w) /\ (w.save = {} => Result(q) = f)
        /\ q.call.op \in {"D", "W", "T"} /\ w.code = "00" => w.before = <<>> /\ w.save # {}
        /\ q.call.op \in {"INTEREST", "FEES"} => w.after = <<>>
    BY <1>2, <1>7, <1>8, <2>1, Results
  <2>3. q.call.op \in {"INTEREST", "FEES"} => SaidSoFar(q.said, w.before, Undone(q).before)
    <3>1. PICK b : b = w.before
      OBVIOUS
    <3>2. b \in Seq(Record)
      BY <2>2, <3>1 DEF IsWork
    <3>3. Len(b) \in Nat /\ DOMAIN b = 1 .. Len(b) /\ Len(<<>>) = 0 /\ DOMAIN <<>> = {}
      <4> HIDE DEF Record
      <4> QED BY <3>2
    <3>4. SaidSoFar(<<>>, b, b)
      BY <3>3 DEF SaidSoFar, Like
    <3> QED BY <1>7, <1>8, <2>1, <3>1, <3>4
  <2>4. place \in {"count", "append", "open", "end"} /\ (place \in {"open", "end"} => w.before = <<>>)
        /\ (place = "end" => w.save = {})
    BY DEF Onward
  <2>5. AtWork(q, f, d)
    BY <1>7, <1>8, <2>1, <2>2, <2>3, <2>4 DEF AtWork, InStep
  <2>6. Following(q, f, s, d)
    BY <1>7, <2>2, <2>4, <2>5 DEF Following
  <2> QED BY <1>7, <2>1, <2>4, <2>6 DEF KeepsStep
<1> QED BY <1>1, <1>4, <1>7, <1>9, AgreeKept DEF Leaves, Quiet

(* A program that goes on with the same call and table.                    *)
LEMMA SameUndone ==
    ASSUME NEW r, NEW q, q.call = r.call, q.seen = r.seen
    PROVE  Undone(q) = Undone(r) /\ Result(q) = Result(r)
BY DEF Undone, Result

LEMMA CountAgrees ==
    ASSUME AgreeInv, FundsInv', NumbersInv', NEW c \in Callers, Count(c)
    PROVE  AgreeInv'
<1>1. PICK r, f, s, d : r = run[c] /\ f = file /\ s = trx /\ d = db
  OBVIOUS
<1>2. /\ TypeOK /\ WorkOK(r)
      /\ Undisturbed =>
            /\ NumbersBelow(d.txs, Len(s) + 1) /\ r.call.op # "BATCH"
            /\ r.pc # "idle" => Following(r, f, s, d)
  BY <1>1, AgreeSays
<1>3. PICK q, w : w = Loaded(f, Arguments(r.call)) /\ q = Goes(r, Onward(r.work), r.work, Len(s), r.seen, r.said)
  OBVIOUS
<1>4. r.pc = "count" /\ Leaves(f, s, d) /\ Quiet /\ Moves(c, q)
  BY <1>1, <1>2, <1>3, Ran
<1>5. q.pc = Onward(r.work) /\ q.call = r.call /\ q.work = r.work /\ q.seen = r.seen /\ q.said = r.said
  BY <1>3, GoesFields
<1>6. ASSUME Undisturbed PROVE KeepsStep(q, f, s, d)
  <2>1. AtWork(r, f, d) /\ r.call.op # "BATCH" /\ NumbersBelow(d.txs, Len(s) + 1)
    BY <1>2, <1>4, <1>6 DEF Following
  <2>2. q.pc \in {"append", "open", "end"} /\ (q.pc \in {"open", "end"} => r.work.before = <<>>)
        /\ (q.pc = "end" => r.work.save = {})
    BY <1>5 DEF Onward
  <2>3. Undone(q) = Undone(r) /\ Result(q) = Result(r)
    BY <1>5, SameUndone
  <2>4. AtWork(q, f, d)
    BY <1>4, <1>5, <2>1, <2>2, <2>3 DEF AtWork
  <2>5. ~ (q.pc = "end" /\ r.call.op \in {"D", "W"} /\ r.work.code = "00")
    BY <1>2, <1>4, <2>2 DEF WorkOK
  <2>6. Following(q, f, s, d)
    BY <1>5, <2>2, <2>4, <2>5 DEF Following
  <2> QED BY <1>5, <2>1, <2>2, <2>6 DEF KeepsStep
<1> QED BY <1>1, <1>4, <1>6, AgreeKept DEF Leaves, Quiet

LEMMA OpenAgrees ==
    ASSUME AgreeInv, FundsInv', NumbersInv', NEW c \in Callers, Open(c)
    PROVE  AgreeInv'
<1>1. PICK r, f, s, d : r = run[c] /\ f = file /\ s = trx /\ d = db
  OBVIOUS
<1>2. /\ TypeOK /\ IsJob(r)
      /\ Undisturbed =>
            /\ NumbersBelow(d.txs, Len(s) + 1) /\ r.call.op # "BATCH"
            /\ r.pc # "idle" => Following(r, f, s, d)
  BY <1>1, AgreeSays
<1>3. PICK q, w, g : /\ w = Loaded(f, Arguments(r.call)) /\ q = Goes(r, "write", r.work, r.num, r.seen, r.said)
                     /\ g = NoAccounts
  OBVIOUS
<1>4. r.pc = "open" /\ Leaves(g, s, d) /\ Quiet /\ Moves(c, q)
  BY <1>1, <1>2, <1>3, Ran DEF On
<1>5. q.pc = "write" /\ q.call = r.call /\ q.work = r.work /\ q.seen = r.seen /\ q.said = r.said
  BY <1>3, GoesFields
<1>6. ASSUME Undisturbed PROVE KeepsStep(q, g, s, d)
  <2>1. AtWork(r, f, d) /\ r.call.op # "BATCH" /\ NumbersBelow(d.txs, Len(s) + 1)
    BY <1>2, <1>4, <1>6 DEF Following
  <2>2. Undone(q) = Undone(r) /\ Result(q) = Result(r)
    BY <1>5, SameUndone
  <2>3. AtWork(q, g, d)
    BY <1>3, <1>4, <1>5, <2>1, <2>2 DEF AtWork
  <2>4. Following(q, g, s, d)
    BY <1>5, <2>3 DEF Following
  <2> QED BY <1>5, <2>1, <2>4 DEF KeepsStep
<1> QED BY <1>1, <1>4, <1>6, AgreeKept DEF Leaves, Quiet

LEMMA SaveAgrees ==
    ASSUME AgreeInv, FundsInv', NumbersInv', NEW c \in Callers, Save(c)
    PROVE  AgreeInv'
<1>1. PICK r, f, s, d, g : r = run[c] /\ f = file /\ s = trx /\ d = db /\ g = file'
  OBVIOUS
<1>2. /\ TypeOK /\ IsJob(r) /\ WorkOK(r) /\ IsTable(r.seen) /\ (r.pc # "idle" => r.call \in Calls)
      /\ Undisturbed =>
            /\ NumbersBelow(d.txs, Len(s) + 1) /\ r.call.op # "BATCH"
            /\ r.pc # "idle" => Following(r, f, s, d)
  BY <1>1, AgreeSays
<1>3. PICK last, q : /\ last = Work(r.work.after, {}, <<>>, r.work.code)
                     /\ q = Goes(r, Onward(last), last, r.num, r.seen, r.said)
  OBVIOUS
<1>4. /\ r.pc = "write" /\ trx' = s /\ db' = d /\ Quiet /\ Moves(c, q)
      /\ \E t \in r.work.save :
            g = [a \in DOMAIN t \cup DOMAIN f |-> IF a \in DOMAIN t THEN t[a] ELSE f[a]]
  BY <1>1, <1>2, <1>3, Saved
<1>5. q.pc = Onward(last) /\ q.call = r.call /\ q.work = last /\ q.seen = r.seen /\ q.said = r.said
  BY <1>3, GoesFields
<1>6. last.before = r.work.after /\ last.save = {} /\ last.after = <<>> /\ last.code = r.work.code
  BY <1>3, WorkFields
<1>7. ASSUME Undisturbed PROVE KeepsStep(q, g, s, d)
  <2>1. AtWork(r, f, d) /\ r.call.op # "BATCH" /\ NumbersBelow(d.txs, Len(s) + 1)
    BY <1>2, <1>4, <1>7 DEF Following
  <2>2. PICK t \in r.work.save : g = [a \in DOMAIN t \cup DOMAIN f |-> IF a \in DOMAIN t THEN t[a] ELSE f[a]]
    BY <1>4
  <2>3. f = NoAccounts /\ r.work.save = Undone(r).save /\ r.work.before = <<>>
    BY <1>4, <2>1, <2>2 DEF AtWork
  <2>4. Undone(r).save = {Result(r)} /\ IsTable(Result(r))
    BY <1>2, <1>4, <2>1, <2>2, <2>3, Results
  <2>5. t = Result(r) /\ IsTable(t)
    BY <2>2, <2>3, <2>4
  <2>6. DOMAIN f = {}
    BY <2>3 DEF NoAccounts
  <2>7. g = [a \in DOMAIN t |-> t[a]]
    BY <2>2, <2>6
  <2>8. g = Result(r)
    BY <2>5, <2>7 DEF IsTable
  <2>9. q.pc \in {"append", "end"} /\ (q.pc = "end" => last.before = <<>>)
    BY <1>5, <1>6 DEF Onward
  <2>10. Undone(q) = Undone(r) /\ Result(q) = Result(r)
    BY <1>5, SameUndone
  <2>11. r.call.op \in {"INTEREST", "FEES"} => last.before = r.work.before
    BY <1>6, <2>1, <2>3 DEF AtWork
  <2>12. AtWork(q, g, d)
    BY <1>4, <1>5, <1>6, <2>1, <2>8, <2>9, <2>10, <2>11 DEF AtWork
  <2>13. ~ (q.pc = "end" /\ r.call.op \in {"D", "W"} /\ r.work.code = "00")
    BY <1>2, <1>4, <1>6, <2>9 DEF WorkOK
  <2>14. Following(q, g, s, d)
    BY <1>5, <1>6, <2>9, <2>12, <2>13 DEF Following
  <2> QED BY <1>5, <2>1, <2>9, <2>14 DEF KeepsStep
<1> QED BY <1>1, <1>4, <1>7, AgreeKept DEF Quiet

LEMMA ListAgrees ==
    ASSUME AgreeInv, FundsInv', NumbersInv', NEW c \in Callers, List(c)
    PROVE  AgreeInv'
<1>1. PICK r, f, s, d : r = run[c] /\ f = file /\ s = trx /\ d = db
  OBVIOUS
<1>2. /\ TypeOK
      /\ Undisturbed =>
            /\ NumbersBelow(d.txs, Len(s) + 1) /\ r.call.op # "BATCH"
            /\ r.pc # "idle" => Following(r, f, s, d)
  BY <1>1, AgreeSays
<1>3. PICK w, q : w = Loaded(f, Arguments(r.call)) /\ q = Goes(r, "sync", r.work, r.num, f, r.said)
  OBVIOUS
<1>4. r.pc = "list" /\ Leaves(f, s, d) /\ Quiet /\ Moves(c, q)
  BY <1>1, <1>2, <1>3, Ran
<1>5. q.pc = "sync" /\ q.call = r.call /\ q.seen = f
  BY <1>3, GoesFields
<1>6. Undisturbed => KeepsStep(q, f, s, d)
  BY <1>2, <1>4, <1>5 DEF Following, KeepsStep
<1> QED BY <1>1, <1>4, <1>6, AgreeKept DEF Leaves, Quiet

LEMMA BelowMore ==
    ASSUME NEW d, IsBase(d), NEW n \in Nat, NEW m \in Nat, n <= m, NumbersBelow(d.txs, n)
    PROVE  NumbersBelow(d.txs, m)
<1>1. \A i \in DOMAIN d.txs : d.txs[i].id \in Nat
  <2>1. d.txs \in Seq(Entry)
    BY DEF IsBase
  <2>2. \A i \in DOMAIN d.txs : d.txs[i] \in Entry
    <3> HIDE DEF Entry
    <3> QED BY <2>1
  <2> QED BY <2>2 DEF Entry
<1> QED BY <1>1 DEF NumbersBelow

(* One record more is told, one less is left.                              *)
LEMMA SaidOne ==
    ASSUME NEW said \in Seq(Record), NEW b \in Seq(Record), b # <<>>, NEW all \in Seq(Record),
           SaidSoFar(said, b, all), NEW record \in Record, Like(record, b[1]),
           NEW more, more = Append(said, record), NEW left, left = Tail(b)
    PROVE  SaidSoFar(more, left, all)
<1>1. /\ left \in Seq(Record) /\ Len(b) \in Nat /\ Len(b) > 0 /\ Len(left) = Len(b) - 1
      /\ DOMAIN b = 1 .. Len(b) /\ DOMAIN left = 1 .. Len(left) /\ 1 \in DOMAIN b
      /\ \A i \in DOMAIN left : left[i] = b[i + 1] /\ i + 1 \in DOMAIN b
  <2> HIDE DEF Record
  <2> QED BY TailOf
<1>2. /\ Len(said) \in Nat /\ Len(more) = Len(said) + 1 /\ DOMAIN said = 1 .. Len(said)
      /\ DOMAIN more = 1 .. (Len(said) + 1) /\ more[Len(said) + 1] = record
      /\ \A i \in DOMAIN said : more[i] = said[i]
  <2> HIDE DEF Record
  <2> QED BY AppendOf
<1>3. /\ Len(said) + Len(b) = Len(all)
      /\ \A i \in DOMAIN said : Like(said[i], all[i])
      /\ \A i \in DOMAIN b : Like(b[i], all[Len(said) + i])
  BY DEF SaidSoFar
<1>4. Len(more) + Len(left) = Len(all)
  BY <1>1, <1>2, <1>3
<1>5. ASSUME NEW i \in DOMAIN more PROVE Like(more[i], all[i])
  <2>1. CASE i \in DOMAIN said
    BY <1>2, <1>3, <2>1
  <2>2. CASE i \notin DOMAIN said
    <3>1. i = Len(said) + 1
      BY <1>2, <2>2
    <3>2. Like(b[1], all[i])
      BY <1>1, <1>3, <3>1
    <3> QED BY <1>2, <3>1, <3>2 DEF Like
  <2> QED BY <2>1, <2>2
<1>6. ASSUME NEW i \in DOMAIN left PROVE Like(left[i], all[Len(more) + i])
  <2>1. PICK n, m : n = Len(said) /\ m = Len(more)
    OBVIOUS
  <2>2. n \in Nat /\ m = n + 1 /\ i \in Nat
    <3>1. Len(left) \in Int
      BY <1>1
    <3> QED BY <1>1, <1>2, <2>1, <3>1
  <2>3. m + i = n + (i + 1)
    BY <2>2
  <2> QED BY <1>1, <1>3, <2>1, <2>3
<1> QED BY <1>4, <1>5, <1>6 DEF SaidSoFar

LEMMA AppendAgrees ==
    ASSUME AgreeInv, FundsInv', NumbersInv', NEW c \in Callers, AppendRecord(c)
    PROVE  AgreeInv'
<1>1. PICK r, f, s, d : r = run[c] /\ f = file /\ s = trx /\ d = db
  OBVIOUS
<1>2. /\ TypeOK /\ IsJob(r) /\ WorkOK(r) /\ s \in Seq(Record) /\ IsBase(d) /\ IsTable(r.seen)
      /\ r.pc # "idle" => r.call \in Calls
      /\ Undisturbed =>
            /\ NumbersBelow(d.txs, Len(s) + 1) /\ r.call.op # "BATCH"
            /\ Numbered(r) => r.num = Len(s)
            /\ r.pc # "idle" => Following(r, f, s, d)
  BY <1>1, AgreeSays
<1>3. PICK head, num, record, left : AppendsRecord(r, head, num, record, left)
  BY DEF AppendsRecord
<1>4. PICK z, said, q : /\ z = Append(s, record) /\ said = Append(r.said, record)
                        /\ q = Goes(r, Onward(left), left, num, r.seen, said)
  OBVIOUS
<1>5. r.pc = "append" /\ Leaves(f, z, d) /\ Quiet /\ Moves(c, q)
  BY <1>1, <1>2, <1>3, <1>4, Appended
<1>6. /\ IsWork(left) /\ num \in Nat /\ record \in Record
      /\ num = IF head.code = "00" THEN r.num + 1 ELSE r.num
      /\ record.acct = head.acct /\ record.type = head.type /\ record.amt = head.amt /\ record.code = head.code
      /\ head \in Record /\ head = r.work.before[1] /\ 1 \in DOMAIN r.work.before
      /\ left.before = Tail(r.work.before) /\ left.save = r.work.save /\ left.after = r.work.after
      /\ left.code = r.work.code
  BY <1>2, <1>3, <1>4, <1>5, Appending
<1>7. /\ q.pc = Onward(left) /\ q.call = r.call /\ q.work = left /\ q.num = num /\ q.seen = r.seen
      /\ q.said = said
  <2>1. q = Goes(r, Onward(left), left, num, r.seen, said)
    BY <1>4
  <2> QED BY <2>1, GoesFields
<1>8. /\ r.num \in Nat /\ r.work.before \in Seq(Record) /\ r.work.before # <<>> /\ r.said \in Seq(Record)
      /\ r.call \in Calls
  BY <1>2, <1>5, WorkParts DEF IsJob
<1>9. head.code = r.work.code
  BY <1>2, <1>6, ToRecordParts DEF WorkOK
<1>10. Len(s) \in Nat /\ Len(z) = Len(s) + 1
  <2> HIDE DEF Record
  <2> QED BY <1>2, <1>4, <1>6, AppendOf
<1>11. ASSUME Undisturbed PROVE KeepsStep(q, f, z, d)
  <2>1. AtWork(r, f, d) /\ r.call.op # "BATCH" /\ NumbersBelow(d.txs, Len(s) + 1)
    BY <1>2, <1>5, <1>11 DEF Following
  <2>2. NumbersBelow(d.txs, Len(z) + 1)
    BY <1>2, <1>10, <2>1, BelowMore
  <2>3. q.pc \in {"append", "open", "end"} /\ (q.pc \in {"open", "end"} => left.before = <<>>)
        /\ (q.pc = "end" => left.save = {})
    BY <1>7 DEF Onward
  <2>4. Undone(q) = Undone(r) /\ Result(q) = Result(r)
    BY <1>7, SameUndone
  <2>5. r.call.op \in {"INTEREST", "FEES"} => SaidSoFar(said, left.before, Undone(q).before)
    <3>1. PICK b, l, all : b = r.work.before /\ l = left.before /\ all = Undone(r).before
      OBVIOUS
    <3>2. all \in Seq(Record)
      BY <1>2, <1>8, <2>1, <3>1, Results DEF IsWork
    <3>3. r.call.op \in {"INTEREST", "FEES"} => SaidSoFar(r.said, b, all)
      BY <2>1, <3>1 DEF AtWork
    <3>4. Like(record, b[1])
      BY <1>6, <3>1 DEF Like
    <3>5. b \in Seq(Record) /\ b # <<>> /\ l = Tail(b)
      BY <1>6, <1>8, <3>1
    <3>6. r.call.op \in {"INTEREST", "FEES"} => SaidSoFar(said, l, all)
      BY <1>4, <1>6, <1>8, <3>2, <3>3, <3>4, <3>5, SaidOne
    <3> QED BY <2>4, <3>1, <3>6
  <2>6. AtWork(q, f, d)
    BY <1>5, <1>6, <1>7, <2>1, <2>3, <2>4, <2>5 DEF AtWork
  <2>7. r.work.code = "00" => num = Len(s) + 1
    <3>1. r.work.code = "00" => Numbered(r)
      BY <1>5, <1>8 DEF Numbered, Recording
    <3> QED BY <1>2, <1>6, <1>9, <1>11, <3>1
  <2>8. r.work.code = "00" => NumbersBelow(d.txs, q.num) /\ q.num <= Len(z)
    BY <1>7, <1>10, <2>1, <2>7
  <2>9. Following(q, f, z, d)
    BY <1>6, <1>7, <2>3, <2>6, <2>8 DEF Following
  <2> QED BY <1>7, <2>1, <2>2, <2>3, <2>9 DEF KeepsStep
<1> QED BY <1>1, <1>5, <1>11, AgreeKept DEF Leaves, Quiet

LEMMA StopAgrees ==
    ASSUME AgreeInv, FundsInv', NumbersInv', NEW c \in Callers, OpenFails(c) \/ Kill(c)
    PROVE  AgreeInv'
<1>1. PICK r, f, s, d : r = run[c] /\ f = file /\ s = trx /\ d = db
  OBVIOUS
<1>2. /\ TypeOK
      /\ Undisturbed /\ r.pc # "idle" => \A e \in Callers : e # c => At(e, "idle")
  BY <1>1, AgreeSays
<1>3. ~ Undisturbed'
  <2>1. ASSUME Kill(c) PROVE ~ Undisturbed'
    <3>1. kills' = kills + 1 /\ kills \in Nat
      BY <1>1, <1>2, <2>1, Broke DEF TypeOK
    <3> QED BY <3>1 DEF Undisturbed
  <2>2. ASSUME OpenFails(c) PROVE ~ Undisturbed'
    <3>1. r.pc \in {"load", "open", "list"} /\ Quiet /\ \E e \in Callers : e # c /\ At(e, "write")
      BY <1>1, <1>2, <2>2, Broke
    <3>2. ~ Undisturbed
      BY <1>2, <3>1 DEF At
    <3> QED BY <3>1, <3>2 DEF Undisturbed, Quiet
  <2> QED BY <2>1, <2>2
<1> QED BY <1>3 DEF AgreeInv

(* What the chain tells of an account.                                     *)
LEMMA EffectInt ==
    ASSUME NEW e, e.amt \in Int, NEW a
    PROVE  Effect(e, a) \in Int /\ (e.acct # a => Effect(e, a) = 0)
BY DEF Effect

(* The chain tells of a the sum of w, its first n terms.                   *)
Tells(chain, a, n, w) ==
    /\ Told(chain, a) = SumFunctionOnSet(w, 1 .. n)
    /\ \A i \in 1 .. n : w[i] = Effect(chain[i], a) /\ w[i] \in Int

LEMMA ToldSum ==
    ASSUME NEW chain \in Seq(Entry), NEW a, NEW n \in Nat, n = Len(chain)
    PROVE  \E w : Tells(chain, a, n, w)
<1>1. DOMAIN chain = 1 .. n /\ \A i \in 1 .. n : chain[i] \in Entry
  <2> HIDE DEF Entry
  <2> QED OBVIOUS
<1>2. PICK w : w = [i \in DOMAIN chain |-> Effect(chain[i], a)]
  OBVIOUS
<1>3. \A i \in 1 .. n : w[i] = Effect(chain[i], a) /\ w[i] \in Int
  <2> SUFFICES ASSUME NEW i \in 1 .. n PROVE w[i] = Effect(chain[i], a) /\ w[i] \in Int
    OBVIOUS
  <2>1. chain[i].amt \in Int
    BY <1>1 DEF Entry
  <2> QED BY <1>1, <1>2, <2>1, EffectInt
<1>4. Told(chain, a) = SumFunctionOnSet(w, 1 .. n)
  <2>1. DOMAIN w = 1 .. n
    BY <1>1, <1>2
  <2>2. Told(chain, a) = SumFunction(w)
    BY <1>2 DEF Told
  <2> QED BY <2>1, <2>2 DEF SumFunction
<1>5. Tells(chain, a, n, w)
  BY <1>3, <1>4 DEF Tells
<1> QED BY <1>5

Longer(chain, longer, n, l) ==
    /\ chain \in Seq(Entry) /\ longer \in Seq(Entry) /\ n = Len(chain) /\ l = Len(longer) /\ n <= l
    /\ \A i \in 1 .. n : longer[i] = chain[i]

(* Of the new entries at most one is about a.                              *)
Gains(longer, a, n, l, gain) ==
    \/ gain = 0 /\ \A i \in n + 1 .. l : Effect(longer[i], a) = 0
    \/ \E k \in n + 1 .. l : /\ Effect(longer[k], a) = gain
                             /\ \A i \in n + 1 .. l : i # k => Effect(longer[i], a) = 0

LEMMA ToldLonger ==
    ASSUME NEW chain, NEW longer, NEW a, NEW gain \in Int, NEW n \in Nat, NEW l \in Nat,
           Longer(chain, longer, n, l), Gains(longer, a, n, l, gain)
    PROVE  Told(chain, a) \in Int /\ Told(longer, a) = Told(chain, a) + gain
<1>1. PICK w : Tells(chain, a, n, w)
  BY ToldSum DEF Longer
<1>2. PICK v : Tells(longer, a, l, v)
  BY ToldSum DEF Longer
<1>3. \A i \in 1 .. l : v[i] = Effect(longer[i], a) /\ v[i] \in Int
  BY <1>2 DEF Tells
<1>4. \A i \in 1 .. n : w[i] = v[i]
  BY <1>1, <1>3 DEF Tells, Longer
<1>5. OneGain(v, n, l, gain)
  BY <1>3 DEF OneGain, Gains
<1>6. n <= l /\ \A i \in 1 .. l : v[i] \in Int
  BY <1>3 DEF Longer
<1>7. /\ SumFunctionOnSet(w, 1 .. n) \in Int
      /\ SumFunctionOnSet(v, 1 .. l) = SumFunctionOnSet(w, 1 .. n) + gain
  <2>1. n \in Nat /\ l \in Nat /\ gain \in Int
    OBVIOUS
  <2>2. SumFunctionOnSet(v, 1 .. l) = SumFunctionOnSet(w, 1 .. n) + gain
    BY <1>4, <1>5, <1>6, <2>1, SumExtended
  <2>3. SumFunctionOnSet(w, 1 .. n) \in Int
    BY <1>4, <1>5, <1>6, <2>1, SumExtended
  <2> QED BY <2>2, <2>3
<1> QED BY <1>1, <1>2, <1>7 DEF Tells

Adds(x, gain, y) == x \in Int /\ gain \in Int /\ y = x + gain

LEMMA ToldMore ==
    ASSUME NEW chain \in Seq(Entry), NEW e \in Entry, NEW a, NEW more, more = Append(chain, e)
    PROVE  more \in Seq(Entry) /\ Adds(Told(chain, a), Effect(e, a), Told(more, a))
<1>1. PICK n \in Nat : /\ n = Len(chain) /\ more \in Seq(Entry) /\ Len(more) = n + 1
                       /\ more[n + 1] = e /\ \A i \in 1 .. n : more[i] = chain[i]
  <2> HIDE DEF Entry
  <2> QED BY AppendOf
<1>2. PICK gain : gain = Effect(e, a)
  OBVIOUS
<1>3. gain \in Int
  <2>1. e.amt \in Int
    BY DEF Entry
  <2> QED BY <1>2, <2>1, EffectInt
<1>4. Gains(more, a, n, n + 1, gain)
  <2>1. n + 1 .. n + 1 = {n + 1}
    OBVIOUS
  <2> QED BY <1>1, <1>2, <2>1 DEF Gains
<1>5. Told(chain, a) \in Int /\ Told(more, a) = Told(chain, a) + gain
  <2>1. Longer(chain, more, n, n + 1)
    BY <1>1 DEF Longer
  <2> QED BY <1>3, <1>4, <2>1, ToldLonger
<1> QED BY <1>1, <1>2, <1>3, <1>5 DEF Adds

LEMMA ToldPaid ==
    ASSUME NEW chain \in Seq(Entry), NEW said \in Seq(Record), NEW longer, NEW a, NEW gain \in Int,
           longer = chain \o EntriesFor(said), Postings(said),
           \/ gain = 0 /\ \A i \in DOMAIN said : said[i].acct # a
           \/ \E k \in DOMAIN said : Effect(said[k], a) = gain /\ \A i \in DOMAIN said : i # k => said[i].acct # a
    PROVE  longer \in Seq(Entry) /\ Adds(Told(chain, a), gain, Told(longer, a))
<1>1. /\ longer \in Seq(Entry)
      /\ Len(chain) \in Nat /\ Len(said) \in Nat /\ DOMAIN chain = 1 .. Len(chain)
      /\ DOMAIN said = 1 .. Len(said) /\ DOMAIN longer = 1 .. (Len(chain) + Len(said))
      /\ \A i \in DOMAIN chain : longer[i] = chain[i]
      /\ \A i \in DOMAIN said :
            longer[Len(chain) + i] = [id |-> 0, acct |-> said[i].acct, type |-> said[i].type, amt |-> said[i].amt]
  <2>1. longer \in Seq(Entry)
    BY ConcatEntries
  <2>2. Joins(chain, said, longer)
    BY ConcatEntries
  <2> QED BY <2>1, <2>2, Zenon DEF Joins
<1>2. PICK n \in Nat, m \in Nat : n = Len(chain) /\ m = Len(said)
  BY <1>1
<1>3. ASSUME NEW i \in DOMAIN said
      PROVE  /\ Effect(longer[n + i], a) = Effect(said[i], a)
             /\ said[i].acct # a => Effect(longer[n + i], a) = 0
  <2>1. PICK e : e = longer[n + i]
    OBVIOUS
  <2>2. longer[Len(chain) + i] = [id |-> 0, acct |-> said[i].acct, type |-> said[i].type, amt |-> said[i].amt]
    BY <1>1, Zenon
  <2>3. e = [id |-> 0, acct |-> said[i].acct, type |-> said[i].type, amt |-> said[i].amt]
    BY <1>2, <2>1, <2>2
  <2>4. e.acct = said[i].acct /\ e.type = said[i].type /\ e.amt = said[i].amt
    BY <2>3
  <2> QED BY <2>1, <2>4 DEF Effect
<1>4. ASSUME NEW j \in n + 1 .. n + m PROVE j - n \in DOMAIN said /\ n + (j - n) = j
  BY <1>1, <1>2
<1>5. Gains(longer, a, n, n + m, gain)
  <2>1. CASE gain = 0 /\ \A i \in DOMAIN said : said[i].acct # a
    <3>1. ASSUME NEW j \in n + 1 .. n + m PROVE Effect(longer[j], a) = 0
      BY <1>3, <1>4, <2>1
    <3> QED BY <2>1, <3>1 DEF Gains
  <2>2. CASE \E k \in DOMAIN said : Effect(said[k], a) = gain /\ \A i \in DOMAIN said : i # k => said[i].acct # a
    <3>1. PICK k \in DOMAIN said : Effect(said[k], a) = gain /\ \A i \in DOMAIN said : i # k => said[i].acct # a
      BY <2>2
    <3>2. n + k \in n + 1 .. n + m /\ k \in Int
      BY <1>1, <1>2
    <3>3. Effect(longer[n + k], a) = gain
      BY <1>3, <3>1
    <3>4. ASSUME NEW j \in n + 1 .. n + m, j # n + k PROVE Effect(longer[j], a) = 0
      <4>1. j - n # k
        BY <3>2, <3>4
      <4> QED BY <1>3, <1>4, <3>1, <4>1
    <3> QED BY <3>2, <3>3, <3>4 DEF Gains
  <2> QED BY <2>1, <2>2
<1>6. Len(longer) = n + m /\ \A i \in 1 .. n : longer[i] = chain[i]
  <2>1. Len(longer) \in Nat /\ DOMAIN longer = 1 .. Len(longer)
    <3> HIDE DEF Entry
    <3> QED BY <1>1
  <2> QED BY <1>1, <1>2, <2>1
<1>7. Told(chain, a) \in Int /\ Told(longer, a) = Told(chain, a) + gain
  <2>1. Longer(chain, longer, n, n + m)
    BY <1>1, <1>2, <1>6 DEF Longer
  <2> QED BY <1>5, <2>1, ToldLonger
<1> QED BY <1>1, <1>7 DEF Adds

LEMMA IdleStays ==
    ASSUME NEW f, NEW s, NEW d, InStep(f, d), NumbersBelow(d.txs, Len(s) + 1)
    PROVE  KeepsStep(Idle, f, s, d)
BY DEF KeepsStep, Idle, NoCall

LEMMA PassAgrees ==
    ASSUME AgreeInv, FundsInv', NumbersInv', NEW c \in Callers, PassOn(c)
    PROVE  AgreeInv'
<1>1. PICK r, f, s, d : r = run[c] /\ f = file /\ s = trx /\ d = db
  OBVIOUS
<1>2. /\ TypeOK /\ IsTable(r.seen) /\ (r.pc # "idle" => r.call \in Calls)
      /\ Undisturbed =>
            /\ NumbersBelow(d.txs, Len(s) + 1) /\ r.call.op # "BATCH"
            /\ r.pc # "idle" => Following(r, f, s, d)
  BY <1>1, AgreeSays
<1>3. PICK balance : balance = Transacted(r.seen, r.call)[r.call.acct].bal
  OBVIOUS
<1>4. /\ r.pc = "end" /\ r.call.op \in {"D", "W", "T"} /\ Leaves(f, s, d) /\ Quiet /\ Moves(c, Idle)
      /\ r.work.code # "00" \/ r.call.op = "T"
  BY <1>1, <1>2, <1>3, Posted
<1>5. ASSUME Undisturbed PROVE KeepsStep(Idle, f, s, d)
  <2>1. /\ f = Result(r) /\ d.acct = r.seen /\ Explains(d.chain, r.seen) /\ r.work.code = Undone(r).code
        /\ NumbersBelow(d.txs, Len(s) + 1)
    BY <1>2, <1>4, <1>5 DEF Following, AtWork
  <2>2. /\ Undone(r).code = TransactCode(r.seen, r.call)
        /\ Undone(r).code = "00" => Result(r) = Transacted(r.seen, r.call)
        /\ Undone(r).code # "00" => Result(r) = r.seen
    BY <1>2, <1>4, Results
  <2>3. Result(r) = r.seen
    <3>1. PICK t, k : t = r.seen /\ k = r.call
      OBVIOUS
    <3>2. TransactCode(t, k) = "00" /\ k.op = "T" => Transacted(t, k) = t
      BY <1>2, <1>4, <3>1, TransactedTable
    <3> QED BY <1>4, <2>1, <2>2, <3>1, <3>2
  <2>4. InStep(f, d)
    BY <2>1, <2>3 DEF InStep
  <2> QED BY <2>1, <2>4, IdleStays
<1> QED BY <1>1, <1>4, <1>5, AgreeKept DEF Leaves, Quiet

(* Undisturbed, a program ends with the code it found, and no number is    *)
(* taken.                                                                  *)
LEMMA RefusedAgrees ==
    ASSUME AgreeInv, FundsInv', NumbersInv', NEW c \in Callers,
           RowRefused(c) \/ BatchDone(c) \/ MonthlyKilled(c) \/ FallBack(c)
    PROVE  AgreeInv'
<1>1. PICK r, f, s, d : r = run[c] /\ f = file /\ s = trx /\ d = db
  OBVIOUS
<1>2. /\ TypeOK /\ IsJob(r) /\ IsBase(d) /\ IsTable(r.seen) /\ (r.pc # "idle" => r.call \in Calls)
      /\ Undisturbed =>
            /\ NumbersBelow(d.txs, Len(s) + 1) /\ r.call.op # "BATCH"
            /\ r.pc # "idle" => Following(r, f, s, d)
  BY <1>1, AgreeSays
<1>3. PICK balance, acct : /\ balance = Transacted(r.seen, r.call)[r.call.acct].bal
                           /\ acct = [d.acct EXCEPT ![r.call.acct].status = r.call.to]
  OBVIOUS
<1>4. /\ Quiet /\ Moves(c, Idle)
      /\ \/ r.pc = "insert" /\ \E i \in DOMAIN d.txs : d.txs[i].id = r.num
         \/ r.pc = "end" /\ r.call.op = "BATCH"
         \/ r.pc = "end" /\ r.work.code \in {"99", "killed"}
  <2>1. RowRefused(c) => /\ r.pc = "insert" /\ Quiet /\ Moves(c, Idle)
                         /\ \E i \in DOMAIN d.txs : d.txs[i].id = r.num
    BY <1>1, <1>2, <1>3, Posted
  <2>2. BatchDone(c) => r.pc = "end" /\ r.call.op = "BATCH" /\ Quiet /\ Moves(c, Idle)
    BY <1>1, <1>2, <1>3, Posted
  <2>3. FallBack(c) => r.pc = "end" /\ r.work.code \in {"99", "killed"} /\ Quiet /\ Moves(c, Idle)
    BY <1>1, <1>2, <1>3, Posted
  <2>4. MonthlyKilled(c) => r.pc = "end" /\ r.work.code = "killed" /\ Quiet /\ Moves(c, Idle)
    BY <1>1, <1>2, <1>3, Followed
  <2> QED BY <2>1, <2>2, <2>3, <2>4
<1>5. ASSUME Undisturbed PROVE FALSE
  <2>1. /\ r.call.op # "BATCH" /\ r.call \in Calls /\ Following(r, f, s, d)
    BY <1>2, <1>4, <1>5
  <2>2. ~ (r.pc = "end" /\ r.work.code \in {"99", "killed"})
    <3>1. Undone(r).code \in {"00", "01", "02", "03", "04"}
      BY <1>2, <2>1, Results
    <3>2. r.pc = "end" => r.work.code = Undone(r).code
      BY <2>1 DEF Following, AtWork
    <3> QED BY <3>1, <3>2
  <2>3. ~ (r.pc = "insert" /\ \E i \in DOMAIN d.txs : d.txs[i].id = r.num)
    <3>1. r.pc = "insert" => NumbersBelow(d.txs, r.num)
      BY <1>2, <2>1 DEF Following, IsJob
    <3>2. r.num \in Nat
      BY <1>2, WorkParts
    <3> QED BY <3>1, <3>2 DEF NumbersBelow
  <2> QED BY <1>4, <2>1, <2>2, <2>3
<1>6. ~ Undisturbed'
  BY <1>4, <1>5 DEF Undisturbed, Quiet
<1> QED BY <1>6 DEF AgreeInv

LEMMA ChainAgrees ==
    ASSUME AgreeInv, FundsInv', NumbersInv', NEW c \in Callers, ChainEntry(c)
    PROVE  AgreeInv'
<1>1. PICK r, f, s, d : r = run[c] /\ f = file /\ s = trx /\ d = db
  OBVIOUS
<1>2. /\ TypeOK /\ IsJob(r) /\ WorkOK(r) /\ IsBase(d) /\ IsTable(r.seen) /\ (r.pc # "idle" => r.call \in Calls)
      /\ Undisturbed =>
            /\ NumbersBelow(d.txs, Len(s) + 1) /\ r.call.op # "BATCH"
            /\ r.pc # "idle" => Following(r, f, s, d)
  BY <1>1, AgreeSays
<1>3. PICK balance, entry : balance = Transacted(r.seen, r.call)[r.call.acct].bal /\ entry = EntryFor(r)
  OBVIOUS
<1>4. PICK chain, q, e : /\ chain = Append(d.chain, entry) /\ e = Base(d.acct, d.txs, chain)
                         /\ q = Goes(r, "insert", r.work, r.num, r.seen, r.said)
  OBVIOUS
<1>5. /\ r.pc = "end" /\ r.call.op \in {"D", "W"} /\ r.work.code = "00" /\ Quiet
      /\ Leaves(f, s, e) /\ Moves(c, q)
  BY <1>1, <1>2, <1>3, <1>4, Posted DEF On
<1>6. Decided(r)
  BY <1>1 DEF AgreeInv, FundsInv
<1>7. entry \in Entry
  BY <1>2, <1>3, <1>5, <1>6, EntryInserted
<1>8. d.chain \in Seq(Entry) /\ e.acct = d.acct /\ e.txs = d.txs /\ e.chain = chain
  BY <1>2, <1>4 DEF IsBase, Base
<1>9. q.pc = "insert" /\ q.call = r.call /\ q.work = r.work /\ q.num = r.num /\ q.seen = r.seen
  BY <1>4, GoesFields
<1>10. ASSUME Undisturbed PROVE KeepsStep(q, f, s, e)
  <2>1. /\ f = Result(r) /\ d.acct = r.seen /\ Explains(d.chain, r.seen) /\ r.call.op # "BATCH"
        /\ NumbersBelow(d.txs, Len(s) + 1) /\ NumbersBelow(d.txs, r.num) /\ r.num <= Len(s)
    BY <1>2, <1>5, <1>10 DEF Following, AtWork
  <2>2. PICK t, k : t = r.seen /\ k = r.call
    OBVIOUS
  <2>3. k \in Calls /\ IsTable(t) /\ TransactCode(t, k) = "00" /\ f = Transacted(t, k)
    BY <1>2, <1>5, <1>6, <2>1, <2>2, Results DEF Decided
  <2>4. /\ DOMAIN f = DOMAIN t
        /\ \A b \in DOMAIN t : f[b].bal =
              t[b].bal + (IF b # k.acct \/ k.op = "T" THEN 0 ELSE IF k.op = "D" THEN k.amt ELSE - k.amt)
    BY <1>5, <2>2, <2>3, TransactedTable
  <2>5. Explains(chain, f)
    <3>1. DOMAIN f = Accounts /\ DOMAIN t = Accounts
      BY <2>1, <2>2, <2>4 DEF Explains
    <3>2. ASSUME NEW a \in Accounts PROVE f[a].bal = SeedBalance[a] + Told(chain, a)
      <4>1. t[a].bal = SeedBalance[a] + Told(d.chain, a)
        BY <2>1, <2>2 DEF Explains
      <4>2. PICK x, y, g : x = Told(d.chain, a) /\ y = Told(chain, a) /\ g = Effect(entry, a)
        OBVIOUS
      <4>3. x \in Int /\ y = x + g /\ g \in Int
        <5>1. PICK l : l = d.chain
          OBVIOUS
        <5>2. l \in Seq(Entry) /\ chain = Append(l, entry)
          BY <1>4, <1>8, <5>1
        <5>3. Adds(Told(l, a), Effect(entry, a), Told(chain, a))
          BY <1>7, <5>2, ToldMore
        <5> QED BY <4>2, <5>1, <5>3 DEF Adds
      <4>4. g = IF a # k.acct THEN 0 ELSE IF k.op = "D" THEN k.amt ELSE - k.amt
        <5>1. entry.acct = k.acct /\ entry.type = k.op /\ entry.amt = k.amt
          BY <1>3, <2>2 DEF EntryFor
        <5> QED BY <1>5, <2>2, <4>2, <5>1 DEF Effect
      <4>5. f[a].bal = t[a].bal + g
        BY <1>5, <2>2, <2>4, <3>1, <4>4
      <4>6. SeedBalance[a] \in Int
        BY SeedAssumption
      <4> QED BY <4>1, <4>2, <4>3, <4>5, <4>6
    <3> QED BY <3>1, <3>2 DEF Explains
  <2>6. Result(q) = Result(r)
    BY <1>9, SameUndone
  <2>7. Following(q, f, s, e)
    BY <1>8, <1>9, <2>1, <2>5, <2>6 DEF Following
  <2> QED BY <1>8, <1>9, <2>1, <2>7 DEF KeepsStep
<1> QED BY <1>1, <1>5, <1>10, AgreeKept DEF Leaves, Quiet

LEMMA InsertAgrees ==
    ASSUME AgreeInv, FundsInv', NumbersInv', NEW c \in Callers, InsertRow(c)
    PROVE  AgreeInv'
<1>1. PICK r, f, s, d : r = run[c] /\ f = file /\ s = trx /\ d = db
  OBVIOUS
<1>2. /\ TypeOK /\ IsJob(r) /\ WorkOK(r) /\ IsBase(d) /\ s \in Seq(Record) /\ IsTable(r.seen)
      /\ r.pc # "idle" => r.call \in Calls
      /\ Undisturbed =>
            /\ NumbersBelow(d.txs, Len(s) + 1) /\ r.call.op # "BATCH"
            /\ r.pc # "idle" => Following(r, f, s, d)
  BY <1>1, AgreeSays
<1>3. PICK balance, entry : balance = Transacted(r.seen, r.call)[r.call.acct].bal /\ entry = EntryFor(r)
  OBVIOUS
<1>4. PICK acct, txs, e : /\ acct = [d.acct EXCEPT ![r.call.acct].bal = balance]
                          /\ txs = Append(d.txs, entry) /\ e = Base(acct, txs, d.chain)
  OBVIOUS
<1>5. r.pc = "insert" /\ Quiet /\ Leaves(f, s, e) /\ Moves(c, Idle)
  BY <1>1, <1>2, <1>3, <1>4, Posted
<1>6. Decided(r) /\ r.call.op \in {"D", "W"} /\ r.work.code = "00"
  BY <1>1, <1>2, <1>5 DEF AgreeInv, FundsInv, IsJob
<1>7. entry \in Entry /\ entry.id = r.num
  BY <1>2, <1>3, <1>5, <1>6, EntryInserted
<1>8. d.txs \in Seq(Entry) /\ e.acct = acct /\ e.txs = txs /\ e.chain = d.chain
  BY <1>2, <1>4 DEF IsBase, Base
<1>9. ASSUME Undisturbed PROVE KeepsStep(Idle, f, s, e)
  <2>1. /\ f = Result(r) /\ d.acct = r.seen /\ Explains(d.chain, f) /\ r.call.op # "BATCH"
        /\ NumbersBelow(d.txs, r.num) /\ r.num <= Len(s)
    BY <1>2, <1>5, <1>6, <1>9 DEF Following
  <2>2. PICK t, k : t = r.seen /\ k = r.call
    OBVIOUS
  <2>3. k \in Calls /\ IsTable(t) /\ TransactCode(t, k) = "00" /\ f = Transacted(t, k)
    BY <1>2, <1>5, <1>6, <2>1, <2>2, Results DEF Decided
  <2>4. /\ k.acct \in DOMAIN t /\ IsTable(f) /\ DOMAIN f = DOMAIN t
        /\ \A b \in DOMAIN t :
              /\ f[b].bal = t[b].bal + (IF b # k.acct \/ k.op = "T" THEN 0 ELSE IF k.op = "D" THEN k.amt ELSE - k.amt)
              /\ f[b].status = t[b].status
    BY <1>6, <2>2, <2>3, TransactedTable
  <2>5. acct = f
    <3>1. acct = [t EXCEPT ![k.acct].bal = f[k.acct].bal]
      BY <1>3, <1>4, <2>1, <2>2, <2>3
    <3>2. f[k.acct].bal \in Int /\ \A b \in DOMAIN t : t[b].bal \in Int
      BY <2>3, <2>4 DEF IsTable, Account
    <3>3. IsTable(acct) /\ DOMAIN acct = DOMAIN t
          /\ \A b \in DOMAIN t : /\ acct[b].bal = IF b = k.acct THEN f[k.acct].bal ELSE t[b].bal
                                 /\ acct[b].status = t[b].status
      BY <2>3, <2>4, <3>1, <3>2 DEF IsTable, Account
    <3>4. \A b \in DOMAIN t : acct[b].bal = f[b].bal /\ acct[b].status = f[b].status
      BY <2>4, <3>2, <3>3
    <3> QED BY <2>4, <3>3, <3>4, TablesEqual
  <2>6. NumbersBelow(txs, Len(s) + 1)
    <3>1. Len(s) \in Nat /\ r.num \in Nat
      <4>1. r.num \in Nat
        BY <1>2, WorkParts
      <4> HIDE DEF Record
      <4> QED BY <1>2, <4>1
    <3>2. PICK n \in Nat : n = Len(s) + 1 /\ r.num < n
      BY <2>1, <3>1
    <3>3. PICK l : l = d.txs
      OBVIOUS
    <3>4. /\ DOMAIN l = 1 .. Len(l) /\ DOMAIN txs = 1 .. (Len(l) + 1) /\ txs[Len(l) + 1] = entry
          /\ Len(l) \in Nat /\ \A i \in DOMAIN l : txs[i] = l[i]
      <4>1. l \in Seq(Entry) /\ txs = Append(l, entry)
        BY <1>4, <1>8, <3>3
      <4> HIDE DEF Entry
      <4> QED BY <1>7, <4>1, AppendOf
    <3>5. NumbersBelow(l, n)
      <4>1. NumbersBelow(d.txs, n)
        BY <1>2, <2>1, <3>1, <3>2, BelowMore
      <4> QED BY <3>3, <4>1
    <3>6. \A i \in DOMAIN txs : txs[i].id < n
      BY <1>7, <3>2, <3>4, <3>5 DEF NumbersBelow
    <3> QED BY <3>2, <3>6 DEF NumbersBelow
  <2>7. InStep(f, e)
    BY <1>8, <2>1, <2>5 DEF InStep
  <2> QED BY <1>8, <2>6, <2>7, IdleStays
<1> QED BY <1>1, <1>5, <1>9, AgreeKept DEF Leaves, Quiet

(* What a monthly program said it posted explains what it saved.           *)
LEMMA PaidExplains ==
    ASSUME NEW chain \in Seq(Entry), NEW said \in Seq(Record), NEW all \in Seq(Record), NEW longer, NEW t, NEW u,
           longer = chain \o EntriesFor(said), Postings(said), SaidSoFar(said, <<>>, all),
           IsTable(t), Pays(all, t, u), Explains(chain, t)
    PROVE  Explains(longer, u)
<1>1. DOMAIN said = DOMAIN all /\ \A i \in DOMAIN all : Like(said[i], all[i]) /\ all[i].amt \in Int
  <2>1. /\ Len(said) \in Nat /\ Len(all) \in Nat /\ Len(<<>>) = 0
        /\ DOMAIN said = 1 .. Len(said) /\ DOMAIN all = 1 .. Len(all) /\ \A i \in DOMAIN all : all[i] \in Record
    <3> HIDE DEF Record
    <3> QED OBVIOUS
  <2>2. Len(said) + Len(<<>>) = Len(all) /\ \A i \in DOMAIN said : Like(said[i], all[i])
    BY DEF SaidSoFar
  <2>3. DOMAIN said = DOMAIN all
    <3>1. Len(said) = Len(all)
      <4>1. PICK n, m, z : n = Len(said) /\ m = Len(all) /\ z = Len(<<>>)
        OBVIOUS
      <4>2. n \in Nat /\ m \in Nat
        BY <2>1, <4>1
      <4>3. z = 0
        BY <2>1, <4>1, Zenon
      <4>4. n + z = m
        BY <2>2, <4>1, Zenon
      <4>5. n = m
        BY <4>2, <4>3, <4>4
      <4> QED BY <4>1, <4>5
    <3>2. 1 .. Len(said) = 1 .. Len(all)
      BY <3>1, Zenon
    <3> QED BY <2>1, <3>2, Zenon
  <2>4. \A i \in DOMAIN all : all[i].amt \in Int
    BY <2>1 DEF Record
  <2> QED BY <2>2, <2>3, <2>4
<1>2. DOMAIN u = Accounts /\ DOMAIN t = Accounts
  BY DEF Pays, Explains
<1>3. ASSUME NEW a \in Accounts PROVE u[a].bal = SeedBalance[a] + Told(longer, a)
  <2>1. t[a].bal = SeedBalance[a] + Told(chain, a) /\ SeedBalance[a] \in Int
    BY SeedAssumption DEF Explains
  <2>2. CASE u[a].bal = t[a].bal /\ \A i \in DOMAIN all : all[i].acct # a
    <3>1. \A i \in DOMAIN said : said[i].acct # a
      BY <1>1, <2>2 DEF Like
    <3>2. PICK gain \in Int : gain = 0
      OBVIOUS
    <3>3. Adds(Told(chain, a), gain, Told(longer, a))
      BY <3>1, <3>2, ToldPaid
    <3> QED BY <2>1, <2>2, <3>2, <3>3 DEF Adds
  <2>3. CASE \E i \in DOMAIN all : /\ all[i].acct = a /\ u[a].bal = t[a].bal + Effect(all[i], a)
                                   /\ \A j \in DOMAIN all : j # i => all[j].acct # a
    <3>1. PICK i \in DOMAIN all : /\ all[i].acct = a /\ u[a].bal = t[a].bal + Effect(all[i], a)
                                  /\ \A j \in DOMAIN all : j # i => all[j].acct # a
      BY <2>3
    <3>2. Effect(said[i], a) = Effect(all[i], a) /\ Effect(all[i], a) \in Int
      <4>1. PICK e, g : e = said[i] /\ g = all[i]
        OBVIOUS
      <4>2. e.acct = g.acct /\ e.type = g.type /\ e.amt = g.amt /\ g.amt \in Int
        BY <1>1, <4>1 DEF Like
      <4>3. Effect(e, a) = Effect(g, a)
        BY <4>2 DEF Effect
      <4> QED BY <4>1, <4>2, <4>3, EffectInt
    <3>3. PICK gain \in Int : gain = Effect(all[i], a)
      BY <3>2
    <3>4. Effect(said[i], a) = gain /\ \A j \in DOMAIN said : j # i => said[j].acct # a
      BY <1>1, <3>1, <3>2, <3>3 DEF Like
    <3>5. Adds(Told(chain, a), gain, Told(longer, a))
      BY <1>1, <3>4, ToldPaid
    <3> QED BY <2>1, <3>1, <3>3, <3>5 DEF Adds
  <2> QED BY <1>2, <2>2, <2>3 DEF Pays
<1> QED BY <1>2, <1>3 DEF Explains

LEMMA MonthlyAgrees ==
    ASSUME AgreeInv, FundsInv', NumbersInv', NEW c \in Callers, ChainMonthly(c)
    PROVE  AgreeInv'
<1>1. PICK r, f, s, d : r = run[c] /\ f = file /\ s = trx /\ d = db
  OBVIOUS
<1>2. /\ TypeOK /\ IsJob(r) /\ IsBase(d) /\ IsTable(r.seen)
      /\ r.pc # "idle" => r.call \in Calls
      /\ Undisturbed =>
            /\ NumbersBelow(d.txs, Len(s) + 1) /\ r.call.op # "BATCH"
            /\ r.pc # "idle" => Following(r, f, s, d)
  BY <1>1, AgreeSays
<1>3. PICK acct : acct = [d.acct EXCEPT ![r.call.acct].status = r.call.to]
  OBVIOUS
<1>4. PICK chain, q, e : /\ chain = d.chain \o EntriesFor(r.said) /\ e = Base(d.acct, d.txs, chain)
                         /\ q = Goes(r, "list", NoWork, 0, NoAccounts, <<>>)
  OBVIOUS
<1>5. /\ r.pc = "end" /\ r.call.op \in {"INTEREST", "FEES"} /\ Quiet /\ Leaves(f, s, e) /\ Moves(c, q)
  BY <1>1, <1>2, <1>3, <1>4, Followed
<1>6. r.said \in Seq(Record) /\ Postings(r.said)
  BY <1>2, <1>5, WorkParts
<1>7. d.chain \in Seq(Entry) /\ e.txs = d.txs /\ e.chain = chain
  BY <1>2, <1>4 DEF IsBase, Base
<1>8. q.pc = "list" /\ q.call = r.call
  BY <1>4, GoesFields
<1>9. ASSUME Undisturbed PROVE KeepsStep(q, f, s, e)
  <2>1. /\ AtWork(r, f, d) /\ r.work.save = {} /\ r.call.op # "BATCH" /\ NumbersBelow(d.txs, Len(s) + 1)
        /\ r.call \in Calls
    BY <1>2, <1>5, <1>9 DEF Following
  <2>2. PICK said, all, l, t : said = r.said /\ all = Undone(r).before /\ l = d.chain /\ t = r.seen
    OBVIOUS
  <2>3. SaidSoFar(said, <<>>, all) /\ f = Result(r) /\ Explains(l, t)
    BY <1>5, <2>1, <2>2 DEF AtWork
  <2>4. all \in Seq(Record) /\ Pays(all, t, f)
    BY <1>2, <1>5, <2>1, <2>2, <2>3, Results DEF IsWork
  <2>5. l \in Seq(Entry) /\ said \in Seq(Record) /\ chain = l \o EntriesFor(said) /\ Postings(said) /\ IsTable(t)
    BY <1>2, <1>4, <1>6, <1>7, <2>2
  <2>6. Explains(chain, f)
    BY <2>3, <2>4, <2>5, PaidExplains
  <2>7. Following(q, f, s, e)
    BY <1>7, <1>8, <2>6 DEF Following
  <2> QED BY <1>7, <1>8, <2>1, <2>7 DEF KeepsStep
<1> QED BY <1>1, <1>5, <1>9, AgreeKept DEF Leaves, Quiet

LEMMA SyncAgrees ==
    ASSUME AgreeInv, FundsInv', NumbersInv', NEW c \in Callers, Sync(c)
    PROVE  AgreeInv'
<1>1. PICK r, f, s, d : r = run[c] /\ f = file /\ s = trx /\ d = db
  OBVIOUS
<1>2. /\ TypeOK /\ IsJob(r) /\ IsTable(f) /\ IsBase(d)
      /\ Undisturbed =>
            /\ NumbersBelow(d.txs, Len(s) + 1) /\ r.call.op # "BATCH"
            /\ r.pc # "idle" => Following(r, f, s, d)
  BY <1>1, AgreeSays
<1>3. PICK acct, copied, e : /\ acct = [d.acct EXCEPT ![r.call.acct].status = r.call.to]
                             /\ copied = CopiedTo(d.acct, r.seen) /\ e = Base(copied, d.txs, d.chain)
  OBVIOUS
<1>4. r.pc = "sync" /\ Quiet /\ Leaves(f, s, e)
      /\ Moves(c, IF r.call.op = "UPDATE" THEN On(r, "status") ELSE Idle)
  BY <1>1, <1>2, <1>3, Followed
<1>5. e.acct = copied /\ e.txs = d.txs /\ e.chain = d.chain
  BY <1>3 DEF Base
<1>6. ASSUME Undisturbed
      PROVE  InStep(f, e) /\ r.call.op # "BATCH" /\ NumbersBelow(e.txs, Len(s) + 1)
  <2>1. r.seen = f /\ Explains(d.chain, f) /\ r.call.op # "BATCH" /\ NumbersBelow(d.txs, Len(s) + 1)
    BY <1>2, <1>4, <1>6 DEF Following
  <2>2. DOMAIN f = Accounts
    BY <2>1 DEF Explains
  <2>3. copied = [a \in Accounts |-> f[a]]
    BY <1>3, <2>1, <2>2 DEF CopiedTo
  <2>4. copied = f
    BY <1>2, <2>2, <2>3 DEF IsTable
  <2> QED BY <1>5, <2>1, <2>4 DEF InStep
<1>7. CASE r.call.op = "UPDATE"
  <2>1. PICK q : q = Goes(r, "status", r.work, r.num, r.seen, r.said)
    OBVIOUS
  <2>2. Moves(c, q)
    BY <1>4, <1>7, <2>1 DEF On
  <2>3. q.pc = "status" /\ q.call = r.call
    BY <2>1, GoesFields
  <2>4. Undisturbed => KeepsStep(q, f, s, e)
    BY <1>6, <2>3 DEF KeepsStep, Following
  <2> QED BY <1>1, <1>4, <2>2, <2>4, AgreeKept DEF Leaves, Quiet
<1>8. CASE r.call.op # "UPDATE"
  <2>1. Moves(c, Idle)
    BY <1>4, <1>8
  <2>2. Undisturbed => KeepsStep(Idle, f, s, e)
    BY <1>6, IdleStays
  <2> QED BY <1>1, <1>4, <2>1, <2>2, AgreeKept DEF Leaves, Quiet
<1> QED BY <1>7, <1>8

LEMMA UpdateAgrees ==
    ASSUME AgreeInv, FundsInv', NumbersInv', NEW c \in Callers, UpdateDone(c) \/ TruncateDat(c) \/ WriteDat(c)
    PROVE  AgreeInv'
<1>1. PICK r, f, s, d : r = run[c] /\ f = file /\ s = trx /\ d = db
  OBVIOUS
<1>2. /\ TypeOK /\ IsJob(r) /\ IsTable(r.seen)
      /\ r.pc # "idle" => r.call \in Calls
      /\ Undisturbed =>
            /\ NumbersBelow(d.txs, Len(s) + 1) /\ r.call.op # "BATCH"
            /\ r.pc # "idle" => Following(r, f, s, d)
  BY <1>1, AgreeSays
<1>3. PICK acct, g : /\ acct = [d.acct EXCEPT ![r.call.acct].status = r.call.to]
                     /\ g = r.seen
  OBVIOUS
<1>4. CASE UpdateDone(c)
  <2>1. /\ r.pc = "end" /\ r.call.op = "UPDATE" /\ Leaves(f, s, d) /\ Quiet
        /\ Moves(c, IF r.work.code = "killed" THEN On(r, "status")
                    ELSE Goes(r, "list", NoWork, 0, NoAccounts, <<>>))
    BY <1>1, <1>2, <1>3, <1>4, Followed
  <2>2. ASSUME Undisturbed PROVE r.work.code # "killed" /\ Explains(d.chain, f)
    <3>1. AtWork(r, f, d) /\ r.work.save = {} /\ r.call \in Calls
      BY <1>2, <2>1, <2>2 DEF Following
    <3>2. /\ r.work.code = Undone(r).code /\ f = Result(r) /\ Explains(d.chain, r.seen)
      BY <2>1, <3>1 DEF AtWork
    <3>3. /\ Undone(r).code \in {"00", "01", "02", "03", "04"}
          /\ DOMAIN Result(r) = DOMAIN r.seen /\ \A a \in DOMAIN r.seen : Result(r)[a].bal = r.seen[a].bal
      BY <1>2, <2>1, <3>1, Results
    <3> QED BY <3>2, <3>3 DEF Explains
  <2>3. PICK q : q = IF r.work.code = "killed" THEN Goes(r, "status", r.work, r.num, r.seen, r.said)
                     ELSE Goes(r, "list", NoWork, 0, NoAccounts, <<>>)
    OBVIOUS
  <2>4. Moves(c, q)
    BY <2>1, <2>3 DEF On
  <2>5. r.work.code # "killed" => q.pc = "list" /\ q.call = r.call
    BY <2>3, GoesFields
  <2>6. Undisturbed => KeepsStep(q, f, s, d)
    BY <1>2, <2>1, <2>2, <2>5 DEF KeepsStep, Following
  <2> QED BY <1>1, <2>1, <2>4, <2>6, AgreeKept DEF Leaves, Quiet
<1>5. CASE TruncateDat(c)
  <2>1. PICK q, h : q = Goes(r, "rewrite", r.work, r.num, r.seen, r.said) /\ h = NoAccounts
    OBVIOUS
  <2>2. r.pc = "truncate" /\ Leaves(h, s, d) /\ Quiet /\ Moves(c, q)
    BY <1>1, <1>2, <1>3, <1>5, <2>1, Followed DEF On
  <2>3. q.pc = "rewrite" /\ q.call = r.call /\ q.seen = r.seen
    BY <2>1, GoesFields
  <2>4. Undisturbed => KeepsStep(q, h, s, d)
    BY <1>2, <2>2, <2>3 DEF KeepsStep, Following
  <2> QED BY <1>1, <2>2, <2>4, AgreeKept DEF Leaves, Quiet
<1>6. CASE WriteDat(c)
  <2>1. PICK q : q = Goes(r, "log", r.work, r.num, r.seen, r.said)
    OBVIOUS
  <2>2. r.pc = "rewrite" /\ Leaves(g, s, d) /\ Quiet /\ Moves(c, q)
    BY <1>1, <1>2, <1>3, <1>6, <2>1, Followed DEF On
  <2>3. q.pc = "log" /\ q.call = r.call
    BY <2>1, GoesFields
  <2>4. Undisturbed => KeepsStep(q, g, s, d)
    BY <1>2, <1>3, <2>2, <2>3 DEF KeepsStep, Following, InStep
  <2> QED BY <1>1, <2>2, <2>4, AgreeKept DEF Leaves, Quiet
<1> QED BY <1>4, <1>5, <1>6

LEMMA SetStatusAgrees ==
    ASSUME AgreeInv, FundsInv', NumbersInv', NEW c \in Callers, SetStatus(c)
    PROVE  AgreeInv'
<1>1. PICK r, f, s, d : r = run[c] /\ f = file /\ s = trx /\ d = db
  OBVIOUS
<1>2. /\ TypeOK /\ IsJob(r) /\ IsBase(d)
      /\ Undisturbed =>
            /\ NumbersBelow(d.txs, Len(s) + 1) /\ r.call.op # "BATCH"
            /\ r.pc # "idle" => Following(r, f, s, d)
  BY <1>1, AgreeSays
<1>3. PICK acct : acct = [d.acct EXCEPT ![r.call.acct].status = r.call.to]
  OBVIOUS
<1>4. PICK q, e : q = Goes(r, "truncate", r.work, r.num, acct, r.said) /\ e = Base(acct, d.txs, d.chain)
  OBVIOUS
<1>5. r.pc = "status" /\ Leaves(f, s, e) /\ Quiet /\ Moves(c, q)
  BY <1>1, <1>2, <1>3, <1>4, Followed
<1>6. PICK k : k = r.call
  OBVIOUS
<1>7. k.acct \in Accounts
  <2>1. r.call \in Calls /\ r.call.op = "UPDATE"
    BY <1>2, <1>5 DEF IsJob
  <2> QED BY <1>6, <2>1, CallFields
<1>8. d.acct \in [Accounts -> Account] /\ e.acct = acct /\ e.txs = d.txs /\ e.chain = d.chain
  BY <1>2, <1>4 DEF IsBase, Base
<1>9. DOMAIN acct = Accounts /\ \A x \in Accounts : acct[x].bal = d.acct[x].bal
  BY <1>3, <1>6, <1>7, <1>8 DEF Account
<1>10. q.pc = "truncate" /\ q.call = r.call /\ q.seen = acct
  BY <1>4, GoesFields
<1>11. ASSUME Undisturbed PROVE KeepsStep(q, f, s, e)
  <2>1. d.acct = f /\ Explains(d.chain, f) /\ r.call.op # "BATCH" /\ NumbersBelow(d.txs, Len(s) + 1)
    BY <1>2, <1>5, <1>11 DEF Following, InStep
  <2>2. Explains(d.chain, acct)
    BY <1>9, <2>1 DEF Explains
  <2>3. Following(q, f, s, e)
    BY <1>8, <1>10, <2>2 DEF Following
  <2> QED BY <1>8, <1>10, <2>1, <2>3 DEF KeepsStep
<1> QED BY <1>1, <1>5, <1>11, AgreeKept DEF Leaves, Quiet

LEMMA LogStatusAgrees ==
    ASSUME AgreeInv, FundsInv', NumbersInv', NEW c \in Callers, LogStatus(c)
    PROVE  AgreeInv'
<1>1. PICK r, f, s, d : r = run[c] /\ f = file /\ s = trx /\ d = db
  OBVIOUS
<1>2. /\ TypeOK /\ IsJob(r) /\ IsBase(d)
      /\ Undisturbed =>
            /\ NumbersBelow(d.txs, Len(s) + 1) /\ r.call.op # "BATCH"
            /\ r.pc # "idle" => Following(r, f, s, d)
  BY <1>1, AgreeSays
<1>3. PICK acct : acct = [d.acct EXCEPT ![r.call.acct].status = r.call.to]
  OBVIOUS
<1>4. PICK entry, l : /\ entry = [id |-> 0, acct |-> r.call.acct, type |-> "S", amt |-> 0]
                      /\ l = d.chain
  OBVIOUS
<1>5. PICK chain, e : chain = Append(l, entry) /\ e = Base(d.acct, d.txs, chain)
  OBVIOUS
<1>6. r.pc = "log" /\ Quiet /\ Leaves(f, s, e) /\ Moves(c, Idle)
  BY <1>1, <1>2, <1>3, <1>4, <1>5, Followed
<1>7. entry \in Entry
  <2>1. r.call \in Calls /\ r.call.op = "UPDATE"
    BY <1>2, <1>6 DEF IsJob
  <2>2. r.call.acct \in Accounts
    BY <2>1, CallFields
  <2> QED BY <1>4, <2>2 DEF Entry
<1>8. l \in Seq(Entry) /\ e.acct = d.acct /\ e.txs = d.txs /\ e.chain = chain
  BY <1>2, <1>4, <1>5 DEF IsBase, Base
<1>9. ASSUME Undisturbed PROVE KeepsStep(Idle, f, s, e)
  <2>1. d.acct = f /\ Explains(l, f) /\ r.call.op # "BATCH" /\ NumbersBelow(d.txs, Len(s) + 1)
    BY <1>2, <1>4, <1>6, <1>9 DEF Following, InStep
  <2>2. ASSUME NEW a \in Accounts PROVE f[a].bal = SeedBalance[a] + Told(chain, a)
    <3>1. Adds(Told(l, a), Effect(entry, a), Told(chain, a))
      BY <1>5, <1>7, <1>8, ToldMore
    <3>2. Effect(entry, a) = 0
      <4>1. entry.type = "S"
        BY <1>4
      <4> QED BY <4>1 DEF Effect
    <3>3. f[a].bal = SeedBalance[a] + Told(l, a)
      BY <2>1 DEF Explains
    <3> QED BY <3>1, <3>2, <3>3 DEF Adds
  <2>3. InStep(f, e)
    BY <1>8, <2>1, <2>2 DEF InStep, Explains
  <2> QED BY <1>8, <2>1, <2>3, IdleStays
<1> QED BY <1>1, <1>6, <1>9, AgreeKept DEF Leaves, Quiet

LEMMA CallAgrees ==
    ASSUME AgreeInv, FundsInv', NumbersInv', NEW c \in Callers, NEW k \in Calls, Call(c, k)
    PROVE  AgreeInv'
<1>1. PICK r, f, s, d : r = run[c] /\ f = file /\ s = trx /\ d = db
  OBVIOUS
<1>2. TypeOK
  BY <1>1, AgreeSays
<1>3. PICK q : q = JobOf("load", k, NoWork, 0, NoAccounts, <<>>)
  OBVIOUS
<1>4. /\ r.pc = "idle" /\ Leaves(f, s, d) /\ Moves(c, q) /\ kills' = kills
      /\ overlapped' = (overlapped \/ \E e \in Callers : ~At(e, "idle"))
      /\ batched' = (batched \/ k.op = "BATCH")
  BY <1>1, <1>2, <1>3, Called
<1>5. q.pc = "load" /\ q.call = k /\ q.said = <<>>
  BY <1>3, JobFields
<1>6. \A e \in Callers : run'[e] = IF e = c THEN q ELSE run[e]
  BY <1>4 DEF Moves
<1>7. ASSUME Undisturbed'
      PROVE  /\ \A e \in Callers : run'[e].call.op # "BATCH" /\ (run'[e].pc # "idle" => Following(run'[e], f, s, d))
             /\ ~ \A e \in Callers : run'[e].pc = "idle"
             /\ NumbersBelow(d.txs, Len(s) + 1)
  <2>1. Undisturbed /\ k.op # "BATCH" /\ \A e \in Callers : run[e].pc = "idle"
    BY <1>4, <1>7 DEF Undisturbed, At
  <2>2. InStep(f, d) /\ NumbersBelow(d.txs, Len(s) + 1) /\ \A e \in Callers : run[e].call.op # "BATCH"
    BY <1>1, <2>1 DEF AgreeInv, Resting, At, Op
  <2>3. Following(q, f, s, d)
    BY <1>5, <2>2 DEF Following
  <2>4. q.pc # "idle" /\ q.call.op # "BATCH"
    BY <1>5, <2>1
  <2> HIDE DEF Following
  <2> QED BY <1>6, <2>1, <2>2, <2>3, <2>4
<1>8. file' = f /\ trx' = s /\ db' = d
  BY <1>4 DEF Leaves
<1> QED BY <1>7, <1>8 DEF AgreeInv, Resting, At, Op

LEMMA InitAgrees == Init => AgreeInv
<1> SUFFICES ASSUME Init PROVE AgreeInv
  OBVIOUS
<1>1. FundsInv /\ NumbersInv
  BY InitFunds, InitNumbers
<1>2. \A c \in Callers : run[c].pc = "idle" /\ run[c].call.op = "none"
  BY DEF Init, Idle, NoCall
<1>3. file = SeedFile /\ db.acct = SeedFile /\ db.txs = <<>> /\ db.chain = <<>> /\ trx = <<>>
  BY DEF Init
<1>4. DOMAIN <<>> = {}
  OBVIOUS
<1>5. Explains(<<>>, SeedFile)
  <2>1. DOMAIN SeedFile = Accounts /\ \A a \in Accounts : SeedFile[a].bal = SeedBalance[a] /\ SeedBalance[a] \in Int
    BY SeedAssumption DEF SeedFile
  <2>2. ASSUME NEW a PROVE Told(<<>>, a) = 0
    <3>1. PICK w : w = [i \in DOMAIN <<>> |-> Effect(<<>>[i], a)]
      OBVIOUS
    <3>2. DOMAIN w = {}
      BY <1>4, <3>1
    <3>3. SumFunctionOnSet(w, {}) = 0
      <4>1. IsFiniteSet({})
        BY FS_EmptySet
      <4> QED BY <4>1, SumSplit
    <3>4. Told(<<>>, a) = SumFunction(w)
      BY <3>1 DEF Told
    <3> QED BY <3>2, <3>3, <3>4 DEF SumFunction
  <2> QED BY <2>1, <2>2 DEF Explains
<1>6. InStep(file, db)
  BY <1>3, <1>5 DEF InStep
<1>7. NumbersBelow(db.txs, Len(trx) + 1)
  BY <1>3, <1>4 DEF NumbersBelow
<1> QED BY <1>1, <1>2, <1>6, <1>7 DEF AgreeInv, At, Op

LEMMA NextAgrees == AgreeInv /\ [Next]_vars => AgreeInv'
<1> SUFFICES ASSUME AgreeInv, [Next]_vars PROVE AgreeInv'
  OBVIOUS
<1>1. FundsInv' /\ NumbersInv'
  BY NextFunds, NextNumbers DEF AgreeInv
<1>2. ASSUME NEW c \in Callers, NEW k \in Calls, Call(c, k) PROVE AgreeInv'
  BY <1>1, <1>2, CallAgrees
<1>3. ASSUME NEW c \in Callers, Program(c) PROVE AgreeInv'
  BY <1>1, <1>3, LoadAgrees, CountAgrees, AppendAgrees, OpenAgrees, SaveAgrees, ListAgrees, StopAgrees DEF Program
<1>4. ASSUME NEW c \in Callers, Bridge(c) PROVE AgreeInv'
  BY <1>1, <1>4, PassAgrees, RefusedAgrees, ChainAgrees, InsertAgrees, MonthlyAgrees, SyncAgrees, UpdateAgrees,
     SetStatusAgrees, LogStatusAgrees DEF Bridge
<1>5. CASE UNCHANGED vars
  <2>1. /\ file' = file /\ trx' = trx /\ db' = db /\ run' = run
        /\ Undisturbed' = Undisturbed /\ Resting' = Resting
    BY <1>5 DEF vars, Undisturbed, Resting, At
  <2> QED BY <1>1, <2>1 DEF AgreeInv, At, Op
<1> QED BY <1>2, <1>3, <1>4, <1>5 DEF Next, Done

(* Calls that came one after the other, none of them killed and none a     *)
(* batch, leave the database with the accounts of the file, and the chain  *)
(* explains every balance, for any calls on any accounts.                  *)
THEOREM DatabaseAgrees == Spec => []FileDatabaseAndChainAgree
<1>1. Spec => []AgreeInv
  BY InitAgrees, NextAgrees, PTL DEF Spec
<1>2. AgreeInv => FileDatabaseAndChainAgree
  BY DEF AgreeInv, FileDatabaseAndChainAgree, InStep
<1> QED BY <1>1, <1>2, PTL
=============================================================================
