------------------------------ MODULE DeadCode -------------------------------
(***************************************************************************)
(* cobol_analyzer/dead_code.py on one source, and a machine that runs the  *)
(* same source, to say what the classification is worth.                   *)
(*                                                                         *)
(* The analyzer searches the call graph twice, without the ALTER edges and *)
(* with them; each turn of its loop is a step.  The machine is COBOL's, as *)
(* the compiler the project uses would have it: it is outside the          *)
(* repository.  Conditions are not evaluated: a line under one is executed *)
(* or passed over.                                                         *)
(***************************************************************************)
EXTENDS CallGraph

CONSTANT MaxDepth       \* how many PERFORMs may be active at a time

ASSUME MaxDepthAssumption == MaxDepth \in Nat

VARIABLES
    source,     \* the text: its paragraphs are source.paras
    phase,      \* "edit", "plain" and "alter" (the two searches), "run", "end"
    visited,    \* visited of the search that runs, or that ran last
    frontier,   \* the names in its queue
    reachable,  \* result.reachable: what the search without ALTER visited
    pc,         \* <<paragraph, line>> the machine is at
    stack,      \* the active PERFORMs: the line to come back to, after what
    altered,    \* the GO TOs that were altered, and to where
    entered,    \* the paragraphs the machine has entered
    unseen      \* the transfers it made that the call graph has no edge for

analysis == <<visited, frontier, reachable>>
machine  == <<pc, stack, altered, entered, unseen>>

Paras  == source.paras
Names  == NamesOf(Paras)

DeadCodeInit ==
    /\ phase = "edit"
    /\ visited = {} /\ frontier = {} /\ reachable = {}
    /\ pc = <<0, 0>> /\ stack = <<>> /\ altered = <<>>
    /\ entered = {} /\ unseen = {}

-----------------------------------------------------------------------------
(* result.alter_conditional and result.dead, once both searches are over.  *)
alterConditional == visited \ reachable
dead             == Names \ visited

(* analyze: an empty program is not searched.                              *)
Analyze ==
    /\ phase = "edit" /\ Paras # <<>>
    /\ phase' = "plain"
    /\ frontier' = {Paras[1].name}
    /\ UNCHANGED <<source, visited, reachable, machine>>

(* The edges _find_reachable follows from a paragraph.                     *)
Successors(name) ==
    {e[3] : e \in {f \in Edges(Paras) :
                    f[1] = name /\ (f[2] # "ALTER" \/ phase = "alter")}}

(***************************************************************************)
(* One turn of the loop of _find_reachable.  The order of the queue has no *)
(* effect on what is visited in the end; a name that was visited meanwhile *)
(* is skipped when it is popped, so it need not be kept.                   *)
(***************************************************************************)
Visit ==
    /\ phase \in {"plain", "alter"} /\ frontier # {}
    /\ LET current == CHOOSE n \in frontier : TRUE
       IN IF current \in Names
          THEN /\ visited' = visited \cup {current}
               /\ frontier' = (frontier \cup Successors(current)) \ visited'
          ELSE /\ frontier' = frontier \ {current}
               /\ UNCHANGED visited
    /\ UNCHANGED <<source, phase, reachable, machine>>

(* The first search is over: the second starts from the entry again.       *)
SearchWithAlter ==
    /\ phase = "plain" /\ frontier = {}
    /\ phase' = "alter"
    /\ reachable' = visited
    /\ visited' = {}
    /\ frontier' = {Paras[1].name}
    /\ UNCHANGED <<source, machine>>

-----------------------------------------------------------------------------
(* What the compiler accepts: statements have their operands, and every    *)
(* name in the text names one paragraph.                                   *)
Operands(line) ==
    CASE line.op \in {"PERFORM", "GOTO", "IFGOTO", "DEPENDING"} -> {1}
      [] line.op \in {"THRU", "ALTER"}                          -> {1, 2}
      [] OTHER                                                  -> {}

Compiles ==
    /\ \A i, j \in DOMAIN Paras : Paras[i].name = Paras[j].name => i = j
    /\ \A i \in DOMAIN Paras : \A k \in DOMAIN Paras[i].lines :
          LET line == Paras[i].lines[k]
          IN /\ Operands(line) \subseteq DOMAIN line.to
             /\ \A t \in DOMAIN line.to : line.to[t] \in Names

Index(name) == CHOOSE i \in DOMAIN Paras : Paras[i].name = name

(* Control passes to the first line of the i-th paragraph.                 *)
Enter(i) ==
    /\ pc' = <<i, 1>>
    /\ entered' = entered \cup {Paras[i].name}

(* The classification is complete: the program is compiled and run.        *)
Start ==
    /\ phase = "alter" /\ frontier = {} /\ Compiles
    /\ phase' = "run"
    /\ Enter(1)
    /\ UNCHANGED <<source, analysis, stack, altered, unseen>>

Running == phase = "run" /\ pc[2] \in DOMAIN Paras[pc[1]].lines
Current == Paras[pc[1]].lines[pc[2]]
NextLine == <<pc[1], pc[2] + 1>>

(* The line is in the scope of an IF or an EVALUATE, which its END or the  *)
(* period of a sentence closes, or it is a condition itself.               *)
Conditional ==
    \/ Current.op \in {"IFGOTO", "DEPENDING"}
    \/ \E j \in 1..(pc[2] - 1) :
          /\ Paras[pc[1]].lines[j].op \in {"IF", "EVALUATE"}
          /\ \A m \in j..(pc[2] - 1) :
                /\ Paras[pc[1]].lines[m].op \notin {"ENDIF", "ENDEVALUATE"}
                /\ ~Paras[pc[1]].lines[m].dot

Transfers == {"PERFORM", "THRU", "GOTO", "IFGOTO", "DEPENDING", "ALTER", "STOP"}

Pass ==
    /\ Running /\ (Current.op \notin Transfers \/ Conditional)
    /\ pc' = NextLine
    /\ UNCHANGED <<source, phase, analysis, stack, altered, entered, unseen>>

(* PERFORM p comes back after p, PERFORM p THRU q after q.                 *)
PerformParagraph ==
    /\ Running /\ Current.op \in {"PERFORM", "THRU"}
    /\ Len(stack) < MaxDepth
    /\ stack' = Append(stack, [back  |-> NextLine,
                               after |-> IF Current.op = "THRU" THEN Current.to[2]
                                         ELSE Current.to[1]])
    /\ Enter(Index(Current.to[1]))
    /\ UNCHANGED <<source, phase, analysis, altered, unseen>>

(* An altered GO TO goes where ALTER said last.                            *)
GoTo ==
    /\ Running /\ Current.op \in {"GOTO", "IFGOTO"}
    /\ LET here == Paras[pc[1]].name
       IN Enter(Index(IF here \in DOMAIN altered THEN altered[here]
                      ELSE Current.to[1]))
    /\ UNCHANGED <<source, phase, analysis, stack, altered, unseen>>

GoToDepending ==
    /\ Running /\ Current.op = "DEPENDING"
    /\ \E t \in DOMAIN Current.to :
          /\ Enter(Index(Current.to[t]))
          /\ unseen' = unseen \cup (IF t = 1 THEN {} ELSE {"DEPENDING ON"})
    /\ UNCHANGED <<source, phase, analysis, stack, altered>>

Alter ==
    /\ Running /\ Current.op = "ALTER"
    /\ altered' = [n \in DOMAIN altered \cup {Current.to[1]} |->
                   IF n = Current.to[1] THEN Current.to[2] ELSE altered[n]]
    /\ pc' = NextLine
    /\ UNCHANGED <<source, phase, analysis, stack, entered, unseen>>

StopRun ==
    /\ Running /\ Current.op = "STOP"
    /\ phase' = "end"
    /\ UNCHANGED <<source, analysis, machine>>

AtEnd == phase = "run" /\ pc[2] \notin DOMAIN Paras[pc[1]].lines
Returns == stack # <<>> /\ stack[Len(stack)].after = Paras[pc[1]].name

Return ==
    /\ AtEnd /\ Returns
    /\ pc' = stack[Len(stack)].back
    /\ stack' = SubSeq(stack, 1, Len(stack) - 1)
    /\ UNCHANGED <<source, phase, analysis, altered, entered, unseen>>

(* The last line is EXIT, or a transfer, which was conditional and has not *)
(* been made if control gets past it.                                      *)
EndsBlind(lines) ==
    /\ lines # <<>>
    /\ LET last == lines[Len(lines)]
       IN \/ last.op \in {"GOTO", "IFGOTO", "DEPENDING", "STOP"}
          \/ last.op = "EXIT" /\ last.dot

(* Past the last line into the next paragraph.                             *)
FallThrough ==
    /\ AtEnd /\ ~Returns /\ pc[1] < Len(Paras)
    /\ Enter(pc[1] + 1)
    /\ unseen' = unseen \cup
          (IF EndsBlind(Paras[pc[1]].lines) THEN {"PAST THE LAST LINE"} ELSE {})
    /\ UNCHANGED <<source, phase, analysis, stack, altered>>

RunOff ==
    /\ AtEnd /\ ~Returns /\ pc[1] = Len(Paras)
    /\ phase' = "end"
    /\ UNCHANGED <<source, analysis, machine>>

DeadCodeNext ==
    \/ Analyze \/ Visit \/ SearchWithAlter \/ Start
    \/ Pass \/ PerformParagraph \/ GoTo \/ GoToDepending \/ Alter \/ StopRun
    \/ Return \/ FallThrough \/ RunOff

(* One text, whatever it is, from its analysis to the end of its run.      *)
DeadCodeSpec ==
    /\ Paras \in Seq({Paras[i] : i \in DOMAIN Paras})
    /\ DeadCodeInit
    /\ [][DeadCodeNext]_<<source, phase, analysis, machine>>

-----------------------------------------------------------------------------
(***************************************************************************)
(* What runs is never reported dead, and what runs without an ALTER having *)
(* been executed is reported reachable, unless the run has taken one of    *)
(* the two kinds of transfer the call graph has no edge for: a target of   *)
(* GO TO .. DEPENDING ON other than the first, or falling past a last line *)
(* that contains GO TO or STOP RUN or is EXIT.                             *)
(***************************************************************************)
ClassificationHolds ==
    phase \in {"run", "end"} /\ unseen = {} =>
        /\ entered \cap dead = {}
        /\ altered = <<>> => entered \subseteq reachable
=============================================================================
