------------------------------ MODULE CallGraph ------------------------------
(***************************************************************************)
(* COBOL source text as the analyzers see it, and the control-flow edges   *)
(* that cobol_analyzer/call_graph.py reads off it.                         *)
(*                                                                         *)
(* A procedure division is a sequence of paragraphs [name, comment,        *)
(* lines]; comment says whether a comment line follows the name.  A line   *)
(* is [op, to, words, dot]: what the statement does, the paragraph names   *)
(* in it in the order they are written, its other words that a name could  *)
(* occur in (literals, data names, the verb of OTHER), and whether it ends *)
(* with a period.                                                          *)
(*   PERFORM <<p>>       THRU <<p, q>> (PERFORM p THRU q)                  *)
(*   GOTO <<p>>          IFGOTO <<p>> (IF .. GO TO p on one line)          *)
(*   DEPENDING <<p, ..>> (GO TO p .. DEPENDING ON x)                       *)
(*   ALTER <<p, q>>      (ALTER p TO PROCEED TO q)                         *)
(*   IF, ENDIF, EVALUATE, WHEN, ENDEVALUATE, STOP, EXIT, DISPLAY, OTHER    *)
(* A name is the sequence of its hyphen-separated parts, because what      *)
(* renaming does depends on whether a name lies inside another one.        *)
(***************************************************************************)
EXTENDS Naturals, Sequences, FiniteSets

(* The kinds of lines, lines, and paragraphs.                              *)
Statements == {"PERFORM", "THRU", "GOTO", "IFGOTO", "DEPENDING", "ALTER", "IF", "ENDIF",
               "EVALUATE", "WHEN", "ENDEVALUATE", "STOP", "EXIT", "DISPLAY", "OTHER"}
Lines == [op : Statements, to : Seq(Seq(STRING)), words : Seq(Seq(STRING)), dot : BOOLEAN]
Paragraphs == [name : Seq(STRING), comment : BOOLEAN, lines : Seq(Lines)]

Line(op, to) == [op |-> op, to |-> to, words |-> <<>>, dot |-> FALSE]
Saying(op, words) == [op |-> op, to |-> <<>>, words |-> words, dot |-> FALSE]

(* The same line, the last of its sentence.                                *)
Ended(line) == [line EXCEPT !.dot = TRUE]

(* graph.paragraphs                                                        *)
NamesOf(s) == {s[i].name : i \in DOMAIN s}

(***************************************************************************)
(* The paragraphs a PERFORM p THRU q is given edges to besides p: the      *)
(* order of appearance from p up to q, or to the end where no q comes      *)
(* after p; nothing where q comes first.                                   *)
(***************************************************************************)
ThruRange(s, p, q) ==
    {s[j].name : j \in {j \in DOMAIN s :
        /\ \E i \in 1..j : s[i].name = p
        /\ \A m \in 1..(j - 1) : s[m].name # q}}

(* Mutant: the edge of an ALTER leads to the paragraph it alters.          *)
EdgesOfLineAlterSwapped(s, line) ==
    CASE line.op = "ALTER"   -> {<<"ALTER", line.to[1]>>}
      [] line.op = "THRU"    -> {<<"PERFORM_THRU", p>> : p \in
             {line.to[1]} \cup ThruRange(s, line.to[1], line.to[2])}
      [] line.op = "PERFORM" -> {<<"PERFORM", line.to[1]>>}
      [] line.op \in {"GOTO", "IFGOTO", "DEPENDING"} ->
             {<<"GOTO", line.to[1]>>}
      [] OTHER               -> {}

(***************************************************************************)
(* The edges one line gives, as <<type, target>>.  The first pattern that  *)
(* matches wins, and each pattern captures one target: of the list of a    *)
(* GO TO .. DEPENDING ON only the first name is seen.                      *)
(***************************************************************************)
EdgesOfLine(s, line) ==
    CASE line.op = "ALTER"   -> {<<"ALTER", line.to[2]>>}
      [] line.op = "THRU"    -> {<<"PERFORM_THRU", p>> : p \in
             {line.to[1]} \cup ThruRange(s, line.to[1], line.to[2])}
      [] line.op = "PERFORM" -> {<<"PERFORM", line.to[1]>>}
      [] line.op \in {"GOTO", "IFGOTO", "DEPENDING"} ->
             {<<"GOTO", line.to[1]>>}
      [] OTHER               -> {}

(***************************************************************************)
(* Whether a paragraph is given a FALL_THROUGH edge to the next one: not   *)
(* when its last line contains GO TO or STOP RUN, under a condition or     *)
(* not, and not when that line is "EXIT.", although control does pass an   *)
(* EXIT.                                                                   *)
(***************************************************************************)
FallsThrough(lines) ==
    \/ lines = <<>>
    \/ LET last == lines[Len(lines)]
       IN /\ last.op \notin {"GOTO", "IFGOTO", "DEPENDING", "STOP"}
          /\ ~(last.op = "EXIT" /\ last.dot)

(* The edges of one line and of one paragraph, as <<source, type, target>>.*)
EdgesAt(s, i, k) ==
    {<<s[i].name, e[1], e[2]>> : e \in EdgesOfLine(s, s[i].lines[k])}

EdgesFrom(s, i) == UNION {EdgesAt(s, i, k) : k \in DOMAIN s[i].lines}

(* graph.paragraphs[name] is the last paragraph of that name, and its      *)
(* lines are looked at for each of them.                                   *)
FallThroughs(s) ==
    LET Lookup(name) == {m \in DOMAIN s : s[m].name = name}
        falls(name) == \A m \in Lookup(name) :
                          (\A n \in Lookup(name) : n <= m) => FallsThrough(s[m].lines)
    IN {<<s[i].name, "FALL_THROUGH", s[i + 1].name>> : i \in
           {j \in 1..(Len(s) - 1) : falls(s[j].name)}}

(* graph.edges                                                             *)
Edges(s) == (UNION {EdgesFrom(s, i) : i \in DOMAIN s}) \cup FallThroughs(s)
=============================================================================
