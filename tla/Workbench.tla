------------------------------ MODULE Workbench ------------------------------
(***************************************************************************)
(* The COBOL workbench: a client takes a source, on disk or made from a    *)
(* template, has it edited request after request, sending back each time   *)
(* the text it was given, then has its dead code reported and runs it.     *)
(***************************************************************************)
EXTENDS Codegen, DeadCode

CONSTANTS
    Sources,        \* the texts a client starts from
    Requests,       \* the edits it may ask for
    MaxEdits        \* bound: how many

(* operations, the dispatch table of edit_cobol.                           *)
EditOperations == {"add_field", "remove_field", "add_paragraph", "rename_paragraph",
                   "add_operation", "add_88_condition", "add_copybook_ref", "update_pic"}

(* Texts have paragraphs of lines, and what a request brings into them is  *)
(* a name or lines.                                                        *)
ASSUME WorkbenchAssumption ==
    /\ \A s \in Sources : s.paras \in Seq(Paragraphs)
    /\ \A r \in Requests :
         /\ r.op \in EditOperations
         /\ r.op = "add_paragraph" => /\ r.name \in Seq(STRING) /\ r.comment \in BOOLEAN
                                      /\ r.lines \in Seq(Lines)
         /\ r.op = "rename_paragraph" => {r.old, r.new} \subseteq Seq(STRING)
         /\ r.op = "add_operation" => {r.name, r.paragraph} \subseteq Seq(STRING)

VARIABLES
    latest,     \* the last request and how it was answered
    edits       \* how many there were

WorkbenchVars == <<source, phase, analysis, machine, latest, edits>>

WorkbenchInit ==
    /\ source \in Sources
    /\ latest = [request |-> [op |-> "none"], answer |-> "done"]
    /\ edits = 0
    /\ DeadCodeInit

(* edit_cobol: parse, apply, generate.  The text that comes back replaces  *)
(* the client's.                                                           *)
EditCobol(r) ==
    /\ phase = "edit" /\ edits < MaxEdits
    /\ LET result == Apply(Parse(source), r)
       IN /\ source' = Generate(result.tree)
          /\ latest' = [request |-> r, answer |-> result.answer]
    /\ edits' = edits + 1
    /\ UNCHANGED <<phase, analysis, machine>>

WorkbenchNext ==
    \/ \E r \in Requests : EditCobol(r)
    \/ DeadCodeNext /\ UNCHANGED <<latest, edits>>

WorkbenchSpec == WorkbenchInit /\ [][WorkbenchNext]_WorkbenchVars

-----------------------------------------------------------------------------
Referenced(s) ==
    UNION {UNION {ToSet(s.paras[i].lines[k].to) : k \in DOMAIN s.paras[i].lines} :
           i \in DOMAIN s.paras}

Dangling(s) == Referenced(s) \ NamesOf(s.paras)

(* The names a request is about.                                           *)
Subject(r) ==
    CASE r.op = "add_field"        -> {r.item.name}
      [] r.op = "add_paragraph"    -> {r.name}
      [] r.op = "rename_paragraph" -> {r.old, r.new}
      [] r.op = "add_operation"    -> {r.name, r.paragraph}
      [] r.op = "add_88_condition" -> {r.condition}
      [] r.op = "update_pic"       -> {r.field}
      [] OTHER                     -> {}

PieceOf(part, name) == part \in SubSeqs(name)

(* A rename whose old name is a piece of a longer name of the text.        *)
Overlaps(r, s) ==
    /\ r.op = "rename_paragraph"
    /\ \E n \in Referenced(s) : n # r.old /\ PieceOf(r.old, n)

(***************************************************************************)
(* No edit leaves a PERFORM, GO TO or ALTER without its paragraph: what    *)
(* dangles after it dangled before (under its old name) or is a name the   *)
(* request itself brought.  Only a rename of a name that lies inside       *)
(* another one, as P-030 in P-030-EXIT, may break references; no answer    *)
(* and no issue of the validator tells.                                    *)
(***************************************************************************)
NoEditBreaksAReference ==
    [][edits' # edits /\ ~Overlaps(latest'.request, source) =>
         LET r == latest'.request
             before == IF r.op = "rename_paragraph"
                       THEN {RenameIn(n, r) : n \in Dangling(source)}
                       ELSE Dangling(source)
             brought == CASE r.op = "add_paragraph" ->
                                UNION {ToSet(r.lines[k].to) : k \in DOMAIN r.lines}
                          [] r.op = "add_operation" -> {r.paragraph}
                          [] OTHER -> {}
         IN Dangling(source') \subseteq before \cup brought]_WorkbenchVars

(* The text without the items, the paragraphs and the lines that involve   *)
(* one of the names.                                                       *)
Untouched(s, names) ==
    LET without(items) == SelectSeq(items, LAMBDA item : item.name \notin names)
        about(line) == \E w \in ToSet(line.to) \cup ToSet(line.words), n \in names : PieceOf(n, w)
        paras == SelectSeq(s.paras, LAMBDA p : p.name \notin names)
    IN [header |-> s.header,
        copies |-> s.copies,
        fds    |-> [i \in DOMAIN s.fds |-> [s.fds[i] EXCEPT !.fields = without(@)]],
        ws     |-> without(s.ws),
        paras  |-> [i \in DOMAIN paras |->
                     [paras[i] EXCEPT !.lines = SelectSeq(@, LAMBDA l : ~about(l))]]]

(* What every edit does to a text it has not to touch: two more rules      *)
(* around its header, no quotes around values (an unquoted value of        *)
(* several words is lost then), no PICTURE of a condition, no comments but *)
(* the header, no periods at the end of lines.                             *)
Worn(s) ==
    [s EXCEPT !.header = IF @ = 0 THEN 0 ELSE @ + 2,
              !.ws     = ParsedItems(@),
              !.fds    = [i \in DOMAIN @ |-> [@[i] EXCEPT !.fields = ParsedItems(@)]],
              !.paras  = [i \in DOMAIN @ |->
                           [@[i] EXCEPT !.comment = FALSE,
                                        !.lines = [k \in DOMAIN @ |-> [@[k] EXCEPT !.dot = FALSE]]]]]

(***************************************************************************)
(* From the second edit on, what an edit does not name only wears: every   *)
(* other item, paragraph and statement is still there, in its place, but   *)
(* for what Worn takes from all of them, and every issue the validator     *)
(* newly reports is about what the edit names.  That nothing else changes  *)
(* at all does not hold: a value printed in quotes by one edit has none    *)
(* after the next.  The first edit also rewrites what the parser keeps     *)
(* nothing of: the COPY of working storage and the fields of a file that   *)
(* gets a copybook.                                                        *)
(***************************************************************************)
LaterEditsChangeOnlyTheirSubject ==
    [][edits' # edits /\ edits > 0 =>
         LET names == Subject(latest'.request)
         IN /\ Untouched(source', names) = Untouched(Worn(source), names)
            /\ \A i \in Issues(Parse(source')) \ Issues(Parse(source)) :
                    i[2] \in names]_WorkbenchVars
=============================================================================
