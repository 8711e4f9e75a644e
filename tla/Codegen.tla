------------------------------- MODULE Codegen -------------------------------
(***************************************************************************)
(* cobol_codegen: the parser, the generator, the edit operations, the      *)
(* templates and the validator, over the text of CallGraph.                *)
(*                                                                         *)
(* A source is [header, fds, ws, copies, paras]: how many comment lines    *)
(* precede the first division, the FD entries [name, copies, fields] with  *)
(* the COPY statements and the data items under each, the data items and   *)
(* the COPY statements of working storage, and the paragraphs.             *)
(* A data item is [name, level, kind, pic, value, comment]: kind stands    *)
(* for the suffix of its name that the validator looks at, value for how   *)
(* its VALUE is written, comment for a comment line above it:              *)
(*   none    there is no VALUE           bare    one word                  *)
(*   quoted  one word in quotes          phrase  several words in quotes   *)
(*   words   several words, not between quotes (1 THRU 5, 0 OCCURS 3)      *)
(*   point   nothing but the period                                        *)
(* A tree is [header, files, ws, copybooks, paras]: one copybook per file, *)
(* one list of all the copybooks, values as they will be printed, and      *)
(* statements, which may hold several lines of text.                       *)
(***************************************************************************)
EXTENDS CallGraph, SequencesExt

CONSTANT LowerCase      \* the parts of names that are not upper case

NoCopy == "no copybook"

(* A data item and an 88 level, as the tree has them.                      *)
Item(name, pic, value) ==
    [name |-> name, level |-> 1, kind |-> "other", pic |-> pic, value |-> value,
     comment |-> FALSE]
Condition(name, value) == [Item(name, "", value) EXCEPT !.level = 88]

(* _VALUE matches one word or what is in quotes at the end of the line,    *)
(* and the quotes are stripped; an 88 level where it matches nothing gets  *)
(* the empty value, which is printed as VALUE and the period.              *)
ReadValue(item) ==
    CASE item.value = "quoted" -> "bare"
      [] item.value = "phrase" -> "words"
      [] item.value \in {"none", "words"} -> IF item.level = 88 THEN "point" ELSE "none"
      [] OTHER -> item.value

(* _parse_data_item: an 88 level is read without the item it belongs to,   *)
(* and comments are not read.                                              *)
ParsedItem(item) ==
    IF item.level = 88 THEN Condition(item.name, ReadValue(item))
    ELSE [item EXCEPT !.value = ReadValue(item), !.comment = FALSE]
ParsedItems(items) == [i \in DOMAIN items |-> ParsedItem(items[i])]

(* _parse_statement: one line is one statement, and loses its period.      *)
ParsedStatement(line) == <<[line EXCEPT !.dot = FALSE]>>

(***************************************************************************)
(* COBOLParser.parse_text.  A COPY of working storage is taken for the     *)
(* copybook of the last file, because the declaration the parser last saw  *)
(* stays current.  The tree is flat: an item becomes nobody's child.       *)
(***************************************************************************)
Parse(source) ==
    [header    |-> source.header,
     files     |-> [i \in DOMAIN source.fds |->
        LET seen == source.fds[i].copies
                      \o (IF i = Len(source.fds) THEN source.copies ELSE <<>>)
        IN [name     |-> source.fds[i].name,
            copybook |-> IF seen = <<>> THEN NoCopy ELSE Last(seen),
            fields   |-> ParsedItems(source.fds[i].fields)]],
     ws        |-> ParsedItems(source.ws),
     copybooks |-> FlattenSeq([i \in DOMAIN source.fds |->
                               source.fds[i].copies]) \o source.copies,
     paras     |-> [i \in DOMAIN source.paras |->
        [name    |-> source.paras[i].name,
         comment |-> FALSE,
         stmts   |-> [k \in DOMAIN source.paras[i].lines |->
                      ParsedStatement(source.paras[i].lines[k])]]]]

(* _format_header_comments: between two rules, which the parser will count *)
(* as comments.                                                            *)
GeneratedHeader(tree) == IF tree.header = 0 THEN 0 ELSE tree.header + 2

(* _generate_environment and _generate_data: a file's record fields are    *)
(* printed only where it has no copybook.                                  *)
GeneratedFiles(tree) ==
    [i \in DOMAIN tree.files |->
        LET f == tree.files[i]
        IN [name   |-> f.name,
            copies |-> IF f.copybook = NoCopy THEN <<>> ELSE <<f.copybook>>,
            fields |-> IF f.copybook = NoCopy THEN f.fields ELSE <<>>]]

(* _generate_procedure: a statement of several lines is several lines, and *)
(* its text is printed as it is, an added one's period included.           *)
GeneratedParagraphs(tree) ==
    [i \in DOMAIN tree.paras |->
        [name    |-> tree.paras[i].name,
         comment |-> tree.paras[i].comment,
         lines   |-> FlattenSeq(tree.paras[i].stmts)]]

(* Mutant: the list of copybooks is generated into working storage.        *)
GenerateWithCopybooks(tree) ==
    [header |-> GeneratedHeader(tree),
     fds    |-> GeneratedFiles(tree),
     ws     |-> tree.ws,
     copies |-> tree.copybooks,
     paras  |-> GeneratedParagraphs(tree)]

(* COBOLGenerator.generate prints the list of copybooks nowhere.           *)
Generate(tree) ==
    [header |-> GeneratedHeader(tree),
     fds    |-> GeneratedFiles(tree),
     ws     |-> tree.ws,
     copies |-> <<>>,
     paras  |-> GeneratedParagraphs(tree)]

-----------------------------------------------------------------------------
(* What an operation returns: the tree, changed in place, and whether the  *)
(* description it gives starts with "Error".                               *)
Applied(tree) == [tree |-> tree, answer |-> "done"]
Failed(tree)  == [tree |-> tree, answer |-> "error"]

(* The items of working storage (0) or of the w-th file, and the tree with *)
(* them replaced.                                                          *)
Items(tree, w) == IF w = 0 THEN tree.ws ELSE tree.files[w].fields
WithItems(tree, w, items) ==
    IF w = 0 THEN [tree EXCEPT !.ws = items]
             ELSE [tree EXCEPT !.files[w].fields = items]

(* The first of a set of places <<n, i>> in the order of the text.         *)
Earliest(places) ==
    CHOOSE p \in places : \A q \in places :
        p[1] < q[1] \/ (p[1] = q[1] /\ p[2] <= q[2])

(* _format_data_item: a child or an 88 level of an item is printed right   *)
(* below it, where the next parse takes it for an item like any other.     *)
PrintedBelow(items, i, item) == InsertAt(items, i + 1, item)

(* _find_item: every place of an item of that name, working storage first. *)
FindItem(tree, name) ==
    UNION {{<<w, i>> : i \in {j \in DOMAIN Items(tree, w) : Items(tree, w)[j].name = name}} :
           w \in 0..Len(tree.files)}

(***************************************************************************)
(* add_field.  The parent of a tree just parsed has no children, so the    *)
(* level is the parent's plus four (plus one from 49 on) and "after" is    *)
(* never found.                                                            *)
(***************************************************************************)
AddField(tree, r) ==
    IF FindItem(tree, r.parent) = {} THEN Failed(tree)
    ELSE LET p == Earliest(FindItem(tree, r.parent))
             items == Items(tree, p[1])
             level == items[p[2]].level + (IF items[p[2]].level < 49 THEN 4 ELSE 1)
         IN Applied(WithItems(tree, p[1],
                PrintedBelow(items, p[2], [r.item EXCEPT !.level = level])))

(* remove_field looks among the children of items: there are none.         *)
RemoveField(tree, r) == Failed(tree)

(* add_88_condition: the value is printed in quotes.                       *)
Add88Condition(tree, r) ==
    IF FindItem(tree, r.field) = {} THEN Failed(tree)
    ELSE LET p == Earliest(FindItem(tree, r.field))
         IN Applied(WithItems(tree, p[1],
                PrintedBelow(Items(tree, p[1]), p[2], Condition(r.condition, r.value))))

UpdatePic(tree, r) ==
    IF FindItem(tree, r.field) = {} THEN Failed(tree)
    ELSE LET p == Earliest(FindItem(tree, r.field))
         IN Applied(WithItems(tree, p[1],
                [Items(tree, p[1]) EXCEPT ![p[2]].pic = r.pic]))

(* add_copybook_ref: in the list, which is not generated.                  *)
AddCopybookRef(tree, r) ==
    Applied(IF Contains(tree.copybooks, r.copybook) THEN tree
         ELSE [tree EXCEPT !.copybooks = Append(@, r.copybook)])

(* add_paragraph: after the first paragraph of the name given, else before *)
(* the last one.                                                           *)
AddParagraph(tree, r) ==
    LET new  == [name |-> r.name, comment |-> r.comment,
                 stmts |-> [k \in DOMAIN r.lines |-> <<r.lines[k]>>]]
        n    == Len(tree.paras)
        here == SelectInSeq(tree.paras, LAMBDA p : p.name = r.after)
        at   == IF here # 0 THEN here + 1 ELSE IF n = 0 THEN 1 ELSE n
    IN Applied([tree EXCEPT !.paras = InsertAt(@, at, new)])

(* str.replace on one name; the parts of our names differ, so the first    *)
(* occurrence is the only one.                                             *)
RenameIn(name, r) == ReplaceFirstSubSeq(r.new, r.old, name)

(* Mutant: only the renamed paragraph's own statements are updated.        *)
RenameWithinParagraph(tree, r) ==
    LET renamed == [tree EXCEPT !.paras = [i \in DOMAIN @ |->
            IF @[i].name = r.old THEN [@[i] EXCEPT !.name = r.new] ELSE @[i]]]
    IN IF renamed # tree THEN Applied(renamed) ELSE Failed(renamed)

(* str.replace on a line: in the paragraphs it names and in its other      *)
(* words, literals and data names alike.                                   *)
RenamedWords(words, r) == [t \in DOMAIN words |-> RenameIn(words[t], r)]
RenamedLine(line, r) ==
    [line EXCEPT !.to = RenamedWords(line.to, r), !.words = RenamedWords(line.words, r)]
RenamedStatement(stmt, r) == [l \in DOMAIN stmt |-> RenamedLine(stmt[l], r)]

(***************************************************************************)
(* rename_paragraph.  Paragraphs are renamed where the whole name is old;  *)
(* in the text of statements every occurrence of old is replaced, inside   *)
(* longer names too, and also when no paragraph of that name is found and  *)
(* the answer is an error.                                                 *)
(***************************************************************************)
RenameParagraph(tree, r) ==
    LET Renamed(p) == [name    |-> IF p.name = r.old THEN r.new ELSE p.name,
                       comment |-> p.comment,
                       stmts   |-> [k \in DOMAIN p.stmts |-> RenamedStatement(p.stmts[k], r)]]
        renamed == [tree EXCEPT !.paras = [i \in DOMAIN tree.paras |-> Renamed(tree.paras[i])]]
    IN IF \E i \in DOMAIN tree.paras : tree.paras[i].name = r.old
       THEN Applied(renamed) ELSE Failed(renamed)

(* add_operation: a WHEN with its PERFORM, in one statement, before the    *)
(* first END-EVALUATE after the first EVALUATE that has one.               *)
AddOperation(tree, r) ==
    LET ends(stmts) == {k \in DOMAIN stmts :
                            /\ stmts[k][1].op = "ENDEVALUATE"
                            /\ \E m \in 1..(k - 1) : stmts[m][1].op = "EVALUATE"}
        spots == UNION {{<<i, k>> : k \in ends(tree.paras[i].stmts)} :
                        i \in DOMAIN tree.paras}
    IN IF spots = {} THEN Failed(tree)
       ELSE LET s == Earliest(spots)
            IN Applied([tree EXCEPT !.paras[s[1]].stmts = InsertAt(@, s[2],
                    <<Saying("WHEN", <<r.name>>), Line("PERFORM", <<r.paragraph>>)>>)])

(* The dispatch of the edit endpoint.                                      *)
Apply(tree, r) ==
    CASE r.op = "add_field"        -> AddField(tree, r)
      [] r.op = "remove_field"     -> RemoveField(tree, r)
      [] r.op = "add_paragraph"    -> AddParagraph(tree, r)
      [] r.op = "rename_paragraph" -> RenameParagraph(tree, r)
      [] r.op = "add_operation"    -> AddOperation(tree, r)
      [] r.op = "add_88_condition" -> Add88Condition(tree, r)
      [] r.op = "add_copybook_ref" -> AddCopybookRef(tree, r)
      [] r.op = "update_pic"       -> UpdatePic(tree, r)

-----------------------------------------------------------------------------
(* COBOLValidator.validate on a parsed source, as <<severity, subject>>.   *)
WellFormed(name) == \A i \in DOMAIN name : name[i] \notin LowerCase

NameIssues(name) == IF WellFormed(name) THEN {} ELSE {<<"ERROR", name>>}

(* A parsed item never has 88 levels, so every flag of one character is    *)
(* reported, with conditions or without.                                   *)
ItemIssues(item) ==
    NameIssues(item.name) \cup
    IF \/ item.kind = "money" /\ item.pic # "S9(10)V99"
       \/ item.kind = "date" /\ item.pic # "9(8)"
       \/ item.kind = "flag" /\ item.pic = "X(1)"
    THEN {<<"WARNING", item.name>>} ELSE {}

ParagraphIssues(para) ==
    NameIssues(para.name) \cup
    IF /\ para.stmts # <<>>
       /\ Contains(Tail(para.name), "OPERATION")
       /\ Last(para.stmts)[1].op # "DISPLAY"
    THEN {<<"WARNING", para.name>>} ELSE {}

Issues(tree) ==
    (UNION {ItemIssues(tree.ws[i]) : i \in DOMAIN tree.ws})
    \cup (UNION {UNION {ItemIssues(tree.files[w].fields[i]) :
                i \in DOMAIN tree.files[w].fields} : w \in DOMAIN tree.files})
    \cup (UNION {ParagraphIssues(tree.paras[i]) : i \in DOMAIN tree.paras})
    \cup (IF \E i \in DOMAIN tree.paras : \E k \in DOMAIN tree.paras[i].stmts :
                tree.paras[i].stmts[k][1].op = "STOP"
          THEN {} ELSE {<<"ERROR", <<"STOP", "RUN">>>>})

-----------------------------------------------------------------------------
(* The trees of the templates.                                             *)
FileOf(copybook) == [name |-> <<"INPUT", "FILE">>, copybook |-> copybook, fields |-> <<>>]
Para(name, stmts) == [name |-> name, comment |-> FALSE, stmts |-> stmts]
Commented(name, stmts) == [Para(name, stmts) EXCEPT !.comment = TRUE]
One(op) == <<Line(op, <<>>)>>
Says(op, words) == <<Saying(op, words)>>
Perform(name) == <<Line("PERFORM", <<name>>)>>

Main == <<"MAIN", "PROGRAM">>
Selected == <<"WS", "OPERATION">>
ReportType == <<"WS", "REPORT", "TYPE">>
Eof == <<"WS", "FILE", "EOF">>
CountOf(what) == <<"WS", what, "COUNT">>
FileStatus == <<Item(<<"WS", "FILE", "STATUS">>, "XX", "bare"),
                Condition(<<"WS", "FILE", "OK">>, "quoted"), Condition(Eof, "quoted")>>

CrudProgram(ops) ==
    [header |-> 5, files |-> <<FileOf("CUSTREC.cpy")>>,
     ws |-> Append(FileStatus, Item(Selected, "X(10)", "bare")),
     copybooks |-> <<"CUSTREC.cpy">>,
     paras |-> <<Para(Main,
            <<Says("EVALUATE", <<Selected>>)>>
            \o FlattenSeq([i \in DOMAIN ops |->
                    <<Says("WHEN", <<<<ops[i]>>>>), Perform(<<ops[i], "OPERATION">>)>>])
            \o <<One("WHEN"), One("DISPLAY"), One("ENDEVALUATE"), One("STOP")>>)>>
        \o [i \in DOMAIN ops |->
            Commented(<<ops[i], "OPERATION">>, <<Says("DISPLAY", <<<<ops[i]>>>>)>>)]]

ReportProgram(types) ==
    [header |-> 4, files |-> <<FileOf(NoCopy)>>,
     ws |-> Append(FileStatus, Item(ReportType, "X(10)", "bare")),
     copybooks |-> <<>>,
     paras |-> <<Para(Main,
            <<Says("EVALUATE", <<ReportType>>)>>
            \o [i \in DOMAIN types |->
                    Says("WHEN", <<<<types[i]>>>>) \o Perform(<<"GENERATE", types[i]>>)]
            \o <<One("ENDEVALUATE"), One("STOP")>>)>>
        \o [i \in DOMAIN types |->
            Commented(<<"GENERATE", types[i]>>,
                      <<Says("DISPLAY", <<<<types[i]>>>>), One("DISPLAY")>>)]]

BatchProgram ==
    LET open   == <<"OPEN", "INPUT">>
        all    == <<"PROCESS", "RECORDS">>
        read   == <<"READ", "NEXT", "RECORD">>
        one    == <<"PROCESS", "ONE", "RECORD">>
        close  == <<"CLOSE", "INPUT">>
        report == <<"DISPLAY", "SUMMARY">>
        file   == <<"P", "INPUT">>
    IN [header |-> 4, files |-> <<FileOf("BATCHREC.cpy")>>,
        ws |-> Append(FileStatus, Item(CountOf("FAIL"), "9(6)", "bare")),
        copybooks |-> <<>>,
        paras |-> <<
            Para(Main, <<Perform(open), Perform(all), Perform(close),
                         Perform(report), One("STOP")>>),
            Commented(open, <<Says("OTHER", <<<<"OPEN">>, <<"INPUT">>, file>>),
                              Says("IF", <<<<"WS", "FILE", "OK">>>>)
                              \o Says("DISPLAY", <<<<"FILE", "OPEN">>>>)
                              \o One("STOP") \o One("ENDIF")>>),
            Commented(all, <<Perform(read) \o Says("OTHER", <<Eof>>) \o Perform(one)
                             \o Perform(read) \o One("OTHER")>>),
            Para(read, <<Says("OTHER", <<<<"READ">>, file>>)
                         \o Says("OTHER", <<Eof>>) \o One("OTHER")>>),
            Commented(one, <<Says("OTHER", <<CountOf("RECORD")>>),
                             Says("OTHER", <<CountOf("SUCCESS")>>)>>),
            Para(close, <<Says("OTHER", <<<<"CLOSE">>, file>>)>>),
            Commented(report, <<Says("DISPLAY", <<<<"SUMMARY">>, CountOf("FAIL")>>),
                                One("DISPLAY")>>)>>]
=============================================================================
