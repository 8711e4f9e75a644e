----------------------------- MODULE MCWorkbench -----------------------------
EXTENDS Workbench

P(ops) == [name |-> ops[1], comment |-> FALSE, lines |-> ops[2]]

Start0 == <<"MAIN">>
A  == <<"A">>
AX == <<"A", "EXIT">>
B  == <<"B">>
C  == <<"C">>
New == <<"N">>

(* In the way of PAYROLL.cob: an altered GO TO, a range with its EXIT, a   *)
(* condition closed by a period.                                           *)
MCPayrollLike ==
    [header |-> 1,
     fds    |-> <<[name |-> <<"F">>, copies |-> <<>>,
                   fields |-> <<Item(<<"F", "AMOUNT">>, "9(5)", "none")>>],
                 [name |-> <<"G">>, copies |-> <<>>, fields |-> <<>>]>>,
     ws     |-> <<[Item(<<"WS", "A">>, "X(1)", "quoted") EXCEPT !.comment = TRUE],
                  Condition(<<"A", "SET">>, "phrase"), Condition(<<"A", "ON">>, "quoted")>>,
     copies |-> <<"PAYCOM.cpy">>,
     paras  |-> <<
        P(<<Start0, <<Line("ALTER", <<B, C>>), Line("THRU", <<A, AX>>),
                      Ended(Line("GOTO", <<B>>))>>>>),
        P(<<A, <<Line("IF", <<>>), Line("GOTO", <<AX>>), Ended(Line("OTHER", <<>>)),
                 Ended(Line("OTHER", <<>>))>>>>),
        P(<<AX, <<Ended(Line("EXIT", <<>>))>>>>),
        P(<<B, <<Ended(Line("GOTO", <<Start0>>))>>>>),
        P(<<C, <<Ended(Line("STOP", <<>>))>>>>)>>]

(* In the way of MERCHANT.cob: GO TO .. DEPENDING ON, fall-through.        *)
MCMerchantLike ==
    [header |-> 0,
     fds    |-> <<[name |-> <<"F">>, copies |-> <<"MERCHREC.cpy">>, fields |-> <<>>]>>,
     ws     |-> <<Item(<<"WS", "A">>, "X(1)", "words")>>,
     copies |-> <<"COMCODE.cpy">>,
     paras  |-> <<
        P(<<Start0, <<Ended(Line("PERFORM", <<C>>)),
                      Ended(Line("DEPENDING", <<A, B>>))>>>>),
        P(<<A, <<Line("IFGOTO", <<C>>), Ended(Saying("DISPLAY", <<A, <<"WS", "A">>>>))>>>>),
        P(<<B, <<Ended(Line("OTHER", <<>>)), Ended(Line("IFGOTO", <<C>>))>>>>),
        P(<<AX, <<Ended(Line("STOP", <<>>))>>>>),
        P(<<C, <<Ended(Line("DISPLAY", <<>>))>>>>)>>]

MCSources == {MCPayrollLike, MCMerchantLike, Generate(BatchProgram),
              Generate(CrudProgram(<<"CREATE", "READ">>)),
              Generate(ReportProgram(<<"CREATE">>))}

MCRequests ==
    {[op |-> "rename_paragraph", old |-> A, new |-> New],
     [op |-> "rename_paragraph", old |-> B, new |-> New],
     [op |-> "rename_paragraph", old |-> <<"READ", "OPERATION">>, new |-> A],
     [op |-> "rename_paragraph", old |-> <<"READ">>, new |-> B],
     [op |-> "add_paragraph", name |-> New, comment |-> TRUE, after |-> B,
      lines |-> <<Line("PERFORM", <<C>>), Ended(Saying("DISPLAY", <<B>>)),
                  Ended(Line("EXIT", <<>>))>>],
     [op |-> "add_paragraph", name |-> <<"x", "OPERATION">>, comment |-> FALSE, after |-> <<>>,
      lines |-> <<Saying("OTHER", <<<<"READ">>>>)>>],
     [op |-> "add_operation", name |-> <<"READ">>, paragraph |-> New],
     [op |-> "add_field", parent |-> <<"WS", "A">>,
      item |-> [Item(<<"WS", "FEE">>, "9(5)", "quoted") EXCEPT !.kind = "money", !.comment = TRUE]],
     [op |-> "remove_field", field |-> <<"WS", "FEE">>],
     [op |-> "add_88_condition", field |-> <<"F", "AMOUNT">>, condition |-> <<"F", "NONE">>,
      value |-> "phrase"],
     [op |-> "add_copybook_ref", copybook |-> "NEWREC.cpy"],
     [op |-> "update_pic", field |-> <<"WS", "FEE">>, pic |-> "S9(10)V99"]}
=============================================================================
