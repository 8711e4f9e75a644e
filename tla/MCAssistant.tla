---------------------------- MODULE MCAssistant -----------------------------
(* Two handlers, a user with a fixed role and one who may ask for any, and *)
(* replies that reach every verdict of the pipeline.                       *)
EXTENDS Assistant

CONSTANTS h1, h2, s1, eve

MCCall(tool, values, ends) ==
    [tool |-> tool, given |-> IF tool \in DOMAIN Tools THEN Tools[tool].required ELSE {},
     values |-> values, ends |-> ends]
Transfer == MCCall("transfer", "valid", "returns")

MCUsers == {"viewer", eve}
MCCallLists ==
    {<<MCCall("view_chain", "valid", "returns"), Transfer>>,
     <<MCCall("transfer", "valid", "unrecorded"), Transfer>>,
     <<[Transfer EXCEPT !.given = {}], MCCall("transfer", "invalid", "returns")>>,
     <<MCCall("no_such_tool", "valid", "returns"), MCCall("transfer", "mistyped", "returns")>>}

(* Every audit row can be written here.                                    *)
MCRecorded == {<<MCCall("transfer", v, e)>> : v \in {"valid", "invalid", "mistyped"},
                                              e \in {"returns", "raises"}}
=============================================================================
