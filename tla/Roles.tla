------------------------------- MODULE Roles --------------------------------
(***************************************************************************)
(* Who may do what (python/auth.py), and the tools an assistant may call   *)
(* with the permission and the arguments each of them requires             *)
(* (python/llm/tools.py).                                                  *)
(***************************************************************************)

Permissions ==
    [admin    |-> {"accounts.create", "accounts.read", "accounts.update", "accounts.close",
                   "transactions.process", "transactions.read", "transactions.batch",
                   "chain.verify", "chain.view", "chain.tamper-detect",
                   "batch.read", "batch.audit", "cobol.read", "cobol.compile",
                   "node.manage", "node.configure", "payroll.read", "payroll.process"},
     auditor  |-> {"accounts.read", "transactions.read",
                   "chain.verify", "chain.view", "chain.tamper-detect",
                   "batch.read", "batch.audit", "cobol.read", "payroll.read"},
     operator |-> {"accounts.read", "transactions.process", "transactions.read",
                   "payroll.read", "payroll.process", "chain.view", "batch.read"},
     viewer   |-> {"accounts.read", "transactions.read", "chain.view", "batch.read"}]

RoleNames == DOMAIN Permissions

(* The users whose role is fixed, whatever role a request asks for.        *)
DemoUsers == [admin |-> "admin", auditor |-> "auditor",
              operator |-> "operator", viewer |-> "viewer"]

(* The headers X-User and X-Role become a user with a role.                *)
Auth(user, role) ==
    [user |-> user,
     role |-> IF user \in DOMAIN DemoUsers THEN DemoUsers[user]
              ELSE IF role \in RoleNames THEN role
              ELSE "viewer"]

May(auth, permission) == permission \in Permissions[auth.role]

-----------------------------------------------------------------------------
Tool(permission, required) == [permission |-> permission, required |-> required]

BankingTools ==
    [list_accounts       |-> Tool("accounts.read", {"node"}),
     get_account         |-> Tool("accounts.read", {"node", "account_id"}),
     process_transaction |-> Tool("transactions.process",
                                  {"node", "account_id", "tx_type", "amount"}),
     verify_chain        |-> Tool("chain.verify", {"node"}),
     view_chain          |-> Tool("chain.view", {"node"}),
     transfer            |-> Tool("transactions.process",
                                  {"source_bank", "source_account", "dest_bank",
                                   "dest_account", "amount"}),
     verify_all_nodes    |-> Tool("chain.verify", {}),
     run_reconciliation  |-> Tool("transactions.read", {"node"})]

CodegenTools ==
    [parse_cobol    |-> Tool("cobol.read", {"source_text"}),
     generate_cobol |-> Tool("cobol.read", {"template", "name"}),
     edit_cobol     |-> Tool("cobol.read", {"source_text", "operation", "params"}),
     validate_cobol |-> Tool("cobol.read", {"source_text"})]

AnalysisTools ==
    [analyze_call_graph    |-> Tool("cobol.read", {"source_text"}),
     trace_execution       |-> Tool("cobol.read", {"source_text", "entry_point"}),
     analyze_data_flow     |-> Tool("cobol.read", {"source_text"}),
     detect_dead_code      |-> Tool("cobol.read", {"source_text"}),
     analyze_cross_file    |-> Tool("cobol.read", {"sources"}),
     explain_paragraph     |-> Tool("cobol.read", {"source_text", "paragraph_name"}),
     explain_cobol_pattern |-> Tool("cobol.read", {"pattern_name"}),
     compare_complexity    |-> Tool("cobol.read", {"file_a", "file_b"})]

Tools == [t \in DOMAIN BankingTools \cup DOMAIN CodegenTools \cup DOMAIN AnalysisTools |->
            IF t \in DOMAIN BankingTools THEN BankingTools[t]
            ELSE IF t \in DOMAIN CodegenTools THEN CodegenTools[t]
            ELSE AnalysisTools[t]]

(* get_tools_for_role: what is offered to the model.                       *)
ToolsFor(role) == {t \in DOMAIN Tools : Tools[t].permission \in Permissions[role]}
=============================================================================
