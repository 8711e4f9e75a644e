----------------------------- MODULE Assistant ------------------------------
(***************************************************************************)
(* The chat assistant: the request handlers of api/routes_chat.py, the     *)
(* tool loop of llm/conversation.py, the pipeline of llm/tool_executor.py  *)
(* and its audit table (llm/audit.py).  The handlers share one event loop, *)
(* so they interleave exactly where one awaits a provider; whatever lies   *)
(* between two awaits is one action here.  The model behind the provider   *)
(* may answer with text or with calls of any tools, the ones it was not    *)
(* offered and ones that do not exist included, or not at all.             *)
(***************************************************************************)
EXTENDS Naturals, Sequences, FiniteSets, Functions, Roles

CONSTANTS
    Handlers,       \* the requests that are served at the same time
    Users,          \* the values of the header X-User
    AskedRoles,     \* the values of the header X-Role
    Sessions,       \* the session ids clients send
    CallLists,      \* the sequences of tool calls a reply may consist of
    MaxIterations,  \* MAX_TOOL_ITERATIONS, 10 in the code
    MaxChats,       \* bound: chats asked for
    MaxOthers       \* bound: provider switches and requests for a history

ASSUME AssistantAssumption ==
    /\ MaxIterations \in Nat \ {0}
    /\ {MaxChats, MaxOthers} \subseteq Nat
    /\ \A calls \in CallLists : calls \in Seq(Range(calls))

VARIABLES
    provider,   \* _current_provider: its kind, and a number for the object
    key,        \* whether _anthropic_key is set (the environment has none)
    managers,   \* every ConversationManager there ever was
    registered, \* _conversations: the position of each user's manager
    chats,      \* the locals of each handler
    audit,      \* the rows of tool_audit, which nothing deletes
    acts,       \* history: the calls that were carried out, and who had asked
    requests,   \* history: the users and roles _get_conversation was called for
    counts      \* history: chats, other requests, tool calls, chats execute() ended

vars == <<provider, key, managers, registered, chats, audit, acts, requests, counts>>

(* A message is told by what it holds: a user's text, a text of the        *)
(* assistant, the assistant's tool_use blocks, the tool_result blocks.     *)
(* The system prompt before them is left out.                              *)
Manager(auth, p) == [auth |-> auth, provider |-> p, sessions |-> <<>>]

Idle == [pc |-> "idle"]

Init ==
    /\ provider = [kind |-> "ollama", no |-> 0]
    /\ key = FALSE
    /\ managers = <<>>
    /\ registered = <<>>
    /\ chats = [h \in Handlers |-> Idle]
    /\ audit = {}
    /\ acts = {}
    /\ requests = {}
    /\ counts = [chats |-> 0, others |-> 0, calls |-> 0, died |-> 0]

(* _get_conversation: a user's manager, made for the role of the request   *)
(* that comes first and kept until the provider is switched.               *)
HasManager(auth) == auth.user \in DOMAIN registered
ManagersFor(auth) ==
    IF HasManager(auth) THEN managers ELSE Append(managers, Manager(auth, provider))
RegisteredFor(auth) ==
    IF HasManager(auth) THEN registered
    ELSE [u \in DOMAIN registered \cup {auth.user} |->
            IF u = auth.user THEN Len(managers) + 1 ELSE registered[u]]

History(m, s) == IF s \in DOMAIN m.sessions THEN m.sessions[s] ELSE <<>>
WithHistory(m, s, messages) ==
    [m EXCEPT !.sessions = [t \in DOMAIN m.sessions \cup {s} |->
                              IF t = s THEN messages ELSE m.sessions[t]]]

-----------------------------------------------------------------------------
(* ToolExecutor.execute.  A call is the tool, the arguments it gives,      *)
(* whether validation finds them valid, invalid or of a type it cannot     *)
(* even compare, and how its last step ends: dispatch returns, dispatch    *)
(* raises, or the audit row cannot be written.                             *)

(* _validate_params, which is called outside of the try.                   *)
Validated(call) == [valid |-> "ok", invalid |-> "refused", mistyped |-> "crashed"][call.values]

(* _dispatch takes params["..."] of what the schema requires.              *)
Dispatched(call) ==
    IF Tools[call.tool].required \subseteq call.given /\ call.ends # "raises"
    THEN "done" ELSE "failed"

AfterGate(call) == IF Validated(call) = "ok" THEN Dispatched(call) ELSE Validated(call)

VerdictUngated(call, auth) ==    \* mutant: the permission is not looked at
    IF call.tool \notin DOMAIN Tools THEN "unknown" ELSE AfterGate(call)
Verdict(call, auth) ==
    CASE call.tool \notin DOMAIN Tools -> "unknown"
      [] call.tool \in DOMAIN Tools /\ ~ May(auth, Tools[call.tool].permission) -> "denied"
      [] OTHER -> AfterGate(call)

(* No row: validation raised, or writing the row did; execute raises.      *)
Raises(call, auth) == Verdict(call, auth) = "crashed" \/ call.ends = "unrecorded"

(* Rows are told apart by the number of their call, which orders them like *)
(* their id.                                                               *)
Row(no, call, auth) ==
    LET verdict == Verdict(call, auth)
    IN  [call |-> no, user |-> auth.user, role |-> auth.role, tool |-> call.tool,
         permitted |-> verdict \notin {"unknown", "denied"}, done |-> verdict = "done"]
Act(no, call, auth, asker) ==
    [call |-> no, user |-> auth.user, role |-> auth.role, tool |-> call.tool, asker |-> asker]

(* The calls of a reply are made in turn; after one that raises the rest   *)
(* of them are not.                                                        *)
Made(calls, auth) == {i \in DOMAIN calls : \A j \in 1 .. i - 1 : ~ Raises(calls[j], auth)}

-----------------------------------------------------------------------------
(* POST /chat up to the provider's check_available.                        *)
Ask(h, auth, s) ==
    /\ chats[h].pc = "idle"
    /\ counts.chats < MaxChats
    /\ chats' = [chats EXCEPT ![h] = [pc |-> "check", auth |-> auth, session |-> s,
                                              asked |-> provider.kind]]
    /\ counts' = [counts EXCEPT !.chats = @ + 1]
    /\ UNCHANGED <<provider, key, managers, registered, audit, acts, requests>>

(* check_available: Ollama may be down or have no model.  The provider of  *)
(* Anthropic looks for its key, and without one it is never made.          *)
MayBeDown(kind) == kind = "ollama"

(* The provider is not available: 503.                                     *)
Unavailable(h) ==
    /\ chats[h].pc = "check" /\ MayBeDown(chats[h].asked)
    /\ chats' = [chats EXCEPT ![h] = Idle]
    /\ UNCHANGED <<provider, key, managers, registered, audit, acts, requests, counts>>

(* It is: the user's manager, the session's messages, the new message, and *)
(* the provider is asked.                                                  *)
Checked(h) ==
    /\ chats[h].pc = "check"
    /\ LET auth == chats[h].auth
           s == chats[h].session
           at == RegisteredFor(auth)[auth.user]
           m == ManagersFor(auth)[at]
       IN  /\ registered' = RegisteredFor(auth)
           /\ managers' = [ManagersFor(auth) EXCEPT
                             ![at] = WithHistory(m, s, Append(History(m, s), "user"))]
           /\ chats' = [chats EXCEPT ![h] = [pc |-> "model", auth |-> auth, at |-> at,
                                              session |-> s, round |-> 1]]
           /\ requests' = requests \cup {auth}
    /\ UNCHANGED <<provider, key, audit, acts, counts>>

Messages(h) == History(managers[chats[h].at], chats[h].session)
Say(h, messages) ==
    managers' = [managers EXCEPT ![chats[h].at] =
                   WithHistory(@, chats[h].session, Messages(h) \o messages)]

(* The provider answers with text, which is the response: 200.             *)
AnswerText(h) ==
    /\ chats[h].pc = "model"
    /\ Say(h, <<"assistant">>)
    /\ chats' = [chats EXCEPT ![h] = Idle]
    /\ UNCHANGED <<provider, key, registered, audit, acts, requests, counts>>

(* The messages a reply with tool calls adds: the calls and their results, *)
(* after the last round the text that the limit is reached; when execute   *)
(* raises, the calls alone.                                                *)
AddedResultsLater(raised, round) ==    \* mutant: the last round's results are not added
    IF raised \/ round = MaxIterations THEN <<"use">> ELSE <<"use", "results">>
Added(raised, round) ==
    IF raised THEN <<"use">>
    ELSE IF round < MaxIterations THEN <<"use", "results">>
    ELSE <<"use", "results", "assistant">>

(* The provider answers with tool calls.  They are executed for the user   *)
(* and the role of the manager, whatever role this request came with, and  *)
(* the loop goes on, ends at its limit (200) or with the exception of      *)
(* execute (502).                                                          *)
CallTools(h, calls) ==
    /\ chats[h].pc = "model"
    /\ LET auth == managers[chats[h].at].auth
           round == chats[h].round
           made == Made(calls, auth)
           raising == {i \in made : Raises(calls[i], auth)}
           done == {i \in made : Verdict(calls[i], auth) = "done"}
           raised == raising # {}
           no(i) == counts.calls + i
       IN  /\ Say(h, Added(raised, round))
           /\ audit' = audit \cup {Row(no(i), calls[i], auth) : i \in made \ raising}
           /\ acts' = acts \cup {Act(no(i), calls[i], auth, chats[h].auth) : i \in done}
           /\ counts' = [counts EXCEPT !.calls = @ + Cardinality(made),
                                       !.died = @ + IF raised THEN 1 ELSE 0]
           /\ chats' = [chats EXCEPT ![h] =
                          IF raised \/ round = MaxIterations THEN Idle
                          ELSE [@ EXCEPT !.round = round + 1]]
    /\ UNCHANGED <<provider, key, registered, requests>>

(* The provider raises: 502, and the history stays as it is.               *)
ProviderFailsSilently(h) ==    \* mutant: the exception is not turned into an answer
    /\ chats[h].pc = "model"
    /\ chats' = [chats EXCEPT ![h] = [pc |-> "failed"]]
    /\ UNCHANGED <<provider, key, managers, registered, audit, acts, requests, counts>>
ProviderFails(h) ==
    /\ chats[h].pc = "model"
    /\ chats' = [chats EXCEPT ![h] = Idle]
    /\ UNCHANGED <<provider, key, managers, registered, audit, acts, requests, counts>>

-----------------------------------------------------------------------------
Other == /\ counts.others < MaxOthers
         /\ counts' = [counts EXCEPT !.others = @ + 1]

(* POST /provider/switch; without a key for Anthropic it is refused.       *)
SwitchKeepsManagers(kind, given) ==    \* mutant: the conversations are kept
    /\ Other
    /\ provider' = [kind |-> kind, no |-> provider.no + 1]
    /\ UNCHANGED <<key, managers, registered, chats, audit, acts, requests>>
Switch(kind, given) ==
    /\ Other
    /\ key' = (key \/ (kind = "anthropic" /\ given))
    /\ kind = "anthropic" => key'
    /\ provider' = [kind |-> kind, no |-> provider.no + 1]
    /\ registered' = <<>>
    /\ UNCHANGED <<managers, chats, audit, acts, requests>>

(* GET /chat/history makes a manager, too.                                 *)
GetHistory(auth) ==
    /\ Other
    /\ managers' = ManagersFor(auth)
    /\ registered' = RegisteredFor(auth)
    /\ requests' = requests \cup {auth}
    /\ UNCHANGED <<provider, key, chats, audit, acts>>

Auths == {Auth(u, r) : u \in Users, r \in AskedRoles}

Served(h) ==
    \/ Checked(h)
    \/ Unavailable(h)
    \/ AnswerText(h)
    \/ ProviderFails(h)
    \/ \E calls \in CallLists : CallTools(h, calls)

Next ==
    \/ \E h \in Handlers, auth \in Auths, s \in Sessions : Ask(h, auth, s)
    \/ \E h \in Handlers : Served(h)
    \/ \E kind \in {"ollama", "anthropic"}, given \in BOOLEAN : Switch(kind, given)
    \/ \E auth \in Auths : GetHistory(auth)

(* A provider's answer, its failure or the client's timeout comes some     *)
(* time; nothing is assumed of requests.                                   *)
Spec == Init /\ [][Next]_vars /\ \A h \in Handlers : WF_vars(Served(h))

-----------------------------------------------------------------------------
(* Properties                                                              *)

(* The tool_use messages of a history with no tool_result after them, and  *)
(* those of all managers.                                                  *)
Open(messages) ==
    {i \in DOMAIN messages : /\ messages[i] = "use"
                             /\ i + 1 \in DOMAIN messages => messages[i + 1] # "results"}
Unanswered(ms) ==
    UNION {UNION {{<<i, s, k>> : k \in Open(ms[i].sessions[s])} :
                    s \in DOMAIN ms[i].sessions} :
             i \in DOMAIN ms}

(* In every history, whatever chats of the same session run at once, the   *)
(* results follow their calls directly (providers refuse a history where   *)
(* they do not); the exceptions are the chats that execute() ended with an *)
(* exception, one each.                                                    *)
ResultsFollowCalls == Cardinality(Unanswered(managers)) = counts.died

(* What the audit table should tell of an act, what it does tell, and the  *)
(* acts it tells nothing of.                                               *)
Done(a) == [call |-> a.call, user |-> a.user, role |-> a.role, tool |-> a.tool]
Told == {[call |-> r.call, user |-> r.user, role |-> r.role, tool |-> r.tool] :
           r \in {q \in audit : q.done}}
Untold == {a \in acts : Done(a) \notin Told}

(* The role is not the one the request came with: it is the one an earlier *)
(* request of the same user came with, who has no demo account.            *)
InEarlierRole(a) ==
    /\ a.user \notin DOMAIN DemoUsers
    /\ [user |-> a.user, role |-> a.role] \in requests

(* The audit table tells what was done: the call that has a row as done    *)
(* was carried out, of that tool and for that user in that role; those     *)
(* carried out without a row ended their chats, one each.  And what was    *)
(* done was done for the user that asked, and was offered to the role it   *)
(* was done in.  That role is the one of the request, always for a demo    *)
(* user; for any other it may instead be one the same user came with       *)
(* before: a chat asked as viewer then acts as operator, which auth.py:7   *)
(* says cannot be, and this property lets pass.                            *)
AuditTellsActs ==
    /\ Told \subseteq {Done(a) : a \in acts}
    /\ Cardinality(Untold) <= counts.died
    /\ \A a \in acts :
         /\ a.user = a.asker.user
         /\ a.tool \in ToolsFor(a.role)
         /\ a.role = a.asker.role \/ InEarlierRole(a)

(* Whoever starts a chat now talks to the provider that was chosen last:   *)
(* also a switch between a chat's availability check and the moment its    *)
(* manager is made leaves no registered manager with an older provider.    *)
RegisteredUseCurrent ==
    \A u \in DOMAIN registered :
        /\ managers[registered[u]].provider = provider
        /\ managers[registered[u]].auth.user = u

(* Every chat gets a response: the rounds are limited, and a provider's    *)
(* failure is an answer as well.                                           *)
EveryChatAnswered == \A h \in Handlers : chats[h].pc # "idle" ~> chats[h].pc = "idle"

(* tool_executor.py promises that there is no path through execute() that  *)
(* skips audit logging.                                                    *)
EveryInvocationAudited == Cardinality(audit) = counts.calls
=============================================================================
